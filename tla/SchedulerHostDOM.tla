-------------------------- MODULE SchedulerHostDOM --------------------------
(***************************************************************************)
(* The DOM branch of scheduler/src/Scheduler.js (lines 534-704): a         *)
(* polyfill for requestIdleCallback.  A request starts an animation frame; *)
(* at the start of the frame animationTick posts a message, which the      *)
(* browser delivers after it has painted; idleTick receives it and calls   *)
(* flushWork if the frame has time left or the request has timed out.      *)
(*                                                                         *)
(* The browser is the rest of the state: posted messages, and the pair of  *)
(* an animation frame and a timeout that race each other (lines 453-470).  *)
(***************************************************************************)
EXTENDS Integers

CONSTANTS
  RequestTimes,       \* timeouts the scheduler passes to requestHostCallback
  InitialFrameTime,   \* 33: the first guess of the length of a frame
  MinFrameTime,       \* 8: no shorter frame is believed (120hz)
  FrameLag,           \* how much older than now a frame's timestamp can be
  MaxTime,            \* bound on the clock
  MaxMessages         \* bound on the messages in flight

ASSUME DOMAssumption ==
  /\ RequestTimes \subseteq Int
  /\ MinFrameTime \in Nat \ {0}
  /\ InitialFrameTime \in Nat /\ InitialFrameTime >= MinFrameTime
  /\ FrameLag \in Nat
  /\ MaxTime \in Nat
  /\ MaxMessages \in Nat

VARIABLES
  now,                          \* getCurrentTime()
  scheduledHostCallback,        \* is it flushWork, or null
  timeoutTime,
  isMessageEventScheduled,
  isAnimationFrameScheduled,
  isFlushingHostCallback,
  didTimeout,                   \* what the running flushWork was called with
  frameDeadline,
  previousFrameTime,
  activeFrameTime,
  messages,                     \* messages posted and not yet received
  frameRequests,                \* requestAnimationFrame calls outstanding
  frameTimers                   \* their fallback timeouts outstanding

jsVars == <<scheduledHostCallback, timeoutTime, isMessageEventScheduled,
            isAnimationFrameScheduled>>
flushVars == <<isFlushingHostCallback, didTimeout>>
heuristicVars == <<frameDeadline, previousFrameTime, activeFrameTime>>
frameVars == <<frameRequests, frameTimers>>
vars == <<now, jsVars, flushVars, heuristicVars, messages, frameVars>>

Init ==
  /\ now = 0
  /\ scheduledHostCallback = FALSE
  /\ timeoutTime = -1
  /\ isMessageEventScheduled = FALSE
  /\ isAnimationFrameScheduled = FALSE
  /\ isFlushingHostCallback = FALSE
  /\ didTimeout = FALSE
  /\ frameDeadline = 0
  /\ previousFrameTime = InitialFrameTime
  /\ activeFrameTime = InitialFrameTime
  /\ messages = 0
  /\ frameRequests = 0
  /\ frameTimers = 0

(* JavaScript is single-threaded: no task starts while flushWork runs.     *)
Idle == ~isFlushingHostCallback

(* Mutation: only the frame, as in the first version of the polyfill.      *)
RequestAnimationFrameOnly == frameRequests' = frameRequests + 1 /\ UNCHANGED frameTimers

RequestAnimationFrameWithTimeout ==
  /\ frameRequests' = frameRequests + 1
  /\ frameTimers' = frameTimers + 1

(* requestHostCallback(flushWork, t).  Called from a task of the page, or  *)
(* from flushWork itself; the second conjunct of "cancelled" is the call   *)
(* of cancelHostCallback that precedes every request but the first.        *)
RequestHostCallback(t, cancelled) ==
  /\ messages < MaxMessages
  /\ scheduledHostCallback' = TRUE
  /\ timeoutTime' = t
  /\ isMessageEventScheduled' = (isMessageEventScheduled /\ ~cancelled)
  /\ IF isFlushingHostCallback \/ t < 0
     THEN /\ messages' = messages + 1
          /\ UNCHANGED <<isAnimationFrameScheduled, frameVars>>
     ELSE /\ isAnimationFrameScheduled' = TRUE
          /\ IF isAnimationFrameScheduled THEN UNCHANGED frameVars
                                          ELSE RequestAnimationFrameWithTimeout
          /\ UNCHANGED messages
  /\ UNCHANGED <<now, flushVars, heuristicVars>>

(* idleTick, on receipt of a message.                                      *)
FrameIsOver == frameDeadline - now <= 0

(* Mutation: a request with a timeout counts as timed out.                 *)
HasTimeout == timeoutTime # -1

TimeoutPassed == timeoutTime # -1 /\ timeoutTime <= now

(* No time left and no timeout: put the request back, retry next frame.    *)
IdleTickRetry ==
  /\ Idle /\ messages > 0
  /\ FrameIsOver /\ ~TimeoutPassed
  /\ messages' = messages - 1
  /\ isMessageEventScheduled' = FALSE
  /\ isAnimationFrameScheduled' = TRUE
  /\ IF isAnimationFrameScheduled THEN UNCHANGED frameVars
                                  ELSE RequestAnimationFrameWithTimeout
  /\ UNCHANGED <<now, scheduledHostCallback, timeoutTime, flushVars, heuristicVars>>

(* Otherwise the request, if there is one, is served.                      *)
IdleTickFlush ==
  /\ Idle /\ messages > 0
  /\ FrameIsOver => TimeoutPassed
  /\ messages' = messages - 1
  /\ isMessageEventScheduled' = FALSE
  /\ scheduledHostCallback' = FALSE
  /\ timeoutTime' = -1
  /\ isFlushingHostCallback' = scheduledHostCallback
  /\ didTimeout' = (scheduledHostCallback /\ FrameIsOver)
  /\ UNCHANGED <<now, isAnimationFrameScheduled, heuristicVars, frameVars>>

(* flushWork returned or threw: the finally block of idleTick.             *)
FlushReturn ==
  /\ isFlushingHostCallback
  /\ isFlushingHostCallback' = FALSE
  /\ didTimeout' = FALSE
  /\ UNCHANGED <<now, jsVars, heuristicVars, messages, frameVars>>

(* The heuristic of animationTick: two short frames in a row mean that the *)
(* display is faster than assumed.                                         *)
NextFrameTime(rafTime) == rafTime - frameDeadline + activeFrameTime

(* Mutation: no lower bound.                                               *)
UnboundedFrameTime(next) == next

BoundedFrameTime(next) == IF next < MinFrameTime THEN MinFrameTime ELSE next

(* Mutation: one short frame after which a long one comes.                 *)
PreviousFrameIsShort(next) == previousFrameTime < activeFrameTime

AreShortFrames(next) == next < activeFrameTime /\ previousFrameTime < activeFrameTime

FrameDeadline(rafTime, frameTime) == rafTime + frameTime

AdjustFrameTime(rafTime) ==
  LET next == NextFrameTime(rafTime)
      bounded == BoundedFrameTime(next)
      isShort == AreShortFrames(next)
  IN /\ activeFrameTime' = IF ~isShort THEN activeFrameTime
                           ELSE IF bounded < previousFrameTime
                           THEN previousFrameTime ELSE bounded
     /\ previousFrameTime' = IF isShort THEN previousFrameTime ELSE next
     /\ frameDeadline' = FrameDeadline(rafTime, activeFrameTime')

(* animationTick, called by one of the pair; "left" is what the pair's     *)
(* winner leaves outstanding.                                              *)
AnimationTick(rafTime, left) ==
  IF scheduledHostCallback
  THEN /\ frameRequests' = left.frameRequests + 1
       /\ frameTimers' = left.frameTimers + 1
       /\ AdjustFrameTime(rafTime)
       /\ isMessageEventScheduled' = TRUE
       /\ messages' = IF isMessageEventScheduled THEN messages ELSE messages + 1
       /\ UNCHANGED <<scheduledHostCallback, timeoutTime, isAnimationFrameScheduled>>
  ELSE /\ frameRequests' = left.frameRequests
       /\ frameTimers' = left.frameTimers
       /\ isAnimationFrameScheduled' = FALSE
       /\ UNCHANGED <<scheduledHostCallback, timeoutTime, isMessageEventScheduled,
                      heuristicVars, messages>>

(* Mutation: the frame does not clear the timeout.                         *)
PairWithTimerLeft ==
  [frameRequests |-> frameRequests - 1, frameTimers |-> frameTimers]

PairAfterRace ==
  [frameRequests |-> frameRequests - 1,
   frameTimers   |-> IF frameTimers > 0 THEN frameTimers - 1 ELSE 0]

(* The frame wins: its callback clears the timeout.  Its timestamp is the  *)
(* start of the frame, at or before now and never before an earlier one.   *)
AnimationFrame(rafTime) ==
  /\ Idle /\ frameRequests > 0
  /\ rafTime >= frameDeadline - activeFrameTime
  /\ AnimationTick(rafTime, PairAfterRace)
  /\ UNCHANGED <<now, flushVars>>

(* The timeout wins, as in a background tab: it cancels the frame.         *)
AnimationFrameTimeout ==
  /\ Idle /\ frameTimers > 0
  /\ AnimationTick(now, [frameRequests |-> IF frameRequests > 0 THEN frameRequests - 1 ELSE 0,
                         frameTimers   |-> frameTimers - 1])
  /\ UNCHANGED <<now, flushVars>>

Tick == now < MaxTime /\ now' = now + 1 /\ UNCHANGED <<jsVars, flushVars, heuristicVars, messages, frameVars>>

Next ==
  \/ \E t \in RequestTimes, cancelled \in BOOLEAN : RequestHostCallback(t, cancelled)
  \/ IdleTickRetry
  \/ IdleTickFlush
  \/ FlushReturn
  \/ \E lag \in 0..FrameLag : now >= lag /\ AnimationFrame(now - lag)
  \/ AnimationFrameTimeout
  \/ Tick

(* The browser delivers messages and runs timers; animation frames it may  *)
(* withhold for ever.  flushWork returns, and time passes.                 *)
Fairness ==
  /\ WF_vars(IdleTickRetry) /\ WF_vars(IdleTickFlush)
  /\ WF_vars(AnimationFrameTimeout)
  /\ WF_vars(FlushReturn)
  /\ WF_vars(Tick)

Spec == Init /\ [][Next]_vars
FairSpec == Spec /\ Fairness
-----------------------------------------------------------------------------
TypeOK ==
  /\ now \in 0..MaxTime
  /\ scheduledHostCallback \in BOOLEAN
  /\ timeoutTime \in RequestTimes \cup {-1}
  /\ isMessageEventScheduled \in BOOLEAN
  /\ isAnimationFrameScheduled \in BOOLEAN
  /\ isFlushingHostCallback \in BOOLEAN
  /\ didTimeout \in BOOLEAN
  /\ frameDeadline \in Nat
  /\ previousFrameTime \in Nat
  /\ activeFrameTime \in MinFrameTime..InitialFrameTime
  /\ messages \in Nat
  /\ frameRequests \in Nat
  /\ frameTimers \in Nat

(* rAFID and rAFTimeoutID are single globals (lines 451-452): the race     *)
(* works only if no second pair is started while one is outstanding, and   *)
(* the flag that guards this is cleared in one handler and tested in two.  *)
OnePairOutstanding ==
  /\ frameRequests = frameTimers
  /\ frameRequests = (IF isAnimationFrameScheduled THEN 1 ELSE 0)

(* animationTick skips the post when isMessageEventScheduled is set, so    *)
(* the flag must never be left over from a message already consumed, and   *)
(* requestHostCallback posts messages the flag knows nothing of.           *)
SkippedPostHasMessage == isMessageEventScheduled => messages > 0

(* The request cannot be forgotten: something in flight will look at it,   *)
(* even after cancelHostCallback, which cancels neither frame nor message. *)
NoLostWakeup ==
  scheduledHostCallback => messages > 0 \/ frameRequests > 0 \/ frameTimers > 0

(* The invariant the proofs need: the flags tell exactly what the browser  *)
(* holds, hence no wakeup is lost.                                         *)
HostInv == OnePairOutstanding /\ SkippedPostHasMessage /\ NoLostWakeup

(* The frame length is derived from the previous deadline, which is itself *)
(* derived from the frame length: it only ever adapts downwards, however   *)
(* late and irregular the frames are (lines 650-672).                      *)
FrameTimeAdaptsDownwards ==
  [][activeFrameTime' <= activeFrameTime]_vars

(* A request is served in the end, in a background tab too: either the     *)
(* frame it starts has time left, or its timeout passes.                   *)
RequestIsServed == scheduledHostCallback ~> isFlushingHostCallback

(* The DOM host keeps the contract the callback queue relies on.           *)
Contract == INSTANCE HostCallback
  WITH request <- IF scheduledHostCallback THEN {timeoutTime} ELSE {},
       flush   <- IF ~isFlushingHostCallback THEN "none"
                  ELSE IF didTimeout THEN "timedOut" ELSE "inFrame"

ImplementsContract == Contract!Spec
=============================================================================
