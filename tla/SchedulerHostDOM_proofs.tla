---------------------- MODULE SchedulerHostDOM_proofs ----------------------
(***************************************************************************)
(* The DOM host, for every frame rate and every bound: its type, the       *)
(* invariant that no wakeup is lost, and that it keeps the contract of     *)
(* HostCallback.                                                           *)
(*                                                                         *)
(* The wakeup invariant is inductive as it stands.  The type is not: the   *)
(* length of a frame is computed from the last deadline, and is never      *)
(* negative only because the frame before it has started.                  *)
(***************************************************************************)
EXTENDS SchedulerHostDOM, TLAPS

LastFrameHasStarted == frameDeadline - activeFrameTime <= now

FlagTypes ==
  /\ scheduledHostCallback \in BOOLEAN
  /\ isMessageEventScheduled \in BOOLEAN
  /\ isAnimationFrameScheduled \in BOOLEAN
  /\ isFlushingHostCallback \in BOOLEAN
  /\ didTimeout \in BOOLEAN

NumberTypes ==
  /\ now \in 0..MaxTime
  /\ timeoutTime \in RequestTimes \cup {-1}
  /\ frameDeadline \in Nat
  /\ previousFrameTime \in Nat
  /\ activeFrameTime \in MinFrameTime..InitialFrameTime
  /\ messages \in Nat
  /\ frameRequests \in Nat
  /\ frameTimers \in Nat

IInv == FlagTypes /\ NumberTypes /\ LastFrameHasStarted /\ HostInv

LEMMA TypeParts == TypeOK <=> FlagTypes /\ NumberTypes
  BY DEF TypeOK, FlagTypes, NumberTypes

LEMMA InitIInv == Init => IInv
<1> SUFFICES ASSUME Init PROVE IInv
  OBVIOUS
<1>1. FlagTypes
  BY DEF Init, FlagTypes
<1>2. NumberTypes /\ LastFrameHasStarted
  BY DOMAssumption DEF Init, NumberTypes, LastFrameHasStarted
<1>3. HostInv
  BY DEF Init, HostInv, OnePairOutstanding, SkippedPostHasMessage, NoLostWakeup
<1> QED
  BY <1>1, <1>2, <1>3 DEF IInv

(* The heuristic: a frame that starts after the last one has a length, and *)
(* the length that is assumed from then on stays between the bounds.       *)
LEMMA AdjustedFrameTime ==
  ASSUME NumberTypes, NEW rafTime \in Nat, rafTime <= now,
         rafTime >= frameDeadline - activeFrameTime,
         AdjustFrameTime(rafTime)
  PROVE  /\ activeFrameTime' \in MinFrameTime..InitialFrameTime
         /\ activeFrameTime' <= activeFrameTime
         /\ previousFrameTime' \in Nat
         /\ frameDeadline' \in Nat
         /\ frameDeadline' - activeFrameTime' <= now
<1> DEFINE next == NextFrameTime(rafTime)
           bounded == BoundedFrameTime(next)
           longer == IF bounded < previousFrameTime THEN previousFrameTime ELSE bounded
<1>1. /\ activeFrameTime \in MinFrameTime..InitialFrameTime
      /\ previousFrameTime \in Nat /\ frameDeadline \in Nat
      /\ MinFrameTime \in Nat /\ InitialFrameTime \in Nat /\ now \in Nat
  BY DOMAssumption DEF NumberTypes
<1>2. next \in Nat
  BY <1>1 DEF NextFrameTime
<1>3. bounded \in Nat /\ bounded >= MinFrameTime
  BY <1>1, <1>2 DEF BoundedFrameTime
<1>4. AreShortFrames(next) =>
        /\ longer \in MinFrameTime..InitialFrameTime
        /\ longer <= activeFrameTime
  BY <1>1, <1>2, <1>3 DEF AreShortFrames, BoundedFrameTime
<1>5. /\ activeFrameTime' = IF ~AreShortFrames(next) THEN activeFrameTime ELSE longer
      /\ previousFrameTime' = IF AreShortFrames(next) THEN previousFrameTime ELSE next
      /\ frameDeadline' = rafTime + activeFrameTime'
  BY DEF AdjustFrameTime, FrameDeadline
<1> HIDE DEF next, bounded, longer
<1>6. /\ activeFrameTime' \in MinFrameTime..InitialFrameTime
      /\ activeFrameTime' <= activeFrameTime
  BY <1>1, <1>4, <1>5
<1>7. previousFrameTime' \in Nat
  BY <1>1, <1>2, <1>5
<1> QED
  BY <1>1, <1>5, <1>6, <1>7

(* animationTick, whichever of the pair called it; "left" is the empty     *)
(* pair by then.                                                           *)
LEMMA AnimationTickIInv ==
  ASSUME IInv, NEW rafTime \in Nat, rafTime <= now,
         rafTime >= frameDeadline - activeFrameTime,
         NEW left, left.frameRequests = 0, left.frameTimers = 0,
         isAnimationFrameScheduled,
         AnimationTick(rafTime, left), UNCHANGED <<now, flushVars>>
  PROVE  IInv'
<1>1. CASE ~scheduledHostCallback
  <2>1. FlagTypes'
    BY <1>1 DEF IInv, FlagTypes, AnimationTick, flushVars
  <2>2. (NumberTypes /\ LastFrameHasStarted)'
    BY <1>1 DEF IInv, NumberTypes, LastFrameHasStarted, AnimationTick, heuristicVars
  <2>3. HostInv'
    BY <1>1 DEF IInv, FlagTypes, NumberTypes, HostInv, OnePairOutstanding,
                SkippedPostHasMessage, NoLostWakeup, AnimationTick
  <2> QED
    BY <2>1, <2>2, <2>3 DEF IInv
<1>2. CASE scheduledHostCallback
  <2>1. AdjustFrameTime(rafTime)
    BY <1>2 DEF AnimationTick
  <2>2. /\ activeFrameTime' \in MinFrameTime..InitialFrameTime
        /\ previousFrameTime' \in Nat
        /\ frameDeadline' \in Nat
        /\ frameDeadline' - activeFrameTime' <= now
    BY <2>1, AdjustedFrameTime DEF IInv
  <2>3. /\ frameRequests' = 1 /\ frameTimers' = 1
        /\ isMessageEventScheduled' = TRUE
        /\ messages' = IF isMessageEventScheduled THEN messages ELSE messages + 1
        /\ UNCHANGED <<scheduledHostCallback, timeoutTime, isAnimationFrameScheduled>>
    BY <1>2 DEF AnimationTick
  <2>4. FlagTypes'
    BY <2>3 DEF IInv, FlagTypes, flushVars
  <2>5. messages' \in Nat /\ messages' > 0
    BY <2>3 DEF IInv, NumberTypes, HostInv, SkippedPostHasMessage
  <2>6. (NumberTypes /\ LastFrameHasStarted)'
    <3>1. now' = now /\ timeoutTime' = timeoutTime /\ frameRequests' = 1 /\ frameTimers' = 1
      BY <2>3
    <3> QED
      BY <2>2, <2>5, <3>1 DEF IInv, NumberTypes, LastFrameHasStarted
  <2>7. HostInv'
    BY <2>3, <2>5 DEF HostInv, OnePairOutstanding, SkippedPostHasMessage, NoLostWakeup
  <2> QED
    BY <2>4, <2>6, <2>7 DEF IInv
<1> QED
  BY <1>1, <1>2

(* A frame is started when none is scheduled; then a pair is outstanding.  *)
LEMMA FrameIsStarted ==
  ASSUME OnePairOutstanding, FlagTypes, isAnimationFrameScheduled' = TRUE,
         IF isAnimationFrameScheduled THEN UNCHANGED frameVars
                                      ELSE RequestAnimationFrameWithTimeout
  PROVE  frameRequests' = 1 /\ frameTimers' = 1 /\ OnePairOutstanding'
<1>1. CASE isAnimationFrameScheduled
  BY <1>1 DEF OnePairOutstanding, frameVars
<1>2. CASE ~isAnimationFrameScheduled
  BY <1>2 DEF OnePairOutstanding, RequestAnimationFrameWithTimeout
<1> QED
  BY <1>1, <1>2

LEMMA RequestIInv ==
  ASSUME IInv, NEW t \in RequestTimes, NEW cancelled \in BOOLEAN,
         RequestHostCallback(t, cancelled)
  PROVE  IInv'
<1>0. isMessageEventScheduled' => isMessageEventScheduled
  BY Zenon DEF RequestHostCallback
<1>1. CASE isFlushingHostCallback \/ t < 0
  <2>1. /\ messages' = messages + 1 /\ timeoutTime' = t
        /\ UNCHANGED <<isAnimationFrameScheduled, frameRequests, frameTimers>>
    BY <1>1 DEF RequestHostCallback, frameVars
  <2>2. FlagTypes'
    BY <2>1 DEF IInv, FlagTypes, RequestHostCallback, flushVars
  <2>3. (NumberTypes /\ LastFrameHasStarted)'
    BY <2>1 DEF IInv, NumberTypes, LastFrameHasStarted, RequestHostCallback, heuristicVars
  <2>4. HostInv'
    <3>1. messages' > 0
      BY <2>1 DEF IInv, NumberTypes
    <3>2. OnePairOutstanding'
      BY <2>1 DEF IInv, HostInv, OnePairOutstanding
    <3> QED
      BY <3>1, <3>2 DEF HostInv, SkippedPostHasMessage, NoLostWakeup
  <2> QED
    BY <2>2, <2>3, <2>4 DEF IInv
<1>2. CASE ~(isFlushingHostCallback \/ t < 0)
  <2>1. /\ isAnimationFrameScheduled' = TRUE
        /\ IF isAnimationFrameScheduled THEN UNCHANGED frameVars
                                        ELSE RequestAnimationFrameWithTimeout
        /\ UNCHANGED messages /\ timeoutTime' = t
    BY <1>2 DEF RequestHostCallback
  <2>2. frameRequests' = 1 /\ frameTimers' = 1 /\ OnePairOutstanding'
    BY <2>1, FrameIsStarted DEF IInv, HostInv
  <2>3. FlagTypes'
    BY <2>1 DEF IInv, FlagTypes, RequestHostCallback, flushVars
  <2>4. (NumberTypes /\ LastFrameHasStarted)'
    BY <2>1, <2>2 DEF IInv, NumberTypes, LastFrameHasStarted, RequestHostCallback,
                      heuristicVars
  <2>5. HostInv'
    BY <1>0, <2>1, <2>2 DEF IInv, HostInv, SkippedPostHasMessage, NoLostWakeup
  <2> QED
    BY <2>3, <2>4, <2>5 DEF IInv
<1> QED
  BY <1>1, <1>2

LEMMA IdleTickRetryIInv == ASSUME IInv, IdleTickRetry PROVE IInv'
<1>1. frameRequests' = 1 /\ frameTimers' = 1 /\ OnePairOutstanding'
  BY FrameIsStarted DEF IInv, HostInv, IdleTickRetry
<1>2. FlagTypes'
  BY DEF IInv, FlagTypes, IdleTickRetry, flushVars
<1>3. (NumberTypes /\ LastFrameHasStarted)'
  BY <1>1 DEF IInv, NumberTypes, LastFrameHasStarted, IdleTickRetry, heuristicVars
<1>4. HostInv'
  BY <1>1 DEF HostInv, SkippedPostHasMessage, NoLostWakeup, IdleTickRetry
<1> QED
  BY <1>2, <1>3, <1>4 DEF IInv

LEMMA IdleTickFlushIInv == ASSUME IInv, IdleTickFlush PROVE IInv'
<1>1. FlagTypes'
  BY DEF IInv, FlagTypes, IdleTickFlush, FrameIsOver
<1>2. (NumberTypes /\ LastFrameHasStarted)'
  BY DEF IInv, NumberTypes, LastFrameHasStarted, IdleTickFlush, heuristicVars, frameVars
<1>3. HostInv'
  BY DEF IInv, NumberTypes, HostInv, OnePairOutstanding, SkippedPostHasMessage,
         NoLostWakeup, IdleTickFlush, frameVars
<1> QED
  BY <1>1, <1>2, <1>3 DEF IInv

LEMMA AnimationFrameIInv ==
  ASSUME IInv, NEW lag \in 0..FrameLag, now >= lag, AnimationFrame(now - lag)
  PROVE  IInv'
<1> DEFINE left == PairAfterRace
<1>1. now - lag \in Nat /\ now - lag <= now
  BY DOMAssumption DEF IInv, NumberTypes
<1>2. frameRequests = 1 /\ frameTimers = 1 /\ isAnimationFrameScheduled
  BY DEF AnimationFrame, IInv, FlagTypes, NumberTypes, HostInv, OnePairOutstanding
<1>3. left.frameRequests = 0 /\ left.frameTimers = 0
  BY <1>2 DEF PairAfterRace
<1> QED
  BY <1>1, <1>2, <1>3, AnimationTickIInv DEF AnimationFrame

LEMMA AnimationFrameTimeoutIInv == ASSUME IInv, AnimationFrameTimeout PROVE IInv'
<1> DEFINE left == [frameRequests |-> IF frameRequests > 0 THEN frameRequests - 1 ELSE 0,
                    frameTimers   |-> frameTimers - 1]
<1>1. frameRequests = 1 /\ frameTimers = 1 /\ isAnimationFrameScheduled
  BY DEF AnimationFrameTimeout, IInv, FlagTypes, NumberTypes, HostInv, OnePairOutstanding
<1>2. left.frameRequests = 0 /\ left.frameTimers = 0
  BY <1>1
<1>3. now \in Nat /\ now <= now /\ now >= frameDeadline - activeFrameTime
  BY DOMAssumption DEF IInv, NumberTypes, LastFrameHasStarted
<1> QED
  BY <1>1, <1>2, <1>3, AnimationTickIInv DEF AnimationFrameTimeout

LEMMA FlushReturnIInv == ASSUME IInv, FlushReturn PROVE IInv'
<1>1. FlagTypes'
  BY DEF IInv, FlagTypes, FlushReturn, jsVars
<1>2. (NumberTypes /\ LastFrameHasStarted /\ HostInv)'
  BY DEF IInv, NumberTypes, LastFrameHasStarted, HostInv, OnePairOutstanding,
         SkippedPostHasMessage, NoLostWakeup, FlushReturn, jsVars, heuristicVars, frameVars
<1> QED
  BY <1>1, <1>2 DEF IInv

LEMMA TickIInv == ASSUME IInv, Tick PROVE IInv'
<1>1. FlagTypes'
  BY DEF IInv, FlagTypes, Tick, jsVars, flushVars
<1>2. (NumberTypes /\ LastFrameHasStarted)'
  BY DOMAssumption
  DEF IInv, NumberTypes, LastFrameHasStarted, Tick, jsVars, heuristicVars, frameVars
<1>3. HostInv'
  BY DEF IInv, HostInv, OnePairOutstanding, SkippedPostHasMessage, NoLostWakeup,
         Tick, jsVars, frameVars
<1> QED
  BY <1>1, <1>2, <1>3 DEF IInv

LEMMA StutterIInv == ASSUME IInv, UNCHANGED vars PROVE IInv'
  BY DEF IInv, FlagTypes, NumberTypes, LastFrameHasStarted, HostInv, OnePairOutstanding,
         SkippedPostHasMessage, NoLostWakeup, vars, jsVars, flushVars, heuristicVars, frameVars

LEMMA NextIInv == IInv /\ [Next]_vars => IInv'
  BY RequestIInv, IdleTickRetryIInv, IdleTickFlushIInv, FlushReturnIInv,
     AnimationFrameIInv, AnimationFrameTimeoutIInv, TickIInv, StutterIInv
  DEF Next

LEMMA AlwaysIInv == Spec => []IInv
  BY InitIInv, NextIInv, PTL DEF Spec

(* The host's variables keep their types: no frame is shorter than the     *)
(* minimum, and none has a negative length.                                *)
THEOREM TypeCorrect == Spec => []TypeOK
<1>1. IInv => TypeOK
  BY TypeParts DEF IInv
<1> QED
  BY <1>1, AlwaysIInv, PTL

(* At most one frame and one timeout race, the flags tell what is          *)
(* outstanding, and a request always has something in flight to serve it.  *)
THEOREM NoWakeupIsLost == Spec => []HostInv
<1>1. IInv => HostInv
  BY DEF IInv
<1> QED
  BY <1>1, AlwaysIInv, PTL
-----------------------------------------------------------------------------
LEMMA TickAdaptsDownwards ==
  ASSUME IInv, NEW rafTime \in Nat, rafTime <= now,
         rafTime >= frameDeadline - activeFrameTime,
         NEW left, AnimationTick(rafTime, left)
  PROVE  activeFrameTime' <= activeFrameTime
<1>1. CASE scheduledHostCallback
  BY <1>1, AdjustedFrameTime DEF AnimationTick, IInv
<1>2. CASE ~scheduledHostCallback
  BY <1>2 DEF AnimationTick, heuristicVars, IInv, NumberTypes
<1> QED
  BY <1>1, <1>2

(* The assumed length of a frame never grows, however the frames come.     *)
THEOREM FrameTimeNeverGrows == Spec => FrameTimeAdaptsDownwards
<1>1. IInv /\ [Next]_vars => [activeFrameTime' <= activeFrameTime]_vars
  <2> SUFFICES ASSUME IInv, Next PROVE activeFrameTime' <= activeFrameTime
    OBVIOUS
  <2>1. UNCHANGED heuristicVars => activeFrameTime' <= activeFrameTime
    BY DEF heuristicVars, IInv, NumberTypes
  <2>2. ASSUME NEW lag \in 0..FrameLag, now >= lag, AnimationFrame(now - lag)
        PROVE  activeFrameTime' <= activeFrameTime
    <3>1. now - lag \in Nat /\ now - lag <= now
      BY <2>2, DOMAssumption DEF IInv, NumberTypes
    <3> QED
      BY <2>2, <3>1, TickAdaptsDownwards DEF AnimationFrame
  <2>3. CASE AnimationFrameTimeout
    <3>1. now \in Nat /\ now <= now /\ now >= frameDeadline - activeFrameTime
      BY DOMAssumption DEF IInv, NumberTypes, LastFrameHasStarted
    <3> QED
      BY <2>3, <3>1, TickAdaptsDownwards DEF AnimationFrameTimeout
  <2> QED
    BY <2>1, <2>2, <2>3 DEF Next, RequestHostCallback, IdleTickRetry, IdleTickFlush,
                            FlushReturn, Tick
<1> QED
  BY <1>1, AlwaysIInv, PTL DEF Spec, FrameTimeAdaptsDownwards

-----------------------------------------------------------------------------
(* The contract: a request is scheduledHostCallback with its timeout, and  *)
(* flushWork is called with didTimeout only after it.                      *)
request == IF scheduledHostCallback THEN {timeoutTime} ELSE {}
flush == IF ~isFlushingHostCallback THEN "none"
         ELSE IF didTimeout THEN "timedOut" ELSE "inFrame"

LEMMA ContractInit == Init => Contract!Init
  BY DEF Init, Contract!Init, Contract!HostInit

LEMMA RequestKeepsContract ==
  ASSUME NEW t \in RequestTimes, NEW cancelled \in BOOLEAN,
         RequestHostCallback(t, cancelled)
  PROVE  Contract!Next
<1>1. request' = {t} /\ UNCHANGED <<now, flush>>
  BY DEF RequestHostCallback, request, flush, flushVars
<1> QED
  BY <1>1 DEF Contract!Next, Contract!Request, request, flush

LEMMA FlushKeepsContract ==
  ASSUME IInv, IdleTickFlush
  PROVE  Contract!Next \/ UNCHANGED <<now, request, flush>>
<1>1. CASE scheduledHostCallback
  <2>1. request = {timeoutTime} /\ request' = {} /\ now' = now /\ flush = "none"
    BY <1>1 DEF IdleTickFlush, Idle, request, flush
  <2>2. flush' = IF FrameIsOver THEN "timedOut" ELSE "inFrame"
    BY <1>1 DEF IdleTickFlush, flush
  <2>3. FrameIsOver => \A t \in request : t <= now
    BY <2>1 DEF IdleTickFlush, TimeoutPassed
  <2>4. FrameIsOver \in BOOLEAN
    BY DEF FrameIsOver
  <2>5. Contract!Invoke(FrameIsOver)
    BY <2>1, <2>2, <2>3 DEF Contract!Invoke, request, flush
  <2> QED
    BY <2>1, <2>4, <2>5 DEF Contract!Next
<1>2. CASE ~scheduledHostCallback
  BY <1>2 DEF IdleTickFlush, Idle, request, flush
<1> QED
  BY <1>1, <1>2

LEMMA FlushReturnKeepsContract == ASSUME FlushReturn PROVE Contract!Next
<1>1. flush # "none" /\ flush' = "none" /\ UNCHANGED <<now, request>>
  BY DEF FlushReturn, flush, request, jsVars
<1> QED
  BY <1>1 DEF Contract!Next, Contract!Return, flush, request

LEMMA TickKeepsContract == ASSUME IInv, Tick PROVE Contract!Next
<1>1. now' \in Nat /\ now' >= now /\ UNCHANGED <<request, flush>>
  BY DOMAssumption DEF Tick, IInv, NumberTypes, request, flush, jsVars, flushVars
<1> QED
  BY <1>1 DEF Contract!Next, Contract!Advance, Contract!hostVars, request, flush

LEMMA ContractStep ==
  IInv /\ [Next]_vars => Contract!Next \/ UNCHANGED <<now, request, flush>>
<1> SUFFICES ASSUME IInv, [Next]_vars
             PROVE  Contract!Next \/ UNCHANGED <<now, request, flush>>
  OBVIOUS
<1>1. UNCHANGED <<now, scheduledHostCallback, timeoutTime, flushVars>>
        => UNCHANGED <<now, request, flush>>
  BY DEF request, flush, flushVars
<1>2. IdleTickRetry \/ AnimationFrameTimeout \/ UNCHANGED vars
        \/ (\E lag \in 0..FrameLag : now >= lag /\ AnimationFrame(now - lag))
        => UNCHANGED <<now, scheduledHostCallback, timeoutTime, flushVars>>
  BY DEF IdleTickRetry, AnimationFrameTimeout, AnimationFrame, AnimationTick, vars, jsVars
<1> QED
  BY <1>1, <1>2, RequestKeepsContract, FlushKeepsContract, FlushReturnKeepsContract,
     TickKeepsContract DEF Next

(* The DOM host implements the contract the callback queue is built on:    *)
(* one request at a time, served by one call, which claims a timeout only  *)
(* when there was one.                                                     *)
THEOREM DOMHostKeepsContract == Spec => ImplementsContract
<1>1. Contract!Next \/ UNCHANGED <<now, request, flush>>
        => [Contract!Next]_<<now, request, flush>>
  OBVIOUS
<1> QED
  BY <1>1, ContractInit, ContractStep, AlwaysIInv, PTL
  DEF Spec, ImplementsContract, Contract!Spec, request, flush
=============================================================================
