----------------------------- MODULE Scheduler -----------------------------
(***************************************************************************)
(* The callback queue of scheduler/src/Scheduler.js (lines 10-410), on top *)
(* of any host that keeps the contract of HostCallback: callbacks sorted   *)
(* by expiration, the priority context of event handlers, and the loops    *)
(* that call the callbacks back.                                           *)
(*                                                                         *)
(* Everything runs on one thread, so what is in progress is a call stack.  *)
(* Only the frames that come back to the scheduler are kept:               *)
(*   flushWork, immediate  the two loops (flushWork, flushImmediateWork)   *)
(*   callback, handler     user code, called by flushFirstCallback and by  *)
(*                         runWithPriority or a wrapped callback           *)
(* User code on top of the stack, or any task when the stack is empty, may *)
(* schedule, cancel, enter a handler, throw, catch and return.             *)
(***************************************************************************)
EXTENDS HostCallback, SequencesExt

CONSTANTS
  Immediate, UserBlocking, Normal, Idle,  \* the priority levels
  Timeout,        \* how long after its start time each priority expires
  CustomTimeouts, \* values of the deprecated option { timeout: ... }
  HandlerPriorities, \* the priorities handlers are run with
  MayThrow,       \* may user code throw?
  MaxTime,        \* bound on the clock
  MaxCallbacks,   \* bound on the callbacks scheduled
  MaxDepth        \* bound on the depth at which a handler is entered

Priorities == {Immediate, UserBlocking, Normal, Idle}

ASSUME SchedulerAssumption ==
  /\ Timeout \in [Priorities -> Int]
  /\ CustomTimeouts \subseteq Int
  /\ HandlerPriorities \subseteq Priorities
  /\ MayThrow \in BOOLEAN
  /\ MaxTime \in Nat /\ MaxCallbacks \in Nat /\ MaxDepth \in Nat
  /\ \A t \in 0..MaxTime :
       \A d \in CustomTimeouts \cup {Timeout[p] : p \in Priorities} :
         t + d \in RequestTimes

VARIABLES
  queue,                    \* the circular list from firstCallbackNode on
  currentPriorityLevel,
  currentEventStartTime,    \* -1 outside event handlers
  currentExpirationTime,    \* -1 outside callbacks
  isExecutingCallback,
  isHostCallbackScheduled,
  didTimeout,               \* of the deadline object passed to callbacks
  stack,                    \* the calls in progress, the innermost last
  throwing,                 \* is an exception on its way out of the last frame
  nextId                    \* callbacks scheduled so far

contextVars == <<currentPriorityLevel, currentEventStartTime, currentExpirationTime>>
flagVars == <<isExecutingCallback, isHostCallbackScheduled, didTimeout>>
vars == <<now, hostVars, queue, contextVars, flagVars, stack, throwing, nextId>>

(* A callback keeps its id through its continuations, but the handle that  *)
(* cancelCallback takes is that of the first node only.                    *)
Nodes == [id : Nat, priority : Priorities, expiration : RequestTimes, continued : BOOLEAN]

StartTimes == (0..MaxTime) \cup {-1}

Frames ==
  [kind : {"flushWork"}, started : BOOLEAN]
  \cup [kind : {"immediate"}, rethrow : BOOLEAN]
  \cup [kind : {"callback"}, node : Nodes, priority : Priorities,
        expiration : RequestTimes \cup {-1}]
  \cup [kind : {"handler"}, priority : Priorities, startTime : StartTimes]

SchedulerInit ==
  /\ now = 0
  /\ HostInit
  /\ queue = <<>>
  /\ currentPriorityLevel = Normal
  /\ currentEventStartTime = -1
  /\ currentExpirationTime = -1
  /\ isExecutingCallback = FALSE
  /\ isHostCallbackScheduled = FALSE
  /\ didTimeout = FALSE
  /\ stack = <<>>
  /\ throwing = FALSE
  /\ nextId = 0

Top == stack[Len(stack)]
TopIs(kinds) == stack # <<>> /\ Top.kind \in kinds
UserCode == ~throwing /\ (stack = <<>> \/ TopIs({"callback", "handler"}))
Push(frame) == stack' = Append(stack, frame)
ReplaceTop(frame) == stack' = [stack EXCEPT ![Len(stack)] = frame]

(* The last frame leaves.  An exception that leaves the bottom frame ends  *)
(* the task; a bottom frame the host called returns to the host.           *)
Pop(isThrowing) ==
  /\ stack' = Front(stack)
  /\ throwing' = (isThrowing /\ Len(stack) > 1)
  /\ IF flush # "none" /\ Len(stack) = 1 THEN Return ELSE UNCHANGED flush

(* Mutation: a request that stands is kept, even if it is a later one.     *)
EnsureSomeRequest(q) ==
  IF isExecutingCallback \/ isHostCallbackScheduled
  THEN UNCHANGED <<isHostCallbackScheduled, request>>
  ELSE isHostCallbackScheduled' = TRUE /\ Request(Head(q).expiration)

EnsureHostCallbackIsScheduled(q) ==
  IF isExecutingCallback
  THEN UNCHANGED <<isHostCallbackScheduled, request>>
  ELSE isHostCallbackScheduled' = TRUE /\ Request(Head(q).expiration)

(* The search loops of scheduleCallback and flushFirstCallback stop at     *)
(* position i; one past the end is the last place of the list.             *)
SearchStopsAt(i, Stops(_)) ==
  /\ \A j \in 1..(i - 1) : ~Stops(queue[j])
  /\ i <= Len(queue) => Stops(queue[i])

-----------------------------------------------------------------------------
(* scheduleCallback: after every callback that expires no later.           *)
ScheduledBeforeTies(n, expiration) == n.expiration >= expiration   \* a mutation

ScheduledBefore(n, expiration) == n.expiration > expiration

StartTime == IF currentEventStartTime # -1 THEN currentEventStartTime ELSE now

ScheduleCallback(timeout) ==
  LET node == [id |-> nextId, priority |-> currentPriorityLevel,
               expiration |-> StartTime + timeout, continued |-> FALSE]
  IN /\ UserCode /\ nextId < MaxCallbacks
     /\ nextId' = nextId + 1
     /\ \E i \in 1..(Len(queue) + 1) :
          /\ SearchStopsAt(i, LAMBDA n : ScheduledBefore(n, node.expiration))
          /\ queue' = InsertAt(queue, i, node)
          /\ IF i = 1 THEN EnsureHostCallbackIsScheduled(<<node>>)
                      ELSE UNCHANGED <<isHostCallbackScheduled, request>>
     /\ UNCHANGED <<now, flush, contextVars, isExecutingCallback, didTimeout,
                    stack, throwing>>

(* cancelCallback; the node of a callback being called, or cancelled       *)
(* before, is in no list any more and the call does nothing.               *)
CancelCallback(i) ==
  /\ UserCode
  /\ ~queue[i].continued
  /\ queue' = RemoveAt(queue, i)
  /\ UNCHANGED <<now, hostVars, contextVars, flagVars, stack, throwing, nextId>>

(* runWithPriority(p, handler), and a call of wrapCallback(handler) that   *)
(* was wrapped under priority p.                                           *)
EnterHandler(p) ==
  /\ UserCode /\ Len(stack) < MaxDepth
  /\ Push([kind |-> "handler", priority |-> currentPriorityLevel,
           startTime |-> currentEventStartTime])
  /\ currentPriorityLevel' = p
  /\ currentEventStartTime' = now
  /\ UNCHANGED <<now, hostVars, queue, currentExpirationTime, flagVars, throwing, nextId>>

-----------------------------------------------------------------------------
(* flushImmediateWork, called last by the two finally blocks: if it has    *)
(* work to do its loop takes the place of the frame that calls it, and a   *)
(* pending exception waits until the loop is over.                         *)
NextIsImmediate == queue # <<>> /\ Head(queue).priority = Immediate

ExitFlushingImmediateWork(startTime, executing) ==
  IF startTime = -1 /\ NextIsImmediate
  THEN /\ isExecutingCallback' = TRUE
       /\ didTimeout' = TRUE
       /\ ReplaceTop([kind |-> "immediate", rethrow |-> throwing])
       /\ throwing' = FALSE
       /\ UNCHANGED flush
  ELSE /\ isExecutingCallback' = executing
       /\ UNCHANGED didTimeout
       /\ Pop(throwing)

(* The handler returns or throws.                                          *)
ExitHandler ==
  /\ TopIs({"handler"})
  /\ currentPriorityLevel' = Top.priority
  /\ currentEventStartTime' = Top.startTime
  /\ ExitFlushingImmediateWork(Top.startTime, isExecutingCallback)
  /\ UNCHANGED <<now, request, queue, currentExpirationTime,
                 isHostCallbackScheduled, nextId>>

-----------------------------------------------------------------------------
(* The host calls flushWork.                                               *)
HostCallsFlushWork(timedOut) ==
  /\ stack = <<>>
  /\ Invoke(timedOut)
  /\ isExecutingCallback' = TRUE
  /\ didTimeout' = timedOut
  /\ Push([kind |-> "flushWork", started |-> FALSE])
  /\ UNCHANGED <<now, queue, contextVars, isHostCallbackScheduled, throwing, nextId>>

(* May, and must, the loop on top of the stack go on?  A timed out flush   *)
(* goes on while the first callback has expired (that it reads the clock   *)
(* once per batch makes no difference: it reads it again before it stops); *)
(* one inside a frame calls one callback, then more while the frame lasts; *)
(* when that is over is the host's business, so either may happen.         *)
MayCallNext ==
  queue # <<>> /\
    CASE Top.kind = "immediate"                         -> NextIsImmediate
      [] Top.kind = "flushWork" /\ flush = "timedOut"   -> Head(queue).expiration <= now
      [] OTHER                                          -> TRUE

MayStop ==
  \/ ~MayCallNext
  \/ Top.kind = "flushWork" /\ flush = "inFrame" /\ Top.started

(* flushFirstCallback, up to the call.                                     *)
CallFirst ==
  /\ TopIs({"flushWork", "immediate"}) /\ ~throwing
  /\ MayCallNext
  /\ queue' = Tail(queue)
  /\ stack' = Append(IF Top.kind = "flushWork"
                     THEN [stack EXCEPT ![Len(stack)].started = TRUE]
                     ELSE stack,
                     [kind |-> "callback", node |-> Head(queue),
                      priority |-> currentPriorityLevel,
                      expiration |-> currentExpirationTime])
  /\ currentPriorityLevel' = Head(queue).priority
  /\ currentExpirationTime' = Head(queue).expiration
  /\ UNCHANGED <<now, hostVars, currentEventStartTime, flagVars, throwing, nextId>>

(* flushFirstCallback, from the callback's return.                         *)
(* Mutation: the context is restored after the call, not finally.          *)
RestoreContextOnReturn ==
  IF throwing THEN UNCHANGED <<currentPriorityLevel, currentExpirationTime>>
  ELSE currentPriorityLevel' = Top.priority /\ currentExpirationTime' = Top.expiration

RestoreContext ==
  currentPriorityLevel' = Top.priority /\ currentExpirationTime' = Top.expiration

LeaveCallback ==
  /\ TopIs({"callback"})
  /\ RestoreContext
  /\ Pop(throwing)
  /\ UNCHANGED <<now, currentEventStartTime, isExecutingCallback, didTimeout, nextId>>

CallbackReturns ==
  LeaveCallback /\ UNCHANGED <<queue, isHostCallbackScheduled, request>>

(* A continuation goes before the callbacks that expire with it.           *)
ContinuedBefore(n, expiration) == n.expiration >= expiration

CallbackReturnsContinuation ==
  /\ ~throwing
  /\ LeaveCallback
  /\ \E i \in 1..(Len(queue) + 1) :
       /\ SearchStopsAt(i, LAMBDA n : ContinuedBefore(n, Top.node.expiration))
       /\ queue' = InsertAt(queue, i, [Top.node EXCEPT !.continued = TRUE])
       /\ IF i = 1 /\ queue # <<>>
          THEN EnsureHostCallbackIsScheduled(<<Top.node>>)
          ELSE UNCHANGED <<isHostCallbackScheduled, request>>

(* The finally blocks of the two loops.                                    *)
(* Mutation: after the loops, not finally.                                 *)
RequestRemainingWorkOnReturn ==
  IF throwing THEN UNCHANGED <<isHostCallbackScheduled, request>>
  ELSE IF queue # <<>>
  THEN isHostCallbackScheduled' = TRUE /\ Request(Head(queue).expiration)
  ELSE isHostCallbackScheduled' = FALSE /\ UNCHANGED request

RequestRemainingWork ==
  IF queue # <<>>
  THEN isHostCallbackScheduled' = TRUE /\ Request(Head(queue).expiration)
  ELSE isHostCallbackScheduled' = FALSE /\ UNCHANGED request

FlushWorkEnds ==
  /\ TopIs({"flushWork"})
  /\ throwing \/ MayStop
  /\ RequestRemainingWork
  /\ ExitFlushingImmediateWork(currentEventStartTime, FALSE)
  /\ UNCHANGED <<now, queue, contextVars, nextId>>

FlushImmediateWorkEnds ==
  /\ TopIs({"immediate"})
  /\ throwing \/ MayStop
  /\ RequestRemainingWork
  /\ isExecutingCallback' = FALSE
  /\ Pop(throwing \/ Top.rethrow)
  /\ UNCHANGED <<now, queue, contextVars, didTimeout, nextId>>

-----------------------------------------------------------------------------
(* User code throws, or catches what a handler it entered has thrown.      *)
Throw ==
  /\ MayThrow /\ UserCode /\ stack # <<>>
  /\ throwing' = TRUE
  /\ UNCHANGED <<now, hostVars, queue, contextVars, flagVars, stack, nextId>>

Catch ==
  /\ throwing /\ TopIs({"callback", "handler"})
  /\ throwing' = FALSE
  /\ UNCHANGED <<now, hostVars, queue, contextVars, flagVars, stack, nextId>>

Tick ==
  /\ now < MaxTime /\ now' = now + 1
  /\ UNCHANGED <<hostVars, queue, contextVars, flagVars, stack, throwing, nextId>>

SchedulerNext ==
  \/ ScheduleCallback(Timeout[currentPriorityLevel])
  \/ \E timeout \in CustomTimeouts : ScheduleCallback(timeout)
  \/ \E i \in 1..Len(queue) : CancelCallback(i)
  \/ \E p \in HandlerPriorities : EnterHandler(p)
  \/ ExitHandler
  \/ \E timedOut \in BOOLEAN : HostCallsFlushWork(timedOut)
  \/ CallFirst
  \/ CallbackReturns
  \/ CallbackReturnsContinuation
  \/ FlushWorkEnds
  \/ FlushImmediateWorkEnds
  \/ Throw
  \/ Catch
  \/ Tick

SchedulerSpec == SchedulerInit /\ [][SchedulerNext]_vars

(* The host serves every request in the end, whatever other tasks the page *)
(* has (HostCallback is kept by a live host, see SchedulerHostDOM); the    *)
(* two loops run on; callbacks and handlers at any depth return, however   *)
(* many handlers they enter on the way.                                    *)
SchedulerFairness ==
  /\ SF_vars(\E timedOut \in BOOLEAN : HostCallsFlushWork(timedOut))
  /\ WF_vars(CallFirst \/ FlushWorkEnds \/ FlushImmediateWorkEnds)
  /\ \A depth \in 1..(MaxDepth + 1) :
       SF_vars(/\ Len(stack) = depth
               /\ CallbackReturns \/ CallbackReturnsContinuation \/ ExitHandler)

FairSchedulerSpec == SchedulerSpec /\ SchedulerFairness
-----------------------------------------------------------------------------
TypeOK ==
  /\ HostTypeOK
  /\ now \in 0..MaxTime
  /\ queue \in Seq(Nodes)
  /\ currentPriorityLevel \in Priorities
  /\ currentEventStartTime \in StartTimes
  /\ currentExpirationTime \in RequestTimes \cup {-1}
  /\ isExecutingCallback \in BOOLEAN
  /\ isHostCallbackScheduled \in BOOLEAN
  /\ didTimeout \in BOOLEAN
  /\ stack \in Seq(Frames)
  /\ throwing \in BOOLEAN
  /\ nextId \in Nat

(* The types, and "Ordered first by expiration, then by insertion"         *)
(* (Scheduler.js:346): a callback keeps its turn through its               *)
(* continuations, which are inserted before the callbacks that expire with *)
(* them, however many callbacks were called, scheduled and continued       *)
(* inside the one that continues.                                          *)
Precedes(m, n) ==
  m.expiration < n.expiration \/ (m.expiration = n.expiration /\ m.id < n.id)

QueueIsOrdered ==
  /\ TypeOK
  /\ \A i, j \in 1..Len(queue) : i < j => Precedes(queue[i], queue[j])

(* The queue is ordered, and a callback that is being called can be        *)
(* overtaken only by later, more urgent ones: those waiting or called      *)
(* inside it that are not behind it were scheduled after it and expire     *)
(* before it.                                                              *)
OvertakenOnlyByUrgent ==
  /\ QueueIsOrdered
  /\ \A i \in 1..Len(stack) : stack[i].kind = "callback" =>
       LET running == stack[i].node
           isBehind(n) == Precedes(running, n) \/ (n.expiration < running.expiration /\ n.id > running.id)
       IN /\ \A j \in 1..Len(queue) : isBehind(queue[j])
          /\ \A j \in (i + 1)..Len(stack) : stack[j].kind = "callback" => isBehind(stack[j].node)

(* No callback is forgotten: outside the loops, a waiting callback has a   *)
(* request at the host that is not later than the callback's expiration.   *)
(* The flag, the request and the list are set in five functions, and in    *)
(* the finally blocks of loops that user code throws through.              *)
InLoop == \E i \in 1..Len(stack) : stack[i].kind \in {"flushWork", "immediate"}

NoLostWork ==
  ~InLoop /\ queue # <<>> =>
    isHostCallbackScheduled /\ \E t \in request : t <= Head(queue).expiration

(* Between tasks the priority context is what it was at the start, however *)
(* the handlers and callbacks were nested and whichever of them threw.     *)
ContextIsRestored ==
  stack = <<>> =>
    /\ currentPriorityLevel = Normal
    /\ currentEventStartTime = -1
    /\ currentExpirationTime = -1
    /\ ~isExecutingCallback

(* Waiting callbacks get called, or cancelled (not each of them: one that  *)
(* continues for ever keeps its place).                                    *)
WorkIsCalled == queue # <<>> ~> (queue = <<>> \/ TopIs({"callback"}))
=============================================================================
