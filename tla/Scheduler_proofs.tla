-------------------------- MODULE Scheduler_proofs --------------------------
(***************************************************************************)
(* The callback queue, for every table of timeouts and every nesting of    *)
(* handlers and callbacks: its types, that no callback is overtaken but by *)
(* more urgent ones, that none is forgotten, and that the context of the   *)
(* priorities is restored.                                                 *)
(*                                                                         *)
(* The last three are not inductive.  The order needs that ids grow with   *)
(* time; the requests need the order, and that the flag of the loops is    *)
(* only up inside one; the context needs what the frames have saved.       *)
(***************************************************************************)
EXTENDS Scheduler, SequenceTheorems, TLAPS

LoopKinds == {"flushWork", "immediate"}

(* Callbacks are called by the loops only.                                 *)
CallbacksAreInLoops ==
  \A i \in 1..Len(stack) :
    stack[i].kind = "callback" => i > 1 /\ stack[i - 1].kind \in LoopKinds

ExecutingInLoops == isExecutingCallback => InLoop

(* The callbacks that are being called, and what may be behind one of them *)
(* or called inside it.                                                    *)
Running == {stack[i].node : i \in {k \in 1..Len(stack) : stack[k].kind = "callback"}}

IsBehind(running, n) ==
  Precedes(running, n) \/ (n.expiration < running.expiration /\ n.id > running.id)

Ordered == \A i, j \in 1..Len(queue) : i < j => Precedes(queue[i], queue[j])

QueueIsBehind == \A r \in Running : \A j \in 1..Len(queue) : IsBehind(r, queue[j])

NestedAreBehind ==
  \A i, j \in 1..Len(stack) :
    i < j /\ stack[i].kind = "callback" /\ stack[j].kind = "callback" =>
      IsBehind(stack[i].node, stack[j].node)

IdsAreOld ==
  /\ \A i \in 1..Len(queue) : queue[i].id < nextId
  /\ \A r \in Running : r.id < nextId

OrderInv == Ordered /\ QueueIsBehind /\ NestedAreBehind /\ IdsAreOld

(* The outermost of the frames that save a part of the context has saved   *)
(* what it was at the start; without such a frame, it still is.            *)
IsOutermost(i, kinds) ==
  stack[i].kind \in kinds /\ \A j \in 1..(i - 1) : stack[j].kind \notin kinds

HasNone(kinds) == \A i \in 1..Len(stack) : stack[i].kind \notin kinds

PriorityIsSaved ==
  /\ HasNone({"callback", "handler"}) => currentPriorityLevel = Normal
  /\ \A i \in 1..Len(stack) :
       IsOutermost(i, {"callback", "handler"}) => stack[i].priority = Normal

ExpirationIsSaved ==
  /\ HasNone({"callback"}) => currentExpirationTime = -1
  /\ \A i \in 1..Len(stack) : IsOutermost(i, {"callback"}) => stack[i].expiration = -1

StartTimeIsSaved ==
  /\ HasNone({"handler"}) => currentEventStartTime = -1
  /\ \A i \in 1..Len(stack) : IsOutermost(i, {"handler"}) => stack[i].startTime = -1

ControlInv ==
  /\ CallbacksAreInLoops /\ ExecutingInLoops
  /\ PriorityIsSaved /\ ExpirationIsSaved /\ StartTimeIsSaved

-----------------------------------------------------------------------------
(* Sequences: what the two insertions, the removal and the stack do.       *)
LEMMA InsertAtProperties ==
  ASSUME NEW S, NEW s \in Seq(S), NEW i \in 1..(Len(s) + 1), NEW e \in S
  PROVE  /\ InsertAt(s, i, e) \in Seq(S)
         /\ Len(InsertAt(s, i, e)) = Len(s) + 1
         /\ \A k \in 1..(Len(s) + 1) :
              InsertAt(s, i, e)[k] = IF k < i THEN s[k] ELSE IF k = i THEN e ELSE s[k - 1]
<1> DEFINE before == SubSeq(s, 1, i - 1)
           after == SubSeq(s, i, Len(s))
<1>1. Len(s) \in Nat /\ \A k \in 1..Len(s) : s[k] \in S
  BY LenProperties, ElementOfSeq
<1>2. before \in Seq(S) /\ Len(before) = i - 1 /\ \A k \in 1..(i - 1) : before[k] = s[k]
  BY <1>1, SubSeqProperties
<1>3. /\ after \in Seq(S) /\ Len(after) = Len(s) - i + 1
      /\ \A k \in 1..(Len(s) - i + 1) : after[k] = s[i + k - 1]
  BY <1>1, SubSeqProperties
<1>4. <<e>> \in Seq(S) /\ Len(<<e>>) = 1 /\ <<e>>[1] = e
  OBVIOUS
<1> HIDE DEF before, after
<1>5. /\ before \o <<e>> \in Seq(S) /\ Len(before \o <<e>>) = i
      /\ \A k \in 1..i : (before \o <<e>>)[k] = IF k <= i - 1 THEN before[k] ELSE <<e>>[k - (i - 1)]
  BY <1>2, <1>4, ConcatProperties
<1> DEFINE upTo == before \o <<e>>
<1> HIDE DEF upTo
<1>6. upTo \in Seq(S) /\ Len(upTo) = i /\ \A k \in 1..i : upTo[k] = IF k <= i - 1 THEN s[k] ELSE e
  BY <1>1, <1>2, <1>4, <1>5 DEF upTo
<1>7. /\ upTo \o after \in Seq(S)
      /\ Len(upTo \o after) = Len(upTo) + Len(after)
      /\ \A k \in 1..Len(upTo) + Len(after) : (upTo \o after)[k] =
           IF k <= Len(upTo) THEN upTo[k] ELSE after[k - Len(upTo)]
  BY <1>3, <1>6, ConcatProperties
<1>8. InsertAt(s, i, e) = upTo \o after
  BY DEF InsertAt, before, after, upTo
<1>9. Len(upTo) + Len(after) = Len(s) + 1
  BY <1>1, <1>3, <1>6
<1>10. ASSUME NEW k \in 1..(Len(s) + 1)
       PROVE  InsertAt(s, i, e)[k] = IF k < i THEN s[k] ELSE IF k = i THEN e ELSE s[k - 1]
  <2>1. (upTo \o after)[k] = IF k <= i THEN upTo[k] ELSE after[k - i]
    BY <1>6, <1>7, <1>9
  <2>2. CASE k <= i
    BY <2>1, <2>2, <1>1, <1>6, <1>8
  <2>3. CASE k > i
    <3>1. k - i \in 1..(Len(s) - i + 1)
      BY <2>3, <1>1
    <3>2. after[k - i] = s[i + (k - i) - 1]
      BY <3>1, <1>3
    <3>3. i + (k - i) - 1 = k - 1
      BY <1>1
    <3>4. ~(k <= i) /\ ~(k < i) /\ k # i
      BY <2>3, <1>1
    <3>5. (upTo \o after)[k] = s[k - 1]
      BY <2>1, <3>2, <3>3, <3>4
    <3> QED
      BY <3>4, <3>5, <1>8
  <2> QED
    BY <2>2, <2>3, <1>1
<1> QED
  BY <1>7, <1>8, <1>9, <1>10

LEMMA RemoveAtProperties ==
  ASSUME NEW S, NEW s \in Seq(S), NEW i \in 1..Len(s)
  PROVE  /\ RemoveAt(s, i) \in Seq(S)
         /\ Len(RemoveAt(s, i)) = Len(s) - 1
         /\ \A k \in 1..(Len(s) - 1) : RemoveAt(s, i)[k] = IF k < i THEN s[k] ELSE s[k + 1]
<1> DEFINE before == SubSeq(s, 1, i - 1)
           after == SubSeq(s, i + 1, Len(s))
<1>1. Len(s) \in Nat /\ \A k \in 1..Len(s) : s[k] \in S
  BY LenProperties, ElementOfSeq
<1>2. before \in Seq(S) /\ Len(before) = i - 1 /\ \A k \in 1..(i - 1) : before[k] = s[k]
  BY <1>1, SubSeqProperties
<1>3. /\ after \in Seq(S) /\ Len(after) = Len(s) - i
      /\ \A k \in 1..(Len(s) - i) : after[k] = s[i + k]
  BY <1>1, SubSeqProperties
<1> HIDE DEF before, after
<1>4. /\ before \o after \in Seq(S)
      /\ Len(before \o after) = Len(before) + Len(after)
      /\ \A k \in 1..Len(before) + Len(after) :
           (before \o after)[k] = IF k <= Len(before) THEN before[k] ELSE after[k - Len(before)]
  BY <1>2, <1>3, ConcatProperties
<1>5. RemoveAt(s, i) = before \o after
  BY DEF RemoveAt, before, after
<1>6. Len(before) + Len(after) = Len(s) - 1
  BY <1>1, <1>2, <1>3
<1>7. ASSUME NEW k \in 1..(Len(s) - 1)
      PROVE  RemoveAt(s, i)[k] = IF k < i THEN s[k] ELSE s[k + 1]
  <2>1. RemoveAt(s, i)[k] = IF k <= i - 1 THEN before[k] ELSE after[k - (i - 1)]
    BY <1>2, <1>4, <1>5, <1>6
  <2> QED
    BY <2>1, <1>1, <1>2, <1>3
<1> QED
  BY <1>4, <1>5, <1>6, <1>7

LEMMA FrontProperties ==
  ASSUME NEW S, NEW s \in Seq(S), s # <<>>
  PROVE  /\ Front(s) \in Seq(S)
         /\ Len(Front(s)) = Len(s) - 1
         /\ \A k \in 1..(Len(s) - 1) : Front(s)[k] = s[k]
<1> DEFINE n == Len(s) - 1
<1>1. n \in Nat /\ \A k \in 1..n : s[k] \in S
  BY LenProperties, ElementOfSeq, EmptySeq
<1> HIDE DEF n
<1>2. /\ SubSeq(s, 1, n) \in Seq(S)
      /\ Len(SubSeq(s, 1, n)) = IF 1 <= n THEN n - 1 + 1 ELSE 0
      /\ \A k \in 1..n - 1 + 1 : SubSeq(s, 1, n)[k] = s[1 + k - 1]
  BY <1>1, SubSeqProperties
<1>3. Front(s) = SubSeq(s, 1, n)
  BY DEF Front, n
<1>4. /\ Front(s) \in Seq(S) /\ Len(Front(s)) = n /\ \A k \in 1..n : Front(s)[k] = s[k]
  BY <1>1, <1>2, <1>3
<1> QED
  BY <1>4 DEF n

-----------------------------------------------------------------------------
(* The stack.                                                              *)
LEMMA FrameTypes ==
  ASSUME NEW f \in Frames
  PROVE  /\ f.kind \in {"flushWork", "immediate", "callback", "handler"}
         /\ f.kind = "flushWork" => f.started \in BOOLEAN
         /\ f.kind = "immediate" => f.rethrow \in BOOLEAN
         /\ f.kind = "callback" => /\ f.node \in Nodes /\ f.priority \in Priorities
                                  /\ f.expiration \in RequestTimes \cup {-1}
         /\ f.kind = "handler" => f.priority \in Priorities /\ f.startTime \in StartTimes
  BY DEF Frames

LEMMA StackTypes ==
  ASSUME TypeOK
  PROVE  /\ Len(stack) \in Nat
         /\ \A i \in 1..Len(stack) : stack[i] \in Frames
         /\ stack # <<>> => Len(stack) \in 1..Len(stack) /\ Top \in Frames
<1>1. stack \in Seq(Frames)
  BY DEF TypeOK
<1>2. Len(stack) \in Nat /\ \A i \in 1..Len(stack) : stack[i] \in Frames
  BY <1>1, LenProperties, ElementOfSeq
<1>3. stack # <<>> => Len(stack) \in 1..Len(stack)
  BY <1>1, <1>2, EmptySeq
<1> QED
  BY <1>2, <1>3 DEF Top

LEMMA Pushed ==
  ASSUME TypeOK, NEW f \in Frames, Push(f)
  PROVE  /\ stack' \in Seq(Frames)
         /\ Len(stack') = Len(stack) + 1
         /\ \A k \in 1..Len(stack) : stack'[k] = stack[k]
         /\ stack'[Len(stack) + 1] = f
  BY AppendProperties DEF TypeOK, Push

LEMMA Replaced ==
  ASSUME TypeOK, stack # <<>>, NEW f \in Frames, ReplaceTop(f)
  PROVE  /\ stack' \in Seq(Frames)
         /\ Len(stack') = Len(stack)
         /\ \A k \in 1..Len(stack) : stack'[k] = IF k = Len(stack) THEN f ELSE stack[k]
  BY StackTypes, ExceptSeq DEF TypeOK, ReplaceTop

LEMMA Popped ==
  ASSUME TypeOK, stack # <<>>, NEW e \in BOOLEAN, Pop(e)
  PROVE  /\ stack' \in Seq(Frames)
         /\ Len(stack') = Len(stack) - 1
         /\ \A k \in 1..(Len(stack) - 1) : stack'[k] = stack[k]
         /\ throwing' \in BOOLEAN
         /\ flush' \in {"none", "timedOut", "inFrame"}
<1>1. stack' = Front(stack) /\ stack \in Seq(Frames)
  BY DEF Pop, TypeOK
<1>2. throwing' \in BOOLEAN
  BY DEF Pop
<1>3. flush' \in {"none", "timedOut", "inFrame"}
  BY DEF Pop, Return, TypeOK, HostTypeOK
<1> QED
  BY <1>1, <1>2, <1>3, FrontProperties

-----------------------------------------------------------------------------
(* The types.                                                              *)
LEMMA InitTypeOK == SchedulerInit => TypeOK
<1> SUFFICES ASSUME SchedulerInit PROVE TypeOK
  OBVIOUS
<1>1. <<>> \in Seq(Nodes) /\ <<>> \in Seq(Frames)
  BY EmptySeq
<1>2. 0 \in 0..MaxTime
  BY SchedulerAssumption
<1>3. HostTypeOK
  BY DEF SchedulerInit, HostInit, HostTypeOK
<1>4. Normal \in Priorities
  BY DEF Priorities
<1> QED
  BY <1>1, <1>2, <1>3, <1>4 DEF SchedulerInit, TypeOK, StartTimes

LEMMA ExpirationTypes ==
  ASSUME TypeOK, NEW timeout \in CustomTimeouts \cup {Timeout[p] : p \in Priorities}
  PROVE  StartTime + timeout \in RequestTimes
<1>1. StartTime \in 0..MaxTime
  BY DEF TypeOK, StartTime, StartTimes
<1>2. \A t \in 0..MaxTime : \A d \in CustomTimeouts \cup {Timeout[p] : p \in Priorities} :
        t + d \in RequestTimes
  BY SchedulerAssumption
<1> QED
  BY <1>1, <1>2

LEMMA NewNodeType ==
  ASSUME TypeOK, NEW timeout \in CustomTimeouts \cup {Timeout[p] : p \in Priorities}
  PROVE  [id |-> nextId, priority |-> currentPriorityLevel,
          expiration |-> StartTime + timeout, continued |-> FALSE] \in Nodes
  BY ExpirationTypes DEF TypeOK, Nodes

LEMMA EnsureTypes ==
  ASSUME TypeOK, NEW q, Head(q).expiration \in RequestTimes,
         EnsureHostCallbackIsScheduled(q) \/ UNCHANGED <<isHostCallbackScheduled, request>>
  PROVE  /\ isHostCallbackScheduled' \in BOOLEAN
         /\ request' \in SUBSET RequestTimes /\ \A s, t \in request' : s = t
  BY DEF TypeOK, HostTypeOK, EnsureHostCallbackIsScheduled, Request

LEMMA RemainingTypes ==
  ASSUME TypeOK, RequestRemainingWork
  PROVE  /\ isHostCallbackScheduled' \in BOOLEAN
         /\ request' \in SUBSET RequestTimes /\ \A s, t \in request' : s = t
<1>1. CASE queue = <<>>
  BY <1>1 DEF TypeOK, HostTypeOK, RequestRemainingWork
<1>2. CASE queue # <<>>
  <2>1. Head(queue) \in Nodes
    BY <1>2, HeadTailProperties DEF TypeOK
  <2> QED
    BY <1>2, <2>1 DEF RequestRemainingWork, Request, Nodes
<1> QED
  BY <1>1, <1>2

LEMMA ExitTypes ==
  ASSUME TypeOK, stack # <<>>, NEW startTime, NEW executing \in BOOLEAN,
         ExitFlushingImmediateWork(startTime, executing)
  PROVE  /\ stack' \in Seq(Frames)
         /\ isExecutingCallback' \in BOOLEAN /\ didTimeout' \in BOOLEAN
         /\ throwing' \in BOOLEAN
         /\ flush' \in {"none", "timedOut", "inFrame"}
<1>1. CASE startTime = -1 /\ NextIsImmediate
  <2>1. [kind |-> "immediate", rethrow |-> throwing] \in Frames
    BY DEF TypeOK, Frames
  <2> QED
    BY <1>1, <2>1, Replaced DEF ExitFlushingImmediateWork, TypeOK, HostTypeOK
<1>2. CASE ~(startTime = -1 /\ NextIsImmediate)
  BY <1>2, Popped DEF ExitFlushingImmediateWork, TypeOK
<1> QED
  BY <1>1, <1>2

LEMMA ScheduleCallbackTypes ==
  ASSUME TypeOK, NEW timeout \in CustomTimeouts \cup {Timeout[p] : p \in Priorities},
         ScheduleCallback(timeout)
  PROVE  TypeOK'
<1> DEFINE node == [id |-> nextId, priority |-> currentPriorityLevel,
                    expiration |-> StartTime + timeout, continued |-> FALSE]
<1>1. node \in Nodes /\ node.expiration \in RequestTimes
  BY NewNodeType, ExpirationTypes
<1>2. PICK i \in 1..(Len(queue) + 1) :
         /\ queue' = InsertAt(queue, i, node)
         /\ IF i = 1 THEN EnsureHostCallbackIsScheduled(<<node>>)
                     ELSE UNCHANGED <<isHostCallbackScheduled, request>>
  BY DEF ScheduleCallback
<1>3. Head(<<node>>) = node
  OBVIOUS
<1> HIDE DEF node
<1>4. queue' \in Seq(Nodes)
  BY <1>1, <1>2, InsertAtProperties DEF TypeOK
<1>5. /\ isHostCallbackScheduled' \in BOOLEAN
      /\ request' \in SUBSET RequestTimes /\ \A s, t \in request' : s = t
  BY <1>1, <1>2, <1>3, EnsureTypes
<1>6. /\ nextId' \in Nat
      /\ UNCHANGED <<now, flush, contextVars, isExecutingCallback, didTimeout, stack, throwing>>
  BY DEF ScheduleCallback, TypeOK
<1> QED
  BY <1>4, <1>5, <1>6 DEF TypeOK, HostTypeOK, contextVars

LEMMA LeaveCallbackTypes ==
  ASSUME TypeOK, LeaveCallback, queue' \in Seq(Nodes), isHostCallbackScheduled' \in BOOLEAN,
         request' \in SUBSET RequestTimes, \A s, t \in request' : s = t
  PROVE  TypeOK'
<1>1. stack # <<>> /\ Top \in Frames /\ Top.kind = "callback"
  BY StackTypes DEF LeaveCallback, TopIs
<1>2. Top.priority \in Priorities /\ Top.expiration \in RequestTimes \cup {-1}
  BY <1>1, FrameTypes
<1>3. /\ stack' \in Seq(Frames) /\ throwing' \in BOOLEAN
      /\ flush' \in {"none", "timedOut", "inFrame"}
  BY <1>1, Popped DEF LeaveCallback, TypeOK
<1> QED
  BY <1>2, <1>3 DEF LeaveCallback, RestoreContext, TypeOK, HostTypeOK

LEMMA CallFirstTypes ==
  ASSUME TypeOK, CallFirst
  PROVE  /\ queue # <<>> /\ stack # <<>>
         /\ stack' \in Seq(Frames)
         /\ Len(stack') = Len(stack) + 1
         /\ \A k \in 1..Len(stack) : /\ stack'[k].kind = stack[k].kind
                                     /\ k < Len(stack) => stack'[k] = stack[k]
         /\ stack'[Len(stack) + 1] = [kind |-> "callback", node |-> Head(queue),
                                      priority |-> currentPriorityLevel,
                                      expiration |-> currentExpirationTime]
<1> DEFINE called == [kind |-> "callback", node |-> Head(queue), priority |-> currentPriorityLevel,
                      expiration |-> currentExpirationTime]
           below == IF Top.kind = "flushWork" THEN [stack EXCEPT ![Len(stack)].started = TRUE] ELSE stack
<1>1. queue # <<>> /\ stack # <<>> /\ Top \in Frames /\ Len(stack) \in 1..Len(stack) /\ Top.kind \in LoopKinds
  BY StackTypes DEF CallFirst, MayCallNext, TopIs, LoopKinds
<1>2. called \in Frames
  BY <1>1, HeadTailProperties DEF TypeOK, Frames
<1>3. CASE Top.kind = "flushWork"
  <2> DEFINE started == [Top EXCEPT !.started = TRUE]
  <2>1. started \in Frames /\ started.kind = "flushWork"
    BY <1>1, <1>3 DEF Frames
  <2>2. below = [stack EXCEPT ![Len(stack)] = started]
    BY <1>3 DEF Top
  <2> HIDE DEF below, started
  <2>3. /\ below \in Seq(Frames) /\ Len(below) = Len(stack)
        /\ \A k \in 1..Len(stack) : below[k] = IF k = Len(stack) THEN started ELSE stack[k]
    BY <1>1, <2>1, <2>2, ExceptSeq DEF TypeOK
  <2>4. ASSUME NEW k \in 1..Len(stack)
        PROVE  below[k].kind = stack[k].kind /\ (k < Len(stack) => below[k] = stack[k])
    <3>1. CASE k = Len(stack)
      BY <3>1, <1>3, <2>1, <2>3 DEF Top
    <3>2. CASE k # Len(stack)
      BY <3>2, <2>3
    <3> QED
      BY <3>1, <3>2, <1>1
  <2>5. stack' = Append(below, called)
    BY DEF CallFirst, below
  <2> HIDE DEF called
  <2>6. /\ stack' \in Seq(Frames) /\ Len(stack') = Len(below) + 1
        /\ \A k \in 1..Len(below) : stack'[k] = below[k]
        /\ stack'[Len(below) + 1] = called
    BY <1>2, <2>3, <2>5, AppendProperties
  <2>7. Len(stack') = Len(stack) + 1 /\ stack'[Len(stack) + 1] = called
    BY <2>3, <2>6
  <2>8. \A k \in 1..Len(stack) : /\ stack'[k].kind = stack[k].kind
                                 /\ k < Len(stack) => stack'[k] = stack[k]
    BY <2>3, <2>4, <2>6
  <2> QED
    BY <1>1, <2>6, <2>7, <2>8 DEF called
<1>4. CASE Top.kind # "flushWork"
  <2>1. stack' = Append(stack, called)
    BY <1>4 DEF CallFirst
  <2> HIDE DEF called
  <2>2. /\ stack' \in Seq(Frames) /\ Len(stack') = Len(stack) + 1
        /\ \A k \in 1..Len(stack) : stack'[k] = stack[k]
        /\ stack'[Len(stack) + 1] = called
    BY <1>2, <2>1, AppendProperties DEF TypeOK
  <2>3. \A k \in 1..Len(stack) : /\ stack'[k].kind = stack[k].kind
                                 /\ k < Len(stack) => stack'[k] = stack[k]
    BY <2>2
  <2> QED
    BY <1>1, <2>2, <2>3 DEF called
<1> QED
  BY <1>3, <1>4

LEMMA TypeStep == TypeOK /\ [SchedulerNext]_vars => TypeOK'
<1> SUFFICES ASSUME TypeOK, [SchedulerNext]_vars PROVE TypeOK'
  OBVIOUS
<1>1. ASSUME NEW timeout \in CustomTimeouts \cup {Timeout[p] : p \in Priorities},
             ScheduleCallback(timeout)
      PROVE  TypeOK'
  BY <1>1, ScheduleCallbackTypes
<1>2. ASSUME NEW i \in 1..Len(queue), CancelCallback(i) PROVE TypeOK'
  <2>1. queue' \in Seq(Nodes)
    BY <1>2, RemoveAtProperties DEF CancelCallback, TypeOK
  <2> QED
    BY <1>2, <2>1 DEF CancelCallback, TypeOK, HostTypeOK, hostVars, contextVars, flagVars
<1>3. ASSUME NEW p \in HandlerPriorities, EnterHandler(p) PROVE TypeOK'
  <2>1. [kind |-> "handler", priority |-> currentPriorityLevel,
         startTime |-> currentEventStartTime] \in Frames
    BY DEF TypeOK, Frames
  <2>2. stack' \in Seq(Frames)
    BY <1>3, <2>1, Pushed DEF EnterHandler
  <2>3. p \in Priorities
    BY SchedulerAssumption
  <2> QED
    BY <1>3, <2>2, <2>3 DEF EnterHandler, TypeOK, HostTypeOK, StartTimes, hostVars, flagVars
<1>4. CASE ExitHandler
  <2>1. stack # <<>> /\ Top \in Frames /\ Top.kind = "handler"
    BY <1>4, StackTypes DEF ExitHandler, TopIs
  <2>2. Top.priority \in Priorities /\ Top.startTime \in StartTimes
    BY <2>1, FrameTypes
  <2>3. /\ stack' \in Seq(Frames) /\ isExecutingCallback' \in BOOLEAN /\ didTimeout' \in BOOLEAN
        /\ throwing' \in BOOLEAN /\ flush' \in {"none", "timedOut", "inFrame"}
    BY <1>4, <2>1, ExitTypes DEF ExitHandler, TypeOK
  <2> QED
    BY <1>4, <2>2, <2>3 DEF ExitHandler, TypeOK, HostTypeOK
<1>5. ASSUME NEW timedOut \in BOOLEAN, HostCallsFlushWork(timedOut) PROVE TypeOK'
  <2>1. [kind |-> "flushWork", started |-> FALSE] \in Frames
    BY DEF Frames
  <2>2. stack' \in Seq(Frames)
    BY <1>5, <2>1, Pushed DEF HostCallsFlushWork
  <2> QED
    BY <1>5, <2>2 DEF HostCallsFlushWork, Invoke, TypeOK, HostTypeOK, contextVars
<1>6. CASE CallFirst
  <2>1. Head(queue) \in Nodes /\ Tail(queue) \in Seq(Nodes)
    BY <1>6, CallFirstTypes, HeadTailProperties DEF TypeOK
  <2>2. Head(queue).priority \in Priorities /\ Head(queue).expiration \in RequestTimes
    BY <2>1 DEF Nodes
  <2> QED
    BY <1>6, <2>1, <2>2, CallFirstTypes DEF CallFirst, TypeOK, HostTypeOK, hostVars, flagVars
<1>7. CASE CallbackReturns
  <2>1. /\ LeaveCallback /\ queue' \in Seq(Nodes) /\ isHostCallbackScheduled' \in BOOLEAN
        /\ request' \in SUBSET RequestTimes /\ \A s, t \in request' : s = t
    BY <1>7 DEF CallbackReturns, TypeOK, HostTypeOK
  <2> QED
    BY <2>1, LeaveCallbackTypes
<1>8. CASE CallbackReturnsContinuation
  <2> DEFINE node == [Top.node EXCEPT !.continued = TRUE]
  <2>1. LeaveCallback /\ stack # <<>> /\ Top \in Frames /\ Top.kind = "callback"
    BY <1>8, StackTypes DEF CallbackReturnsContinuation, LeaveCallback, TopIs
  <2>2. Top.node \in Nodes
    BY <2>1, FrameTypes
  <2>3. node \in Nodes /\ Top.node.expiration \in RequestTimes
    BY <2>2 DEF Nodes
  <2>4. PICK i \in 1..(Len(queue) + 1) :
          /\ queue' = InsertAt(queue, i, node)
          /\ \/ EnsureHostCallbackIsScheduled(<<Top.node>>)
             \/ UNCHANGED <<isHostCallbackScheduled, request>>
    BY <1>8 DEF CallbackReturnsContinuation
  <2>5. Head(<<Top.node>>) = Top.node
    OBVIOUS
  <2> HIDE DEF node
  <2>6. queue' \in Seq(Nodes)
    BY <2>3, <2>4, InsertAtProperties DEF TypeOK
  <2>7. /\ isHostCallbackScheduled' \in BOOLEAN
        /\ request' \in SUBSET RequestTimes /\ \A s, t \in request' : s = t
    BY <2>3, <2>4, <2>5, EnsureTypes
  <2> QED
    BY <2>1, <2>6, <2>7, LeaveCallbackTypes
<1>9. CASE FlushWorkEnds
  <2>1. stack # <<>>
    BY <1>9 DEF FlushWorkEnds, TopIs
  <2>2. /\ isHostCallbackScheduled' \in BOOLEAN
        /\ request' \in SUBSET RequestTimes /\ \A s, t \in request' : s = t
    BY <1>9, RemainingTypes DEF FlushWorkEnds
  <2>3. /\ stack' \in Seq(Frames) /\ isExecutingCallback' \in BOOLEAN /\ didTimeout' \in BOOLEAN
        /\ throwing' \in BOOLEAN /\ flush' \in {"none", "timedOut", "inFrame"}
    BY <1>9, <2>1, ExitTypes DEF FlushWorkEnds
  <2> QED
    BY <1>9, <2>2, <2>3 DEF FlushWorkEnds, TypeOK, HostTypeOK, contextVars
<1>10. CASE FlushImmediateWorkEnds
  <2>1. stack # <<>> /\ Top \in Frames /\ Top.kind = "immediate"
    BY <1>10, StackTypes DEF FlushImmediateWorkEnds, TopIs
  <2>2. Top.rethrow \in BOOLEAN
    BY <2>1, FrameTypes
  <2>3. (throwing \/ Top.rethrow) \in BOOLEAN
    OBVIOUS
  <2>4. /\ isHostCallbackScheduled' \in BOOLEAN
        /\ request' \in SUBSET RequestTimes /\ \A s, t \in request' : s = t
    BY <1>10, RemainingTypes DEF FlushImmediateWorkEnds
  <2>5. /\ stack' \in Seq(Frames) /\ throwing' \in BOOLEAN
        /\ flush' \in {"none", "timedOut", "inFrame"}
    BY <1>10, <2>1, <2>3, Popped DEF FlushImmediateWorkEnds
  <2> QED
    BY <1>10, <2>4, <2>5 DEF FlushImmediateWorkEnds, TypeOK, HostTypeOK, contextVars
<1>11. CASE Throw \/ Catch
  BY <1>11 DEF Throw, Catch, TypeOK, HostTypeOK, hostVars, contextVars, flagVars
<1>12. CASE Tick
  <2>1. now' \in 0..MaxTime
    BY <1>12, SchedulerAssumption DEF Tick, TypeOK
  <2> QED
    BY <1>12, <2>1 DEF Tick, TypeOK, HostTypeOK, hostVars, contextVars, flagVars
<1>13. CASE UNCHANGED vars
  BY <1>13 DEF vars, TypeOK, HostTypeOK, hostVars, contextVars, flagVars
<1>14. ASSUME ScheduleCallback(Timeout[currentPriorityLevel]) PROVE TypeOK'
  <2>1. Timeout[currentPriorityLevel] \in CustomTimeouts \cup {Timeout[p] : p \in Priorities}
    BY DEF TypeOK
  <2> QED
    BY <1>1, <1>14, <2>1
<1>15. ASSUME NEW timeout \in CustomTimeouts, ScheduleCallback(timeout) PROVE TypeOK'
  BY <1>1, <1>15
<1> QED
  BY <1>2, <1>3, <1>4, <1>5, <1>6, <1>7, <1>8, <1>9, <1>10, <1>11, <1>12, <1>13, <1>14, <1>15
  DEF SchedulerNext

(* The queue, the stack, the context and the requests keep their types.    *)
THEOREM TypeCorrect == SchedulerSpec => []TypeOK
  BY InitTypeOK, TypeStep, PTL DEF SchedulerSpec

-----------------------------------------------------------------------------
(* The frames a step leaves alone; that a loop has started may be noted.   *)
Kept(n) ==
  \A k \in 1..n : /\ stack'[k].kind = stack[k].kind
                  /\ stack[k].kind \in {"callback", "handler"} => stack'[k] = stack[k]

Pushes(n, f) == Len(stack') = n + 1 /\ Kept(n) /\ stack'[n + 1] = f

(* The last frame goes, or the loop for immediate work takes its place.    *)
Drops(n) ==
  /\ Kept(n - 1)
  /\ Len(stack') = n - 1 \/ (Len(stack') = n /\ stack'[n].kind = "immediate")

LEMMA OutermostAfterPush ==
  ASSUME NEW n \in Nat, n = Len(stack), NEW f, Pushes(n, f), NEW kinds
  PROVE  /\ HasNone(kinds)' <=> HasNone(kinds) /\ f.kind \notin kinds
         /\ \A i \in 1..n : IsOutermost(i, kinds)' <=> IsOutermost(i, kinds)
         /\ IsOutermost(n + 1, kinds)' <=> HasNone(kinds) /\ f.kind \in kinds
<1>1. /\ Len(stack') = n + 1 /\ stack'[n + 1] = f
      /\ \A k \in 1..n : stack'[k].kind = stack[k].kind
  BY DEF Pushes, Kept
<1>2. HasNone(kinds)' <=> HasNone(kinds) /\ f.kind \notin kinds
  BY <1>1 DEF HasNone
<1>3. \A i \in 1..n : IsOutermost(i, kinds)' <=> IsOutermost(i, kinds)
  BY <1>1 DEF IsOutermost
<1>4. IsOutermost(n + 1, kinds)' <=> HasNone(kinds) /\ f.kind \in kinds
  <2>1. (n + 1) - 1 = n
    OBVIOUS
  <2> QED
    BY <1>1, <2>1 DEF IsOutermost, HasNone
<1> QED
  BY <1>2, <1>3, <1>4

LEMMA OutermostAfterDrop ==
  ASSUME NEW n \in Nat \ {0}, n = Len(stack), Drops(n),
         NEW kinds \in SUBSET {"callback", "handler"}
  PROVE  /\ HasNone(kinds)' => HasNone(kinds) \/ IsOutermost(n, kinds)
         /\ \A i \in 1..Len(stack') :
              IsOutermost(i, kinds)' => i \in 1..(n - 1) /\ IsOutermost(i, kinds)
<1>1. /\ \A k \in 1..(n - 1) : stack'[k].kind = stack[k].kind
      /\ Len(stack') = n - 1 \/ (Len(stack') = n /\ stack'[n].kind = "immediate")
  BY DEF Drops, Kept
<1>2. HasNone(kinds)' => HasNone(kinds) \/ IsOutermost(n, kinds)
  BY <1>1 DEF HasNone, IsOutermost
<1>3. ASSUME NEW i \in 1..Len(stack'), IsOutermost(i, kinds)'
      PROVE  i \in 1..(n - 1) /\ IsOutermost(i, kinds)
  <2>1. stack'[i].kind \in kinds /\ \A j \in 1..(i - 1) : stack'[j].kind \notin kinds
    BY <1>3 DEF IsOutermost
  <2>2. i \in 1..(n - 1)
    BY <1>1, <2>1
  <2>3. stack[i].kind \in kinds
    BY <1>1, <2>1, <2>2
  <2>4. ASSUME NEW j \in 1..(i - 1) PROVE stack[j].kind \notin kinds
    <3>1. j \in 1..(n - 1)
      BY <2>2
    <3> QED
      BY <1>1, <2>1, <3>1
  <2> QED
    BY <2>2, <2>3, <2>4 DEF IsOutermost
<1> QED
  BY <1>2, <1>3

LEMMA LoopsAfterPush ==
  ASSUME NEW n \in Nat, n = Len(stack), NEW f, Pushes(n, f), CallbacksAreInLoops,
         f.kind = "callback" => n > 0 /\ stack[n].kind \in LoopKinds
  PROVE  CallbacksAreInLoops' /\ (InLoop' <=> InLoop \/ f.kind \in LoopKinds)
<1>1. /\ Len(stack') = n + 1 /\ stack'[n + 1] = f
      /\ \A k \in 1..n : stack'[k].kind = stack[k].kind
  BY DEF Pushes, Kept
<1>2. InLoop' <=> InLoop \/ f.kind \in LoopKinds
  BY <1>1 DEF InLoop, LoopKinds
<1>3. ASSUME NEW i \in 1..(n + 1), stack'[i].kind = "callback"
      PROVE  i > 1 /\ stack'[i - 1].kind \in LoopKinds
  <2>1. CASE i = n + 1
    <3>1. n > 0 /\ stack[n].kind \in LoopKinds /\ n \in 1..n
      BY <1>1, <1>3, <2>1
    <3> QED
      BY <1>1, <2>1, <3>1
  <2>2. CASE i \in 1..n
    <3>1. i > 1 /\ stack[i - 1].kind \in LoopKinds /\ i - 1 \in 1..n
      BY <1>1, <1>3, <2>2 DEF CallbacksAreInLoops
    <3> QED
      BY <1>1, <3>1
  <2> QED
    BY <2>1, <2>2
<1> QED
  BY <1>1, <1>2, <1>3 DEF CallbacksAreInLoops

LEMMA LoopsAfterDrop ==
  ASSUME NEW n \in Nat \ {0}, n = Len(stack), Drops(n), CallbacksAreInLoops
  PROVE  /\ CallbacksAreInLoops'
         /\ Len(stack') = n => InLoop'
         /\ Len(stack') = n - 1 /\ stack[n].kind \notin LoopKinds => (InLoop' <=> InLoop)
<1>1. /\ \A k \in 1..(n - 1) : stack'[k].kind = stack[k].kind
      /\ Len(stack') = n - 1 \/ (Len(stack') = n /\ stack'[n].kind = "immediate")
  BY DEF Drops, Kept
<1>2. Len(stack') = n => InLoop'
  BY <1>1 DEF InLoop
<1>3. Len(stack') = n - 1 /\ stack[n].kind \notin LoopKinds => (InLoop' <=> InLoop)
  <2> SUFFICES ASSUME Len(stack') = n - 1, stack[n].kind \notin LoopKinds PROVE InLoop' <=> InLoop
    OBVIOUS
  <2>1. InLoop <=> \E i \in 1..(n - 1) : stack[i].kind \in LoopKinds
    BY DEF InLoop, LoopKinds
  <2> QED
    BY <1>1, <2>1 DEF InLoop, LoopKinds
<1>4. ASSUME NEW i \in 1..Len(stack'), stack'[i].kind = "callback"
      PROVE  i > 1 /\ stack'[i - 1].kind \in LoopKinds
  <2>1. i \in 1..(n - 1)
    BY <1>1, <1>4
  <2>2. i > 1 /\ stack[i - 1].kind \in LoopKinds
    BY <1>1, <1>4, <2>1 DEF CallbacksAreInLoops
  <2>3. i - 1 \in 1..(n - 1)
    BY <2>1, <2>2
  <2> QED
    BY <1>1, <2>2, <2>3
<1> QED
  BY <1>2, <1>3, <1>4 DEF CallbacksAreInLoops

-----------------------------------------------------------------------------
(* Which actions push and which drop.                                      *)
LEMMA PopDrops ==
  ASSUME TypeOK, stack # <<>>, NEW e \in BOOLEAN, Pop(e)
  PROVE  Drops(Len(stack)) /\ Len(stack') = Len(stack) - 1
  BY Popped, StackTypes DEF Drops, Kept

LEMMA ExitDrops ==
  ASSUME TypeOK, stack # <<>>, NEW startTime, NEW executing \in BOOLEAN,
         ExitFlushingImmediateWork(startTime, executing)
  PROVE  /\ Drops(Len(stack))
         /\ Len(stack') = Len(stack) - 1 => isExecutingCallback' = executing
<1>1. Len(stack) \in Nat /\ Len(stack) # Len(stack) - 1
  BY StackTypes
<1>2. CASE startTime = -1 /\ NextIsImmediate
  <2>1. [kind |-> "immediate", rethrow |-> throwing] \in Frames
    BY DEF TypeOK, Frames
  <2>2. /\ Len(stack') = Len(stack)
        /\ \A k \in 1..Len(stack) :
             stack'[k] = IF k = Len(stack) THEN [kind |-> "immediate", rethrow |-> throwing] ELSE stack[k]
    BY <1>2, <2>1, Replaced DEF ExitFlushingImmediateWork
  <2>3. Len(stack) \in 1..Len(stack) /\ \A k \in 1..(Len(stack) - 1) : k \in 1..Len(stack) /\ k # Len(stack)
    BY <1>1, StackTypes
  <2> QED
    BY <1>1, <2>2, <2>3 DEF Drops, Kept
<1>3. CASE ~(startTime = -1 /\ NextIsImmediate)
  BY <1>3, PopDrops DEF ExitFlushingImmediateWork, TypeOK
<1> QED
  BY <1>2, <1>3

LEMMA CallFirstPushes ==
  ASSUME TypeOK, CallFirst
  PROVE  Pushes(Len(stack), [kind |-> "callback", node |-> Head(queue),
                             priority |-> currentPriorityLevel, expiration |-> currentExpirationTime])
<1>0. \A k \in 1..Len(stack) : /\ stack'[k].kind = stack[k].kind
                               /\ k < Len(stack) => stack'[k] = stack[k]
  BY CallFirstTypes
<1>1. \A k \in 1..Len(stack) :
        /\ stack'[k].kind = stack[k].kind
        /\ stack[k].kind \in {"callback", "handler"} => stack'[k] = stack[k]
  <2> SUFFICES ASSUME NEW k \in 1..Len(stack)
               PROVE  /\ stack'[k].kind = stack[k].kind
                      /\ stack[k].kind \in {"callback", "handler"} => stack'[k] = stack[k]
    OBVIOUS
  <2>1. CASE k = Len(stack)
    BY <2>1, CallFirstTypes DEF CallFirst, TopIs, Top
  <2>2. CASE k < Len(stack)
    BY <1>0, <2>2
  <2> QED
    BY <2>1, <2>2, StackTypes
<1> QED
  BY <1>1, CallFirstTypes DEF Pushes, Kept

LEMMA InitControl == SchedulerInit => ControlInv
<1> SUFFICES ASSUME SchedulerInit PROVE ControlInv
  OBVIOUS
<1>1. Len(stack) = 0
  BY EmptySeq DEF SchedulerInit
<1> QED
  BY <1>1 DEF SchedulerInit, ControlInv, CallbacksAreInLoops, ExecutingInLoops,
              PriorityIsSaved, ExpirationIsSaved, StartTimeIsSaved

LEMMA PriorityIsSavedAfterPush ==
  ASSUME NEW n \in Nat, n = Len(stack), NEW f, Pushes(n, f), PriorityIsSaved,
         IF f.kind \in {"callback", "handler"} THEN f.priority = currentPriorityLevel ELSE UNCHANGED currentPriorityLevel
  PROVE  PriorityIsSaved'
<1> DEFINE kinds == {"callback", "handler"}
<1>1. /\ Len(stack') = n + 1 /\ stack'[n + 1] = f
      /\ \A i \in 1..n : stack[i].kind \in {"callback", "handler"} => stack'[i] = stack[i]
  BY DEF Pushes, Kept
<1>2. /\ HasNone(kinds)' <=> HasNone(kinds) /\ f.kind \notin kinds
      /\ \A i \in 1..n : IsOutermost(i, kinds)' <=> IsOutermost(i, kinds)
      /\ IsOutermost(n + 1, kinds)' <=> HasNone(kinds) /\ f.kind \in kinds
  BY OutermostAfterPush
<1>3. HasNone(kinds)' => currentPriorityLevel' = Normal
  BY <1>2 DEF PriorityIsSaved
<1>4. ASSUME NEW i \in 1..(n + 1), IsOutermost(i, kinds)' PROVE stack'[i].priority = Normal
  <2>1. CASE i = n + 1
    BY <1>1, <1>2, <1>4, <2>1 DEF PriorityIsSaved
  <2>2. CASE i \in 1..n
    <3>1. IsOutermost(i, kinds) /\ stack[i].kind \in kinds
      BY <1>2, <1>4, <2>2 DEF IsOutermost
    <3> QED
      BY <1>1, <2>2, <3>1 DEF PriorityIsSaved
  <2> QED
    BY <2>1, <2>2
<1> QED
  BY <1>1, <1>3, <1>4 DEF PriorityIsSaved

LEMMA PriorityIsSavedAfterDrop ==
  ASSUME NEW n \in Nat \ {0}, n = Len(stack), Drops(n), PriorityIsSaved,
         currentPriorityLevel' = IF stack[n].kind \in {"callback", "handler"} THEN stack[n].priority ELSE currentPriorityLevel
  PROVE  PriorityIsSaved'
<1> DEFINE kinds == {"callback", "handler"}
<1>1. \A i \in 1..(n - 1) : stack[i].kind \in {"callback", "handler"} => stack'[i] = stack[i]
  BY DEF Drops, Kept
<1>2. /\ HasNone(kinds)' => HasNone(kinds) \/ IsOutermost(n, kinds)
      /\ \A i \in 1..Len(stack') :
           IsOutermost(i, kinds)' => i \in 1..(n - 1) /\ IsOutermost(i, kinds)
  BY OutermostAfterDrop
<1>3. ASSUME HasNone(kinds)' PROVE currentPriorityLevel' = Normal
  <2>1. CASE HasNone(kinds)
    BY <2>1 DEF PriorityIsSaved, HasNone
  <2>2. CASE IsOutermost(n, kinds)
    BY <2>2 DEF PriorityIsSaved, IsOutermost
  <2> QED
    BY <1>2, <1>3, <2>1, <2>2
<1>4. ASSUME NEW i \in 1..Len(stack'), IsOutermost(i, kinds)' PROVE stack'[i].priority = Normal
  <2>1. i \in 1..(n - 1) /\ IsOutermost(i, kinds) /\ stack[i].kind \in kinds
    BY <1>2, <1>4 DEF IsOutermost
  <2> QED
    BY <1>1, <2>1 DEF PriorityIsSaved
<1> QED
  BY <1>3, <1>4 DEF PriorityIsSaved

LEMMA ExpirationIsSavedAfterPush ==
  ASSUME NEW n \in Nat, n = Len(stack), NEW f, Pushes(n, f), ExpirationIsSaved,
         IF f.kind \in {"callback"} THEN f.expiration = currentExpirationTime ELSE UNCHANGED currentExpirationTime
  PROVE  ExpirationIsSaved'
<1> DEFINE kinds == {"callback"}
<1>1. /\ Len(stack') = n + 1 /\ stack'[n + 1] = f
      /\ \A i \in 1..n : stack[i].kind \in {"callback", "handler"} => stack'[i] = stack[i]
  BY DEF Pushes, Kept
<1>2. /\ HasNone(kinds)' <=> HasNone(kinds) /\ f.kind \notin kinds
      /\ \A i \in 1..n : IsOutermost(i, kinds)' <=> IsOutermost(i, kinds)
      /\ IsOutermost(n + 1, kinds)' <=> HasNone(kinds) /\ f.kind \in kinds
  BY OutermostAfterPush
<1>3. HasNone(kinds)' => currentExpirationTime' = -1
  BY <1>2 DEF ExpirationIsSaved
<1>4. ASSUME NEW i \in 1..(n + 1), IsOutermost(i, kinds)' PROVE stack'[i].expiration = -1
  <2>1. CASE i = n + 1
    BY <1>1, <1>2, <1>4, <2>1 DEF ExpirationIsSaved
  <2>2. CASE i \in 1..n
    <3>1. IsOutermost(i, kinds) /\ stack[i].kind \in kinds
      BY <1>2, <1>4, <2>2 DEF IsOutermost
    <3> QED
      BY <1>1, <2>2, <3>1 DEF ExpirationIsSaved
  <2> QED
    BY <2>1, <2>2
<1> QED
  BY <1>1, <1>3, <1>4 DEF ExpirationIsSaved

LEMMA ExpirationIsSavedAfterDrop ==
  ASSUME NEW n \in Nat \ {0}, n = Len(stack), Drops(n), ExpirationIsSaved,
         currentExpirationTime' = IF stack[n].kind \in {"callback"} THEN stack[n].expiration ELSE currentExpirationTime
  PROVE  ExpirationIsSaved'
<1> DEFINE kinds == {"callback"}
<1>1. \A i \in 1..(n - 1) : stack[i].kind \in {"callback", "handler"} => stack'[i] = stack[i]
  BY DEF Drops, Kept
<1>2. /\ HasNone(kinds)' => HasNone(kinds) \/ IsOutermost(n, kinds)
      /\ \A i \in 1..Len(stack') :
           IsOutermost(i, kinds)' => i \in 1..(n - 1) /\ IsOutermost(i, kinds)
  BY OutermostAfterDrop
<1>3. ASSUME HasNone(kinds)' PROVE currentExpirationTime' = -1
  <2>1. CASE HasNone(kinds)
    BY <2>1 DEF ExpirationIsSaved, HasNone
  <2>2. CASE IsOutermost(n, kinds)
    BY <2>2 DEF ExpirationIsSaved, IsOutermost
  <2> QED
    BY <1>2, <1>3, <2>1, <2>2
<1>4. ASSUME NEW i \in 1..Len(stack'), IsOutermost(i, kinds)' PROVE stack'[i].expiration = -1
  <2>1. i \in 1..(n - 1) /\ IsOutermost(i, kinds) /\ stack[i].kind \in kinds
    BY <1>2, <1>4 DEF IsOutermost
  <2> QED
    BY <1>1, <2>1 DEF ExpirationIsSaved
<1> QED
  BY <1>3, <1>4 DEF ExpirationIsSaved

LEMMA StartTimeIsSavedAfterPush ==
  ASSUME NEW n \in Nat, n = Len(stack), NEW f, Pushes(n, f), StartTimeIsSaved,
         IF f.kind \in {"handler"} THEN f.startTime = currentEventStartTime ELSE UNCHANGED currentEventStartTime
  PROVE  StartTimeIsSaved'
<1> DEFINE kinds == {"handler"}
<1>1. /\ Len(stack') = n + 1 /\ stack'[n + 1] = f
      /\ \A i \in 1..n : stack[i].kind \in {"callback", "handler"} => stack'[i] = stack[i]
  BY DEF Pushes, Kept
<1>2. /\ HasNone(kinds)' <=> HasNone(kinds) /\ f.kind \notin kinds
      /\ \A i \in 1..n : IsOutermost(i, kinds)' <=> IsOutermost(i, kinds)
      /\ IsOutermost(n + 1, kinds)' <=> HasNone(kinds) /\ f.kind \in kinds
  BY OutermostAfterPush
<1>3. HasNone(kinds)' => currentEventStartTime' = -1
  BY <1>2 DEF StartTimeIsSaved
<1>4. ASSUME NEW i \in 1..(n + 1), IsOutermost(i, kinds)' PROVE stack'[i].startTime = -1
  <2>1. CASE i = n + 1
    BY <1>1, <1>2, <1>4, <2>1 DEF StartTimeIsSaved
  <2>2. CASE i \in 1..n
    <3>1. IsOutermost(i, kinds) /\ stack[i].kind \in kinds
      BY <1>2, <1>4, <2>2 DEF IsOutermost
    <3> QED
      BY <1>1, <2>2, <3>1 DEF StartTimeIsSaved
  <2> QED
    BY <2>1, <2>2
<1> QED
  BY <1>1, <1>3, <1>4 DEF StartTimeIsSaved

LEMMA StartTimeIsSavedAfterDrop ==
  ASSUME NEW n \in Nat \ {0}, n = Len(stack), Drops(n), StartTimeIsSaved,
         currentEventStartTime' = IF stack[n].kind \in {"handler"} THEN stack[n].startTime ELSE currentEventStartTime
  PROVE  StartTimeIsSaved'
<1> DEFINE kinds == {"handler"}
<1>1. \A i \in 1..(n - 1) : stack[i].kind \in {"callback", "handler"} => stack'[i] = stack[i]
  BY DEF Drops, Kept
<1>2. /\ HasNone(kinds)' => HasNone(kinds) \/ IsOutermost(n, kinds)
      /\ \A i \in 1..Len(stack') :
           IsOutermost(i, kinds)' => i \in 1..(n - 1) /\ IsOutermost(i, kinds)
  BY OutermostAfterDrop
<1>3. ASSUME HasNone(kinds)' PROVE currentEventStartTime' = -1
  <2>1. CASE HasNone(kinds)
    BY <2>1 DEF StartTimeIsSaved, HasNone
  <2>2. CASE IsOutermost(n, kinds)
    BY <2>2 DEF StartTimeIsSaved, IsOutermost
  <2> QED
    BY <1>2, <1>3, <2>1, <2>2
<1>4. ASSUME NEW i \in 1..Len(stack'), IsOutermost(i, kinds)' PROVE stack'[i].startTime = -1
  <2>1. i \in 1..(n - 1) /\ IsOutermost(i, kinds) /\ stack[i].kind \in kinds
    BY <1>2, <1>4 DEF IsOutermost
  <2> QED
    BY <1>1, <2>1 DEF StartTimeIsSaved
<1> QED
  BY <1>3, <1>4 DEF StartTimeIsSaved

LEMMA ControlAfterPush ==
  ASSUME TypeOK, ControlInv, NEW f, Pushes(Len(stack), f),
         IF f.kind \in {"callback", "handler"}
         THEN f.priority = currentPriorityLevel ELSE UNCHANGED currentPriorityLevel,
         IF f.kind \in {"callback"}
         THEN f.expiration = currentExpirationTime ELSE UNCHANGED currentExpirationTime,
         IF f.kind \in {"handler"}
         THEN f.startTime = currentEventStartTime ELSE UNCHANGED currentEventStartTime,
         f.kind = "callback" => stack # <<>> /\ Top.kind \in LoopKinds,
         isExecutingCallback' => isExecutingCallback \/ f.kind \in LoopKinds
  PROVE  ControlInv'
<1>1. PICK n \in Nat : n = Len(stack)
  BY StackTypes
<1>2. Pushes(n, f)
  BY <1>1
<1>3. f.kind = "callback" => n > 0 /\ stack[n].kind \in LoopKinds
  BY <1>1, StackTypes DEF Top
<1>4. CallbacksAreInLoops' /\ ExecutingInLoops'
  BY <1>1, <1>2, <1>3, LoopsAfterPush DEF ControlInv, ExecutingInLoops
<1>5. PriorityIsSaved'
  BY <1>1, <1>2, PriorityIsSavedAfterPush DEF ControlInv
<1>6. ExpirationIsSaved'
  BY <1>1, <1>2, ExpirationIsSavedAfterPush DEF ControlInv
<1>7. StartTimeIsSaved'
  BY <1>1, <1>2, StartTimeIsSavedAfterPush DEF ControlInv
<1> QED
  BY <1>4, <1>5, <1>6, <1>7 DEF ControlInv

LEMMA ControlAfterDrop ==
  ASSUME TypeOK, ControlInv, stack # <<>>, Drops(Len(stack)),
         currentPriorityLevel' = IF Top.kind \in {"callback", "handler"}
                                 THEN Top.priority ELSE currentPriorityLevel,
         currentExpirationTime' = IF Top.kind \in {"callback"}
                                  THEN Top.expiration ELSE currentExpirationTime,
         currentEventStartTime' = IF Top.kind \in {"handler"}
                                  THEN Top.startTime ELSE currentEventStartTime,
         Len(stack') = Len(stack) - 1 =>
           ~isExecutingCallback' \/ (Top.kind \notin LoopKinds /\ UNCHANGED isExecutingCallback)
  PROVE  ControlInv'
<1>1. PICK n \in Nat \ {0} : n = Len(stack)
  BY StackTypes
<1>2. Drops(n) /\ Top = stack[n]
  BY <1>1 DEF Top
<1>3. /\ CallbacksAreInLoops'
      /\ Len(stack') = n => InLoop'
      /\ Len(stack') = n - 1 /\ stack[n].kind \notin LoopKinds => (InLoop' <=> InLoop)
      /\ Len(stack') = n - 1 \/ Len(stack') = n
  BY <1>1, <1>2, LoopsAfterDrop DEF ControlInv, Drops
<1>4. ExecutingInLoops'
  BY <1>1, <1>2, <1>3 DEF ControlInv, ExecutingInLoops
<1>5. PriorityIsSaved'
  BY <1>1, <1>2, PriorityIsSavedAfterDrop DEF ControlInv
<1>6. ExpirationIsSaved'
  BY <1>1, <1>2, ExpirationIsSavedAfterDrop DEF ControlInv
<1>7. StartTimeIsSaved'
  BY <1>1, <1>2, StartTimeIsSavedAfterDrop DEF ControlInv
<1> QED
  BY <1>3, <1>4, <1>5, <1>6, <1>7 DEF ControlInv

LEMMA ControlUnmoved ==
  ASSUME ControlInv, UNCHANGED <<stack, contextVars, isExecutingCallback>>
  PROVE  ControlInv'
  BY DEF ControlInv, CallbacksAreInLoops, ExecutingInLoops, InLoop, PriorityIsSaved,
         ExpirationIsSaved, StartTimeIsSaved, HasNone, IsOutermost, contextVars

LEMMA ControlStep == TypeOK /\ ControlInv /\ [SchedulerNext]_vars => ControlInv'
<1> SUFFICES ASSUME TypeOK, ControlInv, [SchedulerNext]_vars PROVE ControlInv'
  OBVIOUS
<1>1. ASSUME NEW timeout, ScheduleCallback(timeout) PROVE ControlInv'
  BY <1>1, ControlUnmoved DEF ScheduleCallback
<1>2. ASSUME NEW i \in 1..Len(queue), CancelCallback(i) PROVE ControlInv'
  BY <1>2, ControlUnmoved DEF CancelCallback, flagVars
<1>3. ASSUME NEW p \in HandlerPriorities, EnterHandler(p) PROVE ControlInv'
  <2> DEFINE f == [kind |-> "handler", priority |-> currentPriorityLevel,
                   startTime |-> currentEventStartTime]
  <2>1. /\ f \in Frames /\ f.kind = "handler"
        /\ f.priority = currentPriorityLevel /\ f.startTime = currentEventStartTime
    BY DEF TypeOK, Frames
  <2>2. Push(f) /\ UNCHANGED <<currentExpirationTime, isExecutingCallback>>
    BY <1>3 DEF EnterHandler, flagVars
  <2> HIDE DEF f
  <2>3. Pushes(Len(stack), f)
    BY <2>1, <2>2, Pushed DEF Pushes, Kept
  <2> QED
    BY <2>1, <2>2, <2>3, ControlAfterPush
<1>4. CASE ExitHandler
  <2>1. stack # <<>> /\ Top.kind = "handler"
    BY <1>4 DEF ExitHandler, TopIs
  <2>2. /\ ExitFlushingImmediateWork(Top.startTime, isExecutingCallback)
        /\ currentPriorityLevel' = Top.priority /\ currentEventStartTime' = Top.startTime
        /\ UNCHANGED currentExpirationTime
    BY <1>4 DEF ExitHandler
  <2>3. Drops(Len(stack)) /\ (Len(stack') = Len(stack) - 1 => UNCHANGED isExecutingCallback)
    BY <2>1, <2>2, ExitDrops DEF TypeOK
  <2> QED
    BY <2>1, <2>2, <2>3, ControlAfterDrop DEF LoopKinds
<1>5. ASSUME NEW timedOut \in BOOLEAN, HostCallsFlushWork(timedOut) PROVE ControlInv'
  <2> DEFINE f == [kind |-> "flushWork", started |-> FALSE]
  <2>1. f \in Frames /\ f.kind = "flushWork"
    BY DEF Frames
  <2>2. Push(f) /\ UNCHANGED contextVars
    BY <1>5 DEF HostCallsFlushWork
  <2> HIDE DEF f
  <2>3. Pushes(Len(stack), f)
    BY <2>1, <2>2, Pushed DEF Pushes, Kept
  <2> QED
    BY <2>1, <2>2, <2>3, ControlAfterPush DEF LoopKinds, contextVars
<1>6. CASE CallFirst
  <2> DEFINE f == [kind |-> "callback", node |-> Head(queue), priority |-> currentPriorityLevel,
                   expiration |-> currentExpirationTime]
  <2>1. /\ f.kind = "callback"
        /\ f.priority = currentPriorityLevel /\ f.expiration = currentExpirationTime
    OBVIOUS
  <2>2. /\ stack # <<>> /\ Top.kind \in LoopKinds
        /\ UNCHANGED <<currentEventStartTime, isExecutingCallback>>
    BY <1>6 DEF CallFirst, TopIs, LoopKinds, flagVars
  <2>3. Pushes(Len(stack), f)
    BY <1>6, CallFirstPushes
  <2> HIDE DEF f
  <2> QED
    BY <2>1, <2>2, <2>3, ControlAfterPush
<1>7. CASE LeaveCallback
  <2>1. stack # <<>> /\ Top.kind = "callback"
    BY <1>7 DEF LeaveCallback, TopIs
  <2>2. /\ Pop(throwing)
        /\ currentPriorityLevel' = Top.priority /\ currentExpirationTime' = Top.expiration
        /\ UNCHANGED <<currentEventStartTime, isExecutingCallback>>
    BY <1>7 DEF LeaveCallback, RestoreContext
  <2>3. Drops(Len(stack))
    BY <2>1, <2>2, PopDrops DEF TypeOK
  <2> QED
    BY <2>1, <2>2, <2>3, ControlAfterDrop DEF LoopKinds
<1>8. CASE FlushWorkEnds
  <2>1. stack # <<>> /\ Top.kind = "flushWork"
    BY <1>8 DEF FlushWorkEnds, TopIs
  <2>2. ExitFlushingImmediateWork(currentEventStartTime, FALSE) /\ UNCHANGED contextVars
    BY <1>8 DEF FlushWorkEnds
  <2>3. Drops(Len(stack)) /\ (Len(stack') = Len(stack) - 1 => ~isExecutingCallback')
    BY <2>1, <2>2, ExitDrops
  <2> QED
    BY <2>1, <2>2, <2>3, ControlAfterDrop DEF contextVars
<1>9. CASE FlushImmediateWorkEnds
  <2>1. stack # <<>> /\ Top \in Frames /\ Top.kind = "immediate"
    BY <1>9, StackTypes DEF FlushImmediateWorkEnds, TopIs
  <2>2. Pop(throwing \/ Top.rethrow) /\ ~isExecutingCallback' /\ UNCHANGED contextVars
    BY <1>9 DEF FlushImmediateWorkEnds
  <2>3. (throwing \/ Top.rethrow) \in BOOLEAN
    OBVIOUS
  <2>4. Drops(Len(stack))
    BY <2>1, <2>2, <2>3, PopDrops
  <2> QED
    BY <2>1, <2>2, <2>4, ControlAfterDrop DEF contextVars
<1>10. CASE Throw \/ Catch \/ Tick \/ UNCHANGED vars
  BY <1>10, ControlUnmoved DEF Throw, Catch, Tick, vars, flagVars
<1> QED
  BY <1>1, <1>2, <1>3, <1>4, <1>5, <1>6, <1>7, <1>8, <1>9, <1>10
  DEF SchedulerNext, CallbackReturns, CallbackReturnsContinuation

(* Between tasks the priority, the event time and the expiration are what  *)
(* they were at the start and no loop is under way, however handlers and   *)
(* callbacks were nested and whichever of them threw.                      *)
THEOREM ContextRestored == SchedulerSpec => []ContextIsRestored
<1>1. ControlInv => ContextIsRestored
  <2> SUFFICES ASSUME ControlInv, stack = <<>> PROVE ContextIsRestored
    BY DEF ContextIsRestored
  <2>1. Len(stack) = 0
    BY EmptySeq
  <2> QED
    BY <2>1 DEF ControlInv, ExecutingInLoops, InLoop, PriorityIsSaved, ExpirationIsSaved,
                StartTimeIsSaved, HasNone, ContextIsRestored
<1> QED
  BY <1>1, InitControl, ControlStep, TypeCorrect, PTL DEF SchedulerSpec

-----------------------------------------------------------------------------
(* The order.                                                              *)
LEMMA NodeTypes ==
  ASSUME NEW n \in Nodes
  PROVE  n.id \in Nat /\ n.expiration \in Int
  BY RequestTimesAssumption DEF Nodes

LEMMA RunningTypes == TypeOK => Running \in SUBSET Nodes
  BY StackTypes, FrameTypes DEF Running

LEMMA QueueTypes ==
  ASSUME TypeOK
  PROVE  /\ Len(queue) \in Nat
         /\ \A i \in 1..Len(queue) : queue[i] \in Nodes
  BY LenProperties, ElementOfSeq DEF TypeOK

LEMMA RunningAfterPush ==
  ASSUME NEW n \in Nat, n = Len(stack), NEW f, Pushes(n, f), NestedAreBehind,
         f.kind = "callback" => \A r \in Running : IsBehind(r, f.node)
  PROVE  /\ Running' \in SUBSET (Running \cup {f.node})
         /\ f.kind # "callback" => Running' \in SUBSET Running
         /\ NestedAreBehind'
<1>1. /\ Len(stack') = n + 1 /\ stack'[n + 1] = f
      /\ \A i \in 1..n : /\ stack'[i].kind = stack[i].kind
                         /\ stack[i].kind = "callback" => stack'[i] = stack[i]
  BY DEF Pushes, Kept
<1>2. \A i \in 1..n : stack[i].kind = "callback" => stack[i].node \in Running
  BY DEF Running
<1>3. ASSUME NEW r \in Running'
      PROVE  r \in Running \/ (r = f.node /\ f.kind = "callback")
  <2>1. PICK i \in 1..(n + 1) : stack'[i].kind = "callback" /\ r = stack'[i].node
    BY <1>1 DEF Running
  <2>2. CASE i = n + 1
    BY <1>1, <2>1, <2>2
  <2>3. CASE i \in 1..n
    BY <1>1, <1>2, <2>1, <2>3
  <2> QED
    BY <2>2, <2>3
<1>4. ASSUME NEW i \in 1..(n + 1), NEW j \in 1..(n + 1), i < j,
             stack'[i].kind = "callback", stack'[j].kind = "callback"
      PROVE  IsBehind(stack'[i].node, stack'[j].node)
  <2>1. i \in 1..n /\ stack'[i] = stack[i] /\ stack[i].kind = "callback"
    BY <1>1, <1>4
  <2>2. CASE j = n + 1
    BY <1>1, <1>2, <1>4, <2>1, <2>2
  <2>3. CASE j \in 1..n
    BY <1>1, <1>4, <2>1, <2>3 DEF NestedAreBehind
  <2> QED
    BY <2>2, <2>3
<1>5. NestedAreBehind'
  BY <1>1, <1>4 DEF NestedAreBehind, IsBehind, Precedes
<1> QED
  BY <1>3, <1>5

LEMMA RunningAfterDrop ==
  ASSUME NEW n \in Nat \ {0}, n = Len(stack), Drops(n), NestedAreBehind
  PROVE  /\ Running' \in SUBSET Running
         /\ stack[n].kind = "callback" => \A r \in Running' : IsBehind(r, stack[n].node)
         /\ NestedAreBehind'
<1>1. /\ Len(stack') = n - 1 \/ (Len(stack') = n /\ stack'[n].kind # "callback")
      /\ \A i \in 1..(n - 1) : /\ stack'[i].kind = stack[i].kind
                               /\ stack[i].kind = "callback" => stack'[i] = stack[i]
  BY DEF Drops, Kept
<1>2. \A i \in 1..Len(stack') : stack'[i].kind = "callback" =>
        i \in 1..(n - 1) /\ stack'[i] = stack[i] /\ stack[i].kind = "callback"
  BY <1>1
<1>3. ASSUME NEW r \in Running'
      PROVE  \E i \in 1..(n - 1) : stack[i].kind = "callback" /\ r = stack[i].node
  <2>1. PICK i \in 1..Len(stack') : stack'[i].kind = "callback" /\ r = stack'[i].node
    BY DEF Running
  <2> QED
    BY <1>2, <2>1
<1>4. ASSUME NEW r \in Running' PROVE r \in Running
  <2>1. PICK i \in 1..(n - 1) : stack[i].kind = "callback" /\ r = stack[i].node
    BY <1>3
  <2>2. i \in 1..Len(stack)
    BY <2>1
  <2> QED
    BY <2>1, <2>2 DEF Running
<1>5. ASSUME stack[n].kind = "callback", NEW r \in Running'
      PROVE  IsBehind(r, stack[n].node)
  <2>1. PICK i \in 1..(n - 1) : stack[i].kind = "callback" /\ r = stack[i].node
    BY <1>3
  <2> QED
    BY <1>5, <2>1 DEF NestedAreBehind
<1>6. ASSUME NEW i \in 1..Len(stack'), NEW j \in 1..Len(stack'), i < j,
             stack'[i].kind = "callback", stack'[j].kind = "callback"
      PROVE  IsBehind(stack'[i].node, stack'[j].node)
  BY <1>2, <1>6 DEF NestedAreBehind
<1>7. NestedAreBehind'
  BY <1>6 DEF NestedAreBehind, IsBehind, Precedes
<1> QED
  BY <1>4, <1>5, <1>7

LEMMA OrderedAfterInsert ==
  ASSUME TypeOK, Ordered, NEW i \in 1..(Len(queue) + 1), NEW e \in Nodes,
         queue' = InsertAt(queue, i, e),
         \A j \in 1..(i - 1) : Precedes(queue[j], e),
         \A j \in i..Len(queue) : Precedes(e, queue[j])
  PROVE  /\ Ordered'
         /\ \A k \in 1..Len(queue') : queue'[k] = e \/ \E j \in 1..Len(queue) : queue'[k] = queue[j]
<1>1. /\ Len(queue) \in Nat
      /\ Len(queue') = Len(queue) + 1
      /\ \A k \in 1..(Len(queue) + 1) :
           queue'[k] = IF k < i THEN queue[k] ELSE IF k = i THEN e ELSE queue[k - 1]
  BY QueueTypes, InsertAtProperties DEF TypeOK
<1>2. ASSUME NEW j \in 1..(Len(queue) + 1), NEW k \in 1..(Len(queue) + 1), j < k
      PROVE  Precedes(queue'[j], queue'[k])
  <2>1. CASE k < i
    <3>1. queue'[j] = queue[j] /\ queue'[k] = queue[k] /\ j \in 1..Len(queue) /\ k \in 1..Len(queue)
      BY <1>1, <1>2, <2>1
    <3> QED
      BY <1>2, <3>1 DEF Ordered
  <2>2. CASE k = i
    <3>1. queue'[j] = queue[j] /\ queue'[k] = e /\ j \in 1..(i - 1)
      BY <1>1, <1>2, <2>2
    <3> QED
      BY <3>1
  <2>3. CASE k > i /\ j < i
    <3>1. /\ queue'[j] = queue[j] /\ queue'[k] = queue[k - 1]
          /\ j \in 1..Len(queue) /\ k - 1 \in 1..Len(queue) /\ j < k - 1
      BY <1>1, <1>2, <2>3
    <3> QED
      BY <3>1 DEF Ordered
  <2>4. CASE k > i /\ j = i
    <3>1. queue'[j] = e /\ queue'[k] = queue[k - 1] /\ k - 1 \in i..Len(queue)
      BY <1>1, <1>2, <2>4
    <3> QED
      BY <3>1
  <2>5. CASE k > i /\ j > i
    <3>1. /\ queue'[j] = queue[j - 1] /\ queue'[k] = queue[k - 1]
          /\ j - 1 \in 1..Len(queue) /\ k - 1 \in 1..Len(queue) /\ j - 1 < k - 1
      BY <1>1, <1>2, <2>5
    <3> QED
      BY <3>1 DEF Ordered
  <2> QED
    BY <1>1, <2>1, <2>2, <2>3, <2>4, <2>5
<1>3. Ordered'
  BY <1>1, <1>2 DEF Ordered, Precedes
<1>4. ASSUME NEW k \in 1..(Len(queue) + 1)
      PROVE  queue'[k] = e \/ \E j \in 1..Len(queue) : queue'[k] = queue[j]
  <2>1. CASE k < i
    BY <1>1, <2>1
  <2>2. CASE k = i
    BY <1>1, <2>2
  <2>3. CASE k > i
    <3>1. queue'[k] = queue[k - 1] /\ k - 1 \in 1..Len(queue)
      BY <1>1, <2>3
    <3> QED
      BY <3>1
  <2> QED
    BY <1>1, <2>1, <2>2, <2>3
<1> QED
  BY <1>1, <1>3, <1>4

LEMMA OrderUnmoved ==
  ASSUME OrderInv, UNCHANGED <<queue, stack, nextId>>
  PROVE  OrderInv'
  BY DEF OrderInv, Ordered, QueueIsBehind, NestedAreBehind, IdsAreOld, Running, IsBehind, Precedes

(* The callbacks that are still being called go on as before if what waits *)
(* has waited before.                                                      *)
LEMMA BehindAfterLess ==
  ASSUME OrderInv, Running' \in SUBSET Running, UNCHANGED nextId,
         \A k \in 1..Len(queue') : \E j \in 1..Len(queue) : queue'[k] = queue[j]
  PROVE  QueueIsBehind' /\ IdsAreOld'
  BY DEF OrderInv, QueueIsBehind, IdsAreOld, IsBehind, Precedes

LEMMA ScheduleCallbackOrder ==
  ASSUME TypeOK, OrderInv, NEW timeout \in CustomTimeouts \cup {Timeout[p] : p \in Priorities},
         ScheduleCallback(timeout)
  PROVE  OrderInv'
<1> DEFINE node == [id |-> nextId, priority |-> currentPriorityLevel,
                    expiration |-> StartTime + timeout, continued |-> FALSE]
<1>1. node \in Nodes /\ node.id = nextId
  BY NewNodeType
<1>2. PICK i \in 1..(Len(queue) + 1) :
        /\ \A j \in 1..(i - 1) : ~ScheduledBefore(queue[j], node.expiration)
        /\ i <= Len(queue) => ScheduledBefore(queue[i], node.expiration)
        /\ queue' = InsertAt(queue, i, node)
  BY DEF ScheduleCallback, SearchStopsAt
<1>3. UNCHANGED stack /\ nextId' = nextId + 1 /\ nextId \in Nat
  BY DEF ScheduleCallback, TypeOK
<1> HIDE DEF node
<1>4. node.id \in Nat /\ node.expiration \in Int
  BY <1>1, NodeTypes
<1>5. \A j \in 1..Len(queue) : queue[j].id \in Nat /\ queue[j].expiration \in Int /\ queue[j].id < nextId
  BY QueueTypes, NodeTypes DEF OrderInv, IdsAreOld
<1>6. ASSUME NEW j \in 1..(i - 1) PROVE Precedes(queue[j], node)
  <2>1. j \in 1..Len(queue) /\ queue[j].expiration <= node.expiration
    BY <1>2, <1>4, <1>5, QueueTypes DEF ScheduledBefore
  <2> QED
    BY <1>1, <1>4, <1>5, <2>1 DEF Precedes
<1>7. ASSUME NEW j \in i..Len(queue) PROVE Precedes(node, queue[j])
  <2>1. i \in 1..Len(queue) /\ j \in 1..Len(queue) /\ node.expiration < queue[i].expiration
    BY <1>2, <1>4, <1>5, QueueTypes DEF ScheduledBefore
  <2>2. queue[i].expiration <= queue[j].expiration
    <3>1. CASE i = j
      BY <1>5, <2>1, <3>1
    <3>2. CASE i < j
      BY <1>5, <2>1, <3>2 DEF OrderInv, Ordered, Precedes
    <3> QED
      BY <2>1, <3>1, <3>2
  <2> QED
    BY <1>4, <1>5, <2>1, <2>2 DEF Precedes
<1>8. /\ Ordered'
      /\ \A k \in 1..Len(queue') : queue'[k] = node \/ \E j \in 1..Len(queue) : queue'[k] = queue[j]
  BY <1>1, <1>2, <1>6, <1>7, OrderedAfterInsert DEF OrderInv
<1>9. Running' = Running /\ NestedAreBehind'
  BY <1>3 DEF OrderInv, Running, NestedAreBehind, IsBehind, Precedes
<1>10. ASSUME NEW r \in Running PROVE IsBehind(r, node) /\ r.id \in Nat /\ r.id < nextId
  <2>1. r.id \in Nat /\ r.expiration \in Int /\ r.id < nextId
    BY RunningTypes, NodeTypes DEF OrderInv, IdsAreOld
  <2> QED
    BY <1>1, <1>4, <2>1 DEF IsBehind, Precedes
<1>11. ASSUME NEW r \in Running, NEW k \in 1..Len(queue') PROVE IsBehind(r, queue'[k])
  <2>1. CASE queue'[k] = node
    BY <1>10, <2>1
  <2>2. CASE \E j \in 1..Len(queue) : queue'[k] = queue[j]
    BY <2>2 DEF OrderInv, QueueIsBehind
  <2> QED
    BY <1>8, <2>1, <2>2
<1>12. QueueIsBehind'
  BY <1>9, <1>11 DEF QueueIsBehind, IsBehind, Precedes
<1>13. IdsAreOld'
  <2>1. ASSUME NEW k \in 1..Len(queue') PROVE queue'[k].id < nextId'
    <3>1. CASE queue'[k] = node
      BY <1>1, <1>3, <3>1
    <3>2. CASE \E j \in 1..Len(queue) : queue'[k] = queue[j]
      BY <1>3, <1>5, <3>2
    <3> QED
      BY <1>8, <3>1, <3>2
  <2>2. ASSUME NEW r \in Running PROVE r.id < nextId'
    BY <1>3, <1>10
  <2> QED
    BY <1>9, <2>1, <2>2 DEF IdsAreOld
<1> QED
  BY <1>8, <1>9, <1>12, <1>13 DEF OrderInv

LEMMA CancelCallbackOrder ==
  ASSUME TypeOK, OrderInv, NEW i \in 1..Len(queue), CancelCallback(i)
  PROVE  OrderInv'
<1>1. queue' = RemoveAt(queue, i) /\ UNCHANGED <<stack, nextId>>
  BY DEF CancelCallback
<1>2. /\ Len(queue) \in Nat /\ Len(queue') = Len(queue) - 1
      /\ \A k \in 1..(Len(queue) - 1) : queue'[k] = IF k < i THEN queue[k] ELSE queue[k + 1]
  BY <1>1, QueueTypes, RemoveAtProperties DEF TypeOK
<1>3. ASSUME NEW k \in 1..Len(queue') PROVE \E j \in 1..Len(queue) : queue'[k] = queue[j]
  <2>1. k \in 1..Len(queue) /\ k + 1 \in 1..Len(queue)
    BY <1>2
  <2>2. queue'[k] = queue[k] \/ queue'[k] = queue[k + 1]
    BY <1>2
  <2> QED
    BY <2>1, <2>2
<1>4. ASSUME NEW j \in 1..Len(queue'), NEW k \in 1..Len(queue'), j < k
      PROVE  Precedes(queue'[j], queue'[k])
  <2>1. /\ j \in 1..Len(queue) /\ j + 1 \in 1..Len(queue)
        /\ k \in 1..Len(queue) /\ k + 1 \in 1..Len(queue)
        /\ j < k /\ j < k + 1 /\ j + 1 < k + 1
    BY <1>2, <1>4
  <2>2. \/ queue'[j] = queue[j] /\ queue'[k] = queue[k]
        \/ queue'[j] = queue[j] /\ queue'[k] = queue[k + 1]
        \/ queue'[j] = queue[j + 1] /\ queue'[k] = queue[k + 1]
    BY <1>2, <1>4
  <2> QED
    BY <2>1, <2>2 DEF OrderInv, Ordered
<1>5. Ordered'
  BY <1>4 DEF Ordered, Precedes
<1>6. Running' = Running /\ NestedAreBehind'
  BY <1>1 DEF OrderInv, Running, NestedAreBehind, IsBehind, Precedes
<1> QED
  BY <1>1, <1>3, <1>5, <1>6, BehindAfterLess DEF OrderInv

(* The callback that is called leaves the queue at its head.               *)
LEMMA CallFirstOrder ==
  ASSUME TypeOK, OrderInv, CallFirst
  PROVE  OrderInv'
<1> DEFINE f == [kind |-> "callback", node |-> Head(queue), priority |-> currentPriorityLevel,
                 expiration |-> currentExpirationTime]
<1>1. /\ queue # <<>> /\ queue' = Tail(queue) /\ UNCHANGED nextId
      /\ f.kind = "callback" /\ f.node = queue[1]
  BY CallFirstTypes DEF CallFirst
<1>2. /\ Len(queue) \in Nat \ {0} /\ Len(queue') = Len(queue) - 1
      /\ \A k \in 1..(Len(queue) - 1) : queue'[k] = queue[k + 1]
  BY <1>1, QueueTypes, EmptySeq, HeadTailProperties DEF TypeOK
<1>3. PICK n \in Nat : n = Len(stack)
  BY StackTypes
<1>4. Pushes(n, f)
  BY <1>3, CallFirstPushes
<1> HIDE DEF f
<1>5. 1 \in 1..Len(queue) /\ \A k \in 1..Len(queue') : k + 1 \in 1..Len(queue) /\ queue'[k] = queue[k + 1]
  BY <1>2
<1>6. \A r \in Running : IsBehind(r, f.node)
  BY <1>1, <1>5 DEF OrderInv, QueueIsBehind
<1>7. Running' \in SUBSET (Running \cup {queue[1]}) /\ NestedAreBehind'
  BY <1>1, <1>3, <1>4, <1>6, RunningAfterPush DEF OrderInv
<1>8. ASSUME NEW j \in 1..Len(queue'), NEW k \in 1..Len(queue'), j < k
      PROVE  Precedes(queue'[j], queue'[k])
  <2>1. j + 1 \in 1..Len(queue) /\ k + 1 \in 1..Len(queue) /\ j + 1 < k + 1
    BY <1>5, <1>8
  <2> QED
    BY <1>5, <2>1 DEF OrderInv, Ordered
<1>9. Ordered'
  BY <1>8 DEF Ordered, Precedes
<1>10. ASSUME NEW r \in Running', NEW k \in 1..Len(queue') PROVE IsBehind(r, queue'[k])
  <2>1. k + 1 \in 1..Len(queue) /\ 1 < k + 1 /\ queue'[k] = queue[k + 1]
    BY <1>5
  <2>2. CASE r \in Running
    BY <2>1, <2>2 DEF OrderInv, QueueIsBehind
  <2>3. CASE r = queue[1]
    BY <1>5, <2>1, <2>3 DEF OrderInv, Ordered, IsBehind
  <2> QED
    BY <1>7, <2>2, <2>3
<1>11. QueueIsBehind'
  BY <1>10 DEF QueueIsBehind, IsBehind, Precedes
<1>12. IdsAreOld'
  <2>1. \A k \in 1..Len(queue') : queue'[k].id < nextId
    BY <1>5 DEF OrderInv, IdsAreOld
  <2>2. \A r \in Running' : r.id < nextId
    BY <1>5, <1>7 DEF OrderInv, IdsAreOld
  <2> QED
    BY <1>1, <2>1, <2>2 DEF IdsAreOld
<1> QED
  BY <1>7, <1>9, <1>11, <1>12 DEF OrderInv

LEMMA DropOrder ==
  ASSUME TypeOK, OrderInv, stack # <<>>, Drops(Len(stack)), UNCHANGED <<queue, nextId>>
  PROVE  OrderInv'
<1>1. PICK n \in Nat \ {0} : n = Len(stack)
  BY StackTypes
<1>2. Running' \in SUBSET Running /\ NestedAreBehind'
  BY <1>1, RunningAfterDrop DEF OrderInv
<1>3. Ordered'
  BY DEF OrderInv, Ordered, Precedes
<1> QED
  BY <1>2, <1>3, BehindAfterLess DEF OrderInv

LEMMA PushOrder ==
  ASSUME TypeOK, OrderInv, NEW f, f.kind # "callback", Pushes(Len(stack), f),
         UNCHANGED <<queue, nextId>>
  PROVE  OrderInv'
<1>1. PICK n \in Nat : n = Len(stack)
  BY StackTypes
<1>2. Running' \in SUBSET Running /\ NestedAreBehind'
  BY <1>1, RunningAfterPush DEF OrderInv
<1>3. Ordered'
  BY DEF OrderInv, Ordered, Precedes
<1> QED
  BY <1>2, <1>3, BehindAfterLess DEF OrderInv

(* What waits behind a callback that continues expires no sooner, or has   *)
(* overtaken it by right; the search stops between the two.                *)
LEMMA ContinuationOrder ==
  ASSUME TypeOK, OrderInv, CallbackReturnsContinuation
  PROVE  OrderInv'
<1> DEFINE node == [Top.node EXCEPT !.continued = TRUE]
<1>1. /\ stack # <<>> /\ Top \in Frames /\ Top.kind = "callback"
      /\ Pop(throwing) /\ UNCHANGED nextId
  BY StackTypes DEF CallbackReturnsContinuation, LeaveCallback, TopIs
<1>2. PICK n \in Nat \ {0} : n = Len(stack)
  BY <1>1, StackTypes
<1>3. Top = stack[n] /\ n \in 1..Len(stack)
  BY <1>2 DEF Top
<1>4. Top.node \in Nodes /\ Top.node \in Running
  BY <1>1, <1>3, FrameTypes DEF Running
<1>5. /\ node \in Nodes /\ node.id = Top.node.id /\ node.expiration = Top.node.expiration
      /\ node.id \in Nat /\ node.expiration \in Int
  BY <1>4, NodeTypes DEF Nodes
<1>6. PICK i \in 1..(Len(queue) + 1) :
        /\ \A j \in 1..(i - 1) : ~ContinuedBefore(queue[j], Top.node.expiration)
        /\ i <= Len(queue) => ContinuedBefore(queue[i], Top.node.expiration)
        /\ queue' = InsertAt(queue, i, node)
  BY DEF CallbackReturnsContinuation, SearchStopsAt
<1> HIDE DEF node
<1>7. \A j \in 1..Len(queue) : /\ queue[j].id \in Nat /\ queue[j].expiration \in Int
                              /\ queue[j].id < nextId /\ IsBehind(Top.node, queue[j])
  BY <1>4, QueueTypes, NodeTypes DEF OrderInv, IdsAreOld, QueueIsBehind
<1>8. ASSUME NEW j \in 1..(i - 1) PROVE Precedes(queue[j], node)
  <2>1. j \in 1..Len(queue)
    BY QueueTypes
  <2>2. ~(queue[j].expiration >= node.expiration)
    BY <1>5, <1>6 DEF ContinuedBefore
  <2> QED
    BY <1>5, <1>7, <2>1, <2>2 DEF Precedes
<1>9. ASSUME NEW j \in i..Len(queue) PROVE Precedes(node, queue[j])
  <2>1. i \in 1..Len(queue) /\ j \in 1..Len(queue)
    BY QueueTypes
  <2>2. queue[i].expiration >= node.expiration
    BY <1>5, <1>6, <2>1 DEF ContinuedBefore
  <2>3. queue[i].expiration <= queue[j].expiration
    <3>1. CASE i = j
      BY <1>7, <2>1, <3>1
    <3>2. CASE i < j
      BY <1>7, <2>1, <3>2 DEF OrderInv, Ordered, Precedes
    <3> QED
      BY <2>1, <3>1, <3>2
  <2>4. ~(queue[j].expiration < Top.node.expiration)
    BY <1>5, <1>7, <2>1, <2>2, <2>3
  <2> QED
    BY <1>5, <1>7, <2>1, <2>4 DEF IsBehind, Precedes
<1>10. /\ Ordered'
       /\ \A k \in 1..Len(queue') : queue'[k] = node \/ \E j \in 1..Len(queue) : queue'[k] = queue[j]
  BY <1>5, <1>6, <1>8, <1>9, OrderedAfterInsert DEF OrderInv
<1>11. /\ Running' \in SUBSET Running
       /\ \A r \in Running' : IsBehind(r, Top.node)
       /\ NestedAreBehind'
  <2>1. Drops(n)
    BY <1>1, <1>2, PopDrops DEF TypeOK
  <2> QED
    BY <1>1, <1>2, <1>3, <2>1, RunningAfterDrop DEF OrderInv
<1>12. ASSUME NEW r \in Running', NEW k \in 1..Len(queue') PROVE IsBehind(r, queue'[k])
  <2>1. CASE queue'[k] = node
    BY <1>5, <1>11, <2>1 DEF IsBehind, Precedes
  <2>2. CASE \E j \in 1..Len(queue) : queue'[k] = queue[j]
    BY <1>11, <2>2 DEF OrderInv, QueueIsBehind
  <2> QED
    BY <1>10, <2>1, <2>2
<1>13. QueueIsBehind'
  BY <1>12 DEF QueueIsBehind, IsBehind, Precedes
<1>14. IdsAreOld'
  <2>1. ASSUME NEW k \in 1..Len(queue') PROVE queue'[k].id < nextId
    <3>1. CASE queue'[k] = node
      BY <1>4, <1>5, <3>1 DEF OrderInv, IdsAreOld
    <3>2. CASE \E j \in 1..Len(queue) : queue'[k] = queue[j]
      BY <1>7, <3>2
    <3> QED
      BY <1>10, <3>1, <3>2
  <2>2. \A r \in Running' : r.id < nextId
    BY <1>11 DEF OrderInv, IdsAreOld
  <2> QED
    BY <1>1, <2>1, <2>2 DEF IdsAreOld
<1> QED
  BY <1>10, <1>11, <1>13, <1>14 DEF OrderInv

LEMMA OrderStep == TypeOK /\ OrderInv /\ [SchedulerNext]_vars => OrderInv'
<1> SUFFICES ASSUME TypeOK, OrderInv, [SchedulerNext]_vars PROVE OrderInv'
  OBVIOUS
<1>1. ASSUME NEW timeout \in CustomTimeouts \cup {Timeout[p] : p \in Priorities},
             ScheduleCallback(timeout)
      PROVE  OrderInv'
  BY <1>1, ScheduleCallbackOrder
<1>2. ASSUME NEW i \in 1..Len(queue), CancelCallback(i) PROVE OrderInv'
  BY <1>2, CancelCallbackOrder
<1>3. ASSUME NEW p \in HandlerPriorities, EnterHandler(p) PROVE OrderInv'
  <2> DEFINE f == [kind |-> "handler", priority |-> currentPriorityLevel,
                   startTime |-> currentEventStartTime]
  <2>1. f \in Frames /\ f.kind # "callback"
    BY DEF TypeOK, Frames
  <2>2. Push(f) /\ UNCHANGED <<queue, nextId>>
    BY <1>3 DEF EnterHandler
  <2> HIDE DEF f
  <2>3. Pushes(Len(stack), f)
    BY <2>1, <2>2, Pushed DEF Pushes, Kept
  <2> QED
    BY <2>1, <2>2, <2>3, PushOrder
<1>4. CASE ExitHandler
  <2>1. /\ stack # <<>> /\ UNCHANGED <<queue, nextId>>
        /\ ExitFlushingImmediateWork(Top.startTime, isExecutingCallback)
    BY <1>4 DEF ExitHandler, TopIs
  <2> QED
    BY <2>1, ExitDrops, DropOrder DEF TypeOK
<1>5. ASSUME NEW timedOut \in BOOLEAN, HostCallsFlushWork(timedOut) PROVE OrderInv'
  <2> DEFINE f == [kind |-> "flushWork", started |-> FALSE]
  <2>1. f \in Frames /\ f.kind # "callback"
    BY DEF Frames
  <2>2. Push(f) /\ UNCHANGED <<queue, nextId>>
    BY <1>5 DEF HostCallsFlushWork
  <2> HIDE DEF f
  <2>3. Pushes(Len(stack), f)
    BY <2>1, <2>2, Pushed DEF Pushes, Kept
  <2> QED
    BY <2>1, <2>2, <2>3, PushOrder
<1>6. CASE CallFirst
  BY <1>6, CallFirstOrder
<1>7. CASE CallbackReturns
  <2>1. stack # <<>> /\ Pop(throwing) /\ UNCHANGED <<queue, nextId>>
    BY <1>7 DEF CallbackReturns, LeaveCallback, TopIs
  <2> QED
    BY <2>1, PopDrops, DropOrder DEF TypeOK
<1>8. CASE CallbackReturnsContinuation
  BY <1>8, ContinuationOrder
<1>9. CASE FlushWorkEnds
  <2>1. /\ stack # <<>> /\ UNCHANGED <<queue, nextId>>
        /\ ExitFlushingImmediateWork(currentEventStartTime, FALSE)
    BY <1>9 DEF FlushWorkEnds, TopIs
  <2> QED
    BY <2>1, ExitDrops, DropOrder
<1>10. CASE FlushImmediateWorkEnds
  <2>1. /\ stack # <<>> /\ UNCHANGED <<queue, nextId>>
        /\ Pop(throwing \/ Top.rethrow) /\ (throwing \/ Top.rethrow) \in BOOLEAN
    BY <1>10 DEF FlushImmediateWorkEnds, TopIs
  <2> QED
    BY <2>1, PopDrops, DropOrder
<1>11. CASE Throw \/ Catch \/ Tick \/ UNCHANGED vars
  BY <1>11, OrderUnmoved DEF Throw, Catch, Tick, vars
<1>12. ASSUME ScheduleCallback(Timeout[currentPriorityLevel]) PROVE OrderInv'
  <2>1. Timeout[currentPriorityLevel] \in CustomTimeouts \cup {Timeout[p] : p \in Priorities}
    BY DEF TypeOK
  <2> QED
    BY <1>1, <1>12, <2>1
<1>13. ASSUME NEW timeout \in CustomTimeouts, ScheduleCallback(timeout) PROVE OrderInv'
  BY <1>1, <1>13
<1> QED
  BY <1>2, <1>3, <1>4, <1>5, <1>6, <1>7, <1>8, <1>9, <1>10, <1>11, <1>12, <1>13
  DEF SchedulerNext

LEMMA InitOrder == SchedulerInit => OrderInv
<1> SUFFICES ASSUME SchedulerInit PROVE OrderInv
  OBVIOUS
<1>1. Len(stack) = 0 /\ Len(queue) = 0
  BY EmptySeq DEF SchedulerInit
<1>2. Running = {}
  BY <1>1 DEF Running
<1> QED
  BY <1>1, <1>2 DEF OrderInv, Ordered, QueueIsBehind, NestedAreBehind, IdsAreOld

LEMMA OrderImplies == TypeOK /\ OrderInv => OvertakenOnlyByUrgent
<1> SUFFICES ASSUME TypeOK, OrderInv PROVE OvertakenOnlyByUrgent
  OBVIOUS
<1>1. QueueIsOrdered
  BY DEF OrderInv, Ordered, QueueIsOrdered
<1>2. ASSUME NEW i \in 1..Len(stack), stack[i].kind = "callback"
      PROVE  /\ \A j \in 1..Len(queue) : IsBehind(stack[i].node, queue[j])
             /\ \A j \in (i + 1)..Len(stack) :
                  stack[j].kind = "callback" => IsBehind(stack[i].node, stack[j].node)
  <2>1. stack[i].node \in Running
    BY <1>2 DEF Running
  <2>2. \A j \in (i + 1)..Len(stack) : j \in 1..Len(stack) /\ i < j
    BY StackTypes
  <2> QED
    BY <1>2, <2>1, <2>2 DEF OrderInv, QueueIsBehind, NestedAreBehind
<1> QED
  BY <1>1, <1>2 DEF OvertakenOnlyByUrgent, IsBehind

(* The queue is ordered by expiration and then by age, and a callback that *)
(* is being called, and may continue, is overtaken only by callbacks that  *)
(* were scheduled later and expire sooner.                                 *)
THEOREM CallbacksKeepTheirTurn == SchedulerSpec => []OvertakenOnlyByUrgent
  BY InitOrder, OrderStep, OrderImplies, TypeCorrect, PTL DEF SchedulerSpec
-----------------------------------------------------------------------------
(* The requests.  A step into or inside a loop has nothing to keep.        *)
LEMMA HeadTypes ==
  ASSUME TypeOK, queue # <<>>
  PROVE  /\ 1 \in 1..Len(queue) /\ Head(queue) = queue[1]
         /\ Head(queue) \in Nodes /\ Head(queue).expiration \in Int
  BY HeadTailProperties, EmptySeq, QueueTypes, NodeTypes DEF TypeOK

LEMMA RequestUnmoved ==
  ASSUME NoLostWork, InLoop => InLoop', UNCHANGED <<queue, isHostCallbackScheduled, request>>
  PROVE  NoLostWork'
  BY DEF NoLostWork

LEMMA ScheduleCallbackRequests ==
  ASSUME TypeOK, ControlInv, NoLostWork,
         NEW timeout \in CustomTimeouts \cup {Timeout[p] : p \in Priorities},
         ScheduleCallback(timeout)
  PROVE  NoLostWork'
<1> DEFINE node == [id |-> nextId, priority |-> currentPriorityLevel,
                    expiration |-> StartTime + timeout, continued |-> FALSE]
<1>1. node \in Nodes /\ node.expiration \in Int
  BY NewNodeType, NodeTypes
<1>2. PICK i \in 1..(Len(queue) + 1) :
        /\ queue' = InsertAt(queue, i, node)
        /\ IF i = 1 THEN EnsureHostCallbackIsScheduled(<<node>>)
                    ELSE UNCHANGED <<isHostCallbackScheduled, request>>
  BY DEF ScheduleCallback
<1>3. Head(<<node>>) = node
  OBVIOUS
<1> HIDE DEF node
<1>4. /\ queue' \in Seq(Nodes) /\ Len(queue) \in Nat
      /\ Len(queue') = Len(queue) + 1
      /\ \A k \in 1..(Len(queue) + 1) :
           queue'[k] = IF k < i THEN queue[k] ELSE IF k = i THEN node ELSE queue[k - 1]
  <2>1. queue \in Seq(Nodes) /\ Len(queue) \in Nat
    BY DEF TypeOK
  <2>2. i \in 1..(Len(queue) + 1)
    OBVIOUS
  <2>3. InsertAt(queue, i, node) \in Seq(Nodes)
    BY ONLY <1>1, <2>1, <2>2, InsertAtProperties
  <2>4. Len(InsertAt(queue, i, node)) = Len(queue) + 1
    BY ONLY <1>1, <2>1, <2>2, InsertAtProperties
  <2>5. \A k \in 1..(Len(queue) + 1) :
           InsertAt(queue, i, node)[k] = IF k < i THEN queue[k] ELSE IF k = i THEN node ELSE queue[k - 1]
    BY ONLY <1>1, <2>1, <2>2, InsertAtProperties
  <2> QED
    BY <1>2, <2>1, <2>3, <2>4, <2>5
<1>5. Head(queue') = queue'[1]
  BY <1>4, HeadTailProperties, EmptySeq
<1>6. InLoop' = InLoop
  BY DEF ScheduleCallback, InLoop
<1>7. CASE InLoop
  BY <1>6, <1>7 DEF NoLostWork
<1>8. CASE ~InLoop /\ i = 1
  <2>1. queue'[1] = node
    BY <1>4, <1>8
  <2>2. ~isExecutingCallback
    BY <1>8 DEF ControlInv, ExecutingInLoops
  <2>3. isHostCallbackScheduled' /\ request' = {node.expiration}
    BY <1>2, <1>3, <1>8, <2>2 DEF EnsureHostCallbackIsScheduled, Request
  <2> QED
    BY <1>1, <1>5, <2>1, <2>3 DEF NoLostWork
<1>9. CASE ~InLoop /\ i # 1
  <2>1. queue # <<>>
    BY <1>9, EmptySeq
  <2>2. queue'[1] = queue[1]
    BY <1>4, <1>9
  <2> QED
    BY <1>2, <1>5, <1>9, <2>1, <2>2, HeadTypes DEF NoLostWork
<1> QED
  BY <1>7, <1>8, <1>9

(* The callback that becomes the first one expires no sooner.              *)
LEMMA CancelCallbackRequests ==
  ASSUME TypeOK, OrderInv, NoLostWork, NEW i \in 1..Len(queue), CancelCallback(i)
  PROVE  NoLostWork'
<1>1. queue' = RemoveAt(queue, i) /\ UNCHANGED <<stack, isHostCallbackScheduled, request>>
  BY DEF CancelCallback, hostVars, flagVars
<1>2. /\ queue' \in Seq(Nodes) /\ Len(queue) \in Nat /\ Len(queue') = Len(queue) - 1
      /\ \A k \in 1..(Len(queue) - 1) : queue'[k] = IF k < i THEN queue[k] ELSE queue[k + 1]
  BY <1>1, QueueTypes, RemoveAtProperties DEF TypeOK
<1>3. SUFFICES ASSUME ~InLoop', queue' # <<>>
               PROVE  isHostCallbackScheduled' /\ \E t \in request' : t <= Head(queue').expiration
  BY DEF NoLostWork
<1>4. ~InLoop
  BY <1>1, <1>3 DEF InLoop
<1>5. queue # <<>>
  BY EmptySeq
<1>6. Head(queue') = queue'[1] /\ Len(queue') >= 1
  BY <1>2, <1>3, HeadTailProperties, EmptySeq
<1>7. 2 \in 1..Len(queue) /\ (queue'[1] = queue[1] \/ queue'[1] = queue[2])
  BY <1>2, <1>6
<1>8. queue[1].expiration \in Int /\ queue[2].expiration \in Int
  BY <1>7, QueueTypes, NodeTypes
<1>9. queue[1].expiration <= queue[2].expiration
  BY <1>7, <1>8 DEF OrderInv, Ordered, Precedes
<1>10. PICK t \in request : isHostCallbackScheduled /\ t <= queue[1].expiration
  BY <1>4, <1>5, HeadTypes DEF NoLostWork
<1>11. t \in Int
  BY RequestTimesAssumption DEF TypeOK, HostTypeOK
<1>12. t <= Head(queue').expiration
  BY <1>6, <1>7, <1>8, <1>9, <1>10, <1>11
<1> QED
  BY <1>1, <1>10, <1>12

LEMMA NoLostWorkStep ==
  TypeOK /\ ControlInv /\ OrderInv /\ NoLostWork /\ [SchedulerNext]_vars => NoLostWork'
<1> SUFFICES ASSUME TypeOK, ControlInv, OrderInv, NoLostWork, [SchedulerNext]_vars
             PROVE  NoLostWork'
  OBVIOUS
<1>a. CallbacksAreInLoops
  BY DEF ControlInv
<1>1. ASSUME NEW timeout \in CustomTimeouts \cup {Timeout[p] : p \in Priorities},
             ScheduleCallback(timeout)
      PROVE  NoLostWork'
  BY <1>1, ScheduleCallbackRequests
<1>2. ASSUME NEW i \in 1..Len(queue), CancelCallback(i) PROVE NoLostWork'
  BY <1>2, CancelCallbackRequests
<1>3. ASSUME NEW p \in HandlerPriorities, EnterHandler(p) PROVE NoLostWork'
  <2> DEFINE f == [kind |-> "handler", priority |-> currentPriorityLevel,
                   startTime |-> currentEventStartTime]
  <2>1. f \in Frames /\ f.kind = "handler"
    BY DEF TypeOK, Frames
  <2>2. Push(f) /\ UNCHANGED <<queue, isHostCallbackScheduled, request>>
    BY <1>3 DEF EnterHandler, flagVars, hostVars
  <2> HIDE DEF f
  <2>3. PICK n \in Nat : n = Len(stack)
    BY StackTypes
  <2>4. Pushes(n, f)
    BY <2>1, <2>2, <2>3, Pushed DEF Pushes, Kept
  <2>5. InLoop => InLoop'
    BY <1>a, <2>1, <2>3, <2>4, LoopsAfterPush
  <2> QED
    BY <2>2, <2>5, RequestUnmoved
<1>4. CASE ExitHandler
  <2>1. stack # <<>> /\ Top.kind = "handler"
    BY <1>4 DEF ExitHandler, TopIs
  <2>2. /\ ExitFlushingImmediateWork(Top.startTime, isExecutingCallback)
        /\ UNCHANGED <<queue, isHostCallbackScheduled, request>>
    BY <1>4 DEF ExitHandler
  <2>3. PICK n \in Nat \ {0} : n = Len(stack)
    BY <2>1, StackTypes
  <2>4. Drops(n) /\ stack[n].kind = "handler"
    BY <2>1, <2>2, <2>3, ExitDrops DEF TypeOK, Top
  <2>5. Len(stack') = n \/ Len(stack') = n - 1
    BY <2>4 DEF Drops
  <2>6. InLoop => InLoop'
    BY <1>a, <2>3, <2>4, <2>5, LoopsAfterDrop DEF LoopKinds
  <2> QED
    BY <2>2, <2>6, RequestUnmoved
<1>5. ASSUME NEW timedOut \in BOOLEAN, HostCallsFlushWork(timedOut) PROVE NoLostWork'
  <2> DEFINE f == [kind |-> "flushWork", started |-> FALSE]
  <2>1. f \in Frames /\ f.kind = "flushWork"
    BY DEF Frames
  <2>2. Push(f)
    BY <1>5 DEF HostCallsFlushWork
  <2> HIDE DEF f
  <2>3. PICK n \in Nat : n = Len(stack)
    BY StackTypes
  <2>4. Pushes(n, f)
    BY <2>1, <2>2, <2>3, Pushed DEF Pushes, Kept
  <2>5. InLoop'
    BY <1>a, <2>1, <2>3, <2>4, LoopsAfterPush DEF LoopKinds
  <2> QED
    BY <2>5 DEF NoLostWork
<1>6. CASE CallFirst
  <2>1. PICK n \in Nat \ {0} : n = Len(stack)
    BY <1>6, StackTypes DEF CallFirst, TopIs
  <2>2. stack[n].kind \in LoopKinds
    BY <1>6, <2>1 DEF CallFirst, TopIs, Top, LoopKinds
  <2>3. Len(stack') = n + 1 /\ stack'[n].kind = stack[n].kind
    BY <1>6, <2>1, CallFirstTypes
  <2>4. InLoop'
    BY <2>1, <2>2, <2>3 DEF InLoop, LoopKinds
  <2> QED
    BY <2>4 DEF NoLostWork
<1>7. CASE LeaveCallback
  <2>1. stack # <<>> /\ Top.kind = "callback" /\ Pop(throwing)
    BY <1>7 DEF LeaveCallback, TopIs
  <2>2. PICK n \in Nat \ {0} : n = Len(stack)
    BY <2>1, StackTypes
  <2>3. n > 1 /\ stack[n - 1].kind \in LoopKinds
    BY <1>a, <2>1, <2>2 DEF CallbacksAreInLoops, Top
  <2>4. Len(stack') = n - 1 /\ stack'[n - 1] = stack[n - 1]
    BY <2>1, <2>2, <2>3, Popped DEF TypeOK
  <2>5. InLoop'
    BY <2>2, <2>3, <2>4 DEF InLoop, LoopKinds
  <2> QED
    BY <2>5 DEF NoLostWork
<1>8. CASE RequestRemainingWork /\ UNCHANGED queue
  <2>1. SUFFICES ASSUME queue' # <<>>
                 PROVE  isHostCallbackScheduled' /\ \E t \in request' : t <= Head(queue').expiration
    BY DEF NoLostWork
  <2>2. queue' = queue /\ queue # <<>>
    BY <1>8, <2>1
  <2>3. isHostCallbackScheduled' /\ request' = {Head(queue).expiration}
    BY <1>8, <2>2 DEF RequestRemainingWork, Request
  <2> QED
    BY <2>2, <2>3, HeadTypes
<1>9. CASE Throw \/ Catch \/ Tick \/ UNCHANGED vars
  BY <1>9, RequestUnmoved DEF Throw, Catch, Tick, vars, flagVars, hostVars, InLoop
<1>10. ASSUME ScheduleCallback(Timeout[currentPriorityLevel]) PROVE NoLostWork'
  <2>1. Timeout[currentPriorityLevel] \in CustomTimeouts \cup {Timeout[p] : p \in Priorities}
    BY DEF TypeOK
  <2> QED
    BY <1>1, <1>10, <2>1
<1>11. ASSUME NEW timeout \in CustomTimeouts, ScheduleCallback(timeout) PROVE NoLostWork'
  BY <1>1, <1>11
<1> QED
  BY <1>2, <1>3, <1>4, <1>5, <1>6, <1>7, <1>8, <1>9, <1>10, <1>11
  DEF SchedulerNext, CallbackReturns, CallbackReturnsContinuation, FlushWorkEnds,
      FlushImmediateWorkEnds

(* Outside the loops every waiting callback has a request at the host that *)
(* is not later than its expiration: neither a handler that flushes, nor a *)
(* cancellation, nor a loop that user code throws through, loses one.      *)
THEOREM NoWorkIsLost == SchedulerSpec => []NoLostWork
<1>1. SchedulerInit => NoLostWork
  BY DEF SchedulerInit, NoLostWork
<1> QED
  BY <1>1, InitTypeOK, TypeStep, InitControl, ControlStep, InitOrder, OrderStep,
     NoLostWorkStep, PTL DEF SchedulerSpec
=============================================================================
