----------------------------- MODULE UpdateQueue -----------------------------
(***************************************************************************)
(* The update queues of one mounted fiber (ReactUpdateQueue.js), and what  *)
(* the rest of the reconciler does with them: schedule an update, create   *)
(* the work-in-progress fiber, begin it, capture an error below it, begin  *)
(* it again, commit it, or start over.                                     *)
(*                                                                         *)
(* Both fibers may hold the same queue object, and two queues share one    *)
(* list of updates: queues and updates live in heaps and are named, and    *)
(* every pointer of the code is a pointer here.  What an update computes   *)
(* from the previous state is left open: a state is the sequence of the    *)
(* updates applied to get it, of which any payload is a function.          *)
(* Like the source, a smaller expiration time is more urgent.              *)
(***************************************************************************)
EXTENDS Integers, SequencesExt

CONSTANTS
  UpdateLevels,       \* the expiration times of updates and renders
  MaxUpdates,   \* bound: the updates created
  MaxCaptured   \* bound: those of them created for errors

ASSUME LevelsAssumption == UpdateLevels \subseteq Nat \ {0}
ASSUME BoundsAssumption == MaxUpdates \in Nat /\ MaxCaptured \in Nat

NULL == 0
NoLevel == 0

Updates == 1 .. MaxUpdates
Fibers == 1 .. 2
Queues == 1 .. 2

VARIABLES
  update,       \* the heap of updates
  created,      \* how many of them exist
  queue,        \* the heap of queues
  fiber,        \* the two fibers of the component
  current,      \* the one on the screen
  paired,       \* the other one exists, as its alternate
  phase,        \* what became of the work-in-progress fiber
  renderLevel,  \* the level it is rendered at
  leftBehind    \* history: updates whose callback another's exception skipped

queueVars == <<update, created, queue, fiber, current, paired, phase, renderLevel, leftBehind>>

Alternate(f) == 3 - f
WorkInProgress == Alternate(current)
OtherQueue(q) == 3 - q

Unused == [level |-> NoLevel, captured |-> FALSE, callback |-> "none",
           next |-> NULL, nextEffect |-> NULL]

CreateUpdate(level, captured, callback) ==
  [Unused EXCEPT !.level = level, !.captured = captured, !.callback = callback]

CreateUpdateQueue(state) ==
  [baseState |-> state,
   firstUpdate |-> NULL, lastUpdate |-> NULL,
   firstCapturedUpdate |-> NULL, lastCapturedUpdate |-> NULL,
   firstEffect |-> NULL, lastEffect |-> NULL,
   firstCapturedEffect |-> NULL, lastCapturedEffect |-> NULL]

CloneUpdateQueue(q) ==
  [CreateUpdateQueue(q.baseState) EXCEPT !.firstUpdate = q.firstUpdate,
                                         !.lastUpdate = q.lastUpdate]

QueueInit ==
  /\ update = [u \in Updates |-> Unused]
  /\ created = 0
  /\ queue = [q \in Queues |-> CreateUpdateQueue(<<>>)]
  /\ fiber = [f \in Fibers |-> [updateQueue |-> NULL, expirationTime |-> NoLevel,
                                memoizedState |-> <<>>, callbackTag |-> FALSE]]
  /\ current = 1
  /\ paired = FALSE
  /\ phase = "idle"
  /\ renderLevel = NoLevel
  /\ leftBehind = {}
-----------------------------------------------------------------------------
NextOf == [u \in Updates |-> update[u].next]
NextEffectOf == [u \in Updates |-> update[u].nextEffect]

(* The list that starts at an update; a list that comes back to itself is  *)
(* cut off after as many steps as there are updates.                       *)
Nodes(link, start) ==
  LET node[n \in 1 .. MaxUpdates + 1] ==
        IF n = 1 THEN start
        ELSE LET previous == node[n - 1] IN IF previous = NULL THEN NULL ELSE link[previous]
  IN  node

Chain(link, start) ==
  LET nodes == Nodes(link, start)
      ends == {n \in 1 .. MaxUpdates + 1 : nodes[n] = NULL}
  IN  IF ends = {} THEN nodes ELSE SubSeq(nodes, 1, Min(ends) - 1)

(* A loop over the list reaches null.                                      *)
IsFinite(link, start) ==
  LET list == Chain(link, start) IN list # <<>> => link[Last(list)] = NULL

(* The elements of a list that are in a set, in the order of the list      *)
(* (SelectSeq takes an operator, of which nothing could be proved).        *)
KeptUpTo(list, S) ==
  LET kept[n \in 0 .. Len(list)] ==
        IF n = 0 THEN <<>>
        ELSE IF list[n] \in S THEN Append(kept[n - 1], list[n]) ELSE kept[n - 1]
  IN  kept

Only(list, S) == KeptUpTo(list, S)[Len(list)]

Due(list) == Only(list, {u \in Updates : update[u].level <= renderLevel})
Skipped(list) == {n \in DOMAIN list : update[list[n]].level > renderLevel}

BeforeSkippedOrDue(list) == Due(list)     \* a mutation: all that is applied is the base

BeforeSkipped(list) ==
  IF Skipped(list) = {} THEN list ELSE SubSeq(list, 1, Min(Skipped(list)) - 1)

FirstSkipped(list) == IF Skipped(list) = {} THEN NULL ELSE list[Min(Skipped(list))]

WithCallback(list) == Only(list, {u \in Updates : update[u].callback = "set"})

Normal(list) == Only(list, {u \in Updates : ~update[u].captured})

Sooner(t, level) == IF t = NoLevel \/ t > level THEN level ELSE t

SkippedLevels(list) == {update[list[n]].level : n \in Skipped(list)}

Soonest(levels) == IF levels = {} THEN NoLevel ELSE Min(levels)
-----------------------------------------------------------------------------
Exists(f) == f = current \/ paired

(* The queue of each fiber once enqueueUpdate has created what is missing. *)
QueueName(f) ==
  CASE fiber[f].updateQueue # NULL            -> fiber[f].updateQueue
    [] fiber[f].updateQueue = NULL /\ Exists(f) ->
         IF fiber[Alternate(f)].updateQueue = NULL THEN f
         ELSE OtherQueue(fiber[Alternate(f)].updateQueue)
    [] OTHER                                  -> NULL

(* A fiber without a queue gets a clone of its alternate's, or a new one.  *)
QueueOf(f) ==
  LET own == fiber[f].updateQueue
      others == fiber[Alternate(f)].updateQueue
  IN  CASE own # NULL                   -> queue[own]
        [] own = NULL /\ others # NULL  -> CloneUpdateQueue(queue[others])
        [] OTHER                        -> CreateUpdateQueue(fiber[f].memoizedState)

AppendUpdateToQueue(q, u) ==
  [q EXCEPT !.lastUpdate = u,
            !.firstUpdate = IF q.lastUpdate = NULL THEN u ELSE q.firstUpdate]

(* The update to link the new one to: two lists that are not empty have    *)
(* the same last update, so that the first queue's is enough.              *)
LastOf(f) ==
  IF QueueOf(f).lastUpdate # NULL \/ ~Exists(Alternate(f)) THEN QueueOf(f).lastUpdate
  ELSE QueueOf(Alternate(f)).lastUpdate

(* enqueueSetState, enqueueReplaceState, enqueueForceUpdate and            *)
(* scheduleRootUpdate, called with any of the two fibers: an instance      *)
(* keeps the one it was mounted with, a root passes the current one, and   *)
(* a context provider that changes the one in progress.                    *)
EnqueueUpdate(f, level, callback) ==
  LET u == created + 1
      holders == {x \in Fibers : Exists(x)}
  IN  /\ created < MaxUpdates
      /\ phase # "hung"
      /\ Exists(f)
      /\ created' = u
      /\ update' = [v \in Updates |->
                      IF v = u THEN CreateUpdate(level, FALSE, callback)
                      ELSE IF v = LastOf(f) THEN [update[v] EXCEPT !.next = u]
                      ELSE update[v]]
      /\ queue' = [q \in Queues |->
                     IF \E x \in holders : QueueName(x) = q
                     THEN AppendUpdateToQueue(
                            QueueOf(CHOOSE x \in holders : QueueName(x) = q), u)
                     ELSE queue[q]]
      /\ fiber' = [x \in Fibers |->
                     IF x \in holders
                     THEN [fiber[x] EXCEPT !.updateQueue = QueueName(x),
                                           !.expirationTime = Sooner(@, level)]
                     ELSE fiber[x]]
      /\ UNCHANGED <<current, paired, phase, renderLevel, leftBehind>>
-----------------------------------------------------------------------------
(* createWorkInProgress: a render reaches the fiber, the first one, one    *)
(* after a commit, or one that starts over after another was interrupted.  *)
CreateWorkInProgress(level) ==
  /\ phase # "hung"
  /\ fiber' = [fiber EXCEPT ![WorkInProgress] = [fiber[current] EXCEPT !.callbackTag = FALSE]]
  /\ queue' = [q \in Queues |-> IF q = fiber[current].updateQueue THEN queue[q]
                                ELSE CreateUpdateQueue(<<>>)]
  /\ paired' = TRUE
  /\ phase' = "created"
  /\ renderLevel' = level
  /\ UNCHANGED <<update, created, current, leftBehind>>

(* ensureWorkInProgressQueueIsAClone: the name of the queue to change, and *)
(* the queue to start from.                                                *)
OwnName ==
  IF fiber[WorkInProgress].updateQueue = fiber[current].updateQueue
  THEN OtherQueue(fiber[current].updateQueue)
  ELSE fiber[WorkInProgress].updateQueue

OwnQueue ==
  LET shared == queue[fiber[WorkInProgress].updateQueue]
  IN  IF fiber[WorkInProgress].updateQueue = fiber[current].updateQueue
      THEN CloneUpdateQueue(shared) ELSE shared

(* Mutations: the end is moved and nothing linked to it; links left from   *)
(* another render are kept.                                                *)
LinkUnlinked(e, u) ==
  [first |-> IF e.last = NULL THEN u ELSE e.first, last |-> u, link |-> [e.link EXCEPT ![u] = NULL]]

LinkWithoutReset(e, u) ==
  IF e.last = NULL THEN [e EXCEPT !.first = u, !.last = u]
  ELSE [e EXCEPT !.last = u, !.link[e.last] = u]

(* Links an update to the end of a list of effects.                        *)
LinkEffect(e, u) ==
  LET link == [e.link EXCEPT ![u] = NULL]
  IN  IF e.last = NULL THEN [first |-> u, last |-> u, link |-> link]
      ELSE [first |-> e.first, last |-> u, link |-> [link EXCEPT ![e.last] = u]]

Pushed(effects, list) ==
  LET pushed[n \in 0 .. Len(list)] ==
        IF n = 0 THEN effects ELSE LinkEffect(pushed[n - 1], list[n])
  IN  pushed

PushEffects(effects, list) == Pushed(effects, list)[Len(list)]

(* processUpdateQueue for the work-in-progress fiber, whose queue exists.  *)
ProcessUpdateQueue ==
  LET q == OwnQueue
      list == Chain(NextOf, q.firstUpdate)
      captured == Chain(NextOf, q.firstCapturedUpdate)
      newFirstUpdate == FirstSkipped(list)
      newFirstCapturedUpdate == FirstSkipped(captured)
      effects == PushEffects([first |-> q.firstEffect, last |-> q.lastEffect,
                              link |-> NextEffectOf], WithCallback(Due(list)))
      capturedEffects == PushEffects([first |-> q.firstCapturedEffect,
                                      last |-> q.lastCapturedEffect,
                                      link |-> effects.link], WithCallback(Due(captured)))
  IN  /\ queue' = [queue EXCEPT ![OwnName] =
           [baseState |-> q.baseState \o BeforeSkipped(list)
                            \o (IF newFirstUpdate = NULL THEN BeforeSkipped(captured) ELSE <<>>),
            firstUpdate |-> newFirstUpdate,
            lastUpdate |-> IF newFirstUpdate = NULL THEN NULL ELSE q.lastUpdate,
            firstCapturedUpdate |-> newFirstCapturedUpdate,
            lastCapturedUpdate |->
              IF newFirstCapturedUpdate = NULL THEN NULL ELSE q.lastCapturedUpdate,
            firstEffect |-> effects.first,
            lastEffect |-> effects.last,
            firstCapturedEffect |-> capturedEffects.first,
            lastCapturedEffect |-> capturedEffects.last]]
      /\ update' = [u \in Updates |->
                      [update[u] EXCEPT !.nextEffect = capturedEffects.link[u]]]
      /\ fiber' = [fiber EXCEPT ![WorkInProgress] =
           [updateQueue |-> OwnName,
            expirationTime |-> Soonest(SkippedLevels(list) \cup SkippedLevels(captured)),
            memoizedState |-> q.baseState \o Due(list) \o Due(captured),
            callbackTag |-> \/ fiber[WorkInProgress].callbackTag
                            \/ WithCallback(Due(list) \o Due(captured)) # <<>>
                            \/ newFirstCapturedUpdate # NULL]]

(* beginWork bails out: the fiber has nothing to do at this level.         *)
BailOut ==
  /\ phase = "created"
  /\ \/ fiber[WorkInProgress].expirationTime = NoLevel
     \/ fiber[WorkInProgress].expirationTime > renderLevel
  /\ phase' = "begun"
  /\ UNCHANGED <<update, created, queue, fiber, current, paired, renderLevel, leftBehind>>

(* beginWork works on the fiber: it has work or its parent changed.        *)
BeginWork ==
  /\ phase = "created"
  /\ IF fiber[WorkInProgress].updateQueue # NULL THEN ProcessUpdateQueue
     ELSE /\ fiber' = [fiber EXCEPT ![WorkInProgress].expirationTime = NoLevel]
          /\ UNCHANGED <<update, queue>>
  /\ phase' = "begun"
  /\ UNCHANGED <<created, current, paired, renderLevel, leftBehind>>

(* Captured updates have a list of their own, on the own queue only.       *)
EnqueueCapturedUpdate(q, u) ==
  [q EXCEPT !.firstCapturedUpdate = IF q.lastCapturedUpdate = NULL THEN u ELSE @,
            !.lastCapturedUpdate = u]

(* throwException finds this fiber to be the boundary for an error below   *)
(* it and captures it.  Siblings of the failed fiber are rendered all the  *)
(* same and may fail as well.                                              *)
ThrowException(callback) ==
  LET u == created + 1
      noQueue == fiber[WorkInProgress].updateQueue = NULL
      name == IF noQueue THEN WorkInProgress ELSE OwnName
      q == IF noQueue THEN CreateUpdateQueue(fiber[WorkInProgress].memoizedState)
           ELSE OwnQueue
  IN  /\ phase \in {"begun", "thrown"}
      /\ created < MaxUpdates
      /\ Cardinality({v \in Updates : update[v].captured}) < MaxCaptured
      /\ created' = u
      /\ update' = [v \in Updates |->
                      IF v = u THEN CreateUpdate(renderLevel, TRUE, callback)
                      ELSE IF v = q.lastCapturedUpdate THEN [update[v] EXCEPT !.next = u]
                      ELSE update[v]]
      /\ queue' = [queue EXCEPT ![name] = EnqueueCapturedUpdate(q, u)]
      /\ fiber' = [fiber EXCEPT ![WorkInProgress].updateQueue = name,
                                ![WorkInProgress].expirationTime = renderLevel]
      /\ phase' = "thrown"
      /\ UNCHANGED <<current, paired, renderLevel, leftBehind>>

(* unwindWork returns the boundary, and it is begun a second time.         *)
BeginAgain ==
  /\ phase = "thrown"
  /\ ProcessUpdateQueue
  /\ phase' = "begunAgain"
  /\ UNCHANGED <<created, current, paired, renderLevel, leftBehind>>

(* The captured updates that are left join the list of normal updates.     *)
(* None ever is: they have the level of the render that captured them.     *)
JoinCaptured(q) ==
  [q EXCEPT !.firstCapturedUpdate = NULL, !.lastCapturedUpdate = NULL,
            !.lastUpdate = IF q.firstCapturedUpdate # NULL /\ q.lastUpdate # NULL
                           THEN q.lastCapturedUpdate ELSE q.lastUpdate]

(* commitUpdateQueue of the finished fiber, whose callbacks run one after  *)
(* the other; an exception of one skips the rest of them.                  *)
CommitUpdateQueue ==
  LET name == fiber[WorkInProgress].updateQueue
      q == queue[name]
      effects == Chain(NextEffectOf, q.firstEffect)
      capturedEffects == IF IsFinite(NextEffectOf, q.firstEffect)
                         THEN Chain(NextEffectOf, q.firstCapturedEffect) ELSE <<>>
      callbacks == WithCallback(effects \o capturedEffects)
      Joined(v) == /\ q.firstCapturedUpdate # NULL
                   /\ v = q.lastUpdate
  IN  \E ran \in 1 .. Len(callbacks) \cup {Len(callbacks)} :
        /\ update' = [v \in Updates |->
             [update[v] EXCEPT
               !.next = IF Joined(v) THEN q.firstCapturedUpdate ELSE @,
               !.callback = IF v \in ToSet(SubSeq(callbacks, 1, ran)) THEN "called" ELSE @]]
        /\ leftBehind' = leftBehind \cup ToSet(SubSeq(callbacks, ran + 1, Len(callbacks)))
        /\ queue' = [queue EXCEPT ![name] =
             IF ran < Len(callbacks) THEN JoinCaptured(q)
             ELSE [JoinCaptured(q) EXCEPT !.firstEffect = NULL, !.lastEffect = NULL,
                                          !.firstCapturedEffect = NULL,
                                          !.lastCapturedEffect = NULL]]

(* commitRoot: the finished fiber is the current one from now on, then its *)
(* lifecycles run.  A list of effects that has no end is never left.       *)
CommitRoot ==
  /\ phase \in {"begun", "begunAgain"}
  /\ current' = WorkInProgress
  /\ LET name == fiber[WorkInProgress].updateQueue
     IN  IF fiber[WorkInProgress].callbackTag /\ name # NULL
         THEN /\ CommitUpdateQueue
              /\ phase' = IF IsFinite(NextEffectOf, queue[name].firstEffect)
                          THEN "idle" ELSE "hung"
         ELSE /\ phase' = "idle"
              /\ UNCHANGED <<update, queue, leftBehind>>
  /\ UNCHANGED <<created, fiber, paired, renderLevel>>

QueueNext ==
  \/ \E f \in Fibers, level \in UpdateLevels, callback \in {"none", "set"} :
       EnqueueUpdate(f, level, callback)
  \/ \E level \in UpdateLevels : CreateWorkInProgress(level)
  \/ BailOut
  \/ BeginWork
  \/ \E callback \in {"none", "set"} : ThrowException(callback)
  \/ BeginAgain
  \/ CommitRoot

QueueSpec == QueueInit /\ [][QueueNext]_queueVars
-----------------------------------------------------------------------------
Names == Updates \cup {NULL}
QueueTimes == UpdateLevels \cup {NoLevel}
States == Seq(Updates)

QueueTypeOK ==
  /\ update \in [Updates -> [level : QueueTimes, captured : BOOLEAN,
                             callback : {"none", "set", "called"},
                             next : Names, nextEffect : Names]]
  /\ created \in 0 .. MaxUpdates
  /\ queue \in [Queues -> [baseState : States,
                           firstUpdate : Names, lastUpdate : Names,
                           firstCapturedUpdate : Names, lastCapturedUpdate : Names,
                           firstEffect : Names, lastEffect : Names,
                           firstCapturedEffect : Names, lastCapturedEffect : Names]]
  /\ fiber \in [Fibers -> [updateQueue : Queues \cup {NULL}, expirationTime : QueueTimes,
                           memoizedState : States, callbackTag : BOOLEAN]]
  /\ current \in Fibers
  /\ paired \in BOOLEAN
  /\ phase \in {"idle", "created", "begun", "thrown", "begunAgain", "hung"}
  /\ renderLevel \in QueueTimes
  /\ leftBehind \subseteq Updates

HasQueue(f) == fiber[f].updateQueue # NULL
Pending(f) == Chain(NextOf, queue[fiber[f].updateQueue].firstUpdate)
BaseState(f) == queue[fiber[f].updateQueue].baseState
LastUpdate(f) == queue[fiber[f].updateQueue].lastUpdate
LastIn(list) == IF list = <<>> THEN NULL ELSE Last(list)

(* enqueueUpdate relies on it: two queues that are not empty end with the  *)
(* same update, and a queue's last update is where its list ends.  While a *)
(* render is under way, the work-in-progress queue has processed at least  *)
(* the updates the current queue has.                                      *)
ListsShareTheirTail ==
  /\ \A f \in Fibers : HasQueue(f) => LastUpdate(f) = LastIn(Pending(f))
  /\ \A f, g \in Fibers : HasQueue(f) /\ HasQueue(g) /\ LastUpdate(f) # NULL /\ LastUpdate(g) # NULL =>
       LastUpdate(f) = LastUpdate(g)
  /\ phase \in {"created", "begun", "thrown", "begunAgain"} /\ HasQueue(current)
       /\ HasQueue(WorkInProgress) =>
         LET list == Pending(current)
             rest == Pending(WorkInProgress)
         IN  \E n \in 0 .. Len(list) : rest = SubSeq(list, n + 1, Len(list))

(* What the fiber on the screen does not show yet is scheduled on it, at   *)
(* least as urgently as it asks for; else beginWork would bail out on it.  *)
PendingWorkIsScheduled ==
  \A f \in Fibers : HasQueue(f) /\ (f = current \/ phase \in {"begun", "begunAgain"}) =>
    \A u \in ToSet(Pending(f)) \ ToSet(fiber[f].memoizedState) :
      fiber[f].expirationTime \in 1 .. update[u].level

(* The types hold, and the final state is deterministic, whatever the      *)
(* levels and however often a render is thrown away: the base state of     *)
(* either queue followed by its pending updates is always all updates      *)
(* there have been, in the order they were created in, each of them once;  *)
(* and what is not shown is scheduled.                                     *)
NothingIsLost ==
  /\ QueueTypeOK /\ ListsShareTheirTail /\ PendingWorkIsScheduled
  /\ \A f \in Fibers : HasQueue(f) =>
    Normal(BaseState(f) \o Pending(f)) = Normal([u \in 1 .. created |-> u])

(* The callback of an update on the screen has been called                 *)
(* (commitUpdateEffects), unless another callback threw in the same        *)
(* commit.  Captured updates are left out: enqueueUpdate may clone the     *)
(* base state of a render that is then thrown away, and with it an update  *)
(* whose callback nobody calls.                                            *)
CallbacksAreCalled ==
  phase # "hung" =>
    \A u \in ToSet(Normal(fiber[current].memoizedState)) :
      update[u].callback = "set" => u \in leftBehind

(* A callback is called by the commit of a state that contains its update; *)
(* the links a thrown away render left in the updates mislead no commit,   *)
(* and no callback is forgotten.                                           *)
CallbacksRunWithTheirUpdate ==
  /\ []CallbacksAreCalled
  /\ [][\A u \in Updates :
          update[u].callback = "set" /\ update'[u].callback = "called" =>
            /\ current' # current
            /\ u \in ToSet(fiber'[current'].memoizedState)]_queueVars

(* commitUpdateEffects comes to the end of the list of effects and so runs *)
(* all callbacks.                                                          *)
CommitsEnd == phase # "hung"
=============================================================================
