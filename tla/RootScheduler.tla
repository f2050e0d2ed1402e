--------------------------- MODULE RootScheduler ---------------------------
(***************************************************************************)
(* The root scheduler of react-reconciler/src/ReactFiberScheduler.js: from *)
(* an update to its commit (lines 542-834, 1211-1540, 1621-2460).  Updates *)
(* are scheduled from events, from inside a render and from lifecycles;    *)
(* roots are performed synchronously, or in slices by a callback of the    *)
(* scheduler; a render completes, yields, suspends on a promise, fails, or *)
(* fails fatally.                                                          *)
(*                                                                         *)
(* A root's fiber tree is abstracted to the levels at which it has updates *)
(* to process ("work").  A render at a level processes those up to it; an  *)
(* update that arrives when the render has begun may or may not be seen.   *)
(***************************************************************************)
EXTENDS PendingPriority, SequencesExt

CONSTANTS
  Roots, NoRoot,
  Applications,  \* the applications that are explored: see Application
  MaxTime,       \* bound on the clock
  LastUpdateTime \* bound on the time at which updates are scheduled

(* In a render: throw an error, which a boundary may handle, or none (a    *)
(* "crash"); suspend on a promise; schedule an update.  Anywhere: schedule *)
(* an update at an explicit level, by deferredUpdates.                     *)
AllBehaviours == {"throw", "crash", "suspend", "updateInRender", "deferUpdates"}

(* An application: its roots, what it may do beside setting state in       *)
(* events and lifecycles, how long its async and interactive updates have  *)
(* until they expire, and how many updates it schedules (a bound).         *)
Application == [roots : SUBSET Roots, behaviours : SUBSET AllBehaviours,
                delays : SUBSET (1..MaxTime), updates : 0..9]

ASSUME RootSchedulerAssumption ==
  /\ NoRoot \notin Roots
  /\ Applications \subseteq Application
  /\ MaxTime \in Nat /\ MaxTime > 1
  /\ LastUpdateTime \in Nat

VARIABLES
  clock,                   \* now(), in the units of expiration times
  currentTime,             \* currentRendererTime and currentSchedulerTime
  levels,                  \* the levels of each root (PendingPriority)
  work,                    \* the levels at which each root has updates
  promises,                \* the levels pinged when a promise resolves
  wip,                     \* the render in progress: nextRoot, its level
  finishedWork,            \* of each root: the tree ready to be committed
  timeouts,                \* of each root: the suspended tree to commit then
  schedule,                \* the list from firstScheduledRoot on
  nextFlushedRoot, nextFlushedExpirationTime,
  callbackExpirationTime,
  callback,                \* the scheduler's callback: performAsyncWork
  deadlineDidExpire,
  isBatchingUpdates,
  performing,              \* who performs work: see PerformingKinds
  isExpired,               \* the argument of performWorkOnRoot
  phase,                   \* where in performing work are we
  application              \* which of the Applications this is; never changes but
                           \* for the updates it has left to schedule

treeVars == <<work, promises, wip, finishedWork, timeouts>>
callbackVars == <<callbackExpirationTime, callback>>
flushVars == <<nextFlushedRoot, nextFlushedExpirationTime>>
loopVars == <<performing, isExpired, phase>>
vars == <<clock, currentTime, levels, treeVars, schedule, flushVars, callbackVars,
          deadlineDidExpire, isBatchingUpdates, loopVars, application>>

(* performWork with a deadline or without one, or performWorkOnRoot called *)
(* directly by requestWork (unbatched) or by flushRoot.                    *)
PerformingKinds == {"nothing", "async", "sync", "unbatched", "flushRoot"}
Phases == {"idle", "loop", "perform", "render", "commit"}

(* A finished tree: the level it was rendered at, the levels up to it that *)
(* are left in it, and whether another tree was committed since.           *)
NoTree == [level |-> NoWork, left |-> {}, stale |-> FALSE]
NoRender == [root |-> NoRoot, level |-> NoWork, late |-> {}, timeout |-> -1]

Init ==
  /\ clock = 2 /\ currentTime = 2
  /\ levels = [r \in Roots |-> NewLevels]
  /\ work = [r \in Roots |-> {}]
  /\ promises = [r \in Roots |-> {}]
  /\ wip = NoRender
  /\ finishedWork = [r \in Roots |-> NoTree]
  /\ timeouts = [r \in Roots |-> NoTree]
  /\ schedule = <<>>
  /\ nextFlushedRoot = NoRoot /\ nextFlushedExpirationTime = NoWork
  /\ callbackExpirationTime = NoWork /\ callback = "none"
  /\ deadlineDidExpire = FALSE
  /\ isBatchingUpdates = FALSE
  /\ performing = "nothing" /\ isExpired = FALSE /\ phase = "idle"
  /\ application \in Applications

IsRendering == phase \in {"render", "commit"}
Event == phase = "idle"                        \* code of the application
Task == phase = "idle" /\ ~isBatchingUpdates   \* the browser picks a task

CountUpdate ==
  /\ application.updates > 0 /\ clock <= LastUpdateTime
  /\ application' = [application EXCEPT !.updates = @ - 1]

-----------------------------------------------------------------------------
(* The list of scheduled roots.                                            *)
AddRootToSchedule(s, r) == IF r \in Range(s) THEN s ELSE Append(s, r)

(* findHighestPriorityRoot walks the list up to the first synchronous root *)
(* and drops the roots without work on its way.                            *)
RestOfSchedule(s, end) == SubSeq(s, end + 1, Len(s))

WithWork(lv, s) ==     \* after so many steps of the walk
  LET walked[i \in 0..Len(s)] ==
        IF i = 0 THEN <<>>
        ELSE IF lv[s[i]].expirationTime = NoWork THEN walked[i - 1]
        ELSE Append(walked[i - 1], s[i])
  IN walked

FirstSync(lv, s) ==
  LET syncs == {i \in 1..Len(s) : lv[s[i]].expirationTime = Sync}
  IN IF syncs = {} THEN Len(s) ELSE Min(syncs)

HighestPriority(lv, s) ==
  Min({i \in 1..Len(s) :
         \A j \in 1..Len(s) : lv[s[i]].expirationTime <= lv[s[j]].expirationTime})

FindHighestPriorityRoot(lv, s) ==
  LET end == FirstSync(lv, s)
      walked == WithWork(lv, s)[end]
      first == HighestPriority(lv, walked)
  IN [schedule |-> walked \o RestOfSchedule(s, end),
      root |-> IF walked = <<>> THEN NoRoot ELSE walked[first],
      time |-> IF walked = <<>> THEN NoWork ELSE lv[walked[first]].expirationTime]

Find(found) ==
  /\ schedule' = found.schedule
  /\ nextFlushedRoot' = found.root
  /\ nextFlushedExpirationTime' = found.time

(* What follows is only read after it has been set for a performWork, so   *)
(* its last values are forgotten when the work is over.                    *)
StopPerforming ==
  /\ performing' = "nothing" /\ phase' = "idle" /\ isExpired' = FALSE
  /\ nextFlushedRoot' = NoRoot /\ nextFlushedExpirationTime' = NoWork

(* Mutation: a callback that is scheduled is never replaced.               *)
ScheduleCallbackOnce(t) ==
  IF callbackExpirationTime # NoWork
  THEN UNCHANGED callbackVars
  ELSE callbackExpirationTime' = t /\ callback' = "waiting"

ScheduleCallbackWithExpirationTime(t) ==
  IF callbackExpirationTime # NoWork /\ t > callbackExpirationTime
  THEN UNCHANGED callbackVars
  ELSE callbackExpirationTime' = t /\ callback' = "waiting"

StartPerformWork(kind, found) ==
  /\ Find(found)
  /\ performing' = kind /\ phase' = "loop" /\ UNCHANGED isExpired

(* requestWork outside of rendering, for a root whose levels are lv[r].    *)
RequestWork(r, lv, scheduled) ==
  LET s == AddRootToSchedule(scheduled, r)
      t == lv[r].expirationTime
      defer == schedule' = s /\ UNCHANGED <<flushVars, loopVars>>
  IN \/ isBatchingUpdates /\ defer /\ UNCHANGED callbackVars
     \/ /\ ~isBatchingUpdates /\ t = Sync
        /\ StartPerformWork("sync", FindHighestPriorityRoot(lv, s))
        /\ UNCHANGED callbackVars
     \/ /\ ~isBatchingUpdates /\ t # Sync /\ defer
        /\ ScheduleCallbackWithExpirationTime(t)

(* requestCurrentTime reads the clock only if no work is pending.          *)
RequestCurrentTime(found) == IF found.time = NoWork THEN clock ELSE currentTime

-----------------------------------------------------------------------------
(* scheduleWorkToRoot marks the fiber and its alternate, so that work that *)
(* a tree in progress, or finished, has already passed is left in it.      *)
LeftIn(tree, t) == IF t <= tree.level THEN [tree EXCEPT !.left = @ \cup {t}] ELSE tree

AddWork(r, t, render) ==
  /\ work' = [work EXCEPT ![r] = @ \cup {t}]
  /\ finishedWork' = [finishedWork EXCEPT ![r] = LeftIn(@, t)]
  /\ timeouts' = [timeouts EXCEPT ![r] = LeftIn(@, t)]
  /\ wip' = IF render.root = r /\ t <= render.level
            THEN [render EXCEPT !.late = @ \cup {t}] ELSE render

(* computeExpirationForFiber outside of rendering: synchronous, or some    *)
(* time from now, but not the very time that is being rendered, unless it  *)
(* was set explicitly.                                                     *)
Later(now) == {now + d : d \in application.delays}
ExplicitTimes(now) == IF "deferUpdates" \in application.behaviours THEN Later(now) ELSE {}

Bump(t) == IF wip.root # NoRoot /\ t = wip.level THEN t + 1 ELSE t

ExpirationTimes(now) == {Sync} \cup {Bump(t) : t \in Later(now)} \cup ExplicitTimes(now)

(* scheduleWork from an event: setState, or render of a root.  Work in     *)
(* progress that is less urgent is thrown away.                            *)
ScheduleWork(r) ==
  /\ Event /\ CountUpdate
  /\ LET found == FindHighestPriorityRoot(levels, schedule)
         now == RequestCurrentTime(found)
     IN /\ currentTime' = now
        /\ \E t \in ExpirationTimes(now) :
             LET lv == [levels EXCEPT ![r] = MarkPending(levels[r], t)]
             IN /\ levels' = lv
                /\ AddWork(r, t, IF t < wip.level THEN NoRender ELSE wip)
                /\ RequestWork(r, lv, found.schedule)
  /\ UNCHANGED <<clock, promises, deadlineDidExpire, isBatchingUpdates>>

(* batchedUpdates: the outermost call; the inner ones change nothing.      *)
BeginBatch ==
  /\ Event /\ ~isBatchingUpdates
  /\ isBatchingUpdates' = TRUE
  /\ UNCHANGED <<clock, currentTime, levels, treeVars, schedule, flushVars,
                 callbackVars, deadlineDidExpire, loopVars, application>>

EndBatch ==
  /\ Event /\ isBatchingUpdates
  /\ isBatchingUpdates' = FALSE
  /\ StartPerformWork("sync", FindHighestPriorityRoot(levels, schedule))
  /\ UNCHANGED <<clock, currentTime, levels, treeVars, callbackVars,
                 deadlineDidExpire, application>>

(* An update in unbatchedUpdates, inside a batch: as when a legacy root is *)
(* mounted by an event handler.                                            *)
UpdateUnbatched(r) ==
  /\ Event /\ isBatchingUpdates /\ CountUpdate
  /\ LET found == FindHighestPriorityRoot(levels, schedule)
     IN /\ currentTime' = RequestCurrentTime(found)
        /\ schedule' = AddRootToSchedule(found.schedule, r)
  /\ levels' = [levels EXCEPT ![r] = MarkPending(levels[r], Sync)]
  /\ AddWork(r, Sync, IF Sync < wip.level THEN NoRender ELSE wip)
  /\ nextFlushedRoot' = r /\ nextFlushedExpirationTime' = Sync
  /\ performing' = "unbatched" /\ isExpired' = TRUE /\ phase' = "perform"
  /\ UNCHANGED <<clock, promises, callbackVars, deadlineDidExpire, isBatchingUpdates>>

(* flushSync, with one update; it flushes even inside a batch.             *)
FlushSync(r) ==
  /\ Event /\ CountUpdate
  /\ LET found == FindHighestPriorityRoot(levels, schedule)
         lv == [levels EXCEPT ![r] = MarkPending(levels[r], Sync)]
         s == AddRootToSchedule(found.schedule, r)
     IN /\ currentTime' = RequestCurrentTime(found)
        /\ levels' = lv
        /\ StartPerformWork("sync", FindHighestPriorityRoot(lv, s))
  /\ AddWork(r, Sync, IF Sync < wip.level THEN NoRender ELSE wip)
  /\ UNCHANGED <<clock, promises, callbackVars, deadlineDidExpire, isBatchingUpdates>>

(* A promise that suspended a render at level t resolves:                  *)
(* retrySuspendedRoot.                                                     *)
Ping(r, t) ==
  /\ Task /\ t \in promises[r]
  /\ promises' = [promises EXCEPT ![r] = @ \ {t}]
  /\ LET isSuspended == IsPriorityLevelSuspended(levels[r], t)
         found == FindHighestPriorityRoot(levels, schedule)
         s == IF isSuspended THEN schedule ELSE found.schedule
         now == IF isSuspended THEN currentTime ELSE RequestCurrentTime(found)
         render == IF wip.root = r /\ wip.level = t THEN NoRender ELSE wip
     IN /\ currentTime' = now
        /\ \E retryTime \in IF isSuspended THEN {t} ELSE ExpirationTimes(now) :
             LET lv == [levels EXCEPT ![r] = IF isSuspended
                                             THEN MarkPinged(@, retryTime)
                                             ELSE MarkPending(@, retryTime)]
             IN /\ levels' = lv
                /\ AddWork(r, retryTime, render)
                /\ IF lv[r].expirationTime # NoWork
                   THEN RequestWork(r, lv, s)
                   ELSE schedule' = s /\ UNCHANGED <<flushVars, callbackVars, loopVars>>
  /\ UNCHANGED <<clock, deadlineDidExpire, isBatchingUpdates, application>>

(* The timeout of a suspended tree: onTimeout, then flushRoot commits it.  *)
TimeoutFires(r) ==
  /\ Task /\ timeouts[r] # NoTree
  /\ timeouts' = [timeouts EXCEPT ![r] = NoTree]
  /\ finishedWork' = [finishedWork EXCEPT ![r] = timeouts[r]]
  /\ currentTime' = clock
  /\ nextFlushedRoot' = r /\ nextFlushedExpirationTime' = timeouts[r].level
  /\ performing' = "flushRoot" /\ isExpired' = TRUE /\ phase' = "perform"
  /\ UNCHANGED <<clock, levels, work, promises, wip, schedule, callbackVars,
                 deadlineDidExpire, isBatchingUpdates, application>>

-----------------------------------------------------------------------------
(* The scheduler calls performAsyncWork, maybe with didTimeout.            *)
PerformAsyncWork(didTimeout) ==
  /\ Task /\ callback = "waiting"
  /\ callback' = "running"
  /\ currentTime' = clock
  /\ LET lv == [r \in Roots |-> IF didTimeout /\ r \in Range(schedule)
                                THEN DidExpireAt(levels[r], clock) ELSE levels[r]]
     IN /\ levels' = lv
        /\ StartPerformWork("async", FindHighestPriorityRoot(lv, schedule))
  /\ UNCHANGED <<clock, treeVars, callbackExpirationTime, deadlineDidExpire,
                 isBatchingUpdates, application>>

(* The loop of performWork: a synchronous one performs synchronous work    *)
(* only, an asynchronous one stops at the deadline unless work has expired.*)
WorkWillExpire == nextFlushedExpirationTime > currentTime    \* a mutation

WorkHasExpired == nextFlushedExpirationTime <= currentTime

(* Mutation: an off-by-one in the comparison with minExpirationTime.       *)
LoopStopsAtSync ==
  /\ nextFlushedRoot # NoRoot /\ nextFlushedExpirationTime # NoWork
  /\ IF performing = "sync" THEN nextFlushedExpirationTime < Sync
                            ELSE ~deadlineDidExpire \/ WorkHasExpired

LoopGoesOn ==
  /\ nextFlushedRoot # NoRoot /\ nextFlushedExpirationTime # NoWork
  /\ IF performing = "sync" THEN nextFlushedExpirationTime <= Sync
                            ELSE ~deadlineDidExpire \/ WorkHasExpired

LoopNext ==
  /\ phase = "loop" /\ LoopGoesOn
  /\ isExpired' = (performing = "sync" \/ WorkHasExpired)
  /\ phase' = "perform"
  /\ UNCHANGED <<clock, currentTime, levels, treeVars, schedule, flushVars,
                 callbackVars, deadlineDidExpire, isBatchingUpdates, performing, application>>

(* The end of performWork, with finishRendering; work left over needs a    *)
(* callback.  An unhandled error is thrown to the caller, who has nothing  *)
(* left to do.                                                             *)
ScheduleNextCallback ==
  IF nextFlushedExpirationTime = NoWork
  THEN IF performing = "async" THEN callbackExpirationTime' = NoWork /\ callback' = "none"
                               ELSE UNCHANGED callbackVars
  ELSE IF performing = "async"
  THEN callbackExpirationTime' = nextFlushedExpirationTime /\ callback' = "waiting"
  ELSE ScheduleCallbackWithExpirationTime(nextFlushedExpirationTime)

LoopEnd ==
  /\ phase = "loop" /\ ~LoopGoesOn
  /\ ScheduleNextCallback
  /\ deadlineDidExpire' = FALSE
  /\ StopPerforming
  /\ UNCHANGED <<clock, currentTime, levels, treeVars, schedule,
                 isBatchingUpdates, application>>

(* performWorkOnRoot returns to its caller, with the levels at lv.         *)
AfterPerformWorkOnRoot(lv) ==
  IF performing = "unbatched"
  THEN StopPerforming /\ UNCHANGED <<currentTime, schedule>>
  ELSE /\ StartPerformWork(IF performing = "flushRoot" THEN "sync" ELSE performing,
                           FindHighestPriorityRoot(lv, schedule))
       /\ currentTime' = IF performing = "async" THEN clock ELSE currentTime

-----------------------------------------------------------------------------
(* completeRoot and commitRoot, up to the lifecycles: the tree becomes the *)
(* current one, and its levels are what is left of the work.               *)
EarliestOrNone(times) == NoWork     \* a mutation: NoWork is taken for a level

Earliest(times) == IF times = {} THEN NoWork ELSE CHOOSE t \in times : \A u \in times : t <= u

Outdated(tree) == IF tree = NoTree THEN NoTree ELSE [tree EXCEPT !.stale = TRUE]

StartCommit(r, tree, level) ==
  LET remaining == {t \in work[r] : t > tree.level} \cup tree.left
  IN /\ work' = [work EXCEPT ![r] = remaining]
     /\ levels' = [levels EXCEPT ![r] = MarkCommitted(level, Earliest(remaining))]
     /\ finishedWork' = [finishedWork EXCEPT ![r] = NoTree]
     /\ timeouts' = [timeouts EXCEPT ![r] = Outdated(@)]
     /\ phase' = "commit"
     /\ UNCHANGED <<currentTime, schedule, flushVars, performing, isExpired>>

(* performWorkOnRoot of nextFlushedRoot: commit a finished tree ...        *)
CommitFinishedWork ==
  LET r == nextFlushedRoot
  IN /\ phase = "perform" /\ finishedWork[r] # NoTree
     /\ StartCommit(r, finishedWork[r], levels[r])
     /\ UNCHANGED <<clock, promises, wip, callbackVars, deadlineDidExpire,
                    isBatchingUpdates, application>>

(* ... or render, from the root unless the same render is in progress.     *)
CancelTimeout(r) == timeouts' = [timeouts EXCEPT ![r] = NoTree]

RenderRoot ==
  LET r == nextFlushedRoot
      level == levels[r].nextExpirationTimeToWorkOn
      isResumed == wip.root = r /\ wip.level = level
  IN /\ phase = "perform" /\ finishedWork[r] = NoTree
     /\ CancelTimeout(r)
     /\ wip' = IF isResumed THEN wip ELSE [NoRender EXCEPT !.root = r, !.level = level]
     /\ phase' = "render"
     /\ UNCHANGED <<clock, currentTime, levels, work, promises, finishedWork, schedule,
                    flushVars, callbackVars, deadlineDidExpire, isBatchingUpdates,
                    performing, isExpired, application>>

(* An update from inside the render, at the level that is being rendered.  *)
UpdateDuringRender(r) ==
  /\ "updateInRender" \in application.behaviours /\ phase = "render" /\ CountUpdate
  /\ levels' = [levels EXCEPT ![r] = MarkPending(levels[r], wip.level)]
  /\ AddWork(r, wip.level, wip)
  /\ schedule' = IF r = wip.root THEN schedule ELSE AddRootToSchedule(schedule, r)
  /\ UNCHANGED <<clock, currentTime, promises, flushVars, callbackVars,
                 deadlineDidExpire, isBatchingUpdates, loopVars>>

(* A component suspends on a promise inside a boundary that may wait, by   *)
(* renderDidSuspend, up to some time that may have passed already.         *)
SuspendDuringRender(until) ==
  /\ "suspend" \in application.behaviours /\ phase = "render"
  /\ promises' = [promises EXCEPT ![wip.root] = @ \cup {wip.level}]
  /\ wip' = IF until > wip.timeout THEN [wip EXCEPT !.timeout = until] ELSE wip
  /\ UNCHANGED <<clock, currentTime, levels, work, finishedWork, timeouts, schedule,
                 flushVars, callbackVars, deadlineDidExpire, isBatchingUpdates,
                 loopVars, application>>

(* The deadline of the slice passes in the middle of the tree.             *)
Yield ==
  /\ phase = "render" /\ ~isExpired
  /\ deadlineDidExpire' = TRUE
  /\ AfterPerformWorkOnRoot(levels)
  /\ UNCHANGED <<clock, levels, treeVars, callbackVars, isBatchingUpdates, application>>

(* A fatal error: onUncaughtError unschedules the root.                    *)
FailFatally ==
  LET lv == [levels EXCEPT ![nextFlushedRoot].expirationTime = NoWork]
  IN /\ "crash" \in application.behaviours /\ phase = "render"
     /\ levels' = lv
     /\ wip' = NoRender
     /\ AfterPerformWorkOnRoot(lv)
     /\ UNCHANGED <<clock, work, promises, finishedWork, timeouts, callbackVars,
                    deadlineDidExpire, isBatchingUpdates, application>>

-----------------------------------------------------------------------------
(* The render reaches the end of the tree.  Of the updates that came late, *)
(* some were seen; the others are left.                                    *)
TreesDone == {[level |-> wip.level, left |-> left, stale |-> FALSE] : left \in SUBSET wip.late}

ExitWithoutCommit(lv) ==
  /\ levels' = lv
  /\ AfterPerformWorkOnRoot(lv)
  /\ UNCHANGED <<work, finishedWork>>

(* onComplete (or onSuspend without a timeout): commit if there is time.   *)
ExitWithFinishedWork(tree, lv) ==
  LET r == wip.root
  IN \/ /\ isExpired \/ ~deadlineDidExpire
        /\ StartCommit(r, tree, lv[r])
        /\ UNCHANGED deadlineDidExpire
     \/ /\ ~isExpired
        /\ deadlineDidExpire' = TRUE
        /\ levels' = lv
        /\ finishedWork' = [finishedWork EXCEPT ![r] = tree]
        /\ AfterPerformWorkOnRoot(lv)
        /\ UNCHANGED <<work, timeouts>>

MayRepair(r) == HasLowerPriorityWork(levels[r], wip.level)
MayRetry(r) == ~levels[r].didError /\ ~isExpired

(* It failed, and less urgent work may repair it: similar to a suspense.   *)
FailAndWait ==
  LET r == wip.root
  IN /\ "throw" \in application.behaviours /\ phase = "render" /\ MayRepair(r)
     /\ ExitWithoutCommit([levels EXCEPT ![r] = MarkSuspended(@, wip.level)])
     /\ wip' = NoRender
     /\ UNCHANGED <<clock, promises, timeouts, callbackVars, deadlineDidExpire,
                    isBatchingUpdates, application>>

(* It failed: the same level once more, synchronously.                     *)
FailAndRetry ==
  LET r == wip.root
  IN /\ "throw" \in application.behaviours /\ phase = "render" /\ ~MayRepair(r) /\ MayRetry(r)
     /\ ExitWithoutCommit([levels EXCEPT
          ![r].didError = TRUE,
          ![r].nextExpirationTimeToWorkOn = wip.level,
          ![r].expirationTime = Sync])
     /\ wip' = NoRender
     /\ UNCHANGED <<clock, promises, timeouts, callbackVars, deadlineDidExpire,
                    isBatchingUpdates, application>>

(* It suspended: wait for the promise, but not beyond the expiration of    *)
(* the earliest work.                                                      *)
IsSuspended == ~isExpired /\ wip.timeout # -1

Suspend ==
  LET r == wip.root
      lv == [levels EXCEPT ![r] = MarkSuspended(@, wip.level)]
      earliest == EarliestOutstanding(lv[r], wip.level)
      until == IF earliest < wip.timeout THEN earliest ELSE wip.timeout
  IN /\ phase = "render" /\ IsSuspended
     /\ \E tree \in TreesDone :
          \/ /\ until > currentTime
             /\ timeouts' = [timeouts EXCEPT ![r] = tree]
             /\ ExitWithoutCommit(lv)
             /\ UNCHANGED deadlineDidExpire
          \/ /\ until <= currentTime /\ ~deadlineDidExpire
             /\ ExitWithFinishedWork(tree, lv)
          \/ /\ until <= currentTime
             /\ deadlineDidExpire' = TRUE
             /\ ExitWithoutCommit(lv)
             /\ UNCHANGED timeouts
     /\ wip' = NoRender
     /\ UNCHANGED <<clock, promises, callbackVars, isBatchingUpdates, application>>

(* It completed; or it failed again, and commits what its error boundaries *)
(* show instead.                                                           *)
Complete ==
  /\ phase = "render" /\ ~IsSuspended
  /\ \E tree \in TreesDone : ExitWithFinishedWork(tree, levels)
  /\ wip' = NoRender
  /\ UNCHANGED <<clock, promises, callbackVars, isBatchingUpdates, application>>

-----------------------------------------------------------------------------
(* An update from a lifecycle, or an error that a lifecycle threw          *)
(* (captureCommitPhaseError): synchronous, or at an explicit level.        *)
UpdateDuringCommit(r, t) ==
  /\ phase = "commit" /\ CountUpdate
  /\ levels' = [levels EXCEPT ![r] = MarkPending(levels[r], t)]
  /\ AddWork(r, t, wip)
  /\ schedule' = AddRootToSchedule(schedule, r)
  /\ UNCHANGED <<clock, currentTime, promises, flushVars, callbackVars,
                 deadlineDidExpire, isBatchingUpdates, loopVars>>

(* The lifecycles have run: onCommit.                                      *)
OnCommitNext(root, remaining) ==     \* a mutation
  [root EXCEPT !.expirationTime = remaining, !.nextExpirationTimeToWorkOn = remaining]

OnCommit(root, remaining) == [root EXCEPT !.expirationTime = remaining]

CommitEnds ==
  LET r == nextFlushedRoot
      lv == [levels EXCEPT ![r] = OnCommit(@, Earliest(work[r]))]
  IN /\ phase = "commit"
     /\ levels' = lv
     /\ AfterPerformWorkOnRoot(lv)
     /\ UNCHANGED <<clock, treeVars, callbackVars, deadlineDidExpire,
                    isBatchingUpdates, application>>

Tick ==
  /\ clock < MaxTime /\ clock' = clock + 1
  /\ UNCHANGED <<currentTime, levels, treeVars, schedule, flushVars, callbackVars,
                 deadlineDidExpire, isBatchingUpdates, loopVars, application>>

Next ==
  \/ \E r \in application.roots : ScheduleWork(r) \/ UpdateUnbatched(r) \/ FlushSync(r)
  \/ BeginBatch \/ EndBatch
  \/ \E r \in application.roots : \E t \in promises[r] : Ping(r, t)
  \/ \E r \in application.roots : TimeoutFires(r)
  \/ \E didTimeout \in BOOLEAN : PerformAsyncWork(didTimeout)
  \/ LoopNext \/ LoopEnd
  \/ CommitFinishedWork \/ RenderRoot
  \/ \E r \in application.roots : UpdateDuringRender(r)
  \/ \E until \in {currentTime, MaxTime + 9} : SuspendDuringRender(until)
  \/ Yield \/ FailFatally \/ FailAndWait \/ FailAndRetry \/ Suspend \/ Complete
  \/ \E r \in application.roots : \E t \in {Sync} \cup ExplicitTimes(currentTime) : UpdateDuringCommit(r, t)
  \/ CommitEnds
  \/ Tick

Spec == Init /\ [][Next]_vars

(* What has been started goes on; the scheduler calls its callback in the  *)
(* end, and timers fire, however often other events come first; events     *)
(* end, and time passes.  A slice need not make any progress: the deadline *)
(* may have passed when it starts.                                         *)
RenderEnds == Yield \/ FailFatally \/ FailAndWait \/ FailAndRetry \/ Suspend \/ Complete

Fairness ==
  /\ WF_vars(EndBatch)
  /\ WF_vars(LoopNext \/ LoopEnd \/ CommitFinishedWork \/ RenderRoot \/ CommitEnds)
  /\ WF_vars(RenderEnds)
  /\ SF_vars(\E didTimeout \in BOOLEAN : PerformAsyncWork(didTimeout))
  /\ \A r \in Roots : SF_vars(TimeoutFires(r))
  /\ WF_vars(Tick)

FairSpec == Spec /\ Fairness
-----------------------------------------------------------------------------
TypeOK ==
  /\ clock \in Nat /\ currentTime \in Nat
  /\ levels \in [Roots -> Levels]
  /\ work \in [Roots -> SUBSET Nat] /\ promises \in [Roots -> SUBSET Nat]
  /\ wip.root \in Roots \cup {NoRoot}
  /\ schedule \in Seq(Roots) /\ IsInjective(schedule)
  /\ nextFlushedRoot \in Roots \cup {NoRoot}
  /\ callback \in {"none", "waiting", "running"}
  /\ performing \in PerformingKinds /\ phase \in Phases
  /\ application.roots \subseteq Roots /\ application.updates \in Nat

(* The types hold, and callbackExpirationTime tells whether                *)
(* performAsyncWork is going to be called, although it is set and reset in *)
(* two functions, one of which runs inside the callback itself: a callback *)
(* that is not known of is scheduled twice, one that is known of but gone  *)
(* never again.                                                            *)
CallbackIsKnown ==
  /\ TypeOK
  /\ (callbackExpirationTime # NoWork) <=> (callback # "none")
  /\ (callback = "running") <=> (performing = "async")

(* Between tasks a root with an expiration time is in the list, and a      *)
(* callback of the scheduler waits that expires no later.  Rendering and   *)
(* lifecycles do not ask for a callback when they schedule updates: the    *)
(* end of performWork has to.  No synchronous work is left when a task     *)
(* ends, whether it was scheduled in a batch, in a render, in a lifecycle  *)
(* of another root or as a retry after an error.                           *)
IsScheduled(r) ==
  /\ r \in Range(schedule)
  /\ callback = "waiting" /\ callbackExpirationTime <= levels[r].expirationTime

SyncWorkIsFlushed == Task => \A r \in Roots : levels[r].expirationTime # Sync

(* With suspended levels it is so unless a promise is still to resolve.    *)
RootsWithWorkWait ==
  /\ CallbackIsKnown
  /\ SyncWorkIsFlushed
  /\ Task => \A r \in Roots : levels[r].expirationTime # NoWork =>
       \/ IsScheduled(r)
       \/ levels[r].suspended # NoLevels /\ promises[r] # {}

(* A finished tree, waiting for time or for a promise, is dropped before   *)
(* another tree of the root is committed: committing it then would undo    *)
(* the later commit (commitRoot's "Cannot commit the same tree as before").*)
NothingStale == \A r \in Roots : ~finishedWork[r].stale /\ ~timeouts[r].stale

(* Updates that are left in a tree are not out of reach: something is      *)
(* known of the root, or is outstanding, that leads back to them.  (A root *)
(* that crashes is given up, until its next update.)  Nor are they undone  *)
(* by a stale tree.                                                        *)
WorkIsReachable ==
  /\ NothingStale
  /\ Task /\ "crash" \notin application.behaviours => \A r \in Roots : work[r] # {} =>
       \/ levels[r].expirationTime # NoWork
       \/ timeouts[r] # NoTree
       \/ promises[r] # {}

(* The reconciler keeps to what RootLevels assumes of it: what is checked  *)
(* and proved of the levels of a root there holds of every root here.  A   *)
(* tree whose timeout has passed takes two steps at once: it is suspended, *)
(* and committed.                                                          *)
LevelTimes == 1..(2 * MaxTime + 1)    \* from the clock, by a delay, bumped

LevelsOf(r) == INSTANCE RootLevels WITH levels <- levels[r], Times <- LevelTimes

SuspendedAndCommitted(r) ==
  \E t \in LevelTimes : \E remaining \in LevelTimes \cup {NoWork} :
    levels'[r] = MarkCommitted(MarkSuspended(levels[r], t), remaining)

LevelsAreKept ==
  /\ \A r \in Roots : LevelsOf(r)!Init
  /\ [][\A r \in Roots : [LevelsOf(r)!Next \/ SuspendedAndCommitted(r)]_(levels[r])]_levels

(* Updates do not starve: a root is rid of its updates in the end, though  *)
(* every slice may be too short for its tree, because the work expires.    *)
UpdatesAreCommitted == \A r \in Roots : work[r] # {} ~> work[r] = {}

(* renderRoot, of a suspended tree: "The timeout threshold cannot be longer *)
(* than the overall expiration."  Whether or not the promise ever resolves,*)
(* the level does not stay suspended.                                      *)
SuspendedLevelsTimeOut ==
  \A r \in Roots : levels[r].suspended # NoLevels ~> levels[r].suspended = NoLevels
=============================================================================
