------------------------------ MODULE Tracing ------------------------------
(***************************************************************************)
(* Interactions and the asynchronous work they cause: trace and wrap of    *)
(* scheduler/src/Tracing.js, and what ReactFiberScheduler records for the  *)
(* updates, renders and commits of one root.  A subscriber listens all the *)
(* time.  The end of a callback is one action, whether it returns or       *)
(* throws: the bookkeeping is in finally blocks.  Subscribers do not throw.*)
(***************************************************************************)
EXTENDS Integers, FiniteSets, SequencesExt

CONSTANTS MaxInteractions, MaxWraps, MaxUpdatesTraced, MaxDepth, TraceLevels

ASSUME TraceLevelsAssumption == TraceLevels \subseteq Nat \ {0} /\ IsFiniteSet(TraceLevels)

VARIABLES
  interactionsRef,        \* the interactions of the code that runs now
  count,                  \* __count of each interaction
  wrapped,                \* the functions made by wrap: their interactions, and whether they are still to be called
  running,                \* the calls under way, innermost last: what they are, what they restore
  pendingInteractionMap,  \* of the root: the interactions scheduled at each level
  memoizedInteractions,   \* of the root: those of the render under way
  work,                   \* the levels the root has work at, and history: the interactions it was scheduled in
  rendering,              \* the level being rendered, 0: none
  scheduled,              \* updates scheduled
  completed               \* history: calls of onInteractionScheduledWorkCompleted

tracingVars == <<interactionsRef, count, wrapped, running, pendingInteractionMap,
                 memoizedInteractions, work, rendering, scheduled, completed>>

Known == DOMAIN count
WorkLevels == DOMAIN work
Minus(c, is) == [i \in DOMAIN c |-> IF i \in is THEN c[i] - 1 ELSE c[i]]
Plus(c, is) == [i \in DOMAIN c |-> IF i \in is THEN c[i] + 1 ELSE c[i]]

(* Less work for the interactions is; those with none left are complete.   *)
Finish(is) == /\ count' = Minus(count, is)
              /\ completed' = Plus(completed, {i \in is : count[i] = 1})

Enter(kind, what, is) ==
  /\ Len(running) < MaxDepth
  /\ running' = Append(running, [kind |-> kind, what |-> what, prev |-> interactionsRef])
  /\ interactionsRef' = is

Leave == running' = Front(running) /\ interactionsRef' = Last(running).prev
Innermost(kind) == running # <<>> /\ Last(running).kind = kind
Inside(kind) == \E n \in DOMAIN running : running[n].kind = kind
-----------------------------------------------------------------------------
Trace ==
  LET i == Len(count) + 1
  IN  /\ i <= MaxInteractions /\ ~Innermost("again")
      /\ count' = Append(count, 1) /\ completed' = Append(completed, 0)
      /\ Enter("trace", i, interactionsRef \cup {i})
      /\ UNCHANGED <<wrapped, pendingInteractionMap, memoizedInteractions, work, rendering, scheduled>>

TraceEnd ==
  /\ Innermost("trace") /\ Leave /\ Finish({Last(running).what})
  /\ UNCHANGED <<wrapped, pendingInteractionMap, memoizedInteractions, work, rendering, scheduled>>

Wrap ==
  /\ Len(wrapped) < MaxWraps /\ interactionsRef # {} /\ ~Innermost("again")
  /\ wrapped' = Append(wrapped, [interactions |-> interactionsRef, hasRun |-> FALSE])
  /\ count' = Plus(count, interactionsRef)
  /\ UNCHANGED <<interactionsRef, running, pendingInteractionMap, memoizedInteractions, work,
                 rendering, scheduled, completed>>

(* A second call is possible, but expected to do nothing.                  *)
CallWrapped(w) ==
  /\ ~\E n \in DOMAIN running : running[n].kind = "wrapped" /\ running[n].what = w
  /\ Enter(IF wrapped[w].hasRun THEN "again" ELSE "wrapped", w, wrapped[w].interactions)
  /\ UNCHANGED <<count, wrapped, pendingInteractionMap, memoizedInteractions, work, rendering,
                 scheduled, completed>>

WrappedEnd ==
  /\ Innermost("wrapped") /\ Leave /\ Finish(wrapped[Last(running).what].interactions)
  /\ wrapped' = [wrapped EXCEPT ![Last(running).what].hasRun = TRUE]
  /\ UNCHANGED <<pendingInteractionMap, memoizedInteractions, work, rendering, scheduled>>

AgainEnd ==
  /\ Innermost("again") /\ Leave
  /\ UNCHANGED <<count, wrapped, pendingInteractionMap, memoizedInteractions, work, rendering,
                 scheduled, completed>>

(* A function is cancelled instead of being called: hasRun stands for it.  *)
Cancel(w) ==
  /\ ~wrapped[w].hasRun
  /\ ~\E n \in DOMAIN running : running[n].kind = "wrapped" /\ running[n].what = w
  /\ Finish(wrapped[w].interactions)
  /\ wrapped' = [wrapped EXCEPT ![w].hasRun = TRUE]
  /\ UNCHANGED <<interactionsRef, running, pendingInteractionMap, memoizedInteractions, work,
                 rendering, scheduled>>
-----------------------------------------------------------------------------
(* ReactFiberScheduler: scheduleWorkToRoot, renderRoot, commitRoot         *)
ScheduleTraced(l) ==
  /\ scheduled < MaxUpdatesTraced /\ ~Innermost("again")
  /\ scheduled' = scheduled + 1
  /\ work' = [m \in WorkLevels \cup {l} |-> (IF m \in WorkLevels THEN work[m] ELSE {})
                                           \cup (IF m = l THEN interactionsRef ELSE {})]
  /\ count' = Plus(count, interactionsRef \ pendingInteractionMap[l])
  /\ pendingInteractionMap' = [pendingInteractionMap EXCEPT ![l] = @ \cup interactionsRef]
  /\ rendering' = IF ~Inside("render") /\ ~Inside("commit") /\ l < rendering THEN 0 ELSE rendering
  /\ UNCHANGED <<interactionsRef, wrapped, running, memoizedInteractions, completed>>

(* A slice of a render, of the level under way or of another one.          *)
RenderSlice(l) ==
  LET is == UNION {pendingInteractionMap[m] : m \in {m \in TraceLevels : m <= l}}
      current == IF l = rendering THEN memoizedInteractions ELSE is
  IN  /\ l \in WorkLevels /\ ~Inside("render") /\ ~Inside("commit") /\ ~Innermost("again")
      /\ memoizedInteractions' = current /\ rendering' = l
      /\ Enter("render", l, current)
      /\ UNCHANGED <<count, wrapped, pendingInteractionMap, work, scheduled, completed>>

SliceEnd ==
  /\ Innermost("render") /\ Leave
  /\ UNCHANGED <<count, wrapped, pendingInteractionMap, memoizedInteractions, work, rendering,
                 scheduled, completed>>

CommitTraced ==
  /\ rendering # 0 /\ ~Inside("render") /\ ~Inside("commit") /\ ~Innermost("again")
  /\ work' = Restrict(work, {l \in WorkLevels : l > rendering})
  /\ Enter("commit", rendering, memoizedInteractions)
  /\ rendering' = 0
  /\ UNCHANGED <<count, wrapped, pendingInteractionMap, memoizedInteractions, scheduled, completed>>

(* Mutant: a level that still has work is cleared with those before it.    *)
ClearedThrough(l) == WorkLevels = {} \/ l <= Min(WorkLevels)

IsDone(l) == WorkLevels = {} \/ l < Min(WorkLevels)

CommitTracedEnd ==
  LET done == {l \in TraceLevels : IsDone(l)}
      Left(i) == Cardinality({l \in done : i \in pendingInteractionMap[l]})
      gone == [i \in Known |-> Left(i)]
  IN  /\ Innermost("commit") /\ Leave
      /\ pendingInteractionMap' = [l \in TraceLevels |-> IF l \in done THEN {} ELSE pendingInteractionMap[l]]
      /\ count' = [i \in Known |-> count[i] - gone[i]]
      /\ completed' = Plus(completed, {i \in Known : gone[i] > 0 /\ count[i] = gone[i]})
      /\ UNCHANGED <<wrapped, memoizedInteractions, work, rendering, scheduled>>
-----------------------------------------------------------------------------
TracingInit ==
  /\ interactionsRef = {} /\ count = <<>> /\ wrapped = <<>> /\ running = <<>>
  /\ pendingInteractionMap = [l \in TraceLevels |-> {}] /\ memoizedInteractions = {}
  /\ work = <<>> /\ rendering = 0 /\ scheduled = 0 /\ completed = <<>>

TracingNext ==
  \/ Trace \/ TraceEnd \/ Wrap \/ WrappedEnd \/ AgainEnd \/ SliceEnd \/ CommitTraced \/ CommitTracedEnd
  \/ \E w \in DOMAIN wrapped : CallWrapped(w) \/ Cancel(w)
  \/ \E l \in TraceLevels : ScheduleTraced(l) \/ RenderSlice(l)

TracingSpec == TracingInit /\ [][TracingNext]_tracingVars
-----------------------------------------------------------------------------
CallKinds == {"trace", "wrapped", "again", "render", "commit"}

(* Interactions are those that were ever traced, and what is rendered is a *)
(* level.  (That counts are not negative is a matter of InteractionsComplete.) *)
TracingTypeOK ==
  /\ count \in Seq(Int) /\ completed \in Seq(Int) /\ Len(completed) = Len(count)
  /\ interactionsRef \subseteq Known /\ memoizedInteractions \subseteq Known
  /\ wrapped \in Seq([interactions : SUBSET Known, hasRun : BOOLEAN])
  /\ running \in Seq([kind : CallKinds, what : Nat, prev : SUBSET Known])
  /\ pendingInteractionMap \in [TraceLevels -> SUBSET Known]
  /\ WorkLevels \subseteq TraceLevels /\ work \in [WorkLevels -> SUBSET Known]
  /\ rendering \in TraceLevels \cup {0} /\ scheduled \in Nat

(* The count of an interaction is the work that is still to come for it:   *)
(* its own callback, functions wrapped in it, and levels it scheduled.     *)
(* When there is none left it completes, once and for all, and no render,  *)
(* commit or function runs under it again.                                 *)
Outstanding(i) ==
  Cardinality({n \in DOMAIN running : running[n].kind = "trace" /\ running[n].what = i})
  + Cardinality({w \in DOMAIN wrapped : i \in wrapped[w].interactions /\ ~wrapped[w].hasRun})
  + Cardinality({l \in TraceLevels : i \in pendingInteractionMap[l]})

InteractionsComplete ==
  /\ TracingTypeOK
  /\ \A i \in Known : count[i] = Outstanding(i)
  /\ \A i \in Known : completed[i] = (IF count[i] = 0 THEN 1 ELSE 0)
  /\ ~Innermost("again") => \A i \in interactionsRef : count[i] > 0
  /\ \A l \in WorkLevels : \A i \in work[l] : count[i] > 0
  /\ running = <<>> => interactionsRef = {}
=============================================================================
