------------------------------ MODULE Suspense ------------------------------
(***************************************************************************)
(* Suspense boundaries in concurrent mode, on top of the fiber tree: the   *)
(* two sets of children a boundary keeps (updateSuspenseComponent), the    *)
(* promise a component throws while it renders (throwException), and the   *)
(* retry when it resolves (retrySuspendedRoot).                            *)
(*                                                                         *)
(* memoizedState of a boundary is a pair of the fields failed (its         *)
(* didTimeout: it shows its Fallback, two fragments) and captured.  A      *)
(* finished tree that has suspended may be committed, when it times out,   *)
(* or be left for another render: module RootScheduler decides which.  Of  *)
(* its levels only those that wait are known here.                         *)
(***************************************************************************)
EXTENDS FiberTree

CONSTANT Suspending     \* class components that read data

VARIABLES
  ready,     \* the components whose data are there
  concealed, \* the host instances with display: none
  suspended  \* the levels that wait for a promise: not to be rendered as they are

dataVars == <<ready, concealed, suspended>>

Boundary(f) == Tag[Place(f)] = "SuspenseComponent"
-----------------------------------------------------------------------------
(* ReactFiberBeginWork: updateSuspenseComponent                            *)

(* A fiber of its own for a fragment of w.                                 *)
createFiberFromFragment(F, w, p, time, placed) ==
  LET f == freeId(F, p)
  IN  (f :> [Blank EXCEPT !.home = f, !.fresh = TRUE, !.pendingProps = Gives(F, w, p),
                          !.return = w, !.expirationTime = time,
                          !.effectTag = IF placed THEN {"Placement"} ELSE {}]) @@ F

(* The fragments of w are inner and outer, the only ones that are linked.  *)
Wrapped(F, w, inner, outer) ==
  [Linked(F, w, <<inner, outer>>) EXCEPT ![inner].childExpirationTime = NoWork]

TimedOutState(F, w) == [F EXCEPT ![w].failed = TRUE, ![w].captured = TRUE]

(* The boundary was on the screen, and has not timed out before: its       *)
(* children move into a fragment as they are.                              *)
WrapChildren(F, w) ==
  LET c == F[w].alternate
      G == createFiberFromFragment(F, w, Fallback[Place(w)][1], NoWork, c # Null)
      inner == freeId(F, Fallback[Place(w)][1])
      H == createFiberFromFragment(G, w, Fallback[Place(w)][2], level, c # Null)
      outer == freeId(G, Fallback[Place(w)][2])
      kept == F[c].child
      K == IF c = Null \/ kept = Null THEN H
           ELSE [H EXCEPT ![inner].child = kept, ![kept].return = inner]
  IN  Wrapped(K, w, inner, outer)

(* It has timed out before: both fragments are cloned.                     *)
CloneFragments(F, w) ==
  LET old == Children(F, F[w].alternate)
      G == createWorkInProgress(F, old[1], FALSE, F[old[1]].pendingProps)
      H == createWorkInProgress(G, old[2], Renews(F, w, old[2]), Gives(F, w, Place(old[2])))
      inner == H[old[1]].alternate
      outer == H[old[2]].alternate
      K == [H EXCEPT ![inner].expirationTime = NoWork,
                     ![inner].effectTag = {"Placement"}, ![outer].effectTag = {"Placement"}]
  IN  Wrapped(K, w, inner, outer)

(* Mutant: the two fragments change roles.                                 *)
UnwrapFallback(F, w) ==
  LET old == Children(F, F[w].alternate)
      G == reconcileChildFibers(F, w, Children(F, old[2]), Kids[Place(w)], FALSE)
      Delete(H, k) == deleteChild(w, H, k)
  IN  FoldLeft(Delete, G, Children(F, old[1]))

(* It has timed out before and tries its primary children again; those of  *)
(* the fallback are deleted.                                               *)
UnwrapChildren(F, w) ==
  LET old == Children(F, F[w].alternate)
      G == reconcileChildFibers(F, w, Children(F, old[1]), Kids[Place(w)], FALSE)
      Delete(H, k) == deleteChild(w, H, k)
  IN  FoldLeft(Delete, G, Children(F, old[2]))

UpdateSuspense(F, f) ==
  LET c == F[f].alternate
      timedOutBefore == c # Null /\ F[c].failed
      G == TimedOutState(IF timedOutBefore THEN CloneFragments(F, f) ELSE WrapChildren(F, f), f)
      retried == [F EXCEPT ![f].failed = FALSE, ![f].captured = FALSE]
      H == IF timedOutBefore THEN UnwrapChildren(retried, f)
           ELSE reconcileChildren(retried, f, Kids[Place(f)], FALSE)
  IN  IF F[f].captured THEN Begun(G, f, contexts, G[G[f].child].sibling)
      ELSE Begun(H, f, contexts, H[f].child)

BeginSuspense(f) == Boundary(f) /\ ~CanBailOut(f) /\ UpdateSuspense(Entered(f), f)

(* The early bailout: to the primary children if they have work, else only *)
(* to the fallback.                                                        *)
PrimaryIsDue(f) == Due(fiber[fiber[f].child].childExpirationTime, level)

BeginSuspenseRetry(f) ==
  /\ Boundary(f) /\ CanBailOut(f) /\ IsTimedOut(f) /\ PrimaryIsDue(f)
  /\ UpdateSuspense(fiber, f)

BeginSuspenseBailout(f) ==
  /\ Boundary(f) /\ CanBailOut(f) /\ IsTimedOut(f) /\ ~PrimaryIsDue(f)
  /\ LET F == cloneChildFibers(fiber, f)
     IN  IF Due(fiber[f].childExpirationTime, level)
         THEN Begun(F, f, contexts, F[F[f].child].sibling)
         ELSE Begun(fiber, f, contexts, Null)

(* updateFragment                                                          *)
BeginFragment(f) ==
  /\ Tag[Place(f)] = "Fragment" /\ ~CanBailOut(f)
  /\ Render(Entered(f), f, Kids[Place(f)], FALSE, contexts)
-----------------------------------------------------------------------------
(* ReactFiberUnwindWork: a component throws a promise                      *)

LacksData(f) == /\ Tag[Place(f)] = "ClassComponent" /\ ~CanBailOut(f) /\ ShouldUpdate(f)
                /\ Place(f) \in Suspending \ ready

(* Of boundaries that were mounted by renders thrown away, only the latest *)
(* keeps its pings: a retry does the same for all of them.                 *)
OnlyLatest(F, b) ==
  LET kept == UNION {Pair(F, f) : f \in {b} \cup Subtree(F, current)}
  IN  [f \in DOMAIN F |-> IF Place(f) = Place(b) /\ f \notin kept
                          THEN [F[f] EXCEPT !.pings = {}] ELSE F[f]]

shouldCaptureSuspense(F, f) == Boundary(f) /\ ~F[f].failed

ThrowPromise(f) ==
  /\ LacksData(f)
  /\ LET F == ClassReady(f)
         i == SelectInSeq(Ancestors(F, f), LAMBDA g : shouldCaptureSuspense(F, g))
         b == Ancestors(F, f)[i]
     IN  fiber' = [OnlyLatest(F, b) EXCEPT ![f].effectTag = @ \cup {"Incomplete"},
                            ![f].firstEffect = Null, ![f].lastEffect = Null,
                            ![b].effectTag = @ \cup {"ShouldCapture"},
                            ![b].expirationTime = level,
                            ![b].pings = @ \cup {<<Place(f), level>>}]
  /\ phase' = "complete" /\ at' = f
  /\ suspended' = suspended \cup {level}
  /\ UNCHANGED <<current, unit, level, contexts, nextEffect, mounted, updates, errors, owed,
                 ready, concealed>>

SuspenseBeginWork ==
  /\ phase = "begin"
  /\ \/ BeginSuspense(unit) \/ BeginSuspenseRetry(unit) \/ BeginSuspenseBailout(unit)
     \/ BeginFragment(unit)
  /\ UNCHANGED dataVars

(* The data of a component arrive: its promise calls retrySuspendedRoot    *)
(* for every boundary it was thrown to, at the level that suspended, or,   *)
(* if that one does not wait (or not yet: its render is not over), at a    *)
(* new one, t.  A render of a level that it was thrown at starts again.    *)
RetryTime(l, t) == IF l \in suspended /\ ~(phase = "begin" /\ l = level) THEN l ELSE t

Resolve(p, t) ==
  LET Awaited(f) == {ping \in fiber[f].pings : ping[1] = p}
      waiting == {f \in DOMAIN fiber : Awaited(f) # {}}
      At(G, f, l) == scheduleWorkToRoot(G, f, RetryTime(l, t))
      Retry(F, f) == LET G == [F EXCEPT ![f].pings = @ \ Awaited(f)]
                     IN  FoldSet(LAMBDA ping, H : At(H, f, ping[2]), G, Awaited(f))
  IN  /\ phase \in {"idle", "begin", "ready"} /\ p \in Suspending \ ready
      /\ ready' = ready \cup {p} /\ suspended' = {}
      /\ waiting # {}
      /\ fiber' = FoldLeft(Retry, fiber, SetToSeq(waiting))
      /\ IF phase = "begin" /\ \E f \in waiting : <<p, level>> \in fiber[f].pings
         THEN phase' = "idle" /\ unit' = Null /\ contexts' = resetStack
         ELSE UNCHANGED <<phase, unit, contexts>>
      /\ UNCHANGED <<current, at, level, nextEffect, mounted, updates, errors, owed, concealed>>

(* A level that has new updates, or is pinged, need not wait.              *)
Update(f, l) == SetState(f, l) /\ suspended' = {} /\ UNCHANGED <<ready, concealed>>

(* A component asks for other data, with an update.                        *)
Request(f, l) ==
  /\ Place(f) \in Suspending \cap ready
  /\ SetState(f, l)
  /\ ready' = ready \ {Place(f)} /\ suspended' = {}
  /\ UNCHANGED concealed
-----------------------------------------------------------------------------
(* ReactFiberCommitWork: commitLifeCycles of a boundary                    *)

(* hideOrUnhideAllChildren: the host instances nearest below f, on a way   *)
(* that sets every return pointer right.                                   *)
RECURSIVE Nearest(_, _)
Nearest(F, f) == IF Tag[Place(f)] = "HostComponent" THEN {f}
                 ELSE UNION {Nearest(F, c) : c \in ToSet(Children(F, f))}

RECURSIVE Passed(_, _)
Passed(F, f) == IF Tag[Place(f)] = "HostComponent" THEN {}
                ELSE {f} \cup UNION {Passed(F, c) : c \in ToSet(Children(F, f))}

Returned(F, f) ==
  [g \in DOMAIN F |->
     IF \E p \in Passed(F, f) : g \in ToSet(Children(F, p))
     THEN [F[g] EXCEPT !.return = CHOOSE p \in Passed(F, f) : g \in ToSet(Children(F, p))]
     ELSE F[g]]

CommitSuspense ==
  /\ phase = "life" /\ nextEffect # Null
  /\ Boundary(nextEffect) /\ "Update" \in fiber[nextEffect].effectTag
  /\ LET f == nextEffect
         parent == IF fiber[f].failed THEN fiber[f].child ELSE f
         hosts == Homes(fiber, Nearest(fiber, parent))
         F == IF fiber[f].failed THEN [fiber EXCEPT ![f].captured = FALSE] ELSE fiber
     IN  /\ concealed' = IF fiber[f].failed THEN concealed \cup hosts ELSE concealed \ hosts
         /\ fiber' = Forgotten(Returned(F, parent), f)
         /\ nextEffect' = fiber[f].nextEffect
  /\ UNCHANGED <<current, unit, at, phase, level, contexts, mounted, updates, errors, owed,
                 ready, suspended>>
-----------------------------------------------------------------------------
SuspenseInit == Init /\ ready = {} /\ concealed = {} /\ suspended = {}

Next ==
  \/ \E l \in Levels \cup {Never} : l \notin suspended /\ RenderRoot(l) /\ UNCHANGED dataVars
  \/ \E f \in CurrentTree, l \in Levels : Update(f, l)
  \/ BeginWork /\ ~LacksData(unit) /\ UNCHANGED dataVars
  \/ CompleteWork /\ UNCHANGED dataVars
  \/ CreateInstanceThrows /\ UNCHANGED dataVars
  \/ Unwind /\ UNCHANGED dataVars
  \/ CommitRoot /\ UNCHANGED dataVars
  \/ CommitHostEffect /\ UNCHANGED dataVars
  \/ Flip /\ UNCHANGED dataVars
  \/ CommitLifeCycle /\ UNCHANGED dataVars
  \/ CommitEnd /\ suspended' = {} /\ UNCHANGED <<ready, concealed>>
  \/ SuspenseBeginWork
  \/ phase = "begin" /\ ThrowPromise(unit)
  \/ \E p \in Suspending, t \in Levels : Resolve(p, t)
  \/ \E f \in CurrentTree, l \in Levels : Request(f, l)
  \/ CommitSuspense

Spec == SuspenseInit /\ [][Next]_<<vars, dataVars>>
-----------------------------------------------------------------------------
(* Properties                                                              *)

(* A boundary conceals its primary children exactly while it shows its     *)
(* fallback.                                                               *)
PrimaryIsConcealed ==
  phase = "idle" => \A f \in CurrentTree :
    Boundary(f) => LET primary == IF fiber[f].failed THEN fiber[f].child ELSE f
                   IN  Nearest(fiber, primary) # {} =>
                         (Homes(fiber, Nearest(fiber, primary)) \subseteq concealed)
                           = fiber[f].failed

(* Components below a boundary keep their instances, and with them their   *)
(* state, whether it times out or recovers.                                *)
Below(p) == LET inner == ToSet(Kids[p]) IN inner \cup UNION {ToSet(Kids[q]) : q \in inner}
Primary == UNION {Below(p) : p \in {q \in Places : Tag[q] = "SuspenseComponent"}}

PrimaryStateIsKept ==
  [][\A h \in ClassIds : Place(h) \in Primary => mounted'[h] >= mounted[h]]_mounted

(* A boundary that shows its fallback is going to be rendered again: it    *)
(* has work, or a promise that will give it some.                          *)
FallbackIsRetried ==
  phase = "idle" => \A f \in CurrentTree :
    IsTimedOut(f) => \/ fiber[f].expirationTime # NoWork
                     \/ \E g \in Pair(fiber, f) : fiber[g].pings # {}
                     \/ fiber[fiber[f].child].childExpirationTime # NoWork
=============================================================================
