------------------------------ MODULE FiberTree ------------------------------
(***************************************************************************)
(* The fiber tree of one root while it is rendered, interrupted, thrown    *)
(* away and committed: performUnitOfWork and completeUnitOfWork            *)
(* (ReactFiberScheduler.js), beginWork with its bailouts, the propagation  *)
(* of a context, the stack of context values, the unwinding after an error *)
(* and the two passes of a commit.                                         *)
(*                                                                         *)
(* Fibers are a heap of records with the pointers of the code: every       *)
(* component has up to two fibers, each other's alternates, of which one   *)
(* is in the tree on the screen.  Components keep their places: a place is *)
(* rendered with its children Kids, or with its Fallback after an error,   *)
(* or is not mounted.  Which roots and levels are rendered, and when, is   *)
(* decided by the root scheduler (module RootScheduler): here any pending  *)
(* level may be rendered at any time.  Update queues are sets of updates   *)
(* (module UpdateQueue has their order).                                   *)
(*                                                                         *)
(* Expiration times: NoWork = 0, otherwise smaller is more urgent.         *)
(***************************************************************************)
EXTENDS Integers, FiniteSets, SequencesExt

CONSTANTS
  Places, Roots,   \* the places of components; those of HostRoots: each has a tree of its own
  Tag,             \* [Places -> tags]
  Kids, Fallback,  \* [Places -> Seq(Places)]: children of a place, normally, and after an
                   \* error or while it is timed out
  Boundaries,      \* class components with getDerivedStateFromError
  Consumers,       \* class components that read the context
  Constant,        \* places whose element is always the same object
  Throwing,        \* class components whose render and lifecycles may throw
  BadHosts,        \* host components whose creation may throw
  Hidden,          \* host components whose subtree has the lowest priority
  Levels, Never,   \* expiration times of updates; that of hidden subtrees
  MaxUpdates,      \* bounds: updates of each tree, [Roots -> Nat],
  MaxErrors        \* and errors

Null == <<>>
NoWork == 0
FiberCount == 3 * Cardinality(Places)
Ids == Places \X (1 .. 3)   \* on the screen, its alternate, and one to replace it
ClassIds == {p \in Places : Tag[p] = "ClassComponent"} \X (1 .. 3)

VARIABLES
  fiber,        \* the heap
  current,      \* root.current
  unit,         \* nextUnitOfWork
  at,           \* the fiber that completeUnitOfWork has come to
  phase,        \* what is under way: see TypeOK
  level,        \* nextRenderExpirationTime
  contexts,     \* valueStack, and what the cursors point to
  nextEffect,   \* the effect a commit has come to
  mounted,      \* calls of componentDidMount less those of componentWillUnmount
  updates,      \* updates created
  errors,       \* errors thrown
  owed          \* history: the updates the render under way has to show

vars == <<fiber, current, unit, at, phase, level, contexts, nextEffect, mounted,
          updates, errors, owed>>

Blank == [home |-> Null, alternate |-> Null, return |-> Null, child |-> Null, sibling |-> Null,
          expirationTime |-> NoWork, childExpirationTime |-> NoWork,
          effectTag |-> {}, firstEffect |-> Null, lastEffect |-> Null, nextEffect |-> Null,
          fresh |-> FALSE, pendingProps |-> {}, memoizedProps |-> {},
          queue |-> {}, state |-> {}, failed |-> FALSE, dependency |-> FALSE, seen |-> {},
          captured |-> FALSE, pings |-> {}]

Place(f) == f[1]

(* An update is a pair of a name and a level; besides those of the program *)
(* there are the ones React makes itself, for errors and for contexts.     *)
Name(u) == u[1]
Level(u) == u[2]
Capture(l) == <<-1, l>>
Force(l) == <<0, l>>
Own(us) == {u \in us : Name(u) > 0}

Due(time, l) == time # NoWork /\ time <= l
Sooner(t, s) == IF t = NoWork \/ (s # NoWork /\ s < t) THEN s ELSE t
Soonest(times) == LET due == times \ {NoWork}
                  IN  IF due = {} THEN NoWork ELSE CHOOSE t \in due : \A s \in due : t <= s
-----------------------------------------------------------------------------
(* Walks over a heap F.                                                    *)
RECURSIVE SiblingsFrom(_, _, _)
SiblingsFrom(F, f, n) == IF f = Null \/ n = 0 THEN <<>>
                         ELSE <<f>> \o SiblingsFrom(F, F[f].sibling, n - 1)

Children(F, f) == SiblingsFrom(F, F[f].child, FiberCount)

RECURSIVE Subtree(_, _)
Subtree(F, f) == {f} \cup UNION {Subtree(F, c) : c \in ToSet(Children(F, f))}

(* From the parent of a fiber up to the root, by return pointers.          *)
RECURSIVE Ancestors(_, _)
Ancestors(F, f) == IF F[f].return = Null THEN <<>>
                   ELSE <<F[f].return>> \o Ancestors(F, F[f].return)

RECURSIVE EffectsFrom(_, _, _)
EffectsFrom(F, f, n) == IF f = Null \/ n = 0 THEN <<>>
                        ELSE <<f>> \o EffectsFrom(F, F[f].nextEffect, n - 1)

Effects(F, f) == EffectsFrom(F, f, 2 * FiberCount)

(* A boundary that has timed out keeps its primary children in a fragment, *)
(* which is not rendered.                                                  *)
PrimaryFragments == {Head(Fallback[p]) : p \in {q \in Places : Tag[q] = "SuspenseComponent"}}

RECURSIVE Shown(_, _)
Shown(F, f) == {f} \cup IF Place(f) \in PrimaryFragments THEN {}
                        ELSE UNION {Shown(F, c) : c \in ToSet(Children(F, f))}

CurrentTree == Subtree(fiber, current)
finishedWork == fiber[current].alternate
Pair(F, f) == IF F[f].alternate = Null THEN {f} ELSE {f, F[f].alternate}
-----------------------------------------------------------------------------
(* ReactFiberScheduler: scheduling                                         *)

(* The path from f to the root, and its alternates.                        *)
RECURSIVE RaisePath(_, _, _)
RaisePath(F, f, l) ==
  IF f = Null THEN F
  ELSE RaisePath([g \in DOMAIN F |-> IF g \in Pair(F, f)
                                THEN [F[g] EXCEPT !.childExpirationTime = Sooner(@, l)]
                                ELSE F[g]], F[f].return, l)

RaiseOwnOnly(F, f, l) == [F EXCEPT ![f].expirationTime = Sooner(@, l)]

RaiseOwn(F, f, l) ==
  [g \in DOMAIN F |-> IF g \in Pair(F, f) THEN [F[g] EXCEPT !.expirationTime = Sooner(@, l)] ELSE F[g]]

scheduleWorkToRoot(F, f, l) == RaisePath(RaiseOwn(F, f, l), F[f].return, l)

enqueueUpdate(F, f, u) ==
  [g \in DOMAIN F |-> IF g \in Pair(F, f) THEN [F[g] EXCEPT !.queue = @ \cup {u}] ELSE F[g]]

schedule(F, f, u) == scheduleWorkToRoot(enqueueUpdate(F, f, u), f, Level(u))
-----------------------------------------------------------------------------
(* ReactFiberStack: contexts                                               *)
NoContexts == [values |-> <<>>, host |-> Null, value |-> {}]

Stackless == {"ClassComponent", "SuspenseComponent", "Fragment"}

Pushed(S, f, value) ==
  CASE Tag[Place(f)] \in Stackless -> S
    [] Tag[Place(f)] = "ContextProvider" ->
         [S EXCEPT !.values = Append(@, [fiber |-> f, value |-> S.value]), !.value = value]
    [] OTHER ->
         [S EXCEPT !.values = Append(@, [fiber |-> f, value |-> S.host]), !.host = f]

(* Mutant: a host component pops whether or not it has pushed.              *)
PoppedAlways(S, f) ==
  CASE Tag[Place(f)] \in Stackless -> S
    [] Tag[Place(f)] = "ContextProvider" ->
         [S EXCEPT !.values = Front(@), !.value = Last(S.values).value]
    [] OTHER ->
         [S EXCEPT !.values = Front(@), !.host = Last(S.values).value]

Popped(S, f) ==
  CASE \/ Tag[Place(f)] \in Stackless
       \/ Tag[Place(f)] = "HostComponent" /\ S.host # f -> S
    [] Tag[Place(f)] = "ContextProvider" ->
         [S EXCEPT !.values = Front(@), !.value = Last(S.values).value]
    [] OTHER ->
         [S EXCEPT !.values = Front(@), !.host = Last(S.values).value]

(* unwindInterruptedWork for all that was begun and not completed.         *)
resetStack == FoldLeft(Popped, contexts, Ancestors(fiber, unit))
-----------------------------------------------------------------------------
(* ReactFiber and ReactChildFiber: making work-in-progress fibers          *)
freeId(F, p) == <<p, Min({n \in 1 .. 3 : <<p, n>> \notin DOMAIN F})>>

workInProgressId(F, c) ==
  IF F[c].alternate # Null THEN F[c].alternate
  ELSE freeId(F, Place(c))

createWorkInProgress(F, c, fresh, props) ==
  LET w == workInProgressId(F, c)
      clean == IF F[c].alternate = Null THEN [Blank EXCEPT !.home = F[c].home, !.alternate = c]
               ELSE [F[w] EXCEPT !.effectTag = {}, !.nextEffect = Null,
                                 !.firstEffect = Null, !.lastEffect = Null]
      work == [clean EXCEPT !.fresh = fresh, !.pendingProps = props,
                            !.childExpirationTime = F[c].childExpirationTime,
                            !.expirationTime = F[c].expirationTime,
                            !.child = F[c].child, !.sibling = F[c].sibling,
                            !.memoizedProps = F[c].memoizedProps,
                            !.state = F[c].state, !.failed = F[c].failed,
                            !.captured = F[c].captured,
                            !.queue = F[c].queue, !.seen = F[c].seen,
                            !.dependency = F[c].dependency]
  IN  (w :> work) @@ [F EXCEPT ![c].alternate = w]

(* The children of w are the fibers fs.                                    *)
Linked(F, w, fs) ==
  [f \in DOMAIN F |->
     IF f = w THEN [F[w] EXCEPT !.child = IF fs = <<>> THEN Null ELSE Head(fs)]
     ELSE IF f \in ToSet(fs)
          THEN LET i == CHOOSE i \in DOMAIN fs : fs[i] = f
               IN  [F[f] EXCEPT !.return = w, !.sibling = IF i = Len(fs) THEN Null ELSE fs[i + 1]]
          ELSE F[f]]

cloneChildFibers(F, w) ==
  LET old == Children(F, w)
      Clone(G, c) == createWorkInProgress(G, c, FALSE, F[c].pendingProps)
      G == FoldLeft(Clone, F, old)
  IN  Linked(G, w, [i \in DOMAIN old |-> G[old[i]].alternate])

deleteChild(w, F, c) ==
  LET G == [F EXCEPT ![c].nextEffect = Null, ![c].effectTag = {"Deletion"}, ![w].lastEffect = c]
  IN  IF F[w].lastEffect # Null THEN [G EXCEPT ![F[w].lastEffect].nextEffect = c]
      ELSE [G EXCEPT ![w].firstEffect = c]

(* The elements w renders for its children: the same objects as before,    *)
(* or new ones made from its state and its props.                          *)
Gives(F, w, p) == IF p \in Constant THEN {} ELSE F[w].state \cup F[w].pendingProps
Renews(F, w, c) == /\ Place(c) \notin Constant
                   /\ \/ Tag[Place(w)] \in {"HostRoot", "ClassComponent"}
                      \/ F[w].fresh
                      \/ Gives(F, w, Place(c)) # F[c].pendingProps  \* passed on late: w was hidden

mountChild(F, w, p, placed) ==
  LET f == freeId(F, p)
  IN  (f :> [Blank EXCEPT !.home = f, !.fresh = TRUE, !.pendingProps = Gives(F, w, p),
                          !.expirationTime = level,
                          !.effectTag = IF placed THEN {"Placement"} ELSE {}]) @@ F

(* reconcileChildFibers with the old children of w, and mountChildFibers   *)
(* where there is no current fiber; afresh: forceUnmountCurrentAndReconcile*)
reconcileChildFibers(F, w, old, places, afresh) ==
  LET oldPlaces == [i \in DOMAIN old |-> Place(old[i])]
      Reuse(G, o) == createWorkInProgress(G, o, Renews(F, w, o), Gives(F, w, Place(o)))
      Delete(G, o) == deleteChild(w, G, o)
      Mount(G, p) == mountChild(G, w, p, F[w].alternate # Null)
      reused == FoldLeft(Reuse, F, old)
      mountedNow == FoldLeft(Mount, FoldLeft(Delete, F, old), places)
  IN  IF old # <<>> /\ oldPlaces = places /\ ~afresh
      THEN Linked(reused, w, [i \in DOMAIN old |-> reused[old[i]].alternate])
      ELSE Linked(mountedNow, w,
                  [i \in DOMAIN places |->
                     CHOOSE f \in DOMAIN mountedNow \ DOMAIN F : Place(f) = places[i]])

reconcileChildren(F, w, places, afresh) ==
  LET c == F[w].alternate
  IN  reconcileChildFibers(F, w, IF c = Null THEN <<>> ELSE Children(F, c), places, afresh)
-----------------------------------------------------------------------------
(* Fibers nothing refers to any more are free for other components.  What  *)
(* the trees do not have, return pointers and promises may still refer to. *)
Live(F, trees) ==
  LET inTrees == UNION {Subtree(F, t) : t \in trees}
      held == UNION {Pair(F, f) : f \in inTrees \cup {g \in DOMAIN F : F[g].pings # {}}}
      above == held \cup UNION {ToSet(Ancestors(F, f)) : f \in held}
  IN  UNION {Pair(F, f) : f \in above}

Collected(F, trees) == Restrict(F, Live(F, trees))

(* A unit of work is over: on to next or, if there is none, complete f.    *)
Begun(F, f, S, next) ==
  /\ fiber' = [F EXCEPT ![f].memoizedProps = F[f].pendingProps]
  /\ contexts' = S
  /\ IF next # Null THEN unit' = next /\ UNCHANGED <<phase, at>>
     ELSE phase' = "complete" /\ at' = f /\ UNCHANGED unit
  /\ UNCHANGED <<current, level, nextEffect, mounted, updates, errors, owed>>

bailout(F, f, S) ==
  LET G == [F EXCEPT ![f].dependency = IF F[f].alternate = Null THEN @
                                       ELSE F[F[f].alternate].dependency]
      H == cloneChildFibers(G, f)
  IN  IF Due(F[f].childExpirationTime, level) THEN Begun(H, f, S, H[f].child)
      ELSE Begun(G, f, S, Null)

Render(F, f, places, afresh, S) ==
  LET G == reconcileChildren(F, f, places, afresh) IN Begun(G, f, S, G[f].child)

Tagged(F, f, effect) == [F EXCEPT ![f].effectTag = @ \cup {effect}]

CanBailOut(f) == fiber[f].alternate # Null /\ ~fiber[f].fresh /\ ~Due(fiber[f].expirationTime, level)

(* Past the first check of beginWork: a fiber that has work to do.         *)
Entered(f) == [fiber EXCEPT ![f].expirationTime = NoWork]

(* processUpdateQueue                                                      *)
(* Mutant: a render shows the updates of exactly its level.                *)
AppliedAtLevel(F, f) == {u \in F[f].queue : Level(u) = level}

AppliedTo(F, f) == {u \in F[f].queue : Level(u) <= level}
Processed(F, f) ==
  LET applied == AppliedTo(F, f)
      rest == F[f].queue \ applied
  IN  [F EXCEPT ![f].queue = rest,
                ![f].expirationTime = Soonest({Level(u) : u \in rest}),
                ![f].state = @ \cup {Name(u) : u \in Own(applied)},
                ![f].failed = IF \E l \in Levels \cup {Never} : Capture(l) \in applied THEN TRUE
                              ELSE @ /\ Own(applied) = {}]

Child(F, f) == IF F[f].failed THEN Fallback[Place(f)] ELSE Kids[Place(f)]

(* A suspense boundary shows its fallback (memoizedState.didTimeout).      *)
IsTimedOut(f) == Tag[Place(f)] = "SuspenseComponent" /\ fiber[f].failed

BeginBailout(f) == /\ CanBailOut(f) /\ ~IsTimedOut(f)
                   /\ bailout(fiber, f, Pushed(contexts, f, fiber[f].memoizedProps))

BeginHostRoot(f) ==
  /\ Tag[Place(f)] = "HostRoot" /\ ~CanBailOut(f)
  /\ LET F == Processed(Entered(f), f)
         S == Pushed(contexts, f, {})
     IN  IF F[f].state = fiber[f].state /\ F[f].failed = fiber[f].failed THEN bailout(F, f, S)
         ELSE Render(F, f, Child(F, f), FALSE, S)

(* A class component that has already read its context and its updates.    *)
ClassReady(f) == LET F == Processed(Entered(f), f)
                 IN  [F EXCEPT ![f].dependency = Place(f) \in Consumers]

(* updateClassInstance: new props, updates or an error are a reason to     *)
(* render.                                                                 *)
Captured(f) == "DidCapture" \in fiber[f].effectTag
ShouldUpdate(f) == \/ fiber[f].alternate = Null \/ fiber[f].fresh
                   \/ AppliedTo(fiber, f) # {} \/ Captured(f)

BeginClass(f) ==
  /\ Tag[Place(f)] = "ClassComponent" /\ ~CanBailOut(f)
  /\ LET F == ClassReady(f)
         G == Tagged(Tagged(F, f, "PerformedWork"), f, "Update")
         H == [G EXCEPT ![f].seen = IF Place(f) \in Consumers THEN contexts.value ELSE {}]
     IN  IF ~ShouldUpdate(f) THEN bailout(F, f, contexts)
         ELSE Render(H, f, Child(H, f), Captured(f) /\ F[f].alternate # Null, contexts)

(* propagateContextChange                                                  *)
RECURSIVE RaiseContext(_, _)
RaiseContext(F, f) ==
  IF f = Null \/ \A g \in Pair(F, f) : Due(F[g].childExpirationTime, level) THEN F
  ELSE RaiseContext([g \in DOMAIN F |-> IF g \in Pair(F, f)
                                   THEN [F[g] EXCEPT !.childExpirationTime = Sooner(@, level)]
                                   ELSE F[g]], F[f].return)

(* Mutant: consumers are only made due, not forced to update.              *)
propagateWithoutForce(F, w) ==
  LET below == Subtree(F, w) \ {w}
      Update(G, g) == RaiseContext(RaiseOwn(G, g, level), G[g].return)
  IN  FoldLeft(Update, F, SetToSeq({g \in below : F[g].dependency}))

propagateContextChange(F, w) ==
  LET below == Subtree(F, w) \ {w}
      Parent(g) == CHOOSE p \in below \cup {w} : g \in ToSet(Children(F, p))
      returned == [g \in DOMAIN F |-> IF g \in below THEN [F[g] EXCEPT !.return = Parent(g)] ELSE F[g]]
      Update(G, g) == RaiseContext(RaiseOwn(enqueueUpdate(G, g, Force(level)), g, level), G[g].return)
  IN  FoldLeft(Update, returned, SetToSeq({g \in below : F[g].dependency}))

BeginProvider(f) ==
  /\ Tag[Place(f)] = "ContextProvider" /\ ~CanBailOut(f)
  /\ LET F == Entered(f)
         S == Pushed(contexts, f, F[f].pendingProps)
         changed == F[f].pendingProps # F[f].memoizedProps
     IN  CASE F[f].alternate = Null -> Render(F, f, Kids[Place(f)], FALSE, S)
           [] F[f].alternate # Null /\ ~changed /\ ToSet(Kids[Place(f)]) \subseteq Constant ->
                bailout(F, f, S)
           [] F[f].alternate # Null /\ changed ->
                Render(propagateContextChange(F, f), f, Kids[Place(f)], FALSE, S)
           [] OTHER -> Render(F, f, Kids[Place(f)], FALSE, S)

BeginHost(f) ==
  /\ Tag[Place(f)] = "HostComponent" /\ ~CanBailOut(f)
  /\ LET F == Entered(f)
         S == Pushed(contexts, f, {})
     IN  IF Place(f) \in Hidden /\ level # Never
         THEN Begun([F EXCEPT ![f].expirationTime = Never], f, S, Null)
         ELSE Render(F, f, Kids[Place(f)], FALSE, S)
-----------------------------------------------------------------------------
(* ReactFiberUnwindWork: errors                                            *)

Captures(F, f) == \/ Tag[Place(f)] = "HostRoot"
                  \/ Place(f) \in Boundaries /\ "DidCapture" \notin F[f].effectTag

throwException(F, source) ==
  LET w == SelectInSeq(Ancestors(F, source), LAMBDA f : Captures(F, f))
      boundary == Ancestors(F, source)[w]
  IN  [F EXCEPT ![source].effectTag = @ \cup {"Incomplete"},
                ![source].firstEffect = Null, ![source].lastEffect = Null,
                ![boundary].effectTag = @ \cup {"ShouldCapture"},
                ![boundary].expirationTime = level,
                ![boundary].queue = @ \cup {Capture(level)}]

MayThrow == errors < MaxErrors

(* The catch block of renderRoot for an error of f, the unit of work.      *)
Thrown(F, f) ==
  /\ fiber' = throwException(F, f)
  /\ phase' = "complete" /\ at' = f /\ errors' = errors + 1
  /\ UNCHANGED <<current, unit, level, contexts, nextEffect, mounted, updates, owed>>

ClassThrows(f) ==
  /\ Tag[Place(f)] = "ClassComponent" /\ ~CanBailOut(f)
  /\ Place(f) \in Throwing /\ MayThrow
  /\ Thrown(ClassReady(f), f)

BeginWork ==
  /\ phase = "begin"
  /\ \/ BeginBailout(unit) \/ BeginHostRoot(unit) \/ BeginClass(unit)
     \/ BeginProvider(unit) \/ BeginHost(unit) \/ ClassThrows(unit)
-----------------------------------------------------------------------------
(* completeUnitOfWork: one round of its loop                               *)

(* Mutant: only the children themselves count, not what is below them.     *)
resetToChildren(F, f) ==
  IF level # Never /\ F[f].childExpirationTime = Never THEN F
  ELSE [F EXCEPT ![f].childExpirationTime =
          Soonest({F[c].expirationTime : c \in ToSet(Children(F, f))})]

resetChildExpirationTime(F, f) ==
  IF level # Never /\ F[f].childExpirationTime = Never THEN F
  ELSE [F EXCEPT ![f].childExpirationTime =
          Soonest(UNION {{F[c].expirationTime, F[c].childExpirationTime} : c \in ToSet(Children(F, f))})]

Effectful(F, f) == F[f].effectTag \ {"PerformedWork"} # {}

(* The effects of f and, if it has one, its own, go to its parent p.       *)
appendEffect(F, p, first, last) ==
  LET G == IF F[p].firstEffect = Null THEN [F EXCEPT ![p].firstEffect = first] ELSE F
      H == IF last = Null THEN G
           ELSE IF G[p].lastEffect = Null THEN [G EXCEPT ![p].lastEffect = last]
           ELSE [G EXCEPT ![G[p].lastEffect].nextEffect = first, ![p].lastEffect = last]
  IN  H

(* Mutant: a component's own effect goes before those of its children.     *)
EffectsReversed(F, f) ==
  LET p == F[f].return
      G == IF Effectful(F, f) THEN appendEffect(F, p, f, f) ELSE F
      H == appendEffect(G, p, F[f].firstEffect, F[f].lastEffect)
  IN  IF p = Null \/ "Incomplete" \in F[p].effectTag THEN F ELSE H

EffectsToParent(F, f) ==
  LET p == F[f].return
      G == appendEffect(F, p, F[f].firstEffect, F[f].lastEffect)
      H == IF Effectful(F, f) THEN appendEffect(G, p, f, f) ELSE G
  IN  IF p = Null \/ "Incomplete" \in F[p].effectTag THEN F ELSE H

(* Where the loop goes after f.                                            *)
GoOn(F, f) ==
  CASE F[f].sibling # Null -> phase' = "begin" /\ unit' = F[f].sibling /\ at' = Null
    [] F[f].sibling = Null /\ F[f].return # Null ->
         phase' = "complete" /\ at' = F[f].return
    [] OTHER -> phase' = "ready" /\ at' = Null

Incomplete(f) == "Incomplete" \in fiber[f].effectTag

(* Mutant: a boundary that times out, or recovers, has no effect.          *)
CompletedHosts(F, f) ==
  LET c == F[f].alternate
  IN  IF Tag[Place(f)] = "HostComponent" /\ c # Null /\ F[f].memoizedProps # F[c].memoizedProps
      THEN Tagged(F, f, "Update") ELSE F

(* completeWork: a host component with other props than before, or a       *)
(* boundary that times out or no longer does.                              *)
Completed(F, f) == LET c == F[f].alternate
                       timedOut(g) == g # Null /\ F[g].failed
                   IN  IF \/ /\ Tag[Place(f)] = "HostComponent" /\ c # Null
                             /\ F[f].memoizedProps # F[c].memoizedProps
                          \/ Tag[Place(f)] = "SuspenseComponent" /\ timedOut(f) # timedOut(c)
                       THEN Tagged(F, f, "Update") ELSE F

CompleteWork ==
  /\ phase = "complete" /\ ~Incomplete(at)
  /\ LET F == EffectsToParent(resetChildExpirationTime(Completed(fiber, at), at), at)
     IN  fiber' = F /\ GoOn(F, at) /\ (F[at].sibling = Null => unit' = Null)
  /\ contexts' = Popped(contexts, at)
  /\ UNCHANGED <<current, level, nextEffect, mounted, updates, errors, owed>>

(* The creation of a host instance throws.  Past the first round           *)
(* nextUnitOfWork is null, which renderRoot takes for a fatal error.       *)
CreateInstanceThrows ==
  /\ phase = "complete" /\ ~Incomplete(at) /\ MayThrow
  /\ Place(at) \in BadHosts /\ fiber[at].alternate = Null
  /\ IF unit # Null
     THEN /\ fiber' = throwException(fiber, at)
          /\ UNCHANGED <<phase, at, unit>>
     ELSE phase' = "idle" /\ at' = Null /\ UNCHANGED <<fiber, unit>>
  /\ contexts' = Popped(contexts, at)
  /\ errors' = errors + 1
  /\ UNCHANGED <<current, level, nextEffect, mounted, updates, owed>>

Unwind ==
  /\ phase = "complete" /\ Incomplete(at)
  /\ contexts' = Popped(contexts, at)
  /\ IF Tag[Place(at)] = "HostRoot" \/ "ShouldCapture" \in fiber[at].effectTag
     THEN LET F == [fiber EXCEPT ![at].effectTag =
                      (@ \ {"ShouldCapture", "Incomplete"}) \cup {"DidCapture"},
                                ![at].captured = Tag[Place(at)] = "SuspenseComponent"]
          IN  /\ fiber' = Collected(F, {current, finishedWork})
              /\ phase' = "begin" /\ unit' = at /\ at' = Null
     ELSE LET p == fiber[at].return
              F == [fiber EXCEPT ![p].firstEffect = Null, ![p].lastEffect = Null,
                                 ![p].effectTag = @ \cup {"Incomplete"}]
          IN  fiber' = F /\ GoOn(F, at) /\ (F[at].sibling = Null => UNCHANGED unit)
  /\ UNCHANGED <<current, level, nextEffect, mounted, updates, errors, owed>>
-----------------------------------------------------------------------------
(* renderRoot                                                              *)
Pending == {fiber[f].expirationTime : f \in CurrentTree} \ {NoWork}

RECURSIVE Reachable(_, _)
Reachable(f, l) ==  \* the fibers a render at level l shows: all but what is hidden from it
  {f} \cup (IF Place(f) \in Hidden /\ l # Never THEN {}
            ELSE UNION {Reachable(c, l) : c \in ToSet(Children(fiber, f))})

Owed(l) == {<<fiber[f].home, Name(u)>> : <<f, u>> \in
              {<<f, u>> \in Reachable(current, l) \X UNION {Own(fiber[g].queue) : g \in DOMAIN fiber} :
                 u \in fiber[f].queue /\ Level(u) <= l}}

RenderRoot(l) ==
  /\ \/ phase = "idle" /\ l \in Pending
     \/ phase = "begin" /\ l \in Pending /\ l # level
     \/ phase = "ready" /\ l \in Pending
  /\ LET F == createWorkInProgress(Collected(fiber, {current}), current, FALSE, {})
         w == F[current].alternate
     IN  fiber' = F /\ unit' = w
  /\ contexts' = IF phase = "begin" THEN resetStack ELSE contexts
  /\ phase' = "begin" /\ at' = Null /\ level' = l /\ owed' = Owed(l)
  /\ UNCHANGED <<current, nextEffect, mounted, updates, errors>>

(* setState, or a new element for the root: from outside a render, or      *)
(* between two slices of one, which a more urgent update ends.             *)
SetState(f, l) ==
  /\ updates < MaxUpdates[Place(current)] /\ phase \in {"idle", "begin", "ready"}
  /\ Tag[Place(f)] \in {"HostRoot", "ClassComponent"}
  /\ fiber' = schedule(fiber, fiber[f].home, <<updates + 1, l>>)
  /\ updates' = updates + 1
  /\ IF phase = "begin" /\ l < level
     THEN phase' = "idle" /\ unit' = Null /\ contexts' = resetStack
     ELSE UNCHANGED <<phase, unit, contexts>>
  /\ UNCHANGED <<current, at, level, nextEffect, mounted, errors, owed>>
-----------------------------------------------------------------------------
(* commitRoot                                                              *)
Sync == 1

(* dispatch: the error of a commit goes to the nearest boundary.           *)
captureCommitPhaseError(F, source) ==
  LET above == SelectSeq(Ancestors(F, source), LAMBDA f : Tag[Place(f)] = "HostRoot"
                                                          \/ Place(f) \in Boundaries)
      b == IF above # <<>> THEN Head(above) ELSE source
  IN  IF above = <<>> /\ Tag[Place(source)] # "HostRoot" THEN F ELSE schedule(F, b, Capture(Sync))

CommitRoot ==
  /\ phase = "ready"
  /\ LET w == finishedWork
         F == IF ~Effectful(fiber, w) THEN fiber
              ELSE IF fiber[w].lastEffect = Null THEN [fiber EXCEPT ![w].firstEffect = w]
              ELSE [fiber EXCEPT ![fiber[w].lastEffect].nextEffect = w]
     IN  fiber' = F /\ nextEffect' = F[w].firstEffect
  /\ phase' = "host"
  /\ UNCHANGED <<current, unit, at, level, contexts, mounted, updates, errors, owed>>

Mounted(M, homes, n) == [h \in ClassIds |-> IF h \in homes THEN M[h] + n ELSE M[h]]
(* Mutant: only the root of a deleted tree unmounts, nothing nested.       *)
ClassesAtTop(fs) == {f \in fs : Tag[Place(f)] = "ClassComponent" /\ f = nextEffect}

Classes(fs) == {f \in fs : Tag[Place(f)] = "ClassComponent"}
Homes(F, fs) == {F[f].home : f \in fs}

(* commitDeletion: every class component below unmounts, one of them       *)
(* perhaps with an error, and the tree is cut off.                         *)
commitDeletion(c) ==
  LET gone == Classes(Subtree(fiber, c))
      Detached(F) == [f \in DOMAIN F |-> IF f \in Pair(F, c)
                                    THEN [F[f] EXCEPT !.return = Null, !.child = Null] ELSE F[f]]
  IN  /\ mounted' = Mounted(mounted, Homes(fiber, gone), -1)
      /\ \/ fiber' = Detached(fiber) /\ UNCHANGED errors
         \/ \E f \in gone : /\ Place(f) \in Throwing /\ MayThrow
                            /\ fiber' = Detached(captureCommitPhaseError(fiber, f))
                            /\ errors' = errors + 1

CommitHostEffect ==
  /\ phase = "host" /\ nextEffect # Null
  /\ IF "Deletion" \in fiber[nextEffect].effectTag THEN commitDeletion(nextEffect)
     ELSE /\ fiber' = [fiber EXCEPT ![nextEffect].effectTag = @ \ {"Placement"}]
          /\ UNCHANGED <<mounted, errors>>
  /\ nextEffect' = fiber[nextEffect].nextEffect
  /\ UNCHANGED <<current, unit, at, phase, level, contexts, updates, owed>>

(* The tree is on the screen; the lifecycles come next.                    *)
Flip ==
  /\ phase = "host" /\ nextEffect = Null
  /\ LET w == finishedWork
     IN  /\ current' = w
         /\ nextEffect' = fiber[w].firstEffect
  /\ phase' = "life"
  /\ UNCHANGED <<fiber, unit, at, level, contexts, mounted, updates, errors, owed>>

Forgotten(F, f) == [F EXCEPT ![f].nextEffect = Null]

(* commitLifeCycles: componentDidMount or componentDidUpdate, which may    *)
(* set state, and may throw.                                               *)
CommitLifeCycle ==
  /\ phase = "life" /\ nextEffect # Null
  /\ ~(Tag[Place(nextEffect)] = "SuspenseComponent" /\ "Update" \in fiber[nextEffect].effectTag)
  /\ LET f == nextEffect
         lives == Tag[Place(f)] = "ClassComponent" /\ "Update" \in fiber[f].effectTag
         now == IF lives /\ fiber[f].alternate = Null THEN Mounted(mounted, {fiber[f].home}, 1)
                ELSE mounted
     IN  /\ mounted' = now
         /\ \/ fiber' = Forgotten(fiber, f) /\ UNCHANGED <<updates, errors>>
            \/ /\ lives /\ updates < MaxUpdates[Place(current)]
               /\ fiber' = Forgotten(schedule(fiber, fiber[f].home, <<updates + 1, Sync>>), f)
               /\ updates' = updates + 1 /\ UNCHANGED errors
            \/ /\ lives /\ Place(f) \in Throwing /\ MayThrow
               /\ fiber' = captureCommitPhaseError(fiber, f)
               /\ errors' = errors + 1 /\ UNCHANGED updates
         /\ nextEffect' = fiber[f].nextEffect
  /\ UNCHANGED <<current, unit, at, phase, level, contexts, owed>>

CommitEnd ==
  /\ phase = "life" /\ nextEffect = Null
  /\ fiber' = Collected(fiber, {current})
  /\ phase' = "idle"
  /\ UNCHANGED <<current, unit, at, level, contexts, nextEffect, mounted, updates, errors, owed>>
-----------------------------------------------------------------------------
Init ==
  \E place \in Roots : LET r == <<place, 1>>
  IN  /\ fiber = r :> [Blank EXCEPT !.home = r, !.failed = TRUE, !.queue = {<<1, Sync>>},
                                    !.expirationTime = Sync]
      /\ current = r /\ unit = Null /\ at = Null /\ phase = "idle" /\ level = NoWork
      /\ contexts = NoContexts /\ nextEffect = Null
      /\ mounted = [f \in ClassIds |-> 0] /\ updates = 1 /\ errors = 0 /\ owed = {}

-----------------------------------------------------------------------------
(* Properties                                                              *)

(* The way up from the unit of work leads to the root's work in progress,  *)
(* and the alternate of a fiber on the screen is its own.                  *)
TypeOK ==
  /\ phase \in {"idle",      \* between renders
                "begin",     \* unit is the next unit of work; renderRoot may yield here
                "complete",  \* completeUnitOfWork has come to at
                "ready",     \* the finished tree waits for its commit
                "host", "life"}  \* the passes of the commit
  /\ level \in Levels \cup {Never, NoWork}
  /\ (phase = "begin") = (unit # Null /\ at = Null)
  /\ phase = "begin" => Last(<<unit>> \o Ancestors(fiber, unit)) = finishedWork
  /\ phase = "complete" => fiber[at].home # Null
  /\ \A f \in CurrentTree : LET a == fiber[f].alternate
                            IN  a # Null => fiber[a].alternate = f /\ fiber[a].home = fiber[f].home

(* Pending work can be found from the root: a component with an update, or *)
(* a hidden subtree still to be rendered, has its level or a more urgent   *)
(* one, and so has the whole way down to it.  (Not so below a boundary     *)
(* that has timed out, which is rendered again first.)                     *)
WorkIsReachable ==
  /\ TypeOK
  /\ phase \in {"idle", "begin", "ready"} =>
       \A a \in Shown(fiber, current) :
         /\ \A u \in fiber[a].queue : Due(fiber[a].expirationTime, Level(u))
         /\ \A f \in Shown(fiber, a) \ {a} :
              fiber[f].expirationTime # NoWork =>
                Due(fiber[a].childExpirationTime, fiber[f].expirationTime)

(* The fibers a render has made, as opposed to those it has left shared    *)
(* with the tree on the screen.                                            *)
RECURSIVE Rendered(_)
Rendered(w) ==
  LET c == fiber[w].alternate
  IN  {w} \cup IF \/ c # Null /\ fiber[c].child = fiber[w].child
                  \/ Place(w) \in PrimaryFragments THEN {}
               ELSE UNION {Rendered(k) : k \in ToSet(Children(fiber, w))}

(* The children a fiber shows, or keeps, whatever fragments they are in.   *)
Contents(f) == UNION {IF Tag[Place(k)] = "Fragment" THEN ToSet(Children(fiber, k)) ELSE {k} :
                        k \in ToSet(Children(fiber, f))}

Dropped(w) == LET c == fiber[w].alternate
              IN  IF c = Null \/ Tag[Place(w)] = "Fragment" THEN {}
                  ELSE {k \in Contents(c) : Pair(fiber, k) \cap Contents(w) = {}}

(* A finished tree lists each of its effects, and each subtree it drops,   *)
(* exactly once and children before their parents; no error is left open.  *)
EffectListIsComplete ==
  phase = "ready" =>
    LET list == Effects(fiber, fiber[finishedWork].firstEffect)
        made == Rendered(finishedWork)
    IN  /\ IsInjective(list)
        /\ ToSet(list) = {f \in made \ {finishedWork} : Effectful(fiber, f) /\ Place(f) \notin PrimaryFragments}
                         \cup UNION {Dropped(w) : w \in made}
        /\ \A i, j \in DOMAIN list : list[j] \in made /\ list[i] \in made /\ i < j
                                       => list[j] \notin Subtree(fiber, list[i])
        /\ \A f \in made : fiber[f].effectTag \cap {"Incomplete", "ShouldCapture"} = {}

(* The context values on the stack are those of the fibers above the one   *)
(* that is begun next; none is left between renders.                       *)
RECURSIVE PushedAbove(_)
PushedAbove(f) == IF fiber[f].return = Null THEN NoContexts
                  ELSE LET p == fiber[f].return
                       IN  Pushed(PushedAbove(p), p, fiber[p].memoizedProps)

StackFollowsPath ==
  /\ phase = "begin" => contexts = PushedAbove(unit)
  /\ phase \in {"idle", "ready"} => contexts = NoContexts

(* Between renders every component shows the props its parent has for it   *)
(* and the context above it, except below a host that is still to be       *)
(* rendered at the lowest priority.                                        *)
RECURSIVE Consistent(_, _)
Consistent(f, value) ==
  LET below == IF Tag[Place(f)] = "ContextProvider" THEN fiber[f].memoizedProps ELSE value
      children == Children(fiber, f)
  IN  /\ Place(f) \in Consumers => fiber[f].seen = value
      /\ ~(Place(f) \in Hidden /\ fiber[f].expirationTime = Never) =>
           /\ [i \in DOMAIN children |-> Place(children[i])] = Child(fiber, f)
           /\ \A c \in ToSet(children) : Place(c) \notin PrimaryFragments =>
                /\ fiber[c].memoizedProps = Gives(fiber, f, Place(c))
                /\ Consistent(c, below)

TreeIsConsistent == phase = "idle" => Consistent(current, {})

(* A commit shows every update of the level it was rendered at, whatever   *)
(* was skipped, bailed out of or begun again after an error.               *)
LevelIsShown ==
  phase = "life" => \A f \in Shown(fiber, current) : \A u \in owed :
                      u[1] = fiber[f].home => u[2] \in fiber[f].state

(* componentDidMount and componentWillUnmount come in pairs, and between   *)
(* commits the mounted components are those in the tree.                   *)
LifecyclesArePaired ==
  /\ \A h \in ClassIds : mounted[h] \in {0, 1}
  /\ phase = "idle" => {h \in ClassIds : mounted[h] = 1} = Homes(fiber, Classes(CurrentTree))
=============================================================================
