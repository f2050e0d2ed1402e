---------------------------- MODULE SyncSuspense ----------------------------
(***************************************************************************)
(* A boundary outside of concurrent mode around one component of each type *)
(* there is: functions, objects made by functions, classes, forwardRef and *)
(* memo, each of them perhaps loaded lazily.  It may throw a promise while *)
(* it renders; the tree is then committed without its children, and the    *)
(* boundary shows its fallback in a second commit.                         *)
(*                                                                         *)
(* One prop is told apart; its value decides which data the component      *)
(* reads.  The fiber of the component is leaf; a MemoComponent has another *)
(* one around it, outer.  A fiber is done if the last render it completed  *)
(* was of its pendingProps, the same object.                               *)
(***************************************************************************)
EXTENDS FiniteSets

CONSTANTS Components, PropValues, Slow, Refs, NotGiven, Nil

VARIABLES
  componentType, \* the type: [kind, inner, compares, default, innerDefault, lazy]
  status,        \* _status of a lazy component
  loaded,        \* the values whose data are there
  givenElement,  \* the element last given by the parent
  outer,         \* the fiber around the leaf: [used, misled]; history: misled by the props of a leaf that threw
  leaf,          \* the fiber of the component itself
  boundary,      \* "primary", "captured" (between its two commits), "timedOut"
  concealed,     \* the other children of the boundary have display: none
  onScreen,      \* what the host child of the component shows
  attached,      \* the ref that holds the instance, or the host child
  pings,         \* the promises that will call: [on, live]; live if the leaf is still the one that threw
  crashed        \* an error has unmounted the tree

suspenseVars == <<componentType, status, loaded, givenElement, outer, leaf, boundary, concealed, onScreen, attached, pings, crashed>>

(* Only memo wraps a type; functions that make objects are neither given   *)
(* to it nor loaded lazily.                                                *)
ASSUME SuspenseAssumption ==
  /\ Nil \notin PropValues /\ Nil # NotGiven
  /\ \A c \in Components :
       /\ c.kind \in {"function", "factory", "class", "pure", "forward", "memo"}
       /\ c.kind = "memo" => c.inner \in {"function", "class", "pure", "forward"}
       /\ c.kind # "memo" => c.innerDefault = NotGiven
       /\ c.kind = "factory" => ~c.lazy
       /\ c.default # Nil /\ c.innerDefault # Nil

WithDefault(v, default) == IF v = NotGiven THEN default ELSE v

(* The defaults of a lazy component are not known here.                    *)
createElement(v, r) ==
  [value |-> IF componentType.lazy THEN v ELSE WithDefault(v, componentType.default), ref |-> r]

Rendering == IF componentType.kind = "memo" THEN componentType.inner ELSE componentType.kind
IsClass == Rendering \in {"factory", "class", "pure"}

isSimpleFunctionComponent == Rendering = "function" /\ componentType.innerDefault = NotGiven

TypeTag(kind) ==
  IF kind \in {"function", "factory"} THEN "IndeterminateComponent"
  ELSE IF kind = "forward" THEN "ForwardRef" ELSE "ClassComponent"

resolveLazyComponentTag(kind) == IF kind = "function" THEN "FunctionComponent" ELSE TypeTag(kind)

createFiber(tag, v, r) ==
  [tag |-> tag, pending |-> v, memo |-> Nil, child |-> Nil, ref |-> r, done |-> FALSE, due |-> FALSE]

Ready(v) == v \notin Slow \/ v \in loaded

Completed(l, v) == [l EXCEPT !.child = v, !.memo = l.pending, !.done = TRUE, !.due = FALSE]
Skipped(l) == [l EXCEPT !.memo = l.pending, !.done = TRUE, !.due = FALSE]

(* throwException: the fiber is committed with no children.                *)
Emptied(l) == [l EXCEPT !.child = Nil, !.done = FALSE, !.due = FALSE]

(* What a render leaves: apart if the fiber was cut off from its alternate *)
(* and carries a Placement of its own.                                     *)
Outcome(o, l, thrown, placed, apart, ref) ==
  [outer |-> o, leaf |-> l, thrown |-> thrown, placed |-> placed, apart |-> apart, ref |-> ref, fails |-> FALSE]
Failure == [Outcome(outer, leaf, {}, FALSE, FALSE, attached) EXCEPT !.fails = TRUE]
-----------------------------------------------------------------------------
(* The first time: the function says whether it makes an object.  A class  *)
(* that suspends is not to be taken for one that has mounted.              *)
MountedTag(tag) ==
  IF tag \in {"FunctionComponent", "ForwardRef", "SimpleMemoComponent"} THEN tag
  ELSE IF IsClass THEN "ClassComponent" ELSE "FunctionComponent"

SuspendedTag(tag) == IF IsClass THEN "IncompleteClassComponent" ELSE tag

Mount(o, l, v, placed, apart) ==
  IF Ready(v)
  THEN Outcome(o, Completed([l EXCEPT !.tag = MountedTag(l.tag)], v), {}, placed, apart,
               IF Rendering = "function" THEN Nil ELSE l.ref)
  ELSE Outcome(o, Emptied([l EXCEPT !.tag = SuspendedTag(l.tag)]), {v}, placed, apart, Nil)

(* mountLazyComponent, mountIndeterminateComponent and                     *)
(* mountIncompleteClassComponent of a fiber that was committed empty: it   *)
(* is cut off from it and placed.                                          *)
Unfinished == {"LazyComponent", "IndeterminateComponent", "IncompleteClassComponent"}

(* Mutant: it is not placed.                                               *)
RemountInPlace(o, l, v) == Mount(o, createFiber(l.tag, l.pending, l.ref), v, FALSE, TRUE)

Remount(o, l, v) == Mount(o, createFiber(l.tag, l.pending, l.ref), v, TRUE, TRUE)

(* updateForwardRef, checkShouldComponentUpdate, updateSimpleMemoComponent *)
Skips(l, v, sameRef) ==
  \/ l.tag = "ForwardRef" /\ l.done /\ sameRef
  \/ l.tag = "ClassComponent" /\ Rendering = "pure" /\ ~l.due /\ l.memo = v
  \/ l.tag = "SimpleMemoComponent" /\ ~l.due /\ l.memo = v /\ sameRef

(* A class keeps its instance and so its ref, but the Ref effect of a      *)
(* render that suspends is lost with the other ones (LifecycleEffectMask). *)
UpdateLeaf(o, l, v, r) ==
  LET m == [l EXCEPT !.ref = r]
      sameRef == l.ref = r
  IN  IF Skips(l, v, sameRef)
      THEN Outcome(o, Skipped(m), {}, FALSE, FALSE, IF IsClass /\ ~sameRef THEN r ELSE attached)
      ELSE IF Ready(v)
      THEN Outcome(o, Completed(m, v), {}, TRUE, FALSE,
                   IF Rendering = "forward" \/ (IsClass /\ ~sameRef) THEN r ELSE attached)
      ELSE Outcome(o, Emptied(m), {v}, FALSE, FALSE, IF IsClass THEN attached ELSE Nil)

(* beginWork of a leaf that was committed before, with the early bailout.  *)
BeginLeaf(o, l, v, r) ==
  IF l.done /\ ~l.due THEN Outcome(o, l, {}, FALSE, FALSE, attached)
  ELSE IF l.tag \in Unfinished THEN Remount(o, [l EXCEPT !.ref = r], v)
  ELSE UpdateLeaf(o, l, v, r)

NoOuter == [used |-> FALSE, misled |-> FALSE]
WrapperFiber == [used |-> TRUE, misled |-> FALSE]

(* updateMemoComponent, first time: without compare and defaults a plain   *)
(* function needs no fiber of its own.                                     *)
MountMemo(e, placed, apart) ==
  LET own == IF componentType.lazy THEN WithDefault(e.value, componentType.default) ELSE e.value
      v == WithDefault(own, componentType.innerDefault)
  IN  IF isSimpleFunctionComponent /\ ~componentType.compares
      THEN Mount(NoOuter, createFiber("SimpleMemoComponent", e.value, e.ref), v, placed, apart)
      ELSE Mount(WrapperFiber, createFiber(TypeTag(componentType.inner), v, e.ref), v, placed, apart)

(* The function given to memo, taken to find all props equal, reads its    *)
(* arguments, and the leaf that was committed empty has no props yet.      *)
AreEqual(v, r) == (IF componentType.compares THEN TRUE ELSE leaf.memo = v) /\ leaf.ref = r
ComparesNothing == componentType.compares /\ leaf.memo = Nil

UpdateMemo(l, e, new) ==
  LET v == WithDefault(e.value, componentType.innerDefault)
      kept == [outer EXCEPT !.misled = @ \/ (~l.done /\ l.pending # v)]
  IN  IF ~new THEN IF l.due THEN BeginLeaf(outer, l, l.pending, l.ref) ELSE Outcome(outer, l, {}, FALSE, FALSE, attached)
      ELSE IF ComparesNothing THEN Failure
      ELSE IF AreEqual(v, e.ref) THEN Outcome(kept, l, {}, FALSE, FALSE, attached)
      ELSE BeginLeaf(WrapperFiber, [l EXCEPT !.pending = v, !.done = FALSE], v, e.ref)

(* readLazyComponentType                                                   *)
MountLazy(e, placed, apart) ==
  IF status = "rejected" THEN Failure
  ELSE IF status # "resolved"
  THEN Outcome(NoOuter, createFiber("LazyComponent", e.value, e.ref), {"module"}, placed, apart, Nil)
  ELSE IF componentType.kind = "memo" THEN MountMemo(e, placed, apart)
  ELSE Mount(NoOuter, createFiber(resolveLazyComponentTag(componentType.kind), e.value, e.ref),
             WithDefault(e.value, componentType.default), placed, apart)

(* The child of the boundary, rendered with the element e, a new one or    *)
(* the one it has.                                                         *)
BeginChild(l, e, new) ==
  LET m == IF new THEN [l EXCEPT !.pending = e.value, !.done = FALSE] ELSE l
      resolved == IF componentType.lazy /\ l.tag # "SimpleMemoComponent" THEN WithDefault(e.value, componentType.default) ELSE e.value
  IN  IF l.tag = "none"
      THEN IF componentType.lazy THEN MountLazy(e, TRUE, FALSE)
           ELSE IF componentType.kind = "memo" THEN MountMemo(e, TRUE, FALSE)
           ELSE Mount(NoOuter, createFiber(TypeTag(componentType.kind), e.value, e.ref), e.value, TRUE, FALSE)
      ELSE IF l.tag = "LazyComponent" THEN MountLazy(e, TRUE, TRUE)
      ELSE IF outer.used THEN UpdateMemo(l, e, new)
      ELSE BeginLeaf(NoOuter, m, resolved, e.ref)

(* The boundary tries its primary children, and what comes out of it is    *)
(* committed, also if something is missing.                                *)
Attempt(l, e, new, waiting) ==
  LET out == BeginChild(l, e, new)
      kept == {IF out.apart THEN [p EXCEPT !.live = FALSE] ELSE p : p \in waiting}
  IN  /\ ~crashed /\ boundary # "captured"
      /\ crashed' = out.fails
      /\ outer' = out.outer /\ leaf' = out.leaf /\ attached' = out.ref
      /\ onScreen' = IF out.leaf.child = Nil \/ (onScreen = Nil /\ ~out.placed) THEN Nil ELSE out.leaf.child
      /\ pings' = kept \cup {[on |-> t, live |-> TRUE] : t \in out.thrown}
      /\ status' = IF status = "none" /\ "module" \in out.thrown THEN "pending" ELSE status
      /\ boundary' = IF out.thrown = {} THEN "primary" ELSE "captured"
      /\ concealed' = (concealed /\ out.thrown # {})
      /\ UNCHANGED <<componentType, loaded>>

ParentRenders(v, r) ==
  /\ givenElement' = createElement(v, r)
  /\ Attempt(leaf, givenElement', TRUE, pings)

(* The state of a class that has mounted changes.                          *)
StateChanges ==
  /\ leaf.tag = "ClassComponent" /\ ~leaf.due
  /\ Attempt([leaf EXCEPT !.due = TRUE], givenElement, FALSE, pings) /\ UNCHANGED givenElement

(* commitLifeCycles of the boundary has scheduled it again.                *)
ShowFallback ==
  /\ ~crashed /\ boundary = "captured" /\ boundary' = "timedOut" /\ concealed' = TRUE
  /\ UNCHANGED <<componentType, status, loaded, givenElement, outer, leaf, onScreen, attached, pings, crashed>>

(* A promise is settled.                                                   *)
DataArrive(v) ==
  /\ boundary # "captured" /\ v \notin loaded /\ \E p \in pings : p.on = v
  /\ loaded' = loaded \cup {v}
  /\ UNCHANGED <<componentType, status, givenElement, outer, leaf, boundary, concealed, onScreen, attached, pings, crashed>>

ModuleArrives(s) ==
  /\ boundary # "captured" /\ status = "pending" /\ status' = s
  /\ UNCHANGED <<componentType, loaded, givenElement, outer, leaf, boundary, concealed, onScreen, attached, pings, crashed>>

Settled(t) == IF t = "module" THEN status \in {"resolved", "rejected"} ELSE t \in loaded

(* Mutant: only the boundary is rendered again.                            *)
BoundaryOnly(p) == leaf

(* retrySuspendedRoot renders the boundary, and the fiber that threw.      *)
SourceOf(p) == IF p.live THEN [leaf EXCEPT !.due = TRUE] ELSE leaf

Retry(p) ==
  /\ Settled(p.on)
  /\ Attempt(SourceOf(p), givenElement, FALSE, pings \ {p}) /\ UNCHANGED givenElement
-----------------------------------------------------------------------------
SuspenseInit ==
  /\ componentType \in Components /\ status = "none" /\ loaded = {}
  /\ givenElement = [value |-> NotGiven, ref |-> Nil]
  /\ outer = NoOuter /\ leaf = createFiber("none", NotGiven, Nil)
  /\ boundary = "primary" /\ concealed = FALSE /\ onScreen = Nil /\ attached = Nil /\ pings = {} /\ crashed = FALSE

SuspenseNext ==
  \/ \E v \in PropValues, r \in Refs : ParentRenders(v, r)
  \/ StateChanges \/ ShowFallback
  \/ \E v \in Slow : DataArrive(v)
  \/ \E s \in {"resolved", "rejected"} : ModuleArrives(s)
  \/ \E p \in pings : Retry(p)

SuspenseSpec == SuspenseInit /\ [][SuspenseNext]_suspenseVars
-----------------------------------------------------------------------------
(* What the element asks for.                                              *)
Wanted == WithDefault(WithDefault(givenElement.value, componentType.default), componentType.innerDefault)

(* Updates of a memo component that was loaded lazily forget the defaults  *)
(* of the object memo has made.                                            *)
DefaultIsLost == componentType.lazy /\ componentType.kind = "memo" /\ givenElement.value = NotGiven /\ componentType.default # NotGiven

(* Once every promise it waits for has called, the boundary shows its      *)
(* children, and the component what the parent gave it last; while some    *)
(* have not, it may be empty, but shows nothing else; nothing stays hidden *)
(* and the fallback never stays without a call to come; and the ref of the *)
(* last element holds what is shown.  The ref of a class that suspended    *)
(* with a new one is never attached.                                       *)
ComponentShowsItsProps ==
  ~crashed /\ leaf.tag # "none" =>
    /\ onScreen = leaf.child
    /\ onScreen # Nil => onScreen = Wanted \/ componentType.compares \/ DefaultIsLost \/ outer.misled
    /\ boundary # "captured" => (concealed <=> boundary = "timedOut")
    /\ pings = {} => boundary = "primary" /\ onScreen # Nil
    /\ onScreen # Nil /\ Rendering = "forward" => attached = givenElement.ref
=============================================================================
