--------------------------- MODULE ChildReconciler ---------------------------
(***************************************************************************)
(* The children of a component from one render to the next: the            *)
(* reconciliation of the old fibers with the new elements by key, type and *)
(* place (ReactChildFiber.js), the order of the effects this gives, and    *)
(* their commit to the DOM (ReactFiberCommitWork.js): insertions before    *)
(* the next sibling that stays, and deletions, across the fibers that have *)
(* no DOM node of their own.                                               *)
(*                                                                         *)
(* A fiber is a record with its children in it: the identity of a fiber    *)
(* and of its DOM node is its id.  An update renders the whole tree and    *)
(* commits it; nothing comes between (interruptions and errors are the     *)
(* matter of module FiberTree).  Afterwards ids are given anew by place,   *)
(* so that the number of updates needs no bound.                           *)
(***************************************************************************)
EXTENDS Integers, FiniteSets, SequencesExt

CONSTANT Values  \* what the root may render: children values, see below

(* Elements are records [key, type, kids]; a hole is a child that renders  *)
(* nothing.  Children values are a single element, an array or an iterable.*)
NoKey == "none"
Hole == [key |-> NoKey, type |-> "hole", kids |-> <<"many", <<>>>>]
Shape(value) == value[1]
Given(value) == value[2]

Hosts == {"a", "b", "text"}  \* the types with DOM nodes; besides "fragment" and "portal"

(* Ids: a fiber is called after the place it was created at, and whether   *)
(* that was in the update under way.                                       *)
RootId == <<0, <<>>>>
Container == <<2, <<>>>>   \* the DOM node all portals render into

None == [id |-> <<-1, <<>>>>, key |-> NoKey, type |-> "none", index |-> -1, fresh |-> FALSE,
         placed |-> FALSE, kids |-> <<>>, dropped |-> <<>>]

VARIABLES
  tree,    \* the root fiber
  dom,     \* [ids of DOM nodes with children -> Seq(ids)]
  before,  \* the tree before the update, None when it is settled
  failed   \* the DOM has refused an operation

vars == <<tree, dom, before, failed>>
-----------------------------------------------------------------------------
(* ReactChildFiber                                                         *)

(* What the second pass finds an old fiber, or a new element, under.       *)
MapKey(x, index) == IF x.key = NoKey THEN <<"index", index>> ELSE <<"key", x.key>>

(* Mutant: the first of the remaining children is passed over.             *)
deleteAfter(old, i) == SubSeq(old, i + 1, Len(old))

deleteRemainingChildren(old, i) == SubSeq(old, i, Len(old))

(* updateSlot: whether the new element may take the place of the old fiber *)
(* at all, or the comparison place by place has to stop.                   *)
TakesSlot(o, e) == e # Hole /\ e.key = o.key

Matches(o, e) == o # None /\ o.type = e.type

(* placeChild, for all the children of a list: one that comes before an    *)
(* older sibling it used to follow is moved.                               *)
(* Mutant: a child may stay that was just before its new predecessor.      *)
IsMovedFar(last, o) == o.index < last - 1

IsMoved(last, o) == o.index < last

RECURSIVE Placed(_, _, _)
Placed(kids, last, track) ==
  IF kids = <<>> THEN <<>>
  ELSE LET k == Head(kids)
           moved == k.fresh \/ IsMoved(last, k.was)
           next == IF moved \/ ~track THEN last ELSE k.was.index
       IN  <<[k EXCEPT !.placed = track /\ moved]>> \o Placed(Tail(kids), next, track)

(* The first pass of reconcileChildrenArray: how far places correspond.    *)
RECURSIVE Corresponding(_, _, _)
Corresponding(old, list, n) ==  \* n places so far, old: the fibers not yet compared
  IF old = <<>> \/ n = Len(list) THEN [n |-> n, old |-> old, pairs |-> <<>>, dropped |-> <<>>]
  ELSE LET absent == Head(old).index > n
           o == IF absent THEN None ELSE Head(old)
           e == list[n + 1]
       IN  IF ~TakesSlot(o, e) THEN [n |-> n, old |-> old, pairs |-> <<>>, dropped |-> <<>>]
           ELSE LET rest == Corresponding(IF absent THEN old ELSE Tail(old), list, n + 1)
                    match == IF Matches(o, e) THEN o ELSE None
                IN  [rest EXCEPT !.pairs = <<<<match, e, n>>>> \o @,
                                 !.dropped = IF o # None /\ match = None THEN <<o>> \o @ ELSE @]

(* updateFromMap: the old fiber for the new element at place n, if any.     *)
updateFromMap(old, e, n) ==
  LET found == SelectSeq(old, LAMBDA f : MapKey(f, f.index) = MapKey(e, n))
  IN  IF e # Hole /\ found # <<>> /\ Matches(found[1], e) THEN found[1] ELSE None

(* The second pass: the other old fibers are found by key or by place.     *)
RECURSIVE Remaining(_, _, _)
Remaining(old, list, n) ==
  IF n = Len(list) THEN [pairs |-> <<>>, dropped |-> old]
  ELSE LET e == list[n + 1]
           match == updateFromMap(old, e, n)
           rest == Remaining(SelectSeq(old, LAMBDA f : f # match), list, n + 1)
       IN  IF e = Hole THEN rest ELSE [rest EXCEPT !.pairs = <<<<match, e, n>>>> \o @]

reconcileChildrenArray(old, list) ==
  LET first == Corresponding(old, list, 0)
      second == Remaining(first.old, list, first.n)
  IN  IF first.n = Len(list)
      THEN [pairs |-> first.pairs, dropped |-> first.dropped \o deleteRemainingChildren(first.old, 1)]
      ELSE [pairs |-> first.pairs \o second.pairs, dropped |-> first.dropped \o second.dropped]

(* The same two passes over the values of an iterator.                     *)
reconcileChildrenIterator(old, list) == reconcileChildrenArray(old, list)

(* reconcileSingleElement, reconcileSinglePortal, reconcileSingleTextNode. *)
SameKey(o, e) == IF e.type = "text" THEN TRUE ELSE o.key = e.key

reconcileSingle(old, e) ==
  LET i == SelectInSeq(old, LAMBDA o : SameKey(o, e))
  IN  IF i # 0 /\ Matches(old[i], e)
      THEN [pairs |-> <<<<old[i], e, 0>>>>, dropped |-> RemoveAt(old, i)]
      ELSE [pairs |-> <<<<None, e, 0>>>>, dropped |-> old]

(* New fibers: for an element, and for an old fiber and its new element.   *)
createChild(e, here) ==
  [id |-> <<1, here>>, key |-> e.key, type |-> e.type, index |-> 0, fresh |-> TRUE,
   placed |-> FALSE, was |-> None, kids |-> <<>>, dropped |-> <<>>]

useFiber(o, e) == [createChild(e, <<>>) EXCEPT !.id = o.id, !.fresh = FALSE, !.was = o]

(* reconcileChildFibers: the children of the fiber at a path, with theirs. *)
(* Effects are not tracked below a new fiber, except in a portal.          *)
RECURSIVE reconcileChildFibers(_, _, _, _)
reconcileChildFibers(path, old, value, track) ==
  LET fragment == Shape(value) = "one" /\ Given(value).type = "fragment" /\ Given(value).key = NoKey
      v == IF fragment THEN Given(value).kids ELSE value
      result == CASE Shape(v) = "one" -> reconcileSingle(old, Given(v))
                  [] Shape(v) = "many" -> reconcileChildrenArray(old, Given(v))
                  [] Shape(v) = "iterable" -> reconcileChildrenIterator(old, Given(v))
      Fiber(pair) ==
        LET o == pair[1]
            e == pair[2]
            here == Append(path, pair[3])
            below == reconcileChildFibers(here, o.kids, e.kids, o # None \/ e.type = "portal")
            f == IF o = None THEN createChild(e, here) ELSE useFiber(o, e)
        IN  [f EXCEPT !.index = pair[3], !.kids = below.kids, !.dropped = below.dropped]
      fibers == [i \in DOMAIN result.pairs |-> Fiber(result.pairs[i])]
  IN  [kids |-> IF Shape(v) = "one"
                THEN [i \in DOMAIN fibers |-> [fibers[i] EXCEPT !.placed = track /\ fibers[i].fresh]]
                ELSE Placed(fibers, 0, track),
       dropped |-> IF track THEN result.dropped ELSE <<>>]
-----------------------------------------------------------------------------
(* Trees: what is where.                                                   *)
RECURSIVE Fibers(_)
Fibers(f) == {f} \cup UNION {Fibers(k) : k \in ToSet(f.kids)}

IsHost(f) == f.type \in Hosts
IsHostParent(f) == f.type \in Hosts \cup {"root", "portal"}

DomOf(f) == IF f.type = "portal" THEN Container ELSE f.id

(* The DOM nodes a fiber contributes to its host parent.                   *)
RECURSIVE HostNodes(_)
HostNodes(f) == IF IsHost(f) THEN <<f.id>>
                ELSE IF f.type = "portal" THEN <<>>
                ELSE FlattenSeq([i \in DOMAIN f.kids |-> HostNodes(f.kids[i])])

HostChildren(f) == FlattenSeq([i \in DOMAIN f.kids |-> HostNodes(f.kids[i])])

Ids(fibers) == [i \in DOMAIN fibers |-> fibers[i].id]

ParentIn(t, f) == CHOOSE p \in Fibers(t) : Contains(Ids(p.kids), f.id)

RECURSIVE HostParentIn(_, _)
HostParentIn(t, f) == LET p == ParentIn(t, f)
                      IN  IF IsHostParent(p) THEN p ELSE HostParentIn(t, p)

(* The effect list: deletions, then the effects below and those of a child *)
(* itself, child by child.                                                 *)
RECURSIVE EffectList(_)
EffectList(f) ==
  [i \in DOMAIN f.dropped |-> <<"delete", f.dropped[i]>>]
  \o FlattenSeq([i \in DOMAIN f.kids |->
                   EffectList(f.kids[i])
                   \o (IF f.kids[i].placed THEN <<<<"place", f.kids[i]>>>> ELSE <<>>)])
-----------------------------------------------------------------------------
(* ReactFiberCommitWork, on a DOM D = [nodes, failed, waiting]: waiting    *)
(* are the fibers whose Placement is still to be committed.                *)

removeChild(D, parent, n) ==
  IF n \notin ToSet(D.nodes[parent]) THEN [D EXCEPT !.failed = TRUE]
  ELSE [D EXCEPT !.nodes[parent] = SelectSeq(@, LAMBDA m : m # n)]

Without(nodes, n) == [p \in DOMAIN nodes |-> SelectSeq(nodes[p], LAMBDA m : m # n)]

insertBefore(D, parent, n, sibling) ==
  LET nodes == Without(D.nodes, n)
      i == SelectInSeq(nodes[parent], LAMBDA m : m = sibling)
  IN  IF i = 0 THEN [D EXCEPT !.failed = TRUE]
      ELSE [D EXCEPT !.nodes = [nodes EXCEPT ![parent] = InsertAt(@, i, n)]]

appendChild(D, parent, n) ==
  [D EXCEPT !.nodes = [Without(D.nodes, n) EXCEPT ![parent] = Append(@, n)]]

(* getHostSibling: the first host node after a fiber that stays where it   *)
(* is.  First among siblings and what is below them, then further up, as   *)
(* long as the parent has no node of its own.                              *)
RECURSIVE FirstStable(_, _)
FirstStable(D, fibers) ==
  IF fibers = <<>> THEN <<>>
  ELSE LET f == Head(fibers)
           found == IF f.id \in D.waiting \/ f.type = "portal" THEN <<>>
                    ELSE IF IsHost(f) THEN <<f.id>> ELSE FirstStable(D, f.kids)
       IN  IF found # <<>> THEN found ELSE FirstStable(D, Tail(fibers))

RECURSIVE getHostSibling(_, _, _)
getHostSibling(D, t, f) ==
  LET p == ParentIn(t, f)
      i == CHOOSE i \in DOMAIN p.kids : p.kids[i].id = f.id
      found == FirstStable(D, SubSeq(p.kids, i + 1, Len(p.kids)))
  IN  IF found # <<>> \/ IsHostParent(p) THEN found ELSE getHostSibling(D, t, p)

commitPlacement(D, t, f) ==
  LET parent == DomOf(HostParentIn(t, f))
      sibling == getHostSibling(D, t, f)
      Insert(E, n) == IF sibling = <<>> THEN appendChild(E, parent, n)
                      ELSE insertBefore(E, parent, n, sibling[1])
  IN  [FoldLeft(Insert, D, HostNodes(f)) EXCEPT !.waiting = @ \ {f.id}]

(* unmountHostComponents: a walk over the deleted fiber f of the tree t.   *)
(* W: the DOM, and the parent that host nodes are removed from, if that is *)
(* known for what comes next.  A portal on the way has its own parent.     *)
RECURSIVE Unmount(_, _, _), UnmountNested(_, _, _)
Unmount(W, t, f) ==
  LET V == IF W.parent # <<>> THEN W ELSE [W EXCEPT !.parent = <<DomOf(HostParentIn(t, f))>>]
      Kid(X, k) == Unmount(X, t, k)
  IN  IF W.dom.failed THEN W
      ELSE IF IsHost(f)
      THEN [V EXCEPT !.dom = removeChild(UnmountNested(V.dom, t, f), V.parent[1], f.id)]
      ELSE IF f.type = "portal"
      THEN IF f.kids = <<>> THEN [V EXCEPT !.parent = <<Container>>]
           ELSE [FoldLeft(Kid, [V EXCEPT !.parent = <<Container>>], f.kids) EXCEPT !.parent = <<>>]
      ELSE FoldLeft(Kid, V, f.kids)

(* commitNestedUnmounts: what is below a host node goes with it, except    *)
(* what portals have put elsewhere.                                        *)
UnmountNested(D, t, f) ==
  LET Kid(E, k) == IF k.type = "portal" THEN Unmount([dom |-> E, parent |-> <<>>], t, k).dom
                   ELSE UnmountNested(E, t, k)
  IN  FoldLeft(Kid, D, f.kids)

commitDeletion(D, t, f) == Unmount([dom |-> D, parent |-> <<>>], t, f).dom

(* completeWork has built the new host nodes with what is below them.      *)
appendAllChildren(t, nodes) ==
  [n \in DOMAIN nodes \cup {f.id : f \in {f \in Fibers(t) : IsHost(f)}} |->
     IF n \in DOMAIN nodes THEN nodes[n]
     ELSE HostChildren(CHOOSE f \in Fibers(t) : f.id = n)]

commitAllHostEffects(t, old, nodes) ==
  LET Commit(D, effect) == IF effect[1] = "delete"
                           THEN commitDeletion([D EXCEPT !.failed = FALSE], old, effect[2])
                           ELSE commitPlacement(D, t, effect[2])
      Guarded(D, effect) == LET E == Commit(D, effect) IN [E EXCEPT !.failed = @ \/ D.failed]
  IN  FoldLeft(Guarded, [nodes |-> appendAllChildren(t, nodes), failed |-> FALSE,
                         waiting |-> {f.id : f \in {f \in Fibers(t) : f.placed}}], EffectList(t))
-----------------------------------------------------------------------------
RootFiber(kids, dropped) ==
  [None EXCEPT !.id = RootId, !.type = "root", !.index = 0, !.kids = kids, !.dropped = dropped]

Update(value) ==
  /\ before = None /\ ~failed
  /\ LET r == reconcileChildFibers(<<>>, tree.kids, value, TRUE)
         t == RootFiber(r.kids, r.dropped)
         D == commitAllHostEffects(t, tree, dom)
     IN  tree' = t /\ dom' = D.nodes /\ failed' = D.failed
  /\ before' = tree

(* Ids by place, and nothing of the update left.                           *)
RECURSIVE Settled(_, _)
Settled(f, path) ==
  [None EXCEPT !.id = IF f.type = "root" THEN RootId ELSE <<0, path>>,
               !.key = f.key, !.type = f.type, !.index = f.index,
               !.kids = [i \in DOMAIN f.kids |-> Settled(f.kids[i], Append(path, f.kids[i].index))]]

RECURSIVE Renamed(_, _)
Renamed(f, path) == {<<f.id, IF f.type = "root" THEN RootId ELSE <<0, path>>>>}
                    \cup UNION {Renamed(k, Append(path, k.index)) : k \in ToSet(f.kids)}

Settle ==
  /\ before # None /\ ~failed
  /\ LET names == Renamed(tree, <<>>) \cup {<<Container, Container>>}
         New(n) == (CHOOSE p \in names : p[1] = n)[2]
         used == {p[1] : p \in names} \cap DOMAIN dom
     IN  dom' = [m \in {New(n) : n \in used} |->
                   LET n == CHOOSE n \in used : New(n) = m
                   IN  [i \in DOMAIN dom[n] |-> New(dom[n][i])]]
  /\ tree' = Settled(tree, <<>>) /\ before' = None
  /\ UNCHANGED failed

Init == /\ tree = RootFiber(<<>>, <<>>)
        /\ dom = [n \in {RootId, Container} |-> <<>>]
        /\ before = None /\ failed = FALSE

Next == (\E value \in Values : Update(value)) \/ Settle

Spec == Init /\ [][Next]_vars
-----------------------------------------------------------------------------
(* Properties                                                              *)

(* unmountHostComponents: "When we go into a portal, it becomes the parent *)
(* to remove from.  We will reassign it back when we pop the portal on the *)
(* way up."  Nobody pops an empty portal: what follows it is removed from  *)
(* the portal's container, where it is not, and the DOM refuses.           *)
RemovedFromParent == ~failed

(* After every commit the DOM has under each host node exactly the nodes   *)
(* of its children, in their order, and so has each portal under its       *)
(* container; the DOM has refused nothing.                                 *)
DomShowsTree ==
  /\ ~failed
  /\ \A f \in Fibers(tree) : f.type \in Hosts \cup {"root"} => dom[f.id] = HostChildren(f)
  /\ LET portals == {f \in Fibers(tree) : f.type = "portal"}
     IN  /\ ToSet(dom[Container]) = UNION {ToSet(HostChildren(p)) : p \in portals}
         /\ \A p \in portals : HostChildren(p) =
                SelectSeq(dom[Container], LAMBDA n : n \in ToSet(HostChildren(p)))

Kept == {f \in Fibers(tree) : f.type = "root" \/ ~f.fresh}
Former(f) == CHOOSE o \in Fibers(before) : o.id = f.id

(* A child with a key keeps its fiber, and so its state, if and only if    *)
(* its parent had a child of this key and type before.                     *)
KeysKeepState ==
  before # None =>
    \A f \in Kept : \A k \in ToSet(f.kids) :
      k.key # NoKey =>
        ~k.fresh = \E o \in ToSet(Former(f).kids) : o.key = k.key /\ o.type = k.type

(* Exactly the old children that are not kept are deleted, each once, and  *)
(* children that are kept in their order are not moved; what is kept is as *)
(* keys promise.                                                           *)
OnlyChangesHaveEffects ==
  /\ KeysKeepState
  /\ before # None =>
       \A f \in Kept :
         LET kept == SelectSeq(f.kids, LAMBDA k : ~k.fresh)
         IN  /\ IsInjective(Ids(f.dropped))
             /\ ToSet(Ids(f.dropped)) = ToSet(Ids(Former(f).kids)) \ ToSet(Ids(kept))
             /\ (\A i, j \in DOMAIN kept : i < j => kept[i].was.index < kept[j].was.index)
                  => \A i \in DOMAIN kept : ~kept[i].placed
=============================================================================
