----------------------------- MODULE HostChildren -----------------------------
(***************************************************************************)
(* What the hosts make of the calls of the commit phase that build, place, *)
(* move and remove host components: React Native, which mirrors its        *)
(* children to native views by their positions; the DOM, with a comment    *)
(* among foreign nodes as the container; the noop and the test renderer.   *)
(* The reconciler hangs the children on in any order; on React Native a    *)
(* root has one child, as the container accepts no insertBefore.           *)
(***************************************************************************)
EXTENDS Integers, SequencesExt

CONSTANTS MaxReactTag, MaxInitialChildren, NoParent

ASSUME HostAssumption == MaxInitialChildren \in Nat

Container == 1          \* a root tag: % 10 = 1
Comment == 0            \* between the nodes -1 and -2, which are not React's

VARIABLES
  host,           \* the renderer; "arrays": the noop and the test renderer, whose arrays are alike
  nextReactTag,
  children,       \* [tag -> children of the instance]: the arrays of the renderer, or the DOM itself
  views,          \* native: [tag -> [children, parent]]
  instanceCache,  \* native: the tags whose fibers are known
  refused,        \* native: an operation was impossible
  asked           \* history: [tag -> the children the reconciler asked for]

hostVars == <<host, nextReactTag, children, views, instanceCache, refused, asked>>

(* indexOf + 1, or 0; splice.                                              *)
Position(s, x) == IF x \in ToSet(s) THEN CHOOSE i \in DOMAIN s : s[i] = x ELSE 0
Without(s, x) == IF x \in ToSet(s) THEN RemoveAt(s, Position(s, x)) ELSE s
WithBefore(s, x, k) == SubSeq(s, 1, k - 1) \o <<x>> \o SubSeq(s, k, Len(s))

IsClosed(tree, S) == \A t \in S : ToSet(tree[t]) \subseteq S
HungIn(tree) == UNION {ToSet(tree[t]) : t \in DOMAIN tree}
Descendants(tree, t) ==
  LET closed == {S \in SUBSET (HungIn(tree) \ {t}) : IsClosed(tree, S \cup {t})}
  IN  {d \in DOMAIN tree : \A S \in closed : d \in S \cup {t}}

Attached == Descendants(asked, Container)

(* Created, and in nothing yet.                                            *)
Unplaced == {t \in DOMAIN asked \ {Container} : \A u \in DOMAIN asked : t \notin ToSet(asked[u])}

-----------------------------------------------------------------------------
(* UIManager: views are removed, then inserted, at positions from 0.       *)
InsertSubview(v, parent, child, index) ==
  [tree    |-> IF v.ok /\ v.tree[child].parent = NoParent /\ index \in 0 .. Len(v.tree[parent].children)
               THEN [v.tree EXCEPT ![parent].children = WithBefore(@, child, index + 1), ![child].parent = parent]
               ELSE v.tree,
   ok |-> v.ok /\ v.tree[child].parent = NoParent /\ index \in 0 .. Len(v.tree[parent].children)]

RemoveSubview(v, parent, index) ==
  [v EXCEPT ![parent].children = RemoveAt(@, index + 1), ![v[parent].children[index + 1]].parent = NoParent]

setChildren(parent, tag) == InsertSubview([tree |-> views, ok |-> views[parent].children = <<>>], parent, tag, 0)

manageMove(parent, from, to) ==
  IF from + 1 \in DOMAIN views[parent].children
  THEN InsertSubview([tree |-> RemoveSubview(views, parent, from), ok |-> TRUE],
                     parent, views[parent].children[from + 1], to)
  ELSE [tree |-> views, ok |-> FALSE]

manageAdd(parent, tag, index) == InsertSubview([tree |-> views, ok |-> TRUE], parent, tag, index)

manageRemove(parent, index) ==
  IF index + 1 \in DOMAIN views[parent].children
  THEN LET gone == views[parent].children[index + 1]
       IN  [tree |-> [t \in DOMAIN views \ {gone} |-> RemoveSubview(views, parent, index)[t]], ok |-> TRUE]
  ELSE [tree |-> views, ok |-> FALSE]

ViewsBecome(v) ==
  IF host = "native" THEN views' = v.tree /\ refused' = (refused \/ ~v.ok)
  ELSE UNCHANGED <<views, refused>>

-----------------------------------------------------------------------------
allocateTag == IF nextReactTag % 10 = 1 THEN nextReactTag + 2 ELSE nextReactTag

(* createInstance or createTextInstance, appendInitialChild for the        *)
(* children that were made before, finalizeInitialChildren.                *)
createInstance(initial) ==
  LET tag == allocateTag
  IN  /\ tag <= MaxReactTag
      /\ nextReactTag' = tag + 2
      /\ children' = [t \in DOMAIN children \cup {tag} |-> IF t = tag THEN initial ELSE children[t]]
      /\ asked' = [t \in DOMAIN asked \cup {tag} |-> IF t = tag THEN initial ELSE asked[t]]
      /\ IF host = "native"
         THEN /\ views' = [t \in DOMAIN views \cup {tag} |->
                             IF t = tag THEN [children |-> initial, parent |-> NoParent]
                             ELSE IF t \in ToSet(initial) THEN [views[t] EXCEPT !.parent = tag] ELSE views[t]]
              /\ refused' = (refused \/ tag \in DOMAIN views \/ \E t \in ToSet(initial) : views[t].parent # NoParent)
              /\ instanceCache' = instanceCache \cup {tag}
         ELSE UNCHANGED <<views, refused, instanceCache>>
      /\ UNCHANGED host

(* The list that a container's children are in: the DOM's is the parent    *)
(* node's of the comment; React Native keeps none.                         *)
appendedToContainer(child) ==
  LET rest == Without(children[Container], child)
  IN  IF host = "native" THEN <<>>
      ELSE IF host = "dom" THEN WithBefore(rest, child, Position(rest, Comment)) ELSE Append(rest, child)

appendChild(parent, child) ==
  /\ parent = Container /\ host = "native" => asked[parent] = <<>>
  /\ children' = [children EXCEPT ![parent] =
                    IF parent = Container THEN appendedToContainer(child) ELSE Append(Without(@, child), child)]
  /\ ViewsBecome(
       IF parent = Container THEN setChildren(parent, child)
       ELSE IF child \in ToSet(children[parent])
       THEN manageMove(parent, Position(children[parent], child) - 1, Len(children[parent]) - 1)
       ELSE manageAdd(parent, child, Len(children[parent])))
  /\ asked' = [asked EXCEPT ![parent] = Append(Without(@, child), child)]
  /\ UNCHANGED <<host, nextReactTag, instanceCache>>

(* Mutant: where to move a child is looked up before it is taken out.      *)
BeforeRemoval(siblings, child, before) == Position(siblings, before)

BeforeIndex(siblings, child, before) == Position(Without(siblings, child), before)

insertBefore(parent, child, before) ==
  LET siblings == children[parent]
      k == BeforeIndex(siblings, child, before)
  IN  /\ before # child
      /\ ~(parent = Container /\ host = "native")
      /\ children' = [children EXCEPT ![parent] = WithBefore(Without(@, child), child, k)]
      /\ ViewsBecome(IF child \in ToSet(siblings) THEN manageMove(parent, Position(siblings, child) - 1, k - 1)
                     ELSE manageAdd(parent, child, k - 1))
      /\ asked' = [asked EXCEPT ![parent] =
                     LET rest == Without(@, child)
                         k2 == Position(rest, before)
                     IN  [j \in 1 .. Len(rest) + 1 |-> IF j < k2 THEN rest[j] ELSE IF j = k2 THEN child ELSE rest[j - 1]]]
      /\ UNCHANGED <<host, nextReactTag, instanceCache>>

removeChild(parent, child) ==
  LET kept == DOMAIN asked \ Descendants(asked, child)
  IN  /\ child \in ToSet(asked[parent])
      /\ children' = [t \in kept |-> IF t = parent THEN Without(children[t], child) ELSE children[t]]
      /\ ViewsBecome(manageRemove(parent, IF parent = Container THEN 0 ELSE Position(children[parent], child) - 1))
      /\ instanceCache' = IF host = "native" THEN instanceCache \ Descendants(children, child) ELSE instanceCache
      /\ asked' = [t \in kept |-> Without(asked[t], child)]
      /\ UNCHANGED <<host, nextReactTag>>
-----------------------------------------------------------------------------
HostInit ==
  /\ host \in {"native", "dom", "arrays"}
  /\ nextReactTag = 3
  /\ children = [t \in {Container} |-> IF host = "dom" THEN <<-1, Comment, -2>> ELSE <<>>]
  /\ asked = [t \in {Container} |-> <<>>]
  /\ views = IF host = "native" THEN [t \in {Container} |-> [children |-> <<>>, parent |-> NoParent]] ELSE <<>>
  /\ instanceCache = {} /\ refused = FALSE

InitialChildren ==
  LET unplaced == Unplaced
  IN  {s \in UNION {[1 .. n -> unplaced] : n \in 0 .. MaxInitialChildren} : IsInjective(s)}

HostNext ==
  \/ \E initial \in InitialChildren : createInstance(initial)
  \/ LET unplaced == Unplaced
     IN  \E parent \in Attached :
           \/ \E child \in unplaced \cup ToSet(asked[parent]) :
                \/ appendChild(parent, child)
                \/ \E before \in ToSet(asked[parent]) : insertBefore(parent, child, before)
           \/ \E child \in ToSet(asked[parent]) : removeChild(parent, child)

HostSpec == HostInit /\ [][HostNext]_hostVars
-----------------------------------------------------------------------------
(* Every host shows the children the reconciler asked for, in their order, *)
(* whether it keeps an array, positions of native views or nodes next to   *)
(* foreign ones, which stay where they are; no operation is refused; and   *)
(* the fibers of the views that are left, and of no others, are known.     *)
HostShowsTree ==
  /\ ~refused
  /\ \A t \in DOMAIN asked :
       /\ children[t] = IF t = Container /\ host = "dom" THEN <<-1>> \o asked[t] \o <<Comment, -2>>
                        ELSE IF t = Container /\ host = "native" THEN <<>> ELSE asked[t]
       /\ host = "native" => views[t].children = asked[t]
  /\ host = "native" => instanceCache = DOMAIN asked \ {Container}
=============================================================================
