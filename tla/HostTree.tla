------------------------------ MODULE HostTree ------------------------------
(***************************************************************************)
(* The host components of React roots, which may be nested in each other,  *)
(* as events see them (ReactTreeTraversal.js).                             *)
(***************************************************************************)
EXTENDS Integers, FiniteSets, SequencesExt

CONSTANTS
  Nodes,     \* host components, of all roots
  Parent,    \* [Nodes -> Nodes \cup {NoNode}], inside a root
  Around,    \* [Nodes -> Nodes \cup {NoNode}]: the node of another root around the root of a node
  NoNode

ASSUME HostTreeAssumption ==
  /\ NoNode \notin Nodes /\ Nodes \subseteq Int /\ Parent \in [Nodes -> Nodes \cup {NoNode}]
  /\ \A S \in SUBSET Nodes : S # {} => \E n \in S : Parent[n] \notin S

(* Each node has a fiber and its alternate, <<node, 0>> and <<node, 1>>.   *)
(* Either may be the one that the DOM node knows, or the return pointer of *)
(* a child: what a side stands for.                                        *)
Sides == {0, 1}
Instances == Nodes \X Sides
Null == <<NoNode, 0>>
Known(n, side) == IF n = NoNode THEN Null ELSE <<n, (n + side) % 2>>
getParent(i, side) == IF Parent[i[1]] = NoNode THEN Null ELSE <<Parent[i[1]], side>>

Paths ==
  [side \in Sides |->
     LET Up[i \in Instances \cup {Null}] == IF i = Null THEN <<>> ELSE <<i>> \o Up[getParent(i, side)]
     IN  Up]

(* Mutant: the alternate of an instance is taken for another one.          *)
IsInstance(i, j) == i = j

IsSame(i, j) == i[1] = j[1]

getLowestCommonAncestor(a, b) ==
  LET depth == Min({Len(a), Len(b)})
      Up(path, k) == path[Len(path) - depth + k]
      common == {k \in 1 .. depth : IsSame(Up(a, k), Up(b, k))}
  IN  IF common = {} THEN Null ELSE Up(a, Min(common))

isAncestor(i, path) == \E k \in DOMAIN path : IsSame(i, path[k])
=============================================================================
