---------------------------- MODULE TreeReflection ----------------------------
(***************************************************************************)
(* ReactFiberTreeReflection.js: from a fiber that an instance or a node    *)
(* remembers, which may be either alternate, to the one on the screen, at  *)
(* any moment of a render or a commit.  Return pointers may lead into      *)
(* either tree; the sets of children say which fiber belongs to which.     *)
(***************************************************************************)
EXTENDS FiberTree

RootOf(F, f) == IF F[f].return = Null THEN f ELSE Last(Ancestors(F, f))

isFiberMounted(F, f) ==
  /\ Tag[Place(RootOf(F, f))] = "HostRoot"
  /\ F[f].alternate = Null => \A g \in {f} \cup ToSet(Ancestors(F, f)) : "Placement" \notin F[g].effectTag

(* Mutant: the parents are taken to belong to the tree of their fibers.    *)
OfItsParent(F, a, b) == F[a].return

(* The parent of a in a's own tree.  Two fibers with the same return       *)
(* pointer: the one whose children a or b is among decides; Null if none   *)
(* has either.                                                             *)
ParentOf(F, a, b) ==
  LET parentA == F[a].return
      parentB == F[parentA].alternate
      inA(f) == f \in ToSet(Children(F, parentA))
      inB(f) == f \in ToSet(Children(F, parentB))
  IN  CASE parentA # F[b].return \/ inA(a) -> parentA
        [] parentA = F[b].return /\ ~inA(a) /\ inA(b) -> parentB
        [] OTHER -> IF inB(a) THEN parentB ELSE IF inB(b) THEN parentA ELSE Null

(* The loop: which of two alternates is in the tree on the screen, the     *)
(* first or the second?  Neither where the code throws.                    *)
RECURSIVE WhichIsCurrent(_, _, _)
WhichIsCurrent(F, a, b) ==
  LET parentA == F[a].return
      parentB == IF parentA = Null THEN Null ELSE F[parentA].alternate
      parent == ParentOf(F, a, b)
      among == ToSet(Children(F, parentA))
  IN  CASE parentB = Null -> IF Tag[Place(a)] # "HostRoot" THEN "neither" ELSE IF a = current THEN "first" ELSE "second"
        [] parentB # Null /\ F[parentA].child = F[parentB].child ->
             IF a \in among THEN "first" ELSE IF b \in among THEN "second" ELSE "neither"
        [] OTHER -> IF parent = Null THEN "neither" ELSE WhichIsCurrent(F, parent, F[parent].alternate)

(* Null for a fiber that is not mounted.                                   *)
findCurrentFiberUsingSlowPath(F, f) ==
  LET alternate == F[f].alternate
      which == WhichIsCurrent(F, f, alternate)
  IN  CASE alternate = Null -> IF isFiberMounted(F, f) THEN f ELSE Null
        [] alternate # Null /\ which = "first" -> f
        [] alternate # Null /\ which = "second" -> alternate
        [] OTHER -> Null

(* What boundaries have put into a fragment that has not got an alternate  *)
(* yet, in the tree on the screen or in one that is left over: the loop    *)
(* takes the fragment for the root, or a fragment that is never placed for *)
(* one that still has to be, and the pointers of all but the first child   *)
(* lead around it.                                                         *)
Detours ==
  LET bare == {q \in DOMAIN fiber : Place(q) \in PrimaryFragments /\ fiber[q].alternate = Null}
  IN  UNION {Subtree(fiber, q) : q \in bare} \cup
      {f \in DOMAIN fiber : \E g \in Pair(fiber, f) : bare \cap ToSet(Ancestors(fiber, g)) # {}}

(* At any moment but between the effects on the host, from either fiber of *)
(* a component on the screen the one on the screen is found: through       *)
(* bailouts, clones, errors and renders that were given up.  Not so for    *)
(* what a boundary has wrapped: see README.                                *)
CurrentFibersAreFound ==
  phase # "host" =>
    \A f \in CurrentTree \ Detours : \A g \in Pair(fiber, f) : findCurrentFiberUsingSlowPath(fiber, g) = f
=============================================================================
