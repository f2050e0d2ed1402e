-------------------------- MODULE MC_ChildReconciler --------------------------
(* Small children values for ChildReconciler: keyed and unkeyed elements,  *)
(* text, holes, fragments and portals, and arrays of up to MaxLength.      *)
EXTENDS ChildReconciler

CONSTANTS MaxLength, EmptyPortals

El(key, type, kids) == [key |-> key, type |-> type, kids |-> kids]
Nothing == <<"many", <<>>>>
Text == El(NoKey, "text", Nothing)
Leaf(key) == El(key, "a", Nothing)
Box == El("1", "b", <<"one", Text>>)
Full == El("1", "b", <<"many", <<Leaf("2"), Text>>>>)
Portal == El(NoKey, "portal", <<"one", Leaf(NoKey)>>)
Empty == El(NoKey, "portal", Nothing)
Group == El("3", "fragment", <<"many", <<Leaf("1"), IF EmptyPortals THEN Empty ELSE Portal, Text>>>>)
Other == El("3", "fragment", <<"many", <<Text, Leaf("1")>>>>)

Atoms == {Hole, Text, Leaf("1"), Leaf("2"), Full, Group, Other}
UniqueKeys(list) == \A i, j \in DOMAIN list : i # j => list[i].key = NoKey \/ list[i].key # list[j].key
Lists == {list \in UNION {[1 .. n -> Atoms] : n \in 0 .. MaxLength} : UniqueKeys(list) /\ (list # <<>> => Last(list) # Hole)}
MCValues == {<<"iterable", list>> : list \in {<<Leaf("2"), Hole, Leaf("1")>>, <<Text, Full>>}}
            \cup {<<"many", list>> : list \in Lists}
            \cup {<<"one", e>> : e \in (Atoms \ {Hole}) \cup {Portal, Box, Leaf(NoKey),
                                          El(NoKey, "fragment", <<"many", <<Leaf("2"), Portal>>>>)}}
=============================================================================
