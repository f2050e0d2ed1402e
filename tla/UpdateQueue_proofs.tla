------------------------- MODULE UpdateQueue_proofs -------------------------
(***************************************************************************)
(* The theorem about the update queues of a fiber: no update is lost,      *)
(* whatever is scheduled, rendered, thrown away, begun again and committed *)
(* (UpdateQueue!NothingIsLost).                                            *)
(*                                                                         *)
(* The pointers are read through one observation: the updates that are not *)
(* captured are appended in the order of their names, so that the list of  *)
(* any queue is all of them from its first update on, and its base state   *)
(* has all those before.  The first part is about the recursive functions  *)
(* of the model, on lists and links of any length.                         *)
(***************************************************************************)
EXTENDS UpdateQueue, SequenceTheorems, WellFoundedInduction, TLAPS

(* A set of natural numbers that is not empty has a least element.         *)
LEMMA NatMin ==
  ASSUME NEW T \in SUBSET Nat, NEW n \in T
  PROVE  \E m \in T : \A k \in T : m <= k
<1>1. IsWellFoundedOn(OpToRel(<, Nat), Nat)
  BY NatLessThanWellFounded
<1>2. PICK m \in T : \A k \in T : ~(<<k, m>> \in OpToRel(<, Nat))
  BY <1>1, WFMin, Zenon
<1>3. \A k \in T : <<k, m>> \in OpToRel(<, Nat) <=> k < m
  BY Zenon DEF OpToRel
<1>4. \A k \in T : k < m \/ m <= k
  OBVIOUS
<1> QED
  BY <1>2, <1>3, <1>4

LEMMA MinIsLeast ==
  ASSUME NEW T \in SUBSET Nat, NEW n \in T
  PROVE  Min(T) \in T /\ \A k \in T : Min(T) <= k
  BY NatMin DEF Min
-----------------------------------------------------------------------------
(* Only: the function is defined, and is what its equation says.           *)
LEMMA KeptIsDefined ==
  ASSUME NEW list, Len(list) \in Nat, NEW S
  PROVE  /\ KeptUpTo(list, S)[0] = <<>>
         /\ \A n \in 1 .. Len(list) :
              KeptUpTo(list, S)[n] = IF list[n] \in S THEN Append(KeptUpTo(list, S)[n - 1], list[n])
                                 ELSE KeptUpTo(list, S)[n - 1]
<1> DEFINE Step(f, n) == IF n = 0 THEN <<>>
                         ELSE IF list[n] \in S THEN Append(f[n - 1], list[n]) ELSE f[n - 1]
           Fails == {m \in Nat : ~(\E f : f = [n \in 0 .. m |-> Step(f, n)])}
<1>1. Fails = {}
  <2> SUFFICES ASSUME NEW m \in Fails, \A k \in Fails : m <= k PROVE FALSE
    BY NatMin
  <2>0. m \in Nat /\ ~(\E f : f = [n \in 0 .. m |-> Step(f, n)])
    OBVIOUS
  <2>1. CASE m = 0
    <3> DEFINE f == [n \in 0 .. 0 |-> <<>>]
    <3>1. f = [n \in 0 .. 0 |-> Step(f, n)]
      OBVIOUS
    <3> QED
      BY <2>0, <2>1, <3>1
  <2>2. CASE m # 0
    <3>1. m - 1 \in Nat /\ m - 1 \notin Fails
      <4> HIDE DEF Fails
      <4> QED
        BY <2>0, <2>2
    <3>2. PICK g : g = [n \in 0 .. (m - 1) |-> Step(g, n)]
      BY <3>1
    <3> DEFINE f == [n \in 0 .. m |-> IF n = m THEN Step(g, m) ELSE g[n]]
    <3>3. f = [n \in 0 .. m |-> Step(f, n)]
      <4> SUFFICES ASSUME NEW n \in 0 .. m PROVE f[n] = Step(f, n)
        OBVIOUS
      <4>1. n = 0 \/ f[n - 1] = g[n - 1]
        BY <2>0
      <4>2. Step(f, n) = Step(g, n)
        BY <4>1
      <4>3. n # m => g[n] = Step(g, n)
        <5> HIDE DEF Step
        <5>1. n # m => n \in 0 .. (m - 1)
          BY <2>0
        <5> QED
          BY <3>2, <5>1
      <4> HIDE DEF Step
      <4> QED
        BY <4>2, <4>3
    <3> HIDE DEF f, Step
    <3> QED
      BY <2>0, <3>3
  <2> QED
    BY <2>1, <2>2
<1>2. \E f : f = [n \in 0 .. Len(list) |-> Step(f, n)]
  BY <1>1
<1>3. KeptUpTo(list, S) = CHOOSE f : f = [n \in 0 .. Len(list) |-> Step(f, n)]
  BY DEF KeptUpTo
<1>4. KeptUpTo(list, S) = [n \in 0 .. Len(list) |-> Step(KeptUpTo(list, S), n)]
  <2> HIDE DEF Step
  <2> QED
    BY <1>2, <1>3
<1>5. ASSUME NEW n \in 0 .. Len(list) PROVE KeptUpTo(list, S)[n] = Step(KeptUpTo(list, S), n)
  <2> HIDE DEF Step
  <2> QED
    BY <1>4
<1> QED
  BY <1>5

(* What a filter keeps: elements of the list and of the set, and all of    *)
(* them.                                                                   *)
LEMMA KeptHas ==
  ASSUME NEW R, NEW list \in Seq(R), NEW S, NEW n \in 0 .. Len(list)
  PROVE  /\ KeptUpTo(list, S)[n] \in Seq(R)
         /\ \A j \in 1 .. Len(KeptUpTo(list, S)[n]) :
              KeptUpTo(list, S)[n][j] \in S /\ \E i \in 1 .. n : list[i] = KeptUpTo(list, S)[n][j]
         /\ \A i \in 1 .. n : list[i] \in S =>
              \E j \in 1 .. Len(KeptUpTo(list, S)[n]) : KeptUpTo(list, S)[n][j] = list[i]
<1> DEFINE kept == KeptUpTo(list, S)
           Has(m) == /\ kept[m] \in Seq(R)
                     /\ \A j \in 1 .. Len(kept[m]) :
                          kept[m][j] \in S /\ \E i \in 1 .. m : list[i] = kept[m][j]
                     /\ \A i \in 1 .. m : list[i] \in S =>
                          \E j \in 1 .. Len(kept[m]) : kept[m][j] = list[i]
           Fails == {m \in 0 .. Len(list) : ~Has(m)}
<1>1. Len(list) \in Nat
  OBVIOUS
<1>2. /\ kept[0] = <<>>
      /\ \A m \in 1 .. Len(list) :
           kept[m] = IF list[m] \in S THEN Append(kept[m - 1], list[m]) ELSE kept[m - 1]
  BY <1>1, KeptIsDefined
<1> HIDE DEF kept
<1>3. Has(0)
  BY <1>2
<1>4. ASSUME NEW m \in 1 .. Len(list), Has(m - 1) PROVE Has(m)
  <2>0. \A i \in 1 .. (m - 1) : i \in 1 .. m
    OBVIOUS
  <2>1. CASE list[m] \notin S
    <3>1. kept[m] = kept[m - 1]
      BY <1>2, <2>1
    <3>2. \A i \in 1 .. m : list[i] \in S => i \in 1 .. (m - 1)
      BY <2>1
    <3>3. \A j \in 1 .. Len(kept[m]) : kept[m][j] \in S /\ \E i \in 1 .. m : list[i] = kept[m][j]
      BY <1>4, <2>0, <3>1
    <3>4. \A i \in 1 .. m : list[i] \in S => \E j \in 1 .. Len(kept[m]) : kept[m][j] = list[i]
      BY <1>4, <3>1, <3>2
    <3> QED
      BY <1>4, <3>1, <3>3, <3>4
  <2>2. CASE list[m] \in S
    <3>1. kept[m] = Append(kept[m - 1], list[m])
      BY <1>2, <2>2
    <3>2. list[m] \in R /\ kept[m - 1] \in Seq(R)
      BY <1>4
    <3>3. /\ kept[m] \in Seq(R) /\ Len(kept[m]) = Len(kept[m - 1]) + 1 /\ Len(kept[m - 1]) \in Nat
          /\ \A j \in 1 .. Len(kept[m - 1]) : kept[m][j] = kept[m - 1][j]
          /\ kept[m][Len(kept[m])] = list[m]
      BY <3>1, <3>2, AppendProperties, LenProperties
    <3>4. ASSUME NEW j \in 1 .. Len(kept[m])
          PROVE  kept[m][j] \in S /\ \E i \in 1 .. m : list[i] = kept[m][j]
      <4>1. CASE j = Len(kept[m])
        BY <2>2, <3>3, <4>1
      <4>2. CASE j # Len(kept[m])
        <5>1. j \in 1 .. Len(kept[m - 1])
          BY <3>3, <4>2
        <5>2. kept[m - 1][j] \in S /\ \E i \in 1 .. (m - 1) : list[i] = kept[m - 1][j]
          BY <1>4, <5>1
        <5> QED
          BY <2>0, <3>3, <5>1, <5>2
      <4> QED
        BY <4>1, <4>2
    <3>5. ASSUME NEW i \in 1 .. m, list[i] \in S
          PROVE  \E j \in 1 .. Len(kept[m]) : kept[m][j] = list[i]
      <4>1. CASE i = m
        <5>1. Len(kept[m]) \in 1 .. Len(kept[m])
          BY <3>3
        <5> QED
          BY <3>3, <4>1, <5>1
      <4>2. CASE i # m
        <5>1. i \in 1 .. (m - 1)
          BY <4>2
        <5>2. PICK j \in 1 .. Len(kept[m - 1]) : kept[m - 1][j] = list[i]
          BY <1>4, <3>5, <5>1
        <5>3. j \in 1 .. Len(kept[m])
          BY <3>3
        <5> QED
          BY <3>3, <5>2, <5>3
      <4> QED
        BY <4>1, <4>2
    <3> QED
      BY <3>3, <3>4, <3>5
  <2> QED
    BY <2>1, <2>2
<1> HIDE DEF Has
<1>5. Fails = {}
  <2> SUFFICES ASSUME NEW m \in Fails, \A k \in Fails : m <= k PROVE FALSE
    <3>1. Fails \in SUBSET Nat
      BY <1>1
    <3> QED
      BY <3>1, NatMin
  <2>1. m # 0 /\ m \in 0 .. Len(list) /\ ~Has(m)
    BY <1>3
  <2>2. m \in 1 .. Len(list) /\ m - 1 \in 0 .. Len(list) /\ ~(m <= m - 1)
    BY <1>1, <2>1
  <2> QED
    BY <1>4, <2>1, <2>2
<1> QED
  BY <1>5 DEF Has, kept

(* The same for Only.                                                      *)
LEMMA OnlyHas ==
  ASSUME NEW R, NEW list \in Seq(R), NEW S
  PROVE  /\ Only(list, S) \in Seq(R) /\ Len(Only(list, S)) \in Nat
         /\ \A j \in 1 .. Len(Only(list, S)) :
              Only(list, S)[j] \in S /\ \E i \in 1 .. Len(list) : list[i] = Only(list, S)[j]
         /\ \A i \in 1 .. Len(list) : list[i] \in S =>
              \E j \in 1 .. Len(Only(list, S)) : Only(list, S)[j] = list[i]
<1>1. Len(list) \in 0 .. Len(list)
  BY LenProperties
<1> QED
  BY <1>1, KeptHas, LenProperties DEF Only

-----------------------------------------------------------------------------
(* Lists of updates in the order of their names: T is what a list has, or  *)
(* what it has of a set S.                                                 *)
Ascends(s) == \A i, j \in 1 .. Len(s) : i < j => s[i] < s[j]

Sorted(s, T) ==
  /\ s \in Seq(Nat) /\ Ascends(s)
  /\ \A v : v \in T <=> \E i \in 1 .. Len(s) : s[i] = v

AscendsIn(s, S) == \A i, j \in 1 .. Len(s) : i < j /\ s[i] \in S /\ s[j] \in S => s[i] < s[j]

SortedIn(s, S, T) ==
  /\ s \in Seq(Nat) /\ AscendsIn(s, S)
  /\ \A v : v \in T <=> v \in S /\ \E i \in 1 .. Len(s) : s[i] = v

LEMMA KeptAscends ==
  ASSUME NEW list \in Seq(Nat), NEW S, AscendsIn(list, S), NEW n \in 0 .. Len(list)
  PROVE  Ascends(KeptUpTo(list, S)[n])
<1> DEFINE kept == KeptUpTo(list, S)
           Fails == {m \in 0 .. Len(list) : ~Ascends(kept[m])}
<1>1. Len(list) \in Nat
  OBVIOUS
<1>2. /\ kept[0] = <<>>
      /\ \A m \in 1 .. Len(list) :
           kept[m] = IF list[m] \in S THEN Append(kept[m - 1], list[m]) ELSE kept[m - 1]
  BY <1>1, KeptIsDefined
<1>3. Ascends(kept[0])
  <2> HIDE DEF kept
  <2> QED
    BY <1>2 DEF Ascends
<1>4. ASSUME NEW m \in 1 .. Len(list), Ascends(kept[m - 1]) PROVE Ascends(kept[m])
  <2>1. CASE list[m] \notin S
    <3> HIDE DEF kept
    <3> QED
      BY <1>2, <1>4, <2>1
  <2>2. CASE list[m] \in S
    <3>0. m - 1 \in 0 .. Len(list)
      BY <1>1
    <3>1. /\ kept[m - 1] \in Seq(Nat)
          /\ \A j \in 1 .. Len(kept[m - 1]) :
               kept[m - 1][j] \in S /\ \E i \in 1 .. (m - 1) : list[i] = kept[m - 1][j]
      BY <3>0, KeptHas
    <3> HIDE DEF kept
    <3>2. kept[m] = Append(kept[m - 1], list[m]) /\ list[m] \in Nat
      <4>1. list[m] \in Nat
        BY <1>4
      <4> QED
        BY <1>2, <2>2, <4>1
    <3>3. /\ kept[m] \in Seq(Nat) /\ Len(kept[m]) = Len(kept[m - 1]) + 1 /\ Len(kept[m - 1]) \in Nat
          /\ \A j \in 1 .. Len(kept[m - 1]) : kept[m][j] = kept[m - 1][j]
          /\ kept[m][Len(kept[m])] = list[m]
      BY <3>1, <3>2, AppendProperties, LenProperties
    <3> SUFFICES ASSUME NEW i \in 1 .. Len(kept[m]), NEW j \in 1 .. Len(kept[m]), i < j
                 PROVE  kept[m][i] < kept[m][j]
      BY DEF Ascends
    <3>4. i \in 1 .. Len(kept[m - 1])
      BY <3>3
    <3>5. CASE j = Len(kept[m])
      <4>1. PICK k \in 1 .. (m - 1) : list[k] = kept[m - 1][i]
        BY <3>1, <3>4
      <4>2. k \in 1 .. Len(list) /\ k < m /\ list[k] \in S
        BY <3>1, <3>4, <4>1
      <4>3. list[k] < list[m]
        BY <2>2, <4>2 DEF AscendsIn
      <4> QED
        BY <3>3, <3>4, <3>5, <4>1, <4>3
    <3>6. CASE j # Len(kept[m])
      <4>1. j \in 1 .. Len(kept[m - 1])
        BY <3>3, <3>6
      <4>2. kept[m - 1][i] < kept[m - 1][j]
        BY <1>4, <3>4, <4>1 DEF Ascends
      <4> QED
        BY <3>3, <3>4, <4>1, <4>2
    <3> QED
      BY <3>5, <3>6
  <2> QED
    BY <2>1, <2>2
<1> HIDE DEF kept
<1>5. Fails = {}
  <2> SUFFICES ASSUME NEW m \in Fails, \A k \in Fails : m <= k PROVE FALSE
    <3>1. Fails \in SUBSET Nat
      BY <1>1
    <3> QED
      BY <3>1, NatMin
  <2>1. m # 0 /\ m \in 0 .. Len(list) /\ ~Ascends(kept[m])
    BY <1>3
  <2>2. m \in 1 .. Len(list) /\ m - 1 \in 0 .. Len(list) /\ ~(m <= m - 1)
    BY <1>1, <2>1
  <2> QED
    BY <1>4, <2>1, <2>2
<1> QED
  BY <1>5 DEF kept

LEMMA OnlyIsSorted ==
  ASSUME NEW s, NEW S, NEW T, SortedIn(s, S, T)
  PROVE  Sorted(Only(s, S), T)
<1>1. s \in Seq(Nat) /\ Len(s) \in 0 .. Len(s)
  BY LenProperties DEF SortedIn
<1>2. Ascends(Only(s, S))
  BY <1>1, KeptAscends DEF Only, SortedIn
<1>3. /\ Only(s, S) \in Seq(Nat)
      /\ \A j \in 1 .. Len(Only(s, S)) :
           Only(s, S)[j] \in S /\ \E i \in 1 .. Len(s) : s[i] = Only(s, S)[j]
      /\ \A i \in 1 .. Len(s) : s[i] \in S =>
           \E j \in 1 .. Len(Only(s, S)) : Only(s, S)[j] = s[i]
  BY <1>1, OnlyHas
<1> DEFINE only == Only(s, S)
<1> HIDE DEF only
<1>4. ASSUME NEW v \in T PROVE \E j \in 1 .. Len(only) : only[j] = v
  <2>1. v \in S /\ \E i \in 1 .. Len(s) : s[i] = v
    BY <1>4 DEF SortedIn
  <2> QED
    BY <1>3, <2>1 DEF only
<1>5. ASSUME NEW j \in 1 .. Len(only) PROVE only[j] \in T
  <2>1. only[j] \in S /\ \E i \in 1 .. Len(s) : s[i] = only[j]
    BY <1>3 DEF only
  <2> QED
    BY <2>1 DEF SortedIn
<1>6. \A v : v \in T <=> \E i \in 1 .. Len(only) : only[i] = v
  BY <1>4, <1>5
<1> QED
  BY <1>2, <1>3, <1>6 DEF Sorted, only

(* There is only one such list.                                            *)
LEMMA SortedIsUnique ==
  ASSUME NEW s, NEW t, NEW T, Sorted(s, T), Sorted(t, T)
  PROVE  s = t
<1> DEFINE Fails == {n \in Nat \ {0} : (n <= Len(s) \/ n <= Len(t)) /\ ~(n <= Len(s) /\ n <= Len(t) /\ s[n] = t[n])}
<1>1. s \in Seq(Nat) /\ t \in Seq(Nat) /\ Len(s) \in Nat /\ Len(t) \in Nat
  BY DEF Sorted
<1>2. ASSUME NEW a, NEW b, Sorted(a, T), Sorted(b, T), NEW n \in Nat \ {0}, n <= Len(a),
             \A k \in Nat \ {0} : k < n => k <= Len(a) /\ k <= Len(b) /\ a[k] = b[k]
      PROVE  n <= Len(b) /\ b[n] <= a[n]
  <2>1. /\ a \in Seq(Nat) /\ b \in Seq(Nat) /\ Len(a) \in Nat /\ Len(b) \in Nat
        /\ n \in 1 .. Len(a)
    BY <1>2 DEF Sorted
  <2>2. PICK j \in 1 .. Len(b) : b[j] = a[n]
    BY <1>2, <2>1 DEF Sorted
  <2>3. ~(j < n)
    <3> SUFFICES ASSUME j < n PROVE FALSE
      OBVIOUS
    <3>1. j \in 1 .. Len(a) /\ a[j] = b[j]
      BY <1>2, <2>1
    <3>2. a[j] < a[n]
      BY <1>2, <2>1, <3>1 DEF Sorted, Ascends
    <3>3. a[j] \in Nat /\ a[n] \in Nat
      BY <2>1, <3>1
    <3> QED
      BY <2>2, <3>1, <3>2, <3>3
  <2>4. n <= Len(b) /\ n \in 1 .. Len(b)
    BY <2>1, <2>3
  <2>5. n = j \/ b[n] < b[j]
    BY <1>2, <2>3, <2>4 DEF Sorted, Ascends
  <2>6. b[n] \in Nat /\ b[j] \in Nat
    BY <2>1, <2>4
  <2> QED
    BY <2>2, <2>4, <2>5, <2>6
<1>3. Fails = {}
  <2> SUFFICES ASSUME NEW n \in Fails, \A k \in Fails : n <= k PROVE FALSE
    BY NatMin
  <2>1. n \in Nat \ {0} /\ \A k \in Nat \ {0} : k < n => ~(n <= k)
    OBVIOUS
  <2>2. \A k \in Nat \ {0} : k < n /\ (n <= Len(s) \/ n <= Len(t)) => k <= Len(s) /\ k <= Len(t) /\ s[k] = t[k]
    <3> SUFFICES ASSUME NEW k \in Nat \ {0}, k < n, n <= Len(s) \/ n <= Len(t)
                 PROVE  k <= Len(s) /\ k <= Len(t) /\ s[k] = t[k]
      OBVIOUS
    <3>1. k \notin Fails /\ (k <= Len(s) \/ k <= Len(t))
      BY <1>1, <2>1
    <3> QED
      BY <3>1
  <2>3. n <= Len(s) => n <= Len(t) /\ t[n] <= s[n]
    BY <1>2, <2>1, <2>2
  <2>4. n <= Len(t) => n <= Len(s) /\ s[n] <= t[n]
    BY <1>2, <2>1, <2>2
  <2>5. n <= Len(s) /\ n <= Len(t)
    BY <2>3, <2>4
  <2>6. s[n] \in Nat /\ t[n] \in Nat
    BY <1>1, <2>1, <2>5
  <2> QED
    BY <2>3, <2>4, <2>5, <2>6
<1>4. \A n \in 1 .. Len(s) : n <= Len(t) /\ s[n] = t[n]
  <2> SUFFICES ASSUME NEW n \in 1 .. Len(s) PROVE n <= Len(t) /\ s[n] = t[n]
    OBVIOUS
  <2>1. n \in Nat \ {0} /\ n <= Len(s)
    BY <1>1
  <2>2. n \notin Fails
    <3> HIDE DEF Fails
    <3> QED
      BY <1>3
  <2> QED
    BY <2>1, <2>2
<1>5. \A n \in 1 .. Len(t) : n <= Len(s)
  <2> SUFFICES ASSUME NEW n \in 1 .. Len(t) PROVE n <= Len(s)
    OBVIOUS
  <2>1. n \in Nat \ {0} /\ n <= Len(t)
    BY <1>1
  <2>2. n \notin Fails
    <3> HIDE DEF Fails
    <3> QED
      BY <1>3
  <2> QED
    BY <2>1, <2>2
<1>6. Len(s) = Len(t)
  BY <1>1, <1>4, <1>5
<1> QED
  BY <1>1, <1>4, <1>6, SeqEqual

-----------------------------------------------------------------------------
(* Chain: the same for the nodes of a list.                                *)
LEMMA NodesAreDefined ==
  ASSUME NEW link, NEW start
  PROVE  /\ Nodes(link, start) = [n \in 1 .. MaxUpdates + 1 |-> Nodes(link, start)[n]]
         /\ Nodes(link, start)[1] = start
         /\ \A n \in 2 .. MaxUpdates + 1 :
              Nodes(link, start)[n] = IF Nodes(link, start)[n - 1] = NULL THEN NULL
                                      ELSE link[Nodes(link, start)[n - 1]]
<1> DEFINE Step(f, n) == IF n = 1 THEN start
                         ELSE IF f[n - 1] = NULL THEN NULL ELSE link[f[n - 1]]
           Fails == {m \in Nat : ~(\E f : f = [n \in 1 .. m |-> Step(f, n)])}
<1>1. Fails = {}
  <2> SUFFICES ASSUME NEW m \in Fails, \A k \in Fails : m <= k PROVE FALSE
    BY NatMin
  <2>0. m \in Nat /\ ~(\E f : f = [n \in 1 .. m |-> Step(f, n)])
    OBVIOUS
  <2>1. CASE m = 0
    <3> DEFINE f == [n \in 1 .. 0 |-> start]
    <3>1. f = [n \in 1 .. 0 |-> Step(f, n)]
      OBVIOUS
    <3> QED
      BY <2>0, <2>1, <3>1
  <2>2. CASE m # 0
    <3>1. m - 1 \in Nat /\ m - 1 \notin Fails
      <4> HIDE DEF Fails
      <4> QED
        BY <2>0, <2>2
    <3>2. PICK g : g = [n \in 1 .. (m - 1) |-> Step(g, n)]
      BY <3>1
    <3> DEFINE f == [n \in 1 .. m |-> IF n = m THEN Step(g, m) ELSE g[n]]
    <3>3. f = [n \in 1 .. m |-> Step(f, n)]
      <4> SUFFICES ASSUME NEW n \in 1 .. m PROVE f[n] = Step(f, n)
        OBVIOUS
      <4>1. n = 1 \/ f[n - 1] = g[n - 1]
        BY <2>0
      <4>2. Step(f, n) = Step(g, n)
        BY <4>1
      <4>3. n # m => g[n] = Step(g, n)
        <5> HIDE DEF Step
        <5>1. n # m => n \in 1 .. (m - 1)
          BY <2>0
        <5> QED
          BY <3>2, <5>1
      <4> HIDE DEF Step
      <4> QED
        BY <4>2, <4>3
    <3> HIDE DEF f, Step
    <3> QED
      BY <2>0, <3>3
  <2> QED
    BY <2>1, <2>2
<1>2. \E f : f = [n \in 1 .. MaxUpdates + 1 |-> Step(f, n)]
  <2>1. MaxUpdates + 1 \in Nat
    BY BoundsAssumption
  <2>2. MaxUpdates + 1 \notin Fails
    <3> HIDE DEF Fails
    <3> QED
      BY <1>1
  <2> HIDE DEF Step
  <2> QED
    BY <2>1, <2>2
<1>3. Nodes(link, start) = CHOOSE f : f = [n \in 1 .. MaxUpdates + 1 |-> Step(f, n)]
  BY DEF Nodes
<1>4. Nodes(link, start) = [n \in 1 .. MaxUpdates + 1 |-> Step(Nodes(link, start), n)]
  <2> HIDE DEF Step
  <2> QED
    BY <1>2, <1>3
<1>5. ASSUME NEW n \in 1 .. MaxUpdates + 1
      PROVE  Nodes(link, start)[n] = Step(Nodes(link, start), n)
  <2> HIDE DEF Step
  <2> QED
    BY <1>4
<1>6. Nodes(link, start) = [n \in 1 .. MaxUpdates + 1 |-> Nodes(link, start)[n]]
  <2> HIDE DEF Step
  <2> QED
    BY <1>4
<1>7. 1 \in 1 .. MaxUpdates + 1 /\ \A n \in 2 .. MaxUpdates + 1 : n \in 1 .. MaxUpdates + 1 /\ n # 1
  BY BoundsAssumption
<1>8. Nodes(link, start)[1] = start
  BY <1>5, <1>7
<1>9. \A n \in 2 .. MaxUpdates + 1 :
        Nodes(link, start)[n] = IF Nodes(link, start)[n - 1] = NULL THEN NULL
                                ELSE link[Nodes(link, start)[n - 1]]
  BY <1>5, <1>7
<1> QED
  BY <1>6, <1>8, <1>9

(* A list stays in a set that its links do not leave.                      *)
LEMMA ChainStaysIn ==
  ASSUME NEW link, NEW start, NEW C, NULL \notin C,
         start \in C \cup {NULL}, \A u \in C : link[u] \in C \cup {NULL}
  PROVE  /\ Chain(link, start) \in Seq(C)
         /\ Len(Chain(link, start)) \in 0 .. MaxUpdates + 1
         /\ \A i \in 1 .. Len(Chain(link, start)) : Chain(link, start)[i] = Nodes(link, start)[i]
         /\ Len(Chain(link, start)) <= MaxUpdates =>
              Nodes(link, start)[Len(Chain(link, start)) + 1] = NULL
<1> DEFINE nodes == Nodes(link, start)
           Fails == {n \in 1 .. MaxUpdates + 1 : nodes[n] \notin C \cup {NULL}}
           ends == {n \in 1 .. MaxUpdates + 1 : nodes[n] = NULL}
           chain == Chain(link, start)
<1>1. /\ nodes = [n \in 1 .. MaxUpdates + 1 |-> nodes[n]]
      /\ nodes[1] = start
      /\ \A n \in 2 .. MaxUpdates + 1 :
           nodes[n] = IF nodes[n - 1] = NULL THEN NULL ELSE link[nodes[n - 1]]
  BY NodesAreDefined
<1>2. MaxUpdates \in Nat
  BY BoundsAssumption
<1>3. chain = IF ends = {} THEN nodes ELSE SubSeq(nodes, 1, Min(ends) - 1)
  BY DEF Chain
<1> HIDE DEF nodes, chain
<1>4. Fails = {}
  <2> SUFFICES ASSUME NEW n \in Fails, \A k \in Fails : n <= k PROVE FALSE
    <3>1. Fails \in SUBSET Nat
      BY <1>2
    <3> QED
      BY <3>1, NatMin
  <2>1. n \in 2 .. MaxUpdates + 1
    BY <1>1, <1>2
  <2>2. n - 1 \in 1 .. MaxUpdates + 1 /\ n - 1 \notin Fails
    <3>1. n - 1 \in 1 .. MaxUpdates + 1 /\ ~(n <= n - 1)
      BY <1>2, <2>1
    <3> HIDE DEF Fails
    <3> QED
      BY <3>1
  <2>3. nodes[n - 1] \in C \cup {NULL}
    BY <2>2
  <2> QED
    BY <1>1, <2>1, <2>3
<1>5. nodes \in [1 .. MaxUpdates + 1 -> C \cup {NULL}]
  BY <1>1, <1>4
<1>6. nodes \in Seq(C \cup {NULL}) /\ Len(nodes) = MaxUpdates + 1
  BY <1>2, <1>5
<1>7. CASE ends = {}
  <2>1. nodes \in [1 .. MaxUpdates + 1 -> C]
    BY <1>5, <1>7
  <2>2. nodes \in Seq(C)
    BY <1>2, <2>1
  <2> QED
    BY <1>2, <1>3, <1>6, <1>7, <2>2 DEF nodes, chain
<1>8. CASE ends # {}
  <2>1. PICK m \in 1 .. MaxUpdates + 1 : m = Min(ends) /\ nodes[m] = NULL /\ \A k \in ends : m <= k
    <3>1. ends \in SUBSET Nat
      BY <1>2
    <3>2. Min(ends) \in ends /\ \A k \in ends : Min(ends) <= k
      <4> HIDE DEF ends
      <4> QED
        BY <1>8, <3>1, MinIsLeast
    <3> QED
      BY <3>2
  <2>2. chain = SubSeq(nodes, 1, m - 1)
    BY <1>3, <1>8, <2>1
  <2>3. /\ chain \in Seq(C \cup {NULL}) /\ Len(chain) = m - 1
        /\ \A i \in 1 .. (m - 1) : chain[i] = nodes[i]
    <3>1. 1 \in 1 .. (Len(nodes) + 1) /\ m - 1 \in 0 .. Len(nodes)
      BY <1>2, <1>6
    <3>2. /\ SubSeq(nodes, 1, m - 1) \in Seq(C \cup {NULL})
          /\ Len(SubSeq(nodes, 1, m - 1)) = IF 1 <= m - 1 THEN (m - 1) - 1 + 1 ELSE 0
          /\ \A i \in 1 .. (m - 1) - 1 + 1 : SubSeq(nodes, 1, m - 1)[i] = nodes[1 + i - 1]
      BY <1>6, <3>1, SubSeqProperties
    <3> QED
      BY <2>2, <3>1, <3>2
  <2>4. \A i \in 1 .. (m - 1) : chain[i] \in C
    <3> SUFFICES ASSUME NEW i \in 1 .. (m - 1) PROVE chain[i] \in C
      OBVIOUS
    <3>1. i \in 1 .. MaxUpdates + 1 /\ ~(m <= i)
      BY <1>2
    <3>2. i \notin ends
      BY <2>1, <3>1
    <3> QED
      BY <1>5, <2>3, <3>1, <3>2
  <2>5. chain \in Seq(C)
    <3>1. chain = [i \in 1 .. (m - 1) |-> chain[i]]
      BY <2>3
    <3>2. chain \in [1 .. (m - 1) -> C]
      BY <2>4, <3>1
    <3> QED
      BY <1>2, <3>2
  <2> QED
    BY <1>2, <2>1, <2>3, <2>5 DEF nodes, chain
<1> QED
  BY <1>7, <1>8

(* A list whose links go from each element of a set to the next greater    *)
(* one has all of the set, in order.                                       *)
LinksAscend(link, T) ==
  \A u \in T : \/ link[u] = NULL /\ \A v \in T : v <= u
               \/ link[u] \in T /\ u < link[u] /\ \A v \in T : v <= u \/ link[u] <= v

LEMMA ChainIsSorted ==
  ASSUME NEW link, NEW start, NEW T \in SUBSET Updates,
         (start \in T /\ \A v \in T : start <= v) \/ (start = NULL /\ T = {}),
         LinksAscend(link, T)
  PROVE  Sorted(Chain(link, start), T)
<1> DEFINE nodes == Nodes(link, start)
           chain == Chain(link, start)
           Runs(n) == /\ \A i \in 1 .. n : nodes[i] \in T \cup {NULL}
                      /\ nodes[n] # NULL => n <= nodes[n]
                      /\ \A i \in 1 .. (n - 1) : nodes[n] # NULL => nodes[i] # NULL /\ nodes[i] < nodes[n]
                      /\ \A v \in T : \/ \E i \in 1 .. n : nodes[i] = v
                                      \/ nodes[n] # NULL /\ nodes[n] < v
           Fails == {n \in 1 .. MaxUpdates + 1 : ~Runs(n)}
<1>1. /\ MaxUpdates \in Nat /\ NULL \notin T /\ NULL = 0
      /\ \A v \in T : v \in Nat /\ 1 <= v /\ v <= MaxUpdates
  BY BoundsAssumption DEF Updates, NULL
<1>2. /\ nodes[1] = start
      /\ \A n \in 2 .. MaxUpdates + 1 :
           nodes[n] = IF nodes[n - 1] = NULL THEN NULL ELSE link[nodes[n - 1]]
  BY NodesAreDefined
<1>3. /\ chain \in Seq(T) /\ Len(chain) \in 0 .. MaxUpdates + 1
      /\ \A i \in 1 .. Len(chain) : chain[i] = nodes[i]
      /\ Len(chain) <= MaxUpdates => nodes[Len(chain) + 1] = NULL
  <2>1. start \in T \cup {NULL} /\ \A u \in T : link[u] \in T \cup {NULL}
    BY DEF LinksAscend
  <2>2. NULL \notin T
    BY <1>1
  <2>3. /\ Chain(link, start) \in Seq(T)
        /\ Len(Chain(link, start)) \in 0 .. MaxUpdates + 1
        /\ \A i \in 1 .. Len(Chain(link, start)) : Chain(link, start)[i] = Nodes(link, start)[i]
        /\ Len(Chain(link, start)) <= MaxUpdates =>
             Nodes(link, start)[Len(Chain(link, start)) + 1] = NULL
    BY ONLY <2>1, <2>2, ChainStaysIn
  <2> QED
    BY <2>3
<1> HIDE DEF nodes, chain
<1>4. Runs(1)
  <2>1. (\A i \in 1 .. 1 : nodes[i] \in T \cup {NULL}) /\ (nodes[1] # NULL => 1 <= nodes[1])
    <3>1. nodes[1] \in T \cup {NULL} /\ (nodes[1] # NULL => 1 <= nodes[1])
      BY <1>1, <1>2
    <3> QED
      BY <3>1
  <2>2. \A v \in T : (\E i \in 1 .. 1 : nodes[i] = v) \/ (nodes[1] # NULL /\ nodes[1] < v)
    <3> SUFFICES ASSUME NEW v \in T, nodes[1] # v PROVE nodes[1] # NULL /\ nodes[1] < v
      OBVIOUS
    <3> QED
      BY <1>1, <1>2
  <2> QED
    BY <2>1, <2>2
<1>5. ASSUME NEW n \in 2 .. MaxUpdates + 1, Runs(n - 1) PROVE Runs(n)
  <2>0. n - 1 \in 1 .. MaxUpdates /\ n - 1 \in 1 .. (n - 1) /\ \A i \in 1 .. (n - 1) : i \in 1 .. n
    BY <1>1
  <2>a. \A i \in 1 .. (n - 1) : nodes[i] \in T \cup {NULL}
    BY <1>5
  <2>b. nodes[n] \in T \cup {NULL} => \A i \in 1 .. n : nodes[i] \in T \cup {NULL}
    <3>1. \A i \in 1 .. n : i = n \/ i \in 1 .. (n - 1)
      BY <1>1
    <3> QED
      BY <2>a, <3>1
  <2>1. CASE nodes[n - 1] = NULL
    <3>1. nodes[n] = NULL
      BY <1>2, <2>1
    <3>2. \A v \in T : \E i \in 1 .. (n - 1) : nodes[i] = v
      BY <1>5, <2>1
    <3>3. \A v \in T : \E i \in 1 .. n : nodes[i] = v
      BY <2>0, <3>2
    <3>4. \A i \in 1 .. n : nodes[i] \in T \cup {NULL}
      BY <2>b, <3>1
    <3> QED
      BY <3>1, <3>3, <3>4
  <2>2. CASE nodes[n - 1] # NULL
    <3> DEFINE u == nodes[n - 1]
    <3>1. nodes[n] = link[u]
      BY <1>2, <2>2
    <3>2. u \in T /\ n - 1 <= u
      BY <1>5, <2>2
    <3>3. \/ link[u] = NULL /\ \A v \in T : v <= u
          \/ link[u] \in T /\ u < link[u] /\ \A v \in T : v <= u \/ link[u] <= v
      BY <3>2 DEF LinksAscend
    <3>4. \A i \in 1 .. (n - 1) : nodes[i] # NULL /\ nodes[i] <= u
      <4> SUFFICES ASSUME NEW i \in 1 .. (n - 1) PROVE nodes[i] # NULL /\ nodes[i] <= u
        OBVIOUS
      <4>1. CASE i = n - 1
        BY <1>1, <2>2, <3>2, <4>1
      <4>2. CASE i # n - 1
        <5>1. i \in 1 .. (n - 1) - 1
          BY <2>0, <4>2
        <5>2. nodes[n - 1] # NULL => nodes[i] # NULL /\ nodes[i] < nodes[n - 1]
          BY <1>5, <5>1
        <5>3. nodes[i] < u => nodes[i] <= u
          BY <1>1, <2>a, <3>2
        <5> QED
          BY <2>2, <5>2, <5>3
      <4> QED
        BY <4>1, <4>2
    <3>5. \A i \in 1 .. (n - 1) : nodes[i] # NULL => nodes[i] \in T
      BY <2>a
    <3> HIDE DEF u
    <3>6. \A v \in T : (\E i \in 1 .. (n - 1) : nodes[i] = v) \/ u < v
      BY <1>5 DEF u
    <3>7. nodes[n] \in T \cup {NULL} /\ (nodes[n] # NULL => n <= nodes[n])
      BY <1>1, <3>1, <3>2, <3>3
    <3>10. \A i \in 1 .. n : nodes[i] \in T \cup {NULL}
      BY <2>b, <3>7
    <3>8. \A i \in 1 .. (n - 1) : nodes[n] # NULL => nodes[i] # NULL /\ nodes[i] < nodes[n]
      BY <1>1, <3>1, <3>2, <3>3, <3>4, <3>5
    <3>9. \A v \in T : (\E i \in 1 .. n : nodes[i] = v) \/ (nodes[n] # NULL /\ nodes[n] < v)
      <4> SUFFICES ASSUME NEW v \in T, \A i \in 1 .. n : nodes[i] # v
                   PROVE  nodes[n] # NULL /\ nodes[n] < v
        OBVIOUS
      <4>1. u < v /\ n \in 1 .. n
        BY <2>0, <3>6
      <4>2. nodes[n] # v
        BY <4>1
      <4> QED
        BY <1>1, <3>1, <3>2, <3>3, <4>1, <4>2
    <3> QED
      BY <3>7, <3>8, <3>9, <3>10
  <2> QED
    BY <2>1, <2>2
<1> HIDE DEF Runs
<1>6. Fails = {}
  <2> SUFFICES ASSUME NEW n \in Fails, \A k \in Fails : n <= k PROVE FALSE
    <3>1. Fails \in SUBSET Nat
      BY <1>1
    <3> QED
      BY <3>1, NatMin
  <2>1. n # 1 /\ n \in 1 .. MaxUpdates + 1 /\ ~Runs(n)
    BY <1>4
  <2>2. n \in 2 .. MaxUpdates + 1 /\ n - 1 \in 1 .. MaxUpdates + 1 /\ ~(n <= n - 1)
    BY <1>1, <2>1
  <2> QED
    BY <1>5, <2>1, <2>2
<1>7. \A n \in 1 .. MaxUpdates + 1 : Runs(n)
  BY <1>6
<1>8. MaxUpdates + 1 \in 1 .. MaxUpdates + 1
  BY <1>1
<1>9. nodes[MaxUpdates + 1] = NULL
  <2>1. Runs(MaxUpdates + 1)
    BY <1>7, <1>8
  <2> QED
    BY <1>1, <2>1 DEF Runs
<1>10. Len(chain) <= MaxUpdates
  <2> SUFFICES ASSUME Len(chain) = MaxUpdates + 1 PROVE FALSE
    BY <1>1, <1>3
  <2>1. chain[MaxUpdates + 1] = NULL
    BY <1>3, <1>8, <1>9
  <2>2. chain[MaxUpdates + 1] \in T
    BY <1>3, <1>8
  <2> QED
    BY <1>1, <2>1, <2>2
<1>11. nodes[Len(chain) + 1] = NULL /\ Len(chain) + 1 \in 1 .. MaxUpdates + 1
  BY <1>1, <1>3, <1>10
<1>12. Ascends(chain)
  <2> SUFFICES ASSUME NEW i \in 1 .. Len(chain), NEW j \in 1 .. Len(chain), i < j
               PROVE  chain[i] < chain[j]
    BY DEF Ascends
  <2>1. j \in 1 .. MaxUpdates + 1 /\ i \in 1 .. (j - 1)
    BY <1>1, <1>3
  <2>2. chain[j] # NULL /\ chain[j] = nodes[j] /\ chain[i] = nodes[i]
    <3>1. chain[j] \in T
      BY <1>3
    <3> QED
      BY <1>1, <1>3, <3>1
  <2> QED
    BY <1>7, <2>1, <2>2 DEF Runs
<1>13. ASSUME NEW v \in T PROVE \E i \in 1 .. Len(chain) : chain[i] = v
  <2>1. PICK i \in 1 .. Len(chain) + 1 : nodes[i] = v
    BY <1>7, <1>11 DEF Runs
  <2>2. i # Len(chain) + 1
    BY <1>1, <1>11, <2>1
  <2>3. i \in 1 .. Len(chain)
    BY <1>3, <2>2
  <2> QED
    BY <1>3, <2>1, <2>3
<1>14. chain \in Seq(Nat) /\ \A i \in 1 .. Len(chain) : chain[i] \in T
  <2>1. T \subseteq Nat
    BY <1>1
  <2>2. Seq(T) \subseteq Seq(Nat)
    BY <2>1, SeqMonotonic
  <2> QED
    BY <1>3, <2>2
<1> QED
  BY <1>12, <1>13, <1>14 DEF Sorted, chain

-----------------------------------------------------------------------------
(* PushEffects: only its type is needed.                                   *)
EffectLists == [first : Names, last : Names, link : [Updates -> Names]]

LEMMA PushedIsDefined ==
  ASSUME NEW effects, NEW list, Len(list) \in Nat
  PROVE  /\ Pushed(effects, list)[0] = effects
         /\ \A n \in 1 .. Len(list) :
              Pushed(effects, list)[n] = LinkEffect(Pushed(effects, list)[n - 1], list[n])
<1> DEFINE Step(f, n) == IF n = 0 THEN effects ELSE LinkEffect(f[n - 1], list[n])
           Fails == {m \in Nat : ~(\E f : f = [n \in 0 .. m |-> Step(f, n)])}
<1>1. Fails = {}
  <2> SUFFICES ASSUME NEW m \in Fails, \A k \in Fails : m <= k PROVE FALSE
    BY NatMin
  <2>0. m \in Nat /\ ~(\E f : f = [n \in 0 .. m |-> Step(f, n)])
    OBVIOUS
  <2>1. CASE m = 0
    <3> DEFINE f == [n \in 0 .. 0 |-> effects]
    <3>1. f = [n \in 0 .. 0 |-> Step(f, n)]
      OBVIOUS
    <3> QED
      BY <2>0, <2>1, <3>1
  <2>2. CASE m # 0
    <3>1. m - 1 \in Nat /\ m - 1 \notin Fails
      <4> HIDE DEF Fails
      <4> QED
        BY <2>0, <2>2
    <3>2. PICK g : g = [n \in 0 .. (m - 1) |-> Step(g, n)]
      BY <3>1
    <3> DEFINE f == [n \in 0 .. m |-> IF n = m THEN Step(g, m) ELSE g[n]]
    <3>3. f = [n \in 0 .. m |-> Step(f, n)]
      <4> SUFFICES ASSUME NEW n \in 0 .. m PROVE f[n] = Step(f, n)
        OBVIOUS
      <4>1. n = 0 \/ f[n - 1] = g[n - 1]
        BY <2>0
      <4>2. Step(f, n) = Step(g, n)
        BY <4>1
      <4>3. n # m => g[n] = Step(g, n)
        <5> HIDE DEF Step
        <5>1. n # m => n \in 0 .. (m - 1)
          BY <2>0
        <5> QED
          BY <3>2, <5>1
      <4> HIDE DEF Step
      <4> QED
        BY <4>2, <4>3
    <3> HIDE DEF f, Step
    <3> QED
      BY <2>0, <3>3
  <2> QED
    BY <2>1, <2>2
<1>2. \E f : f = [n \in 0 .. Len(list) |-> Step(f, n)]
  BY <1>1
<1>3. Pushed(effects, list) = CHOOSE f : f = [n \in 0 .. Len(list) |-> Step(f, n)]
  BY DEF Pushed
<1>4. Pushed(effects, list) = [n \in 0 .. Len(list) |-> Step(Pushed(effects, list), n)]
  <2> HIDE DEF Step
  <2> QED
    BY <1>2, <1>3
<1>5. ASSUME NEW n \in 0 .. Len(list)
      PROVE  Pushed(effects, list)[n] = Step(Pushed(effects, list), n)
  <2> HIDE DEF Step
  <2> QED
    BY <1>4
<1> QED
  BY <1>5

LEMMA PushEffectsTyped ==
  ASSUME NEW effects \in EffectLists, NEW list \in Seq(Updates)
  PROVE  PushEffects(effects, list) \in EffectLists
<1> DEFINE pushed == Pushed(effects, list)
           Fails == {n \in 0 .. Len(list) : pushed[n] \notin EffectLists}
<1>1. Len(list) \in Nat
  OBVIOUS
<1>2. /\ pushed[0] = effects
      /\ \A n \in 1 .. Len(list) : pushed[n] = LinkEffect(pushed[n - 1], list[n])
  BY <1>1, PushedIsDefined
<1> HIDE DEF pushed
<1>3. ASSUME NEW e \in EffectLists, NEW u \in Updates PROVE LinkEffect(e, u) \in EffectLists
  BY DEF LinkEffect, EffectLists, Names
<1>4. Fails = {}
  <2> SUFFICES ASSUME NEW n \in Fails, \A k \in Fails : n <= k PROVE FALSE
    <3>1. Fails \in SUBSET Nat
      BY <1>1
    <3> QED
      BY <3>1, NatMin
  <2>1. n \in 1 .. Len(list)
    BY <1>1, <1>2
  <2>2. n - 1 \in 0 .. Len(list) /\ ~(n <= n - 1)
    BY <1>1, <2>1
  <2>3. n - 1 \notin Fails
    <3> HIDE DEF Fails
    <3> QED
      BY <2>2
  <2>4. pushed[n - 1] \in EffectLists /\ list[n] \in Updates
    BY <2>1, <2>2, <2>3
  <2> QED
    BY <1>2, <1>3, <2>1, <2>4
<1>5. Len(list) \in 0 .. Len(list) /\ Len(list) \notin Fails
  BY <1>1, <1>4
<1> QED
  BY <1>5 DEF PushEffects, pushed

-----------------------------------------------------------------------------
LEMMA SortedConcat ==
  ASSUME NEW a, NEW b, NEW S, NEW T1, NEW T2, SortedIn(a, S, T1), SortedIn(b, S, T2),
         \A u \in T1, v \in T2 : u < v
  PROVE  SortedIn(a \o b, S, T1 \cup T2)
<1> DEFINE c == a \o b
<1>1. /\ a \in Seq(Nat) /\ b \in Seq(Nat) /\ c \in Seq(Nat)
      /\ Len(a) \in Nat /\ Len(b) \in Nat /\ Len(c) = Len(a) + Len(b)
      /\ \A i \in 1 .. Len(c) : c[i] = IF i <= Len(a) THEN a[i] ELSE b[i - Len(a)]
  BY ConcatProperties DEF SortedIn
<1> HIDE DEF c
<1>2. ASSUME NEW i \in 1 .. Len(c), NEW j \in 1 .. Len(c), i < j, c[i] \in S, c[j] \in S
      PROVE  c[i] < c[j]
  <2>1. CASE j <= Len(a)
    <3>1. i \in 1 .. Len(a) /\ j \in 1 .. Len(a) /\ c[i] = a[i] /\ c[j] = a[j]
      BY <1>1, <1>2, <2>1
    <3> QED
      BY <1>2, <3>1 DEF SortedIn, AscendsIn
  <2>2. CASE ~(i <= Len(a))
    <3>1. /\ i - Len(a) \in 1 .. Len(b) /\ j - Len(a) \in 1 .. Len(b) /\ i - Len(a) < j - Len(a)
          /\ c[i] = b[i - Len(a)] /\ c[j] = b[j - Len(a)]
      <4>1. i \in Nat /\ j \in Nat /\ ~(j <= Len(a))
        BY <1>1, <1>2, <2>2
      <4>2. c[i] = b[i - Len(a)] /\ c[j] = b[j - Len(a)]
        BY <1>1, <2>2, <4>1
      <4>3. i - Len(a) \in 1 .. Len(b) /\ j - Len(a) \in 1 .. Len(b) /\ i - Len(a) < j - Len(a)
        BY <1>1, <1>2, <2>2, <4>1
      <4> QED
        BY <4>2, <4>3
    <3> QED
      BY <1>2, <3>1 DEF SortedIn, AscendsIn
  <2>3. CASE i <= Len(a) /\ ~(j <= Len(a))
    <3>1. /\ i \in 1 .. Len(a) /\ j - Len(a) \in 1 .. Len(b)
          /\ c[i] = a[i] /\ c[j] = b[j - Len(a)]
      <4>1. c[i] = a[i] /\ c[j] = b[j - Len(a)]
        BY <1>1, <2>3
      <4>2. Len(a) \in Nat /\ Len(b) \in Nat /\ Len(c) = Len(a) + Len(b)
        BY <1>1
      <4>3. i \in 1 .. Len(c) /\ j \in 1 .. Len(c)
        OBVIOUS
      <4>4. i \in 1 .. Len(a) /\ j - Len(a) \in 1 .. Len(b)
        BY ONLY <2>3, <4>2, <4>3
      <4> QED
        BY <4>1, <4>4
    <3>2. c[i] \in T1
      BY <1>2, <3>1 DEF SortedIn
    <3>3. c[j] \in T2
      BY <1>2, <3>1 DEF SortedIn
    <3> QED
      BY <3>2, <3>3
  <2> QED
    BY <1>1, <2>1, <2>2, <2>3
<1>3. ASSUME NEW i \in 1 .. Len(c), c[i] \in S PROVE c[i] \in T1 \cup T2
  <2>1. CASE i <= Len(a)
    <3>1. i \in 1 .. Len(a) /\ c[i] = a[i]
      BY <1>1, <2>1
    <3> QED
      BY <1>3, <3>1 DEF SortedIn
  <2>2. CASE ~(i <= Len(a))
    <3>1. i - Len(a) \in 1 .. Len(b) /\ c[i] = b[i - Len(a)]
      BY <1>1, <2>2
    <3> QED
      BY <1>3, <3>1 DEF SortedIn
  <2> QED
    BY <2>1, <2>2
<1>4. ASSUME NEW v \in T1 PROVE v \in S /\ \E i \in 1 .. Len(c) : c[i] = v
  <2>1. v \in S /\ \E i \in 1 .. Len(a) : a[i] = v
    BY DEF SortedIn
  <2>2. PICK i \in 1 .. Len(a) : a[i] = v
    BY <2>1
  <2>3. i \in 1 .. Len(c) /\ c[i] = v
    BY <1>1, <2>2
  <2> QED
    BY <2>1, <2>3
<1>5. ASSUME NEW v \in T2 PROVE v \in S /\ \E i \in 1 .. Len(c) : c[i] = v
  <2>1. v \in S /\ \E i \in 1 .. Len(b) : b[i] = v
    BY DEF SortedIn
  <2>2. PICK i \in 1 .. Len(b) : b[i] = v
    BY <2>1
  <2>3. i + Len(a) \in 1 .. Len(c) /\ ~(i + Len(a) <= Len(a)) /\ (i + Len(a)) - Len(a) = i
    BY <1>1
  <2>4. c[i + Len(a)] = v
    BY <1>1, <2>2, <2>3
  <2> QED
    BY <2>1, <2>3, <2>4
<1>6. \A v : v \in T1 \cup T2 <=> v \in S /\ \E i \in 1 .. Len(c) : c[i] = v
  BY <1>3, <1>4, <1>5
<1>7. AscendsIn(c, S)
  BY <1>2 DEF AscendsIn
<1> QED
  BY <1>1, <1>6, <1>7 DEF SortedIn, c

LEMMA NoneIsSorted ==
  ASSUME NEW s \in Seq(Nat), NEW S, \A i \in 1 .. Len(s) : s[i] \notin S
  PROVE  SortedIn(s, S, {})
  BY DEF SortedIn, AscendsIn

LEMMA SortedIsSortedIn ==
  ASSUME NEW s, NEW S, NEW T \in SUBSET S, Sorted(s, T)
  PROVE  SortedIn(s, S, T)
  BY DEF Sorted, SortedIn, Ascends, AscendsIn

LEMMA SortedPrefix ==
  ASSUME NEW s, NEW S, NEW T \in SUBSET S, Sorted(s, T), NEW m \in 1 .. Len(s)
  PROVE  SortedIn(SubSeq(s, 1, m - 1), S, {u \in T : u < s[m]})
<1> DEFINE p == SubSeq(s, 1, m - 1)
<1>1. s \in Seq(Nat) /\ Len(s) \in Nat /\ Ascends(s) /\ m \in Nat
  BY DEF Sorted
<1>2. p \in Seq(Nat) /\ Len(p) = m - 1 /\ \A i \in 1 .. (m - 1) : p[i] = s[i]
  <2>1. \A i \in 1 .. (m - 1) : s[i] \in Nat
    BY <1>1
  <2>2. /\ SubSeq(s, 1, m - 1) \in Seq(Nat)
        /\ Len(SubSeq(s, 1, m - 1)) = IF 1 <= m - 1 THEN (m - 1) - 1 + 1 ELSE 0
        /\ \A i \in 1 .. (m - 1) - 1 + 1 : SubSeq(s, 1, m - 1)[i] = s[1 + i - 1]
    BY <1>1, <2>1, SubSeqProperties
  <2> QED
    BY <1>1, <2>2
<1> HIDE DEF p
<1>3. \A i \in 1 .. (m - 1) : i \in 1 .. Len(s) /\ i < m
  BY <1>1
<1>4. AscendsIn(p, S)
  BY <1>1, <1>2, <1>3 DEF AscendsIn, Ascends
<1>5. ASSUME NEW i \in 1 .. Len(p) PROVE p[i] \in T /\ p[i] < s[m]
  <2>1. i \in 1 .. Len(s) /\ i < m /\ p[i] = s[i]
    BY <1>2, <1>3
  <2> QED
    BY <1>1, <2>1 DEF Ascends, Sorted
<1>6. ASSUME NEW v \in T, v < s[m] PROVE \E i \in 1 .. Len(p) : p[i] = v
  <2>1. PICK i \in 1 .. Len(s) : s[i] = v
    BY DEF Sorted
  <2>2. ~(m <= i)
    <3> SUFFICES ASSUME m <= i PROVE FALSE
      OBVIOUS
    <3>1. m = i \/ s[m] < s[i]
      BY <1>1 DEF Ascends
    <3>2. s[m] \in Nat /\ s[i] \in Nat
      BY <1>1
    <3> QED
      BY <1>6, <2>1, <3>1, <3>2
  <2>3. i \in 1 .. (m - 1)
    BY <1>1, <2>2
  <2> QED
    BY <1>2, <2>1, <2>3
<1>7. \A v : v \in {u \in T : u < s[m]} <=> v \in S /\ \E i \in 1 .. Len(p) : p[i] = v
  BY <1>5, <1>6
<1> QED
  BY <1>2, <1>4, <1>7 DEF SortedIn, p

-----------------------------------------------------------------------------
(* The inductive invariant.  A queue fits the first n updates of the heap: *)
(* its list is all that are not captured from its first on, linked in this *)
(* order, and its base state has the others.                               *)
UpdateRecords == [level : QueueTimes, captured : BOOLEAN, callback : {"none", "set", "called"},
                  next : Names, nextEffect : Names]

QueueRecords == [baseState : States, firstUpdate : Names, lastUpdate : Names,
                 firstCapturedUpdate : Names, lastCapturedUpdate : Names,
                 firstEffect : Names, lastEffect : Names,
                 firstCapturedEffect : Names, lastCapturedEffect : Names]

NormalsOf(upd, n) == {u \in 1 .. n : ~upd[u].captured}
TailOf(upd, n, first) == {u \in NormalsOf(upd, n) : first # NULL /\ first <= u}
CaughtAt(upd, n, level) == {u \in 1 .. n : upd[u].captured /\ upd[u].level = level}

ListFits(q, upd, n) ==
  LET normals == NormalsOf(upd, n)
      tail == TailOf(upd, n, q.firstUpdate)
  IN  /\ q.firstUpdate \in normals \cup {NULL}
      /\ q.firstUpdate = NULL => q.lastUpdate = NULL
      /\ q.firstUpdate # NULL => q.lastUpdate \in normals /\ \A u \in normals : u <= q.lastUpdate
      /\ LinksAscend([u \in Updates |-> upd[u].next], tail)
      /\ q.baseState \in Seq(1 .. n)
      /\ SortedIn(q.baseState, normals, normals \ tail)

CaughtFits(q, upd, n, level) ==
  /\ q.firstCapturedUpdate = NULL <=> q.lastCapturedUpdate = NULL
  /\ q.firstCapturedUpdate # NULL => /\ q.firstCapturedUpdate \in CaughtAt(upd, n, level)
                                     /\ q.lastCapturedUpdate \in CaughtAt(upd, n, level)

(* What is pending on a fiber and not in its state is scheduled on it.     *)
FiberFits(f, q, upd, n) ==
  \A u \in TailOf(upd, n, q.firstUpdate) :
    (\E i \in 1 .. Len(f.memoizedState) : f.memoizedState[i] = u) \/ f.expirationTime \in 1 .. upd[u].level

UpdatesFit ==
  \A u \in 1 .. created :
    /\ update[u].level \in UpdateLevels
    /\ update[u].captured =>
         update[u].next = NULL \/ update[u].next \in CaughtAt(update, created, update[u].level)

Rendering == phase \in {"created", "begun", "thrown", "begunAgain"}
QueueNamed(f) == queue[fiber[f].updateQueue]

QueuesFit ==
  \A f \in Fibers :
    /\ HasQueue(f) => /\ Exists(f)
                      /\ ListFits(QueueNamed(f), update, created)
                      /\ CaughtFits(QueueNamed(f), update, created, renderLevel)
                      /\ (phase = "thrown" /\ f = WorkInProgress) \/ QueueNamed(f).firstCapturedUpdate = NULL
    /\ Exists(f) /\ ~HasQueue(f) => NormalsOf(update, created) = {}

FibersFit ==
  \A f \in Fibers :
    /\ fiber[f].memoizedState \in Seq(1 .. created)
    /\ HasQueue(f) /\ (f = current \/ phase \in {"created", "begun", "begunAgain"}) =>
         FiberFits(fiber[f], QueueNamed(f), update, created)

RenderFits ==
  Rendering =>
    /\ paired /\ renderLevel \in UpdateLevels
    /\ phase = "thrown" => HasQueue(WorkInProgress)
    /\ HasQueue(current) =>
         /\ HasQueue(WorkInProgress)
         /\ TailOf(update, created, QueueNamed(WorkInProgress).firstUpdate)
              \subseteq TailOf(update, created, QueueNamed(current).firstUpdate)

IInv == QueueTypeOK /\ UpdatesFit /\ QueuesFit /\ FibersFit /\ RenderFits

LEMMA TypesAre ==
  QueueTypeOK <=> /\ update \in [Updates -> UpdateRecords]
                  /\ created \in 0 .. MaxUpdates
                  /\ queue \in [Queues -> QueueRecords]
                  /\ fiber \in [Fibers -> [updateQueue : Queues \cup {NULL}, expirationTime : QueueTimes,
                                           memoizedState : States, callbackTag : BOOLEAN]]
                  /\ current \in Fibers
                  /\ paired \in BOOLEAN
                  /\ phase \in {"idle", "created", "begun", "thrown", "begunAgain", "hung"}
                  /\ renderLevel \in QueueTimes
                  /\ leftBehind \subseteq Updates
  BY DEF QueueTypeOK, UpdateRecords, QueueRecords

(* Neither depends on the callbacks and the links of effects.              *)
LEMMA SameLinksFit ==
  ASSUME NEW upd, NEW upd2, NEW n \in 0 .. MaxUpdates,
         \A u \in 1 .. n : /\ upd2[u].captured = upd[u].captured
                           /\ upd2[u].next = upd[u].next
                           /\ upd2[u].level = upd[u].level
  PROVE  /\ NormalsOf(upd2, n) = NormalsOf(upd, n)
         /\ \A first : TailOf(upd2, n, first) = TailOf(upd, n, first)
         /\ \A level : CaughtAt(upd2, n, level) = CaughtAt(upd, n, level)
         /\ \A q : ListFits(q, upd, n) => ListFits(q, upd2, n)
         /\ \A q, level : CaughtFits(q, upd, n, level) => CaughtFits(q, upd2, n, level)
         /\ \A f, q : FiberFits(f, q, upd, n) => FiberFits(f, q, upd2, n)
<1>1. NormalsOf(upd2, n) = NormalsOf(upd, n)
  BY DEF NormalsOf
<1>2. \A first : TailOf(upd2, n, first) = TailOf(upd, n, first)
  BY <1>1 DEF TailOf
<1>3. \A level : CaughtAt(upd2, n, level) = CaughtAt(upd, n, level)
  BY DEF CaughtAt
<1>4. ASSUME NEW q, ListFits(q, upd, n) PROVE ListFits(q, upd2, n)
  <2> DEFINE T == TailOf(upd, n, q.firstUpdate)
  <2>1. \A u \in T : u \in 1 .. n /\ u \in Updates
    BY BoundsAssumption DEF TailOf, NormalsOf, Updates
  <2>2. LinksAscend([u \in Updates |-> upd[u].next], T)
    BY <1>4 DEF ListFits
  <2>3. \A u \in T : [v \in Updates |-> upd2[v].next][u] = [v \in Updates |-> upd[v].next][u]
    BY <2>1
  <2> HIDE DEF T
  <2>4. LinksAscend([u \in Updates |-> upd2[u].next], T)
    BY <2>2, <2>3 DEF LinksAscend
  <2> QED
    BY <1>1, <1>2, <1>4, <2>4 DEF ListFits, T
<1>5. ASSUME NEW q, NEW level, CaughtFits(q, upd, n, level) PROVE CaughtFits(q, upd2, n, level)
  BY <1>3, <1>5 DEF CaughtFits
<1>6. ASSUME NEW f, NEW q, FiberFits(f, q, upd, n) PROVE FiberFits(f, q, upd2, n)
  <2>1. \A u \in TailOf(upd, n, q.firstUpdate) : u \in 1 .. n
    BY DEF TailOf, NormalsOf
  <2> QED
    BY <1>2, <1>6, <2>1 DEF FiberFits
<1> QED
  BY <1>1, <1>2, <1>3, <1>4, <1>5, <1>6

-----------------------------------------------------------------------------
(* Appending the next update to the end of the list.                       *)
LEMMA AppendFits ==
  ASSUME NEW q \in QueueRecords, NEW n \in 0 .. MaxUpdates, n < MaxUpdates,
         NEW upd, NEW upd2, ListFits(q, upd, n),
         \A u \in 1 .. n : upd2[u].captured = upd[u].captured,
         ~upd2[n + 1].captured, upd2[n + 1].next = NULL,
         q.lastUpdate # NULL => upd2[q.lastUpdate].next = n + 1,
         \A u \in NormalsOf(upd, n) :
           u # q.lastUpdate /\ q.lastUpdate # NULL => upd2[u].next = upd[u].next
  PROVE  /\ ListFits(AppendUpdateToQueue(q, n + 1), upd2, n + 1)
         /\ NormalsOf(upd2, n + 1) = NormalsOf(upd, n) \cup {n + 1}
         /\ AppendUpdateToQueue(q, n + 1).firstUpdate # NULL
         /\ TailOf(upd2, n + 1, AppendUpdateToQueue(q, n + 1).firstUpdate) =
              TailOf(upd, n, q.firstUpdate) \cup {n + 1}
<1> DEFINE p == AppendUpdateToQueue(q, n + 1)
           N == NormalsOf(upd, n)
           T == TailOf(upd, n, q.firstUpdate)
           M == NormalsOf(upd2, n + 1)
           S == TailOf(upd2, n + 1, p.firstUpdate)
           link == [u \in Updates |-> upd[u].next]
           link2 == [u \in Updates |-> upd2[u].next]
<1>1. /\ n \in Nat /\ MaxUpdates \in Nat /\ n + 1 \in Updates /\ n + 1 \in 1 .. (n + 1) /\ NULL = 0
      /\ \A u \in 1 .. n : u \in 1 .. (n + 1) /\ u \in Updates /\ u < n + 1 /\ u # n + 1
      /\ \A u \in 1 .. (n + 1) : u = n + 1 \/ u \in 1 .. n
  BY BoundsAssumption DEF Updates, NULL
<1>2. M = N \cup {n + 1}
  BY <1>1 DEF NormalsOf
<1>3. /\ N \subseteq 1 .. n /\ T = {u \in N : q.firstUpdate # NULL /\ q.firstUpdate <= u}
      /\ S = {u \in M : p.firstUpdate # NULL /\ p.firstUpdate <= u}
  BY DEF NormalsOf, TailOf
<1>4. /\ q.firstUpdate \in N \cup {NULL}
      /\ q.firstUpdate = NULL => q.lastUpdate = NULL
      /\ q.firstUpdate # NULL => q.lastUpdate \in N /\ \A u \in N : u <= q.lastUpdate
      /\ LinksAscend(link, T)
      /\ q.baseState \in Seq(1 .. n)
      /\ SortedIn(q.baseState, N, N \ T)
  BY DEF ListFits
<1>5. /\ p.lastUpdate = n + 1 /\ p.baseState = q.baseState
      /\ p.firstUpdate = IF q.lastUpdate = NULL THEN n + 1 ELSE q.firstUpdate
  BY DEF AppendUpdateToQueue, QueueRecords
<1>6. q.lastUpdate = NULL <=> q.firstUpdate = NULL
  BY <1>1, <1>3, <1>4
<1> HIDE DEF p, N, T, M, S, link, link2
<1>7. S = T \cup {n + 1} /\ n + 1 \notin T /\ p.firstUpdate \in M /\ p.firstUpdate # NULL
  <2>1. n + 1 \notin T
    BY <1>1, <1>3
  <2>2. CASE q.firstUpdate = NULL
    <3>1. p.firstUpdate = n + 1 /\ T = {}
      BY <1>3, <1>5, <1>6, <2>2
    <3>2. S = {n + 1}
      <4>1. \A u \in N : ~(n + 1 <= u)
        BY <1>1, <1>3
      <4>2. n + 1 \in M /\ n + 1 # NULL /\ n + 1 <= n + 1
        BY <1>1, <1>2
      <4> QED
        BY <1>2, <1>3, <3>1, <4>1, <4>2
    <3> QED
      BY <1>1, <1>2, <2>1, <3>1, <3>2
  <2>3. CASE q.firstUpdate # NULL
    <3>1. p.firstUpdate = q.firstUpdate /\ q.firstUpdate \in N /\ q.firstUpdate \in 1 .. n
      BY <1>3, <1>4, <1>5, <1>6, <2>3
    <3>2. S = T \cup {n + 1}
      BY <1>1, <1>2, <1>3, <2>3, <3>1
    <3> QED
      BY <1>1, <1>2, <2>1, <2>3, <3>1, <3>2
  <2> QED
    BY <2>2, <2>3
<1>8. \A u \in Updates : link[u] = upd[u].next /\ link2[u] = upd2[u].next
  BY DEF link, link2
<1>9. LinksAscend(link2, S)
  <2> SUFFICES ASSUME NEW u \in S
               PROVE  \/ link2[u] = NULL /\ \A v \in S : v <= u
                      \/ link2[u] \in S /\ u < link2[u] /\ \A v \in S : v <= u \/ link2[u] <= v
    BY DEF LinksAscend
  <2>0. \A v \in T : v \in 1 .. n
    BY <1>3
  <2>1. CASE u = n + 1
    BY <1>1, <1>7, <1>8, <2>0, <2>1
  <2>2. CASE u \in T
    <3>1. q.lastUpdate \in N /\ q.lastUpdate # NULL /\ (\A v \in N : v <= q.lastUpdate) /\ u \in N
      BY <1>1, <1>3, <1>4, <1>6, <2>2
    <3>2. \A v \in T : v <= q.lastUpdate
      BY <1>3, <3>1
    <3>3. q.lastUpdate \in T
      <4>1. q.firstUpdate # NULL /\ q.firstUpdate \in N
        BY <1>3, <1>4, <2>2
      <4>2. q.firstUpdate <= q.lastUpdate
        BY <3>1, <4>1
      <4> QED
        BY <1>3, <3>1, <4>1, <4>2
    <3>4. CASE u = q.lastUpdate
      <4>1. link2[u] = n + 1
        BY <1>1, <1>8, <2>0, <2>2, <3>1, <3>4
      <4> QED
        BY <1>1, <1>7, <2>0, <2>2, <3>2, <3>4, <4>1
    <3>5. CASE u # q.lastUpdate
      <4>1. upd2[u].next = upd[u].next
        BY <3>1, <3>5 DEF N
      <4>2. link2[u] = link[u]
        BY <1>1, <1>8, <2>0, <2>2, <4>1
      <4>3. ~(q.lastUpdate <= u)
        BY <2>0, <2>2, <3>2, <3>3, <3>5
      <4>4. link[u] \in T /\ u < link[u] /\ \A v \in T : v <= u \/ link[u] <= v
        BY <1>4, <2>2, <3>3, <4>3 DEF LinksAscend
      <4>5. link[u] <= n + 1
        BY <1>1, <2>0, <4>4
      <4> QED
        BY <1>7, <4>2, <4>4, <4>5
    <3> QED
      BY <3>4, <3>5
  <2> QED
    BY <1>7, <2>1, <2>2
<1>10. q.baseState \in Seq(1 .. (n + 1))
  <2>1. 1 .. n \subseteq 1 .. (n + 1)
    BY <1>1
  <2> QED
    BY <1>4, <2>1, SeqMonotonic
<1>11. SortedIn(q.baseState, M, M \ S)
  <2>1. \A i \in 1 .. Len(q.baseState) : q.baseState[i] \in 1 .. n
    BY <1>4
  <2>2. \A i \in 1 .. Len(q.baseState) : q.baseState[i] \in M <=> q.baseState[i] \in N
    BY <1>1, <1>2, <2>1
  <2>3. M \ S = N \ T /\ n + 1 \notin N
    BY <1>1, <1>2, <1>3, <1>7
  <2>4. \A v : v \in N \ T <=> v \in M /\ \E i \in 1 .. Len(q.baseState) : q.baseState[i] = v
    BY <1>2, <1>4, <2>2, <2>3 DEF SortedIn
  <2>5. AscendsIn(q.baseState, M)
    BY <1>4, <2>2 DEF SortedIn, AscendsIn
  <2>6. q.baseState \in Seq(Nat)
    BY <1>4 DEF SortedIn
  <2> QED
    BY <2>3, <2>4, <2>5, <2>6 DEF SortedIn
<1>12. p.lastUpdate \in M /\ \A u \in M : u <= p.lastUpdate
  BY <1>1, <1>2, <1>3, <1>5
<1>13. ListFits(p, upd2, n + 1)
  BY <1>5, <1>7, <1>9, <1>10, <1>11, <1>12 DEF ListFits, M, S, link2
<1> QED
  BY <1>2, <1>7, <1>13 DEF p, N, M, S, T

-----------------------------------------------------------------------------
(* What processUpdateQueue reads from a queue that fits.                   *)
ListOf(q) == Chain(NextOf, q.firstUpdate)
CaughtOf(q) == Chain(NextOf, q.firstCapturedUpdate)

LEMMA ListsAreRead ==
  ASSUME QueueTypeOK, UpdatesFit, NEW q \in QueueRecords,
         ListFits(q, update, created), CaughtFits(q, update, created, renderLevel)
  PROVE  /\ Sorted(ListOf(q), TailOf(update, created, q.firstUpdate))
         /\ ListOf(q) \in Seq(TailOf(update, created, q.firstUpdate))
         /\ CaughtOf(q) \in Seq(CaughtAt(update, created, renderLevel))
         /\ q.firstCapturedUpdate = NULL => CaughtOf(q) = <<>>
<1> DEFINE T == TailOf(update, created, q.firstUpdate)
           C == CaughtAt(update, created, renderLevel)
<1>0. /\ created \in Nat /\ created <= MaxUpdates /\ MaxUpdates \in Nat /\ NULL = 0
      /\ 1 .. created \subseteq Updates
  BY BoundsAssumption DEF QueueTypeOK, Updates, NULL
<1>1. T \subseteq 1 .. created /\ C \subseteq 1 .. created
  BY DEF TailOf, NormalsOf, CaughtAt
<1>2. LinksAscend(NextOf, T)
  BY DEF ListFits, NextOf
<1>3. \A u \in Updates : NextOf[u] = update[u].next
  BY DEF NextOf
<1>4. (q.firstUpdate \in T /\ \A v \in T : q.firstUpdate <= v) \/ (q.firstUpdate = NULL /\ T = {})
  <2>1. q.firstUpdate \in NormalsOf(update, created) \cup {NULL}
    BY DEF ListFits
  <2>2. NormalsOf(update, created) \subseteq 1 .. created
    BY DEF NormalsOf
  <2>3. q.firstUpdate = NULL => T = {}
    BY DEF TailOf
  <2>4. q.firstUpdate # NULL => q.firstUpdate \in T /\ \A v \in T : q.firstUpdate <= v
    BY <1>0, <2>1, <2>2 DEF TailOf
  <2> QED
    BY <2>3, <2>4
<1>5. \A u \in C : NextOf[u] \in C \cup {NULL}
  <2> SUFFICES ASSUME NEW u \in C PROVE NextOf[u] \in C \cup {NULL}
    OBVIOUS
  <2>1. u \in 1 .. created /\ update[u].captured /\ update[u].level = renderLevel
    BY DEF CaughtAt
  <2>2. update[u].next = NULL \/ update[u].next \in C
    BY <2>1 DEF UpdatesFit
  <2> QED
    BY <1>0, <1>3, <2>1, <2>2
<1>6. q.firstCapturedUpdate \in C \cup {NULL}
  BY DEF CaughtFits
<1>7. NULL \notin C /\ NULL \notin T /\ T \subseteq Updates
  BY <1>0, <1>1
<1> HIDE DEF T, C
<1>8. Sorted(ListOf(q), T)
  BY <1>2, <1>4, <1>7, ChainIsSorted DEF ListOf
<1>9. CaughtOf(q) \in Seq(C)
  BY <1>5, <1>6, <1>7, ChainStaysIn DEF CaughtOf
<1>10. ListOf(q) \in Seq(T)
  <2>1. \A u \in T : NextOf[u] \in T \cup {NULL}
    BY <1>2 DEF LinksAscend
  <2> QED
    BY <1>4, <1>7, <2>1, ChainStaysIn DEF ListOf
<1>11. q.firstCapturedUpdate = NULL => CaughtOf(q) = <<>>
  <2> SUFFICES ASSUME q.firstCapturedUpdate = NULL PROVE CaughtOf(q) = <<>>
    OBVIOUS
  <2>1. /\ CaughtOf(q) \in Seq({}) /\ Len(CaughtOf(q)) \in Nat
    <3>1. q.firstCapturedUpdate \in {} \cup {NULL} /\ NULL \notin {} /\ \A u \in {} : NextOf[u] \in {} \cup {NULL}
      OBVIOUS
    <3>2. Chain(NextOf, q.firstCapturedUpdate) \in Seq({})
      BY ONLY <3>1, ChainStaysIn
    <3> QED
      BY <3>2 DEF CaughtOf
  <2>2. Len(CaughtOf(q)) = 0
    <3> SUFFICES ASSUME Len(CaughtOf(q)) # 0 PROVE FALSE
      OBVIOUS
    <3>1. 1 \in 1 .. Len(CaughtOf(q))
      BY <2>1
    <3> QED
      BY <2>1, <3>1
  <2> QED
    BY <2>1, <2>2
<1> QED
  BY <1>8, <1>9, <1>10, <1>11 DEF T, C

(* All captured updates are due: they have the level of the render.        *)
LEMMA CaughtAreDue ==
  ASSUME NEW s \in Seq(CaughtAt(update, created, renderLevel)), renderLevel \in Nat
  PROVE  Skipped(s) = {} /\ FirstSkipped(s) = NULL /\ BeforeSkipped(s) = s /\ SkippedLevels(s) = {}
<1>1. \A i \in DOMAIN s : update[s[i]].level = renderLevel
  <2>1. \A i \in DOMAIN s : s[i] \in CaughtAt(update, created, renderLevel)
    BY LenProperties
  <2> QED
    BY <2>1 DEF CaughtAt
<1>2. Skipped(s) = {}
  BY <1>1 DEF Skipped
<1> QED
  BY <1>2 DEF FirstSkipped, BeforeSkipped, SkippedLevels

-----------------------------------------------------------------------------
(* The base state after the updates before the first skipped one.          *)
LEMMA BaseFits ==
  ASSUME QueueTypeOK, UpdatesFit, NEW q \in QueueRecords, renderLevel \in UpdateLevels,
         ListFits(q, update, created), CaughtFits(q, update, created, renderLevel)
  PROVE  LET N == NormalsOf(update, created)
             T == TailOf(update, created, q.firstUpdate)
             list == ListOf(q)
             first == FirstSkipped(list)
             R == TailOf(update, created, first)
             base == q.baseState \o BeforeSkipped(list)
         IN  /\ first \in T \cup {NULL}
             /\ R \subseteq T
             /\ base \in Seq(1 .. created)
             /\ SortedIn(base, N, N \ R)
             /\ base \o CaughtOf(q) \in Seq(1 .. created)
             /\ SortedIn(base \o CaughtOf(q), N, N \ R)
<1> DEFINE N == NormalsOf(update, created)
           T == TailOf(update, created, q.firstUpdate)
           C == CaughtAt(update, created, renderLevel)
           list == ListOf(q)
           caught == CaughtOf(q)
           first == FirstSkipped(list)
           R == TailOf(update, created, first)
           before == BeforeSkipped(list)
           base == q.baseState \o before
           skipped == Skipped(list)
<1>1. /\ Sorted(list, T) /\ list \in Seq(T) /\ caught \in Seq(C)
  BY ListsAreRead
<1>2. /\ created \in Nat /\ NULL = 0
      /\ N \subseteq 1 .. created /\ T \subseteq N /\ C \subseteq 1 .. created
      /\ \A u \in N : u \notin C
      /\ R = {u \in N : first # NULL /\ first <= u}
      /\ T = {u \in N : q.firstUpdate # NULL /\ q.firstUpdate <= u}
  BY BoundsAssumption DEF QueueTypeOK, NULL, NormalsOf, TailOf, CaughtAt
<1>3. /\ q.baseState \in Seq(1 .. created) /\ SortedIn(q.baseState, N, N \ T)
      /\ q.firstUpdate \in Nat
  <2>1. q.firstUpdate \in N \cup {NULL} /\ q.baseState \in Seq(1 .. created) /\ SortedIn(q.baseState, N, N \ T)
    BY DEF ListFits
  <2>2. \A u \in N \cup {NULL} : u \in Nat
    BY <1>2
  <2> QED
    BY <2>1, <2>2
<1>4. skipped \subseteq 1 .. Len(list) /\ Len(list) \in Nat
  BY <1>1, LenProperties DEF Skipped
<1>5. /\ first = IF skipped = {} THEN NULL ELSE list[Min(skipped)]
      /\ before = IF skipped = {} THEN list ELSE SubSeq(list, 1, Min(skipped) - 1)
  BY DEF FirstSkipped, BeforeSkipped
<1> HIDE DEF N, T, C, R, list, caught, first, before, skipped
<1>6. /\ first \in T \cup {NULL} /\ R \subseteq T
      /\ before \in Seq(T) /\ SortedIn(before, N, T \ R)
  <2>1. CASE skipped = {}
    <3>1. first = NULL /\ before = list /\ R = {}
      BY <1>2, <1>5, <2>1
    <3>2. SortedIn(list, N, T)
      BY <1>1, <1>2, SortedIsSortedIn
    <3> QED
      BY <1>1, <3>1, <3>2
  <2>2. CASE skipped # {}
    <3> DEFINE m == Min(skipped)
    <3>1. m \in skipped /\ m \in 1 .. Len(list)
      <4>1. skipped \in SUBSET Nat
        BY <1>4
      <4> QED
        BY <1>4, <2>2, <4>1, MinIsLeast
    <3> HIDE DEF m
    <3>2. first = list[m] /\ before = SubSeq(list, 1, m - 1)
      BY <1>5, <2>2 DEF m
    <3>3. first \in T /\ first \in N /\ first # NULL /\ first \in Nat
      <4>1. first \in T
        BY <1>1, <3>1, <3>2
      <4>2. first \in 1 .. created
        BY <1>2, <4>1
      <4> QED
        BY <1>2, <4>1, <4>2
    <3>4. R = {u \in T : ~(u < first)}
      <4>1. \A u \in N : u \in Nat
        BY <1>2
      <4>2. \A u \in R : u \in T
        <5>1. q.firstUpdate # NULL /\ q.firstUpdate <= first
          BY <1>2, <3>3
        <5> QED
          BY <1>2, <1>3, <3>3, <4>1, <5>1
      <4>3. \A u \in T : u \in R <=> ~(u < first)
        BY <1>2, <3>3, <4>1
      <4> QED
        BY <4>2, <4>3
    <3>5. SortedIn(before, N, {u \in T : u < first})
      BY <1>1, <1>2, <3>1, <3>2, SortedPrefix
    <3>6. {u \in T : u < first} = T \ R
      BY <3>4
    <3>7. before \in Seq(T)
      <4>1. \A i \in 1 .. (m - 1) : list[i] \in T
        BY <1>1, <1>4, <3>1
      <4> QED
        BY <1>1, <1>4, <3>1, <3>2, <4>1, SubSeqProperties
    <3> QED
      BY <3>3, <3>4, <3>5, <3>6, <3>7
  <2> QED
    BY <2>1, <2>2
<1>7. /\ base \in Seq(1 .. created) /\ SortedIn(base, N, N \ R)
  <2>1. before \in Seq(1 .. created)
    <3>1. T \subseteq 1 .. created
      BY <1>2
    <3> QED
      BY <1>6, <3>1, SeqMonotonic
  <2>2. \A u \in N \ T, v \in T \ R : u < v
    <3> SUFFICES ASSUME NEW u \in N \ T, NEW v \in T \ R PROVE u < v
      OBVIOUS
    <3>1. u \in Nat /\ v \in Nat /\ q.firstUpdate # NULL /\ q.firstUpdate <= v /\ ~(q.firstUpdate <= u)
      BY <1>2
    <3> QED
      BY <1>3, <3>1
  <2>3. (N \ T) \cup (T \ R) = N \ R
    BY <1>2, <1>6
  <2>4. SortedIn(base, N, (N \ T) \cup (T \ R))
    BY <1>3, <1>6, <2>2, SortedConcat
  <2> QED
    BY <1>3, <2>1, <2>3, <2>4, ConcatProperties
<1> HIDE DEF base
<1>8. base \o caught \in Seq(1 .. created) /\ SortedIn(base \o caught, N, N \ R)
  <2>1. caught \in Seq(1 .. created)
    BY <1>1, <1>2, SeqMonotonic
  <2>2. SortedIn(caught, N, {})
    <3>1. caught \in Seq(Nat)
      <4>1. 1 .. created \subseteq Nat
        BY <1>2
      <4> QED
        BY <2>1, <4>1, SeqMonotonic
    <3>2. \A i \in 1 .. Len(caught) : caught[i] \notin N
      <4>1. \A i \in 1 .. Len(caught) : caught[i] \in C
        BY <1>1
      <4> QED
        BY <1>2, <4>1
    <3> QED
      BY <3>1, <3>2, NoneIsSorted
  <2>3. SortedIn(base \o caught, N, (N \ R) \cup {})
    <3>1. \A u \in N \ R, v \in {} : u < v
      OBVIOUS
    <3> QED
      BY <1>7, <2>2, <3>1, SortedConcat
  <2> QED
    BY <1>7, <2>1, <2>3, ConcatProperties
<1> QED
  BY <1>6, <1>7, <1>8 DEF N, T, R, list, caught, first, before, base

(* The state: what it lacks has been skipped, and is scheduled.            *)
LEMMA StateFits ==
  ASSUME QueueTypeOK, UpdatesFit, NEW q \in QueueRecords, renderLevel \in UpdateLevels,
         ListFits(q, update, created), CaughtFits(q, update, created, renderLevel)
  PROVE  LET list == ListOf(q)
             state == q.baseState \o Due(list) \o Due(CaughtOf(q))
             soonest == Soonest(SkippedLevels(list))
         IN  /\ state \in Seq(1 .. created)
             /\ soonest \in QueueTimes
             /\ Due(list) \in Seq(1 .. created) /\ Due(CaughtOf(q)) \in Seq(1 .. created)
             /\ \A u \in TailOf(update, created, q.firstUpdate) :
                  (\E i \in 1 .. Len(state) : state[i] = u) \/ soonest \in 1 .. update[u].level
<1> DEFINE N == NormalsOf(update, created)
           T == TailOf(update, created, q.firstUpdate)
           C == CaughtAt(update, created, renderLevel)
           list == ListOf(q)
           caught == CaughtOf(q)
           due == Due(list)
           dueCaught == Due(caught)
           state == q.baseState \o due \o dueCaught
           levels == SkippedLevels(list)
           soonest == Soonest(levels)
<1>1. /\ Sorted(list, T) /\ list \in Seq(T) /\ caught \in Seq(C)
  BY ListsAreRead
<1>2. /\ created \in Nat /\ T \subseteq 1 .. created /\ C \subseteq 1 .. created /\ 1 .. created \subseteq Updates
      /\ renderLevel \in Nat
  BY BoundsAssumption, LevelsAssumption DEF QueueTypeOK, NormalsOf, TailOf, CaughtAt, Updates
<1>3. q.baseState \in Seq(1 .. created)
  BY DEF ListFits
<1> HIDE DEF T, C, list, caught
<1>4. /\ due \in Seq(1 .. created) /\ dueCaught \in Seq(1 .. created)
      /\ \A i \in 1 .. Len(list) : update[list[i]].level <= renderLevel =>
           \E j \in 1 .. Len(due) : due[j] = list[i]
  <2>0. list \in Seq(1 .. created) /\ caught \in Seq(1 .. created)
    BY <1>1, <1>2, SeqMonotonic
  <2> DEFINE S == {u \in Updates : update[u].level <= renderLevel}
  <2>1. /\ due \in Seq(1 .. created) /\ dueCaught \in Seq(1 .. created)
        /\ \A i \in 1 .. Len(list) : list[i] \in S => \E j \in 1 .. Len(due) : due[j] = list[i]
    <3>1. due = Only(list, S) /\ dueCaught = Only(caught, S)
      BY DEF Due
    <3> HIDE DEF S, due, dueCaught
    <3>2. due \in Seq(1 .. created) /\ dueCaught \in Seq(1 .. created)
      BY <2>0, <3>1, OnlyHas
    <3>3. \A i \in 1 .. Len(list) : list[i] \in S => \E j \in 1 .. Len(due) : due[j] = list[i]
      <4>1. list \in Seq(1 .. created) /\ due = Only(list, S)
        BY <2>0, <3>1
      <4>2. \A i \in 1 .. Len(list) : list[i] \in S =>
              \E j \in 1 .. Len(Only(list, S)) : Only(list, S)[j] = list[i]
        BY <4>1, OnlyHas
      <4> QED
        BY ONLY <4>1, <4>2
    <3> QED
      BY <3>2, <3>3
  <2>2. \A i \in 1 .. Len(list) : list[i] \in Updates
    BY <1>2, <2>0
  <2> QED
    BY <2>1, <2>2
<1> HIDE DEF due, dueCaught
<1>5. /\ state \in Seq(1 .. created)
      /\ \A j \in 1 .. Len(due) : \E i \in 1 .. Len(state) : state[i] = due[j]
  <2> DEFINE a == q.baseState \o due
  <2>1. /\ a \in Seq(1 .. created) /\ Len(a) = Len(q.baseState) + Len(due)
        /\ \A i \in 1 .. Len(a) : a[i] = IF i <= Len(q.baseState) THEN q.baseState[i] ELSE due[i - Len(q.baseState)]
    BY <1>3, <1>4, ConcatProperties, LenProperties
  <2> HIDE DEF a
  <2>2. /\ a \o dueCaught \in Seq(1 .. created) /\ Len(a \o dueCaught) = Len(a) + Len(dueCaught)
        /\ \A i \in 1 .. Len(a) + Len(dueCaught) : (a \o dueCaught)[i] = IF i <= Len(a) THEN a[i] ELSE dueCaught[i - Len(a)]
    <3>1. a \in Seq(1 .. created) /\ dueCaught \in Seq(1 .. created)
      BY <1>4, <2>1
    <3> HIDE DEF dueCaught
    <3> QED
      BY ONLY <3>1, ConcatProperties
  <2>3. state = a \o dueCaught
    BY DEF a
  <2> HIDE DEF state
  <2>4. ASSUME NEW j \in 1 .. Len(due) PROVE \E i \in 1 .. Len(state) : state[i] = due[j]
    <3>0. Len(q.baseState) \in Nat /\ Len(due) \in Nat /\ Len(dueCaught) \in Nat /\ Len(a) \in Nat
      BY <1>3, <1>4, <2>1, LenProperties
    <3>1. /\ Len(q.baseState) + j \in 1 .. Len(a) /\ ~(Len(q.baseState) + j <= Len(q.baseState))
          /\ (Len(q.baseState) + j) - Len(q.baseState) = j
          /\ Len(q.baseState) + j \in 1 .. (Len(a) + Len(dueCaught))
          /\ Len(q.baseState) + j <= Len(a)
      BY <2>1, <3>0
    <3>2. a[Len(q.baseState) + j] = due[j]
      BY <2>1, <3>1
    <3>3. state[Len(q.baseState) + j] = due[j] /\ Len(q.baseState) + j \in 1 .. Len(state)
      BY <2>2, <2>3, <3>1, <3>2
    <3> QED
      BY <3>3
  <2> QED
    BY <2>2, <2>3, <2>4
<1> HIDE DEF state
<1>6. /\ levels = {update[list[n]].level : n \in Skipped(list)}
      /\ Skipped(list) = {n \in 1 .. Len(list) : update[list[n]].level > renderLevel}
      /\ \A i \in 1 .. Len(list) : list[i] \in T /\ update[list[i]].level \in UpdateLevels
  <2>1. \A u \in T : update[u].level \in UpdateLevels
    BY <1>2 DEF UpdatesFit
  <2> QED
    BY <1>1, <2>1, LenProperties DEF SkippedLevels, Skipped
<1>7. levels \subseteq UpdateLevels /\ levels \in SUBSET Nat /\ 0 \notin levels
  BY <1>6, LevelsAssumption
<1> HIDE DEF levels
<1>8. /\ levels = {} => soonest = NoLevel
      /\ levels # {} => soonest \in levels /\ \A k \in levels : soonest <= k
  BY <1>7, MinIsLeast DEF Soonest
<1>9. soonest \in QueueTimes
  BY <1>7, <1>8 DEF QueueTimes
<1> HIDE DEF soonest
<1>10. ASSUME NEW u \in T
       PROVE  (\E i \in 1 .. Len(state) : state[i] = u) \/ soonest \in 1 .. update[u].level
  <2>1. PICK i \in 1 .. Len(list) : list[i] = u
    BY <1>1 DEF Sorted
  <2>2. update[u].level \in Nat
    BY <1>6, <2>1, LevelsAssumption
  <2>3. CASE update[u].level <= renderLevel
    BY <1>4, <1>5, <2>1, <2>3
  <2>4. CASE ~(update[u].level <= renderLevel)
    <3>1. i \in Skipped(list)
      BY <1>2, <1>6, <2>1, <2>2, <2>4
    <3>2. update[u].level \in levels
      BY <1>6, <2>1, <3>1
    <3>3. soonest \in levels /\ soonest <= update[u].level
      BY <1>8, <3>2
    <3>4. soonest \in Nat /\ soonest # 0
      BY <1>7, <3>3
    <3> QED
      BY <2>2, <3>3, <3>4
  <2> QED
    BY <2>3, <2>4
<1> QED
  BY <1>4, <1>5, <1>9, <1>10 DEF T, list, caught, due, dueCaught, state, levels, soonest

-----------------------------------------------------------------------------
(* The queue processUpdateQueue and throwException start from.             *)
LEMMA CloneFits ==
  ASSUME NEW q \in QueueRecords, NEW upd, NEW n \in Nat, NEW level, ListFits(q, upd, n)
  PROVE  /\ CloneUpdateQueue(q) \in QueueRecords
         /\ CloneUpdateQueue(q).firstUpdate = q.firstUpdate
         /\ CloneUpdateQueue(q).firstCapturedUpdate = NULL
         /\ ListFits(CloneUpdateQueue(q), upd, n)
         /\ CaughtFits(CloneUpdateQueue(q), upd, n, level)
<1> DEFINE p == CloneUpdateQueue(q)
<1>1. /\ p \in QueueRecords
      /\ p.baseState = q.baseState /\ p.firstUpdate = q.firstUpdate /\ p.lastUpdate = q.lastUpdate
      /\ p.firstCapturedUpdate = NULL /\ p.lastCapturedUpdate = NULL
  BY DEF CloneUpdateQueue, CreateUpdateQueue, QueueRecords, Names, NULL
<1> HIDE DEF p
<1>2. ListFits(p, upd, n)
  BY <1>1 DEF ListFits
<1>3. CaughtFits(p, upd, n, level)
  BY <1>1 DEF CaughtFits
<1> QED
  BY <1>1, <1>2, <1>3 DEF p

LEMMA OwnQueueFits ==
  ASSUME IInv, HasQueue(WorkInProgress)
  PROVE  /\ OwnName \in Queues /\ OwnName # fiber[current].updateQueue
         /\ OwnQueue \in QueueRecords
         /\ OwnQueue.firstUpdate = QueueNamed(WorkInProgress).firstUpdate
         /\ ListFits(OwnQueue, update, created)
         /\ CaughtFits(OwnQueue, update, created, renderLevel)
         /\ \/ phase = "thrown" \/ OwnQueue.firstCapturedUpdate = NULL
<1> DEFINE W == WorkInProgress
           own == fiber[W].updateQueue
<1>1. W \in Fibers /\ W # current /\ current \in Fibers /\ created \in Nat
  BY BoundsAssumption DEF IInv, QueueTypeOK, WorkInProgress, Alternate, Fibers
<1>2. own \in Queues /\ fiber[current].updateQueue \in Queues \cup {NULL} /\ queue[own] \in QueueRecords
  BY <1>1, TypesAre DEF IInv, HasQueue
<1>3. /\ ListFits(queue[own], update, created)
      /\ CaughtFits(queue[own], update, created, renderLevel)
      /\ phase = "thrown" \/ queue[own].firstCapturedUpdate = NULL
  BY <1>1 DEF IInv, QueuesFit, QueueNamed
<1> HIDE DEF W
<1>4. CASE own = fiber[current].updateQueue
  <2>1. OwnName = OtherQueue(own) /\ OwnQueue = CloneUpdateQueue(queue[own])
    BY <1>4 DEF OwnName, OwnQueue, W
  <2>2. OtherQueue(own) \in Queues /\ OtherQueue(own) # own
    BY <1>2 DEF OtherQueue, Queues
  <2> QED
    BY <1>1, <1>2, <1>3, <1>4, <2>1, <2>2, CloneFits DEF QueueNamed, W
<1>5. CASE own # fiber[current].updateQueue
  <2>1. OwnName = own /\ OwnQueue = queue[own]
    BY <1>5 DEF OwnName, OwnQueue, W
  <2> QED
    BY <1>2, <1>3, <1>5, <2>1 DEF QueueNamed, W
<1> QED
  BY <1>4, <1>5

(* What the effects leave: the types of the links and the ends.            *)
LEMMA EffectsTyped ==
  ASSUME QueueTypeOK, NEW q \in QueueRecords, NEW s \in Seq(1 .. created), NEW t \in Seq(1 .. created)
  PROVE  LET effects == PushEffects([first |-> q.firstEffect, last |-> q.lastEffect,
                                     link |-> NextEffectOf], WithCallback(s))
             capturedEffects == PushEffects([first |-> q.firstCapturedEffect,
                                             last |-> q.lastCapturedEffect,
                                             link |-> effects.link], WithCallback(t))
         IN  effects \in EffectLists /\ capturedEffects \in EffectLists
<1>1. 1 .. created \subseteq Updates
  BY BoundsAssumption DEF QueueTypeOK, Updates
<1>2. s \in Seq(Updates) /\ t \in Seq(Updates)
  BY <1>1, SeqMonotonic
<1>3. WithCallback(s) \in Seq(Updates) /\ WithCallback(t) \in Seq(Updates)
  <2> DEFINE S == {u \in Updates : update[u].callback = "set"}
  <2>1. WithCallback(s) = Only(s, S) /\ WithCallback(t) = Only(t, S)
    BY DEF WithCallback
  <2> HIDE DEF S
  <2> QED
    BY <1>2, <2>1, OnlyHas
<1> DEFINE start == [first |-> q.firstEffect, last |-> q.lastEffect, link |-> NextEffectOf]
           effects == PushEffects(start, WithCallback(s))
           start2 == [first |-> q.firstCapturedEffect, last |-> q.lastCapturedEffect, link |-> effects.link]
<1>4. start \in EffectLists
  <2>1. NextEffectOf \in [Updates -> Names]
    BY DEF NextEffectOf, QueueTypeOK
  <2> QED
    BY <2>1 DEF EffectLists, QueueRecords
<1>5. effects \in EffectLists
  <2> HIDE DEF start
  <2> QED
    BY <1>3, <1>4, PushEffectsTyped
<1>6. start2 \in EffectLists
  <2> HIDE DEF effects
  <2> QED
    BY <1>5 DEF EffectLists, QueueRecords
<1>7. PushEffects(start2, WithCallback(t)) \in EffectLists
  <2> HIDE DEF start2
  <2> QED
    BY <1>3, <1>6, PushEffectsTyped
<1> QED
  BY <1>5, <1>7

(* The queue processUpdateQueue leaves.                                    *)
LEMMA ProcessedFits ==
  ASSUME QueueTypeOK, UpdatesFit, NEW q \in QueueRecords, renderLevel \in UpdateLevels,
         ListFits(q, update, created), CaughtFits(q, update, created, renderLevel),
         NEW p, p.firstUpdate = FirstSkipped(ListOf(q)),
         p.lastUpdate = IF p.firstUpdate = NULL THEN NULL ELSE q.lastUpdate,
         p.baseState = q.baseState \o BeforeSkipped(ListOf(q))
                         \o (IF p.firstUpdate = NULL THEN CaughtOf(q) ELSE <<>>)
  PROVE  /\ ListFits(p, update, created)
         /\ TailOf(update, created, p.firstUpdate) \subseteq TailOf(update, created, q.firstUpdate)
         /\ p.firstUpdate \in Names /\ p.lastUpdate \in Names /\ p.baseState \in States
<1> DEFINE N == NormalsOf(update, created)
           T == TailOf(update, created, q.firstUpdate)
           R == TailOf(update, created, p.firstUpdate)
           base == q.baseState \o BeforeSkipped(ListOf(q))
           link == [u \in Updates |-> update[u].next]
<1>1. /\ p.firstUpdate \in T \cup {NULL} /\ R \subseteq T
      /\ base \in Seq(1 .. created) /\ SortedIn(base, N, N \ R)
      /\ base \o CaughtOf(q) \in Seq(1 .. created) /\ SortedIn(base \o CaughtOf(q), N, N \ R)
  BY BaseFits
<1>2. /\ q.firstUpdate = NULL => q.lastUpdate = NULL
      /\ q.firstUpdate # NULL => q.lastUpdate \in N /\ \A u \in N : u <= q.lastUpdate
      /\ LinksAscend(link, T)
  BY DEF ListFits
<1>3. /\ N \subseteq 1 .. created /\ T = {u \in N : q.firstUpdate # NULL /\ q.firstUpdate <= u}
      /\ R = {u \in N : p.firstUpdate # NULL /\ p.firstUpdate <= u}
      /\ 1 .. created \subseteq Updates /\ created \in Nat /\ NULL = 0
  BY BoundsAssumption DEF QueueTypeOK, Updates, NULL, NormalsOf, TailOf
<1> HIDE DEF N, T, R, link
<1>4. p.baseState \in Seq(1 .. created) /\ SortedIn(p.baseState, N, N \ R)
  <2>1. p.baseState = base \o (IF p.firstUpdate = NULL THEN CaughtOf(q) ELSE <<>>)
    OBVIOUS
  <2> HIDE DEF base
  <2>2. base \o <<>> = base
    BY <1>1, ConcatEmptySeq
  <2> QED
    BY <1>1, <2>1, <2>2
<1>5. LinksAscend(link, R)
  <2> SUFFICES ASSUME NEW u \in R
               PROVE  \/ link[u] = NULL /\ \A v \in R : v <= u
                      \/ link[u] \in R /\ u < link[u] /\ \A v \in R : v <= u \/ link[u] <= v
    BY DEF LinksAscend
  <2>1. \/ link[u] = NULL /\ \A v \in T : v <= u
        \/ link[u] \in T /\ u < link[u] /\ \A v \in T : v <= u \/ link[u] <= v
    BY <1>1, <1>2 DEF LinksAscend
  <2>2. CASE link[u] = NULL /\ \A v \in T : v <= u
    BY <1>1, <2>2
  <2>3. CASE link[u] \in T /\ u < link[u] /\ \A v \in T : v <= u \/ link[u] <= v
    <3>0. \A v \in N : v \in Nat
      BY <1>3
    <3>1. link[u] \in N /\ link[u] \in Nat /\ u \in Nat
      <4>1. link[u] \in N /\ u \in N
        BY <1>3, <2>3
      <4> QED
        BY <3>0, <4>1
    <3>2. p.firstUpdate # NULL /\ p.firstUpdate <= u /\ p.firstUpdate \in T /\ p.firstUpdate \in Nat
      <4>1. p.firstUpdate # NULL /\ p.firstUpdate <= u
        BY <1>3
      <4>2. p.firstUpdate \in T /\ p.firstUpdate \in N
        BY <1>1, <1>3, <4>1
      <4> QED
        BY <3>0, <4>1, <4>2
    <3>3. p.firstUpdate <= link[u]
      BY <2>3, <3>1, <3>2
    <3>4. link[u] \in R
      BY <1>3, <3>1, <3>2, <3>3
    <3> QED
      BY <1>1, <2>3, <3>4
  <2> QED
    BY <2>1, <2>2, <2>3
<1>6. /\ p.firstUpdate \in N \cup {NULL}
      /\ p.firstUpdate = NULL => p.lastUpdate = NULL
      /\ p.firstUpdate # NULL => p.lastUpdate \in N /\ \A u \in N : u <= p.lastUpdate
  <2>1. p.firstUpdate # NULL => q.firstUpdate # NULL /\ p.firstUpdate \in N
    BY <1>1, <1>3
  <2> QED
    BY <1>1, <1>2, <2>1
<1>7. ListFits(p, update, created)
  BY <1>4, <1>5, <1>6 DEF ListFits, N, R, link
<1>8. /\ p.firstUpdate \in Names /\ p.lastUpdate \in Names
      /\ p.baseState \in States
  <2>1. p.firstUpdate \in Names /\ p.lastUpdate \in Names
    BY <1>3, <1>6 DEF Names
  <2>2. p.baseState \in States
    BY <1>3, <1>4, SeqMonotonic DEF States
  <2> QED
    BY <2>1, <2>2
<1> QED
  BY <1>1, <1>7, <1>8 DEF R, T

(* The step, for a fiber begun for the first or the second time.           *)
LEMMA ProcessKeeps ==
  ASSUME IInv, phase \in {"created", "thrown"}, HasQueue(WorkInProgress), ProcessUpdateQueue,
         UNCHANGED <<created, current, paired, renderLevel, leftBehind>>,
         phase' \in {"begun", "begunAgain"}
  PROVE  IInv'
<1> DEFINE W == WorkInProgress
           q == OwnQueue
           list == ListOf(q)
           caught == CaughtOf(q)
           effects == PushEffects([first |-> q.firstEffect, last |-> q.lastEffect,
                                   link |-> NextEffectOf], WithCallback(Due(list)))
           capturedEffects == PushEffects([first |-> q.firstCapturedEffect,
                                           last |-> q.lastCapturedEffect,
                                           link |-> effects.link], WithCallback(Due(caught)))
           p == [baseState |-> q.baseState \o BeforeSkipped(list)
                            \o (IF FirstSkipped(list) = NULL THEN BeforeSkipped(caught) ELSE <<>>),
                 firstUpdate |-> FirstSkipped(list),
                 lastUpdate |-> IF FirstSkipped(list) = NULL THEN NULL ELSE q.lastUpdate,
                 firstCapturedUpdate |-> FirstSkipped(caught),
                 lastCapturedUpdate |->
                   IF FirstSkipped(caught) = NULL THEN NULL ELSE q.lastCapturedUpdate,
                 firstEffect |-> effects.first,
                 lastEffect |-> effects.last,
                 firstCapturedEffect |-> capturedEffects.first,
                 lastCapturedEffect |-> capturedEffects.last]
           state == q.baseState \o Due(list) \o Due(caught)
           soonest == Soonest(SkippedLevels(list) \cup SkippedLevels(caught))
           tag == \/ fiber[W].callbackTag
                  \/ WithCallback(Due(list) \o Due(caught)) # <<>>
                  \/ FirstSkipped(caught) # NULL
           g == [updateQueue |-> OwnName, expirationTime |-> soonest,
                 memoizedState |-> state, callbackTag |-> tag]
<1>1. /\ queue' = [queue EXCEPT ![OwnName] = p]
      /\ update' = [u \in Updates |-> [update[u] EXCEPT !.nextEffect = capturedEffects.link[u]]]
      /\ fiber' = [fiber EXCEPT ![W] = g]
  BY DEF ProcessUpdateQueue, ListOf, CaughtOf
<1>2. /\ W \in Fibers /\ current \in Fibers /\ W # current /\ \A f \in Fibers : f = W \/ f = current
      /\ created \in Nat /\ created \in 0 .. MaxUpdates /\ 1 .. created \subseteq Updates
  BY BoundsAssumption DEF IInv, QueueTypeOK, WorkInProgress, Alternate, Fibers, Updates
<1>3. /\ OwnName \in Queues /\ OwnName # fiber[current].updateQueue
      /\ q \in QueueRecords /\ q.firstUpdate = QueueNamed(W).firstUpdate
      /\ ListFits(q, update, created) /\ CaughtFits(q, update, created, renderLevel)
  BY OwnQueueFits
<1>4. renderLevel \in UpdateLevels /\ paired /\ Rendering
  BY DEF IInv, RenderFits, Rendering
<1>5. QueueTypeOK /\ UpdatesFit
  BY DEF IInv
<1>6. /\ caught \in Seq(CaughtAt(update, created, renderLevel))
      /\ FirstSkipped(caught) = NULL /\ BeforeSkipped(caught) = caught /\ SkippedLevels(caught) = {}
  <2>1. caught \in Seq(CaughtAt(update, created, renderLevel))
    BY <1>3, <1>5, ListsAreRead
  <2>2. renderLevel \in Nat
    BY <1>4, LevelsAssumption
  <2> QED
    BY <2>1, <2>2, CaughtAreDue
<1>7. /\ state \in Seq(1 .. created)
      /\ soonest \in QueueTimes
      /\ Due(list) \in Seq(1 .. created) /\ Due(caught) \in Seq(1 .. created)
      /\ \A u \in TailOf(update, created, q.firstUpdate) :
           (\E i \in 1 .. Len(state) : state[i] = u) \/ soonest \in 1 .. update[u].level
  <2>1. soonest = Soonest(SkippedLevels(list))
    BY <1>6
  <2> QED
    BY <1>3, <1>4, <1>5, <2>1, StateFits
<1>8. effects \in EffectLists /\ capturedEffects \in EffectLists
  BY <1>3, <1>5, <1>7, EffectsTyped
<1> HIDE DEF W, q, list, caught, effects, capturedEffects, state, soonest, tag
<1>9. /\ p.baseState = q.baseState \o BeforeSkipped(list)
                         \o (IF p.firstUpdate = NULL THEN caught ELSE <<>>)
      /\ p.firstUpdate = FirstSkipped(list)
      /\ p.lastUpdate = IF p.firstUpdate = NULL THEN NULL ELSE q.lastUpdate
      /\ p.firstCapturedUpdate = NULL /\ p.lastCapturedUpdate = NULL
      /\ p.firstEffect = effects.first /\ p.lastEffect = effects.last
      /\ p.firstCapturedEffect = capturedEffects.first /\ p.lastCapturedEffect = capturedEffects.last
  BY <1>6
<1>10. p = [baseState |-> p.baseState, firstUpdate |-> p.firstUpdate, lastUpdate |-> p.lastUpdate,
            firstCapturedUpdate |-> p.firstCapturedUpdate, lastCapturedUpdate |-> p.lastCapturedUpdate,
            firstEffect |-> p.firstEffect, lastEffect |-> p.lastEffect,
            firstCapturedEffect |-> p.firstCapturedEffect, lastCapturedEffect |-> p.lastCapturedEffect]
  OBVIOUS
<1> HIDE DEF p
<1>11. /\ ListFits(p, update, created)
       /\ TailOf(update, created, p.firstUpdate) \subseteq TailOf(update, created, q.firstUpdate)
       /\ p.firstUpdate \in Names /\ p.lastUpdate \in Names /\ p.baseState \in States
  BY <1>3, <1>4, <1>5, <1>9, ProcessedFits DEF list, caught
<1>12. p \in QueueRecords
  <2>1. /\ effects.first \in Names /\ effects.last \in Names
        /\ capturedEffects.first \in Names /\ capturedEffects.last \in Names /\ NULL \in Names
    BY <1>8 DEF EffectLists, Names
  <2> QED
    BY <1>9, <1>10, <1>11, <2>1 DEF QueueRecords
<1>13. \A u \in 1 .. created : /\ update'[u].captured = update[u].captured
                               /\ update'[u].next = update[u].next
                               /\ update'[u].level = update[u].level
  <2>1. \A u \in Updates : update[u] \in UpdateRecords
    BY <1>5, TypesAre
  <2> QED
    BY <1>1, <1>2, <2>1 DEF UpdateRecords
<1>14. /\ NormalsOf(update', created) = NormalsOf(update, created)
       /\ \A first : TailOf(update', created, first) = TailOf(update, created, first)
       /\ \A level : CaughtAt(update', created, level) = CaughtAt(update, created, level)
       /\ \A x : ListFits(x, update, created) => ListFits(x, update', created)
       /\ \A x, level : CaughtFits(x, update, created, level) => CaughtFits(x, update', created, level)
       /\ \A f, x : FiberFits(f, x, update, created) => FiberFits(f, x, update', created)
  BY <1>2, <1>13, SameLinksFit
<1>15. /\ g.updateQueue = OwnName /\ g.expirationTime = soonest /\ g.memoizedState = state
       /\ fiber'[W] = g /\ fiber'[current] = fiber[current]
       /\ queue'[OwnName] = p /\ fiber[current].updateQueue \in Queues \cup {NULL}
       /\ HasQueue(current) => queue'[fiber[current].updateQueue] = queue[fiber[current].updateQueue]
  BY <1>1, <1>2, <1>3, <1>5 DEF QueueTypeOK, HasQueue
<1>16. g \in [updateQueue : Queues \cup {NULL}, expirationTime : QueueTimes,
              memoizedState : States, callbackTag : BOOLEAN]
  <2>1. tag \in BOOLEAN
    <3>1. fiber[W].callbackTag \in BOOLEAN
      BY <1>2, <1>5 DEF QueueTypeOK
    <3> QED
      BY <3>1 DEF tag
  <2>2. state \in States
    BY <1>2, <1>7, SeqMonotonic DEF States
  <2> QED
    BY <1>3, <1>7, <2>1, <2>2
<1> HIDE DEF g
<1>17. QueueTypeOK'
  <2>1. update' \in [Updates -> UpdateRecords]
    <3> SUFFICES ASSUME NEW u \in Updates PROVE [update[u] EXCEPT !.nextEffect = capturedEffects.link[u]] \in UpdateRecords
      BY <1>1
    <3>1. update[u] \in UpdateRecords /\ capturedEffects.link[u] \in Names
      BY <1>5, <1>8, TypesAre DEF EffectLists
    <3> QED
      BY <3>1 DEF UpdateRecords
  <2>2. queue' \in [Queues -> QueueRecords]
    BY <1>1, <1>5, <1>12, TypesAre
  <2>3. fiber' \in [Fibers -> [updateQueue : Queues \cup {NULL}, expirationTime : QueueTimes,
                               memoizedState : States, callbackTag : BOOLEAN]]
    BY <1>1, <1>5, <1>16, TypesAre
  <2> QED
    BY <1>5, <2>1, <2>2, <2>3 DEF QueueTypeOK, UpdateRecords, QueueRecords
<1>18. UpdatesFit'
  BY <1>5, <1>13, <1>14 DEF UpdatesFit
<1>19. /\ current' = current /\ created' = created /\ paired' = paired /\ renderLevel' = renderLevel
       /\ WorkInProgress' = W /\ WorkInProgress = W
       /\ OwnName # NULL
  BY <1>3 DEF WorkInProgress, Alternate, W, Queues, NULL
<1>20. QueuesFit'
  <2> SUFFICES ASSUME NEW f \in Fibers
               PROVE  /\ fiber'[f].updateQueue # NULL =>
                           /\ f = current' \/ paired'
                           /\ ListFits(queue'[fiber'[f].updateQueue], update', created')
                           /\ CaughtFits(queue'[fiber'[f].updateQueue], update', created', renderLevel')
                           /\ queue'[fiber'[f].updateQueue].firstCapturedUpdate = NULL
                      /\ (f = current' \/ paired') /\ fiber'[f].updateQueue = NULL =>
                           NormalsOf(update', created') = {}
    BY DEF QueuesFit, HasQueue, Exists, QueueNamed
  <2>1. CASE f = W
    <3>1. CaughtFits(p, update', created, renderLevel)
      BY <1>9 DEF CaughtFits
    <3> QED
      BY <1>4, <1>9, <1>11, <1>14, <1>15, <1>19, <2>1, <3>1
  <2>2. CASE f = current
    <3>1. /\ HasQueue(f) => /\ ListFits(QueueNamed(f), update, created)
                            /\ CaughtFits(QueueNamed(f), update, created, renderLevel)
                            /\ QueueNamed(f).firstCapturedUpdate = NULL
          /\ ~HasQueue(f) => NormalsOf(update, created) = {}
      BY <1>2, <1>19, <2>2 DEF IInv, QueuesFit, Exists
    <3> QED
      BY <1>14, <1>15, <1>19, <2>2, <3>1 DEF HasQueue, QueueNamed
  <2> QED
    BY <1>2, <2>1, <2>2
<1>21. FibersFit'
  <2> SUFFICES ASSUME NEW f \in Fibers
               PROVE  /\ fiber'[f].memoizedState \in Seq(1 .. created')
                      /\ fiber'[f].updateQueue # NULL =>
                           FiberFits(fiber'[f], queue'[fiber'[f].updateQueue], update', created')
    BY DEF FibersFit, HasQueue, QueueNamed
  <2>1. CASE f = W
    <3>1. FiberFits(g, p, update, created)
      BY <1>7, <1>11, <1>15 DEF FiberFits
    <3> QED
      BY <1>7, <1>14, <1>15, <1>19, <2>1, <3>1
  <2>2. CASE f = current
    BY <1>14, <1>15, <1>19, <2>2 DEF IInv, FibersFit, HasQueue, QueueNamed
  <2> QED
    BY <1>2, <2>1, <2>2
<1>22. RenderFits'
  <2> SUFFICES /\ paired' /\ renderLevel' \in UpdateLevels
               /\ fiber'[W].updateQueue # NULL
               /\ fiber'[current].updateQueue # NULL =>
                    TailOf(update', created', queue'[fiber'[W].updateQueue].firstUpdate)
                      \subseteq TailOf(update', created', queue'[fiber'[current].updateQueue].firstUpdate)
    BY <1>19 DEF RenderFits, HasQueue, QueueNamed
  <2>1. HasQueue(current) =>
          TailOf(update, created, QueueNamed(W).firstUpdate)
            \subseteq TailOf(update, created, QueueNamed(current).firstUpdate)
    BY <1>4, <1>19 DEF IInv, RenderFits
  <2> QED
    BY <1>3, <1>4, <1>11, <1>14, <1>15, <1>19, <2>1 DEF HasQueue, QueueNamed
<1> QED
  BY <1>17, <1>18, <1>20, <1>21, <1>22 DEF IInv

LEMMA CreateKeeps ==
  ASSUME IInv, NEW level \in UpdateLevels, CreateWorkInProgress(level)
  PROVE  IInv'
<1> DEFINE W == WorkInProgress
           own == fiber[current].updateQueue
           g == [fiber[current] EXCEPT !.callbackTag = FALSE]
<1>1. /\ W \in Fibers /\ current \in Fibers /\ W # current /\ \A f \in Fibers : f = W \/ f = current
      /\ QueueTypeOK /\ UpdatesFit
  BY DEF IInv, QueueTypeOK, WorkInProgress, Alternate, Fibers
<1>2. /\ fiber' = [fiber EXCEPT ![W] = g]
      /\ queue' = [x \in Queues |-> IF x = own THEN queue[x] ELSE CreateUpdateQueue(<<>>)]
      /\ paired' = TRUE /\ phase' = "created" /\ renderLevel' = level
      /\ update' = update /\ created' = created /\ current' = current /\ leftBehind' = leftBehind
  BY DEF CreateWorkInProgress
<1>3. /\ W' = W /\ own \in Queues \cup {NULL}
      /\ g.updateQueue = own /\ g.expirationTime = fiber[current].expirationTime
      /\ g.memoizedState = fiber[current].memoizedState
      /\ g \in [updateQueue : Queues \cup {NULL}, expirationTime : QueueTimes,
                memoizedState : States, callbackTag : BOOLEAN]
      /\ fiber'[W] = g /\ fiber'[current] = fiber[current]
  BY <1>1, <1>2 DEF WorkInProgress, Alternate, QueueTypeOK
<1> HIDE DEF g, own, W
<1>4. own # NULL => queue'[own] = queue[own]
  BY <1>2, <1>3
<1>5. QueueTypeOK'
  <2>1. CreateUpdateQueue(<<>>) \in QueueRecords
    <3>1. <<>> \in States
      BY DEF States
    <3>2. NULL \in Names
      BY DEF Names
    <3> QED
      BY <3>1, <3>2 DEF CreateUpdateQueue, QueueRecords
  <2>2. queue' \in [Queues -> QueueRecords]
    BY <1>1, <1>2, <2>1, TypesAre
  <2>3. fiber' \in [Fibers -> [updateQueue : Queues \cup {NULL}, expirationTime : QueueTimes,
                               memoizedState : States, callbackTag : BOOLEAN]]
    BY <1>1, <1>2, <1>3, TypesAre
  <2>4. renderLevel' \in QueueTimes
    BY <1>2 DEF QueueTimes
  <2> QED
    BY <1>1, <1>2, <2>2, <2>3, <2>4 DEF QueueTypeOK, QueueRecords
<1>6. UpdatesFit'
  BY <1>1, <1>2 DEF UpdatesFit
<1>7. /\ own # NULL => /\ ListFits(queue[own], update, created)
                       /\ CaughtFits(queue[own], update, created, level)
                       /\ queue[own].firstCapturedUpdate = NULL
                       /\ FiberFits(fiber[current], queue[own], update, created)
      /\ own = NULL => NormalsOf(update, created) = {}
      /\ fiber[current].memoizedState \in Seq(1 .. created)
  <2>1. /\ own # NULL => /\ ListFits(queue[own], update, created)
                         /\ CaughtFits(queue[own], update, created, renderLevel)
                         /\ queue[own].firstCapturedUpdate = NULL
        /\ own = NULL => NormalsOf(update, created) = {}
    BY <1>1 DEF IInv, QueuesFit, HasQueue, QueueNamed, Exists, own, W
  <2>2. /\ own # NULL => FiberFits(fiber[current], queue[own], update, created)
        /\ fiber[current].memoizedState \in Seq(1 .. created)
    BY <1>1 DEF IInv, FibersFit, HasQueue, QueueNamed, own
  <2> QED
    BY <2>1, <2>2 DEF CaughtFits
<1>8. \A f \in Fibers : fiber'[f].updateQueue = own /\ fiber'[f].memoizedState = fiber[current].memoizedState
                         /\ fiber'[f].expirationTime = fiber[current].expirationTime
  BY <1>1, <1>3 DEF own
<1>9. QueuesFit'
  <2> SUFFICES ASSUME NEW f \in Fibers
               PROVE  /\ fiber'[f].updateQueue # NULL =>
                           /\ f = current' \/ paired'
                           /\ ListFits(queue'[fiber'[f].updateQueue], update', created')
                           /\ CaughtFits(queue'[fiber'[f].updateQueue], update', created', renderLevel')
                           /\ queue'[fiber'[f].updateQueue].firstCapturedUpdate = NULL
                      /\ (f = current' \/ paired') /\ fiber'[f].updateQueue = NULL =>
                           NormalsOf(update', created') = {}
    BY DEF QueuesFit, HasQueue, Exists, QueueNamed
  <2> QED
    BY <1>2, <1>4, <1>7, <1>8
<1>10. FibersFit'
  <2> SUFFICES ASSUME NEW f \in Fibers
               PROVE  /\ fiber'[f].memoizedState \in Seq(1 .. created')
                      /\ fiber'[f].updateQueue # NULL =>
                           FiberFits(fiber'[f], queue'[fiber'[f].updateQueue], update', created')
    BY DEF FibersFit, HasQueue, QueueNamed
  <2>1. own # NULL => FiberFits(fiber'[f], queue[own], update, created)
    <3>1. /\ fiber'[f].memoizedState = fiber[current].memoizedState
          /\ fiber'[f].expirationTime = fiber[current].expirationTime
          /\ own # NULL => FiberFits(fiber[current], queue[own], update, created)
      BY <1>7, <1>8
    <3> QED
      BY ONLY <3>1 DEF FiberFits
  <2> QED
    BY <1>2, <1>4, <1>7, <1>8, <2>1
<1>11. RenderFits'
  <2> SUFFICES /\ paired' /\ renderLevel' \in UpdateLevels /\ phase' # "thrown"
               /\ fiber'[current].updateQueue # NULL =>
                    /\ fiber'[W].updateQueue # NULL
                    /\ TailOf(update', created', queue'[fiber'[W].updateQueue].firstUpdate)
                         \subseteq TailOf(update', created', queue'[fiber'[current].updateQueue].firstUpdate)
    BY <1>2, <1>3 DEF RenderFits, HasQueue, QueueNamed, W
  <2> QED
    BY <1>1, <1>2, <1>8
<1> QED
  BY <1>5, <1>6, <1>9, <1>10, <1>11 DEF IInv

LEMMA BailOutKeeps ==
  ASSUME IInv, BailOut
  PROVE  IInv'
<1>1. /\ phase = "created" /\ phase' = "begun"
      /\ UNCHANGED <<update, created, queue, fiber, current, paired, renderLevel, leftBehind>>
  BY DEF BailOut
<1>2. QueueTypeOK' /\ UpdatesFit'
  BY <1>1 DEF IInv, QueueTypeOK, UpdatesFit
<1>3. QueuesFit'
  BY <1>1 DEF IInv, QueuesFit, HasQueue, QueueNamed, Exists, WorkInProgress
<1>4. FibersFit'
  BY <1>1 DEF IInv, FibersFit, HasQueue, QueueNamed
<1>5. RenderFits'
  BY <1>1 DEF IInv, RenderFits, Rendering, HasQueue, QueueNamed, WorkInProgress, Alternate
<1> QED
  BY <1>2, <1>3, <1>4, <1>5 DEF IInv

LEMMA BeginWorkKeeps ==
  ASSUME IInv, BeginWork
  PROVE  IInv'
<1>1. /\ phase = "created" /\ phase' = "begun"
      /\ UNCHANGED <<created, current, paired, renderLevel, leftBehind>>
      /\ IF HasQueue(WorkInProgress) THEN ProcessUpdateQueue
         ELSE /\ fiber' = [fiber EXCEPT ![WorkInProgress].expirationTime = NoLevel]
              /\ UNCHANGED <<update, queue>>
  BY DEF BeginWork, HasQueue
<1>2. CASE HasQueue(WorkInProgress)
  BY <1>1, <1>2, ProcessKeeps
<1>3. CASE ~HasQueue(WorkInProgress)
  <2> DEFINE W == WorkInProgress
  <2>1. /\ W \in Fibers /\ current \in Fibers /\ W # current /\ W' = W
        /\ fiber \in [Fibers -> [updateQueue : Queues \cup {NULL}, expirationTime : QueueTimes,
                                 memoizedState : States, callbackTag : BOOLEAN]]
    BY <1>1 DEF IInv, QueueTypeOK, WorkInProgress, Alternate, Fibers
  <2>2. /\ fiber' = [fiber EXCEPT ![W].expirationTime = NoLevel]
        /\ update' = update /\ queue' = queue
    BY <1>1, <1>3
  <2> HIDE DEF W
  <2>3. /\ \A f \in Fibers : /\ fiber'[f].updateQueue = fiber[f].updateQueue
                             /\ fiber'[f].memoizedState = fiber[f].memoizedState
        /\ \A f \in Fibers : f # W => fiber'[f] = fiber[f]
        /\ fiber[W].updateQueue = NULL
    BY <1>3, <2>1, <2>2 DEF HasQueue, W
  <2>4. QueueTypeOK'
    <3>1. fiber' \in [Fibers -> [updateQueue : Queues \cup {NULL}, expirationTime : QueueTimes,
                                 memoizedState : States, callbackTag : BOOLEAN]]
      BY <2>1, <2>2 DEF QueueTimes
    <3> QED
      BY <1>1, <2>2, <3>1 DEF IInv, QueueTypeOK
  <2>5. UpdatesFit'
    BY <1>1, <2>2 DEF IInv, UpdatesFit
  <2>6. QueuesFit'
    BY <1>1, <2>2, <2>3 DEF IInv, QueuesFit, HasQueue, QueueNamed, Exists, W
  <2>7. FibersFit'
    BY <1>1, <2>2, <2>3 DEF IInv, FibersFit, HasQueue, QueueNamed
  <2>8. RenderFits'
    BY <1>1, <2>1, <2>2, <2>3 DEF IInv, RenderFits, Rendering, HasQueue, QueueNamed, W
  <2> QED
    BY <2>4, <2>5, <2>6, <2>7, <2>8 DEF IInv
<1> QED
  BY <1>2, <1>3

LEMMA BeginAgainKeeps ==
  ASSUME IInv, BeginAgain
  PROVE  IInv'
<1>1. /\ phase = "thrown" /\ phase' = "begunAgain" /\ ProcessUpdateQueue
      /\ UNCHANGED <<created, current, paired, renderLevel, leftBehind>>
  BY DEF BeginAgain
<1>2. HasQueue(WorkInProgress)
  BY <1>1 DEF IInv, RenderFits, Rendering
<1> QED
  BY <1>1, <1>2, ProcessKeeps

(* A new captured update leaves the lists as they are.                     *)
Catches(upd, upd2, n, last) ==
  /\ n \in Nat /\ n < MaxUpdates
  /\ upd2[n + 1].captured
  /\ last = NULL \/ (last \in 1 .. n /\ upd[last].captured)
  /\ \A u \in 1 .. n : /\ upd2[u].captured = upd[u].captured
                       /\ upd2[u].level = upd[u].level
                       /\ u # last => upd2[u].next = upd[u].next

LEMMA CaughtGrows ==
  ASSUME NEW n, NEW upd, NEW upd2, NEW last, Catches(upd, upd2, n, last)
  PROVE  /\ NormalsOf(upd2, n + 1) = NormalsOf(upd, n)
         /\ \A first : TailOf(upd2, n + 1, first) = TailOf(upd, n, first)
         /\ \A level : CaughtAt(upd, n, level) \subseteq CaughtAt(upd2, n + 1, level)
         /\ \A q : ListFits(q, upd, n) => ListFits(q, upd2, n + 1)
         /\ \A q, level : CaughtFits(q, upd, n, level) => CaughtFits(q, upd2, n + 1, level)
         /\ \A f, q : FiberFits(f, q, upd, n) => FiberFits(f, q, upd2, n + 1)
<1>0. n \in Nat /\ n < MaxUpdates
  BY DEF Catches
<1>a. upd2[n + 1].captured
  BY DEF Catches
<1>b. last = NULL \/ (last \in 1 .. n /\ upd[last].captured)
  BY DEF Catches
<1>c. \A u \in 1 .. n : upd2[u].captured = upd[u].captured
  BY DEF Catches
<1>d. \A u \in 1 .. n : upd2[u].level = upd[u].level
  BY DEF Catches
<1>e. \A u \in 1 .. n : u # last => upd2[u].next = upd[u].next
  BY DEF Catches
<1>1. /\ MaxUpdates \in Nat /\ \A u \in 1 .. n : u \in 1 .. (n + 1) /\ u \in Updates
      /\ \A u \in 1 .. (n + 1) : u = n + 1 \/ u \in 1 .. n
  BY <1>0, BoundsAssumption DEF Updates
<1>2. NormalsOf(upd2, n + 1) = NormalsOf(upd, n)
  BY <1>1, <1>a, <1>c DEF NormalsOf
<1>3. \A first : TailOf(upd2, n + 1, first) = TailOf(upd, n, first)
  BY <1>2 DEF TailOf
<1>4. \A level : CaughtAt(upd, n, level) \subseteq CaughtAt(upd2, n + 1, level)
  BY <1>1, <1>c, <1>d DEF CaughtAt
<1>5. ASSUME NEW q, ListFits(q, upd, n) PROVE ListFits(q, upd2, n + 1)
  <2> DEFINE T == TailOf(upd, n, q.firstUpdate)
  <2>1. \A u \in T : u \in 1 .. n /\ u \in Updates /\ u # last
    BY <1>0, <1>1, <1>b DEF TailOf, NormalsOf, NULL
  <2>2. LinksAscend([u \in Updates |-> upd[u].next], T)
    BY <1>5 DEF ListFits
  <2>3. \A u \in T : [v \in Updates |-> upd2[v].next][u] = [v \in Updates |-> upd[v].next][u]
    BY <1>e, <2>1
  <2> HIDE DEF T
  <2>4. LinksAscend([u \in Updates |-> upd2[u].next], T)
    BY <2>2, <2>3 DEF LinksAscend
  <2>5. q.baseState \in Seq(1 .. (n + 1))
    <3>1. 1 .. n \subseteq 1 .. (n + 1) /\ q.baseState \in Seq(1 .. n)
      BY <1>1, <1>5 DEF ListFits
    <3> QED
      BY <3>1, SeqMonotonic
  <2> QED
    BY <1>2, <1>3, <1>5, <2>4, <2>5 DEF ListFits, T
<1>6. ASSUME NEW q, NEW level, CaughtFits(q, upd, n, level) PROVE CaughtFits(q, upd2, n + 1, level)
  BY <1>4, <1>6 DEF CaughtFits
<1>7. ASSUME NEW f, NEW q, FiberFits(f, q, upd, n) PROVE FiberFits(f, q, upd2, n + 1)
  <2>1. \A u \in TailOf(upd, n, q.firstUpdate) : u \in 1 .. n
    BY DEF TailOf, NormalsOf
  <2> QED
    BY <1>3, <1>7, <1>d, <2>1 DEF FiberFits
<1> QED
  BY <1>2, <1>3, <1>4, <1>5, <1>6, <1>7

(* A queue created for a fiber without one: there is no update then.       *)
LEMMA NewQueueFits ==
  ASSUME NEW upd, NEW n \in Nat, n <= MaxUpdates, NormalsOf(upd, n) = {}, NEW s \in Seq(1 .. n), NEW level
  PROVE  /\ CreateUpdateQueue(s) \in QueueRecords
         /\ CreateUpdateQueue(s).firstUpdate = NULL
         /\ CreateUpdateQueue(s).firstCapturedUpdate = NULL
         /\ ListFits(CreateUpdateQueue(s), upd, n)
         /\ CaughtFits(CreateUpdateQueue(s), upd, n, level)
<1> DEFINE p == CreateUpdateQueue(s)
<1>1. 1 .. n \subseteq Updates /\ 1 .. n \subseteq Nat
  BY BoundsAssumption DEF Updates
<1>2. s \in States /\ s \in Seq(Nat) /\ NULL \in Names
  BY <1>1, SeqMonotonic DEF States, Names
<1>3. /\ p \in QueueRecords
      /\ p.baseState = s /\ p.firstUpdate = NULL /\ p.lastUpdate = NULL
      /\ p.firstCapturedUpdate = NULL /\ p.lastCapturedUpdate = NULL
  BY <1>2 DEF CreateUpdateQueue, QueueRecords
<1> HIDE DEF p
<1>4. SortedIn(s, NormalsOf(upd, n), NormalsOf(upd, n) \ TailOf(upd, n, NULL))
  <2>1. SortedIn(s, {}, {})
    BY <1>2, NoneIsSorted
  <2> QED
    BY <2>1
<1>5. LinksAscend([u \in Updates |-> upd[u].next], TailOf(upd, n, NULL))
  BY DEF LinksAscend, TailOf
<1>6. ListFits(p, upd, n)
  BY <1>3, <1>4, <1>5 DEF ListFits
<1>7. CaughtFits(p, upd, n, level)
  BY <1>3 DEF CaughtFits
<1> QED
  BY <1>3, <1>6, <1>7 DEF p

LEMMA ThrowKeeps ==
  ASSUME IInv, NEW callback \in {"none", "set"}, ThrowException(callback)
  PROVE  IInv'
<1> DEFINE W == WorkInProgress
           u == created + 1
           noQueue == fiber[W].updateQueue = NULL
           name == IF noQueue THEN W ELSE OwnName
           q == IF noQueue THEN CreateUpdateQueue(fiber[W].memoizedState) ELSE OwnQueue
           p == EnqueueCapturedUpdate(q, u)
           new == CreateUpdate(renderLevel, TRUE, callback)
           g == [[fiber[W] EXCEPT !.updateQueue = name] EXCEPT !.expirationTime = renderLevel]
<1>1. /\ phase \in {"begun", "thrown"} /\ created < MaxUpdates /\ created' = u
      /\ update' = [v \in Updates |-> IF v = u THEN new
                                      ELSE IF v = q.lastCapturedUpdate THEN [update[v] EXCEPT !.next = u]
                                      ELSE update[v]]
      /\ queue' = [queue EXCEPT ![name] = p]
      /\ fiber' = [fiber EXCEPT ![W].updateQueue = name, ![W].expirationTime = renderLevel]
      /\ phase' = "thrown"
      /\ current' = current /\ paired' = paired /\ renderLevel' = renderLevel /\ leftBehind' = leftBehind
  BY DEF ThrowException
<1>2. /\ W \in Fibers /\ current \in Fibers /\ W # current /\ \A f \in Fibers : f = W \/ f = current
      /\ created \in Nat /\ 1 .. created \subseteq Updates /\ u \in Updates /\ QueueTypeOK /\ UpdatesFit
      /\ u \notin 1 .. created /\ (\A v \in 1 .. u : v = u \/ v \in 1 .. created) /\ u \in 1 .. u
      /\ W' = W /\ Fibers = Queues /\ NULL \notin Fibers /\ created <= MaxUpdates
      /\ NULL \notin Updates /\ \A v \in 1 .. created : v \in 1 .. u
  BY <1>1, BoundsAssumption DEF IInv, QueueTypeOK, WorkInProgress, Alternate, Fibers, Queues, Updates, NULL
<1>3. renderLevel \in UpdateLevels /\ paired /\ Rendering
  BY <1>1 DEF IInv, RenderFits, Rendering
<1>4. fiber \in [Fibers -> [updateQueue : Queues \cup {NULL}, expirationTime : QueueTimes,
                            memoizedState : States, callbackTag : BOOLEAN]]
  BY <1>2 DEF QueueTypeOK
<1>5. /\ fiber' = [fiber EXCEPT ![W] = g]
      /\ g.updateQueue = name /\ g.memoizedState = fiber[W].memoizedState
      /\ g.expirationTime = renderLevel /\ g.callbackTag = fiber[W].callbackTag
  BY <1>1, <1>2, <1>4
<1>6. /\ name \in Queues /\ name # fiber[current].updateQueue /\ name # NULL
      /\ q \in QueueRecords /\ ListFits(q, update, created) /\ CaughtFits(q, update, created, renderLevel)
      /\ HasQueue(current) => /\ HasQueue(W) /\ q.firstUpdate = QueueNamed(W).firstUpdate
  <2>0. HasQueue(current) => HasQueue(W)
    BY <1>3 DEF IInv, RenderFits
  <2>1. CASE noQueue
    <3>1. name = W /\ q = CreateUpdateQueue(fiber[W].memoizedState) /\ ~HasQueue(W)
      BY <2>1 DEF HasQueue
    <3>2. NormalsOf(update, created) = {}
      BY <1>2, <1>3, <3>1 DEF IInv, QueuesFit, Exists
    <3>3. fiber[W].memoizedState \in Seq(1 .. created)
      BY <1>2 DEF IInv, FibersFit
    <3>4. q \in QueueRecords /\ ListFits(q, update, created) /\ CaughtFits(q, update, created, renderLevel)
      <4> DEFINE s == fiber[W].memoizedState
      <4>1. s \in Seq(1 .. created) /\ created \in Nat /\ created <= MaxUpdates /\ q = CreateUpdateQueue(s)
        BY <1>2, <3>1, <3>3
      <4> HIDE DEF s, q
      <4> QED
        BY <3>2, <4>1, NewQueueFits
    <3> QED
      BY <1>2, <2>0, <3>1, <3>4 DEF HasQueue
  <2>2. CASE ~noQueue
    <3>1. name = OwnName /\ q = OwnQueue /\ HasQueue(W)
      BY <2>2 DEF HasQueue
    <3> QED
      BY <1>2, <3>1, OwnQueueFits
  <2> QED
    BY <2>1, <2>2
<1> HIDE DEF W, noQueue, name, q, g, u
<1>7. /\ new \in UpdateRecords /\ new.captured /\ new.next = NULL /\ new.level = renderLevel
  BY <1>3 DEF CreateUpdate, Unused, UpdateRecords, QueueTimes, Names, NoLevel
<1> HIDE DEF new
<1>8. /\ q.lastCapturedUpdate = NULL \/ q.lastCapturedUpdate \in CaughtAt(update, created, renderLevel)
      /\ q.firstCapturedUpdate = NULL \/ q.firstCapturedUpdate \in CaughtAt(update, created, renderLevel)
      /\ q.firstCapturedUpdate = NULL <=> q.lastCapturedUpdate = NULL
  BY <1>6 DEF CaughtFits
<1>9. \A v \in Updates : update[v] \in UpdateRecords
  BY <1>2, TypesAre
<1>10. /\ update'[u] = new
       /\ \A v \in 1 .. created : /\ update'[v].captured = update[v].captured
                                  /\ update'[v].level = update[v].level
                                  /\ v # q.lastCapturedUpdate => update'[v].next = update[v].next
                                  /\ v = q.lastCapturedUpdate => update'[v].next = u
  BY <1>1, <1>2, <1>9 DEF UpdateRecords
<1>11. /\ NormalsOf(update', u) = NormalsOf(update, created)
       /\ \A first : TailOf(update', u, first) = TailOf(update, created, first)
       /\ \A level : CaughtAt(update, created, level) \subseteq CaughtAt(update', u, level)
       /\ \A x : ListFits(x, update, created) => ListFits(x, update', u)
       /\ \A x, level : CaughtFits(x, update, created, level) => CaughtFits(x, update', u, level)
       /\ \A f, x : FiberFits(f, x, update, created) => FiberFits(f, x, update', u)
  <2>1. q.lastCapturedUpdate = NULL \/ (q.lastCapturedUpdate \in 1 .. created /\ update[q.lastCapturedUpdate].captured)
    BY <1>8 DEF CaughtAt
  <2>2. created < MaxUpdates /\ update'[created + 1].captured /\ update'[created + 1].next = NULL
    BY <1>1, <1>7, <1>10 DEF u
  <2>3. Catches(update, update', created, q.lastCapturedUpdate)
    BY <1>2, <1>10, <2>1, <2>2 DEF Catches
  <2> QED
    BY <2>3, CaughtGrows DEF u
<1>12. u \in CaughtAt(update', u, renderLevel)
  BY <1>2, <1>7, <1>10 DEF CaughtAt
<1>13. /\ p.firstUpdate = q.firstUpdate /\ p.lastUpdate = q.lastUpdate /\ p.baseState = q.baseState
       /\ p.firstCapturedUpdate = IF q.lastCapturedUpdate = NULL THEN u ELSE q.firstCapturedUpdate
       /\ p.lastCapturedUpdate = u
       /\ p \in QueueRecords
  BY <1>2, <1>6 DEF EnqueueCapturedUpdate, QueueRecords, Names
<1> HIDE DEF p
<1>14. ListFits(p, update', u)
  <2>1. ListFits(q, update', u)
    BY <1>6, <1>11
  <2> QED
    BY <1>13, <2>1 DEF ListFits
<1>15. CaughtFits(p, update', u, renderLevel)
  <2>1. u # NULL
    BY <1>2
  <2>2. p.firstCapturedUpdate \in CaughtAt(update', u, renderLevel) /\ p.firstCapturedUpdate # NULL
    BY <1>8, <1>11, <1>12, <1>13, <2>1
  <2> QED
    BY <1>12, <1>13, <2>1, <2>2 DEF CaughtFits
<1>16. /\ fiber'[W] = g /\ fiber'[current] = fiber[current] /\ queue'[name] = p
       /\ fiber[current].updateQueue \in Queues \cup {NULL}
       /\ fiber[current].updateQueue # NULL =>
            queue'[fiber[current].updateQueue] = queue[fiber[current].updateQueue]
  BY <1>1, <1>2, <1>4, <1>5, <1>6 DEF QueueTypeOK
<1>17. QueueTypeOK'
  <2>1. update' \in [Updates -> UpdateRecords]
    <3> SUFFICES ASSUME NEW v \in Updates PROVE update'[v] \in UpdateRecords
      BY <1>1
    <3>1. v = u => update'[v] = new
      BY <1>10
    <3>2. v # u => update'[v] = [update[v] EXCEPT !.next = u] \/ update'[v] = update[v]
      BY <1>1
    <3>3. [update[v] EXCEPT !.next = u] \in UpdateRecords
      BY <1>2, <1>9 DEF UpdateRecords, Names
    <3> QED
      BY <1>7, <1>9, <3>1, <3>2, <3>3
  <2>2. queue' \in [Queues -> QueueRecords]
    BY <1>1, <1>2, <1>13, TypesAre
  <2>3. fiber' \in [Fibers -> [updateQueue : Queues \cup {NULL}, expirationTime : QueueTimes,
                               memoizedState : States, callbackTag : BOOLEAN]]
    <3>1. g \in [updateQueue : Queues \cup {NULL}, expirationTime : QueueTimes,
                 memoizedState : States, callbackTag : BOOLEAN]
      <4>1. /\ fiber[W] \in [updateQueue : Queues \cup {NULL}, expirationTime : QueueTimes,
                             memoizedState : States, callbackTag : BOOLEAN]
            /\ name \in Queues \cup {NULL} /\ renderLevel \in QueueTimes
        BY <1>2, <1>3, <1>4, <1>6 DEF QueueTimes
      <4> QED
        BY ONLY <4>1 DEF g
    <3> QED
      BY <1>4, <1>5, <3>1
  <2>4. created' \in 0 .. MaxUpdates
    BY <1>1, <1>2, BoundsAssumption DEF u
  <2> QED
    BY <1>1, <1>2, <2>1, <2>2, <2>3, <2>4 DEF QueueTypeOK, UpdateRecords, QueueRecords
<1>18. UpdatesFit'
  <2> SUFFICES ASSUME NEW v \in 1 .. u
               PROVE  /\ update'[v].level \in UpdateLevels
                      /\ update'[v].captured =>
                           update'[v].next = NULL \/ update'[v].next \in CaughtAt(update', u, update'[v].level)
    BY <1>1 DEF UpdatesFit
  <2>1. CASE v = u
    BY <1>3, <1>7, <1>10, <2>1
  <2>2. CASE v # u
    <3>1. v \in 1 .. created
      BY <1>2, <2>2
    <3>2. /\ update[v].level \in UpdateLevels
          /\ update[v].captured => update[v].next = NULL \/ update[v].next \in CaughtAt(update, created, update[v].level)
      BY <1>2, <3>1 DEF UpdatesFit
    <3>3. CASE v = q.lastCapturedUpdate
      <4>1. update[v].level = renderLevel
        BY <1>2, <1>8, <3>1, <3>3 DEF CaughtAt
      <4>2. update'[v].next = u /\ update'[v].level = renderLevel
        BY <1>10, <3>1, <3>3, <4>1
      <4> QED
        BY <1>3, <1>12, <4>2
    <3>4. CASE v # q.lastCapturedUpdate
      BY <1>10, <1>11, <3>1, <3>2, <3>4
    <3> QED
      BY <3>3, <3>4
  <2> QED
    BY <2>1, <2>2
<1>19. QueuesFit'
  <2> SUFFICES ASSUME NEW f \in Fibers
               PROVE  /\ fiber'[f].updateQueue # NULL =>
                           /\ f = current' \/ paired'
                           /\ ListFits(queue'[fiber'[f].updateQueue], update', created')
                           /\ CaughtFits(queue'[fiber'[f].updateQueue], update', created', renderLevel')
                           /\ f = W \/ queue'[fiber'[f].updateQueue].firstCapturedUpdate = NULL
                      /\ (f = current' \/ paired') /\ fiber'[f].updateQueue = NULL =>
                           NormalsOf(update', created') = {}
    BY <1>1, <1>2 DEF QueuesFit, HasQueue, Exists, QueueNamed, W
  <2>1. CASE f = W
    BY <1>1, <1>3, <1>5, <1>6, <1>14, <1>15, <1>16, <2>1
  <2>2. CASE f = current
    <3>1. /\ HasQueue(f) => /\ ListFits(QueueNamed(f), update, created)
                            /\ CaughtFits(QueueNamed(f), update, created, renderLevel)
                            /\ QueueNamed(f).firstCapturedUpdate = NULL
          /\ ~HasQueue(f) => NormalsOf(update, created) = {}
      BY <1>2, <2>2 DEF IInv, QueuesFit, Exists, W
    <3> QED
      BY <1>1, <1>3, <1>11, <1>16, <2>2, <3>1 DEF HasQueue, QueueNamed
  <2> QED
    BY <1>2, <2>1, <2>2
<1>20. FibersFit'
  <2> SUFFICES ASSUME NEW f \in Fibers
               PROVE  /\ fiber'[f].memoizedState \in Seq(1 .. u)
                      /\ fiber'[f].updateQueue # NULL /\ f = current =>
                           FiberFits(fiber'[f], queue'[fiber'[f].updateQueue], update', u)
    BY <1>1 DEF FibersFit, HasQueue, QueueNamed
  <2>1. fiber'[f].memoizedState = fiber[f].memoizedState
    BY <1>2, <1>5, <1>16
  <2>2. fiber'[f].memoizedState \in Seq(1 .. u)
    <3>1. fiber[f].memoizedState \in Seq(1 .. created)
      BY DEF IInv, FibersFit
    <3>2. 1 .. created \subseteq 1 .. u
      BY <1>2
    <3> QED
      BY <2>1, <3>1, <3>2, SeqMonotonic
  <2>3. f = current /\ HasQueue(f) => FiberFits(fiber[f], QueueNamed(f), update, created)
    BY DEF IInv, FibersFit
  <2> QED
    BY <1>11, <1>16, <2>2, <2>3 DEF HasQueue, QueueNamed
<1>21. RenderFits'
  <2> SUFFICES /\ paired' /\ renderLevel' \in UpdateLevels
               /\ fiber'[W].updateQueue # NULL
               /\ fiber'[current].updateQueue # NULL =>
                    TailOf(update', u, queue'[fiber'[W].updateQueue].firstUpdate)
                      \subseteq TailOf(update', u, queue'[fiber'[current].updateQueue].firstUpdate)
    BY <1>1, <1>2 DEF RenderFits, HasQueue, QueueNamed, W
  <2>1. HasQueue(current) =>
          TailOf(update, created, QueueNamed(W).firstUpdate)
            \subseteq TailOf(update, created, QueueNamed(current).firstUpdate)
    BY <1>3 DEF IInv, RenderFits, W
  <2>2. /\ fiber'[W].updateQueue = name /\ queue'[fiber'[W].updateQueue].firstUpdate = q.firstUpdate
        /\ fiber'[current].updateQueue = fiber[current].updateQueue
    BY <1>5, <1>13, <1>16
  <2>3. fiber'[current].updateQueue # NULL =>
          /\ queue'[fiber'[current].updateQueue].firstUpdate = QueueNamed(current).firstUpdate
          /\ queue'[fiber'[W].updateQueue].firstUpdate = QueueNamed(W).firstUpdate
          /\ HasQueue(current)
    BY <1>6, <1>16, <2>2 DEF HasQueue, QueueNamed
  <2> QED
    BY <1>1, <1>3, <1>6, <1>11, <2>1, <2>2, <2>3
<1> QED
  BY <1>17, <1>18, <1>19, <1>20, <1>21 DEF IInv

-----------------------------------------------------------------------------
(* The queues enqueueUpdate appends to: one of their own for each fiber,   *)
(* or the same, and all end with the same update.                          *)
LEMMA EnqueuedQueues ==
  ASSUME IInv, NEW x \in Fibers, Exists(x)
  PROVE  /\ QueueName(x) \in Queues
         /\ QueueOf(x) \in QueueRecords
         /\ ListFits(QueueOf(x), update, created)
         /\ CaughtFits(QueueOf(x), update, created, renderLevel)
         /\ (phase = "thrown" /\ x = WorkInProgress) \/ QueueOf(x).firstCapturedUpdate = NULL
         /\ HasQueue(x) => QueueOf(x) = QueueNamed(x) /\ QueueName(x) = fiber[x].updateQueue
         /\ ~HasQueue(x) => NormalsOf(update, created) = {}
         /\ \A y \in Fibers : Exists(y) /\ QueueName(x) = QueueName(y) => QueueOf(x) = QueueOf(y)
<1> DEFINE y == Alternate(x)
           own == fiber[x].updateQueue
           others == fiber[y].updateQueue
<1>1. /\ y \in Fibers /\ y # x /\ Alternate(y) = x /\ (\A z \in Fibers : z = x \/ z = y)
      /\ created \in Nat /\ created <= MaxUpdates /\ QueueTypeOK /\ NULL \notin Queues
      /\ Queues = Fibers
  BY BoundsAssumption DEF IInv, QueueTypeOK, Alternate, Fibers, Queues, NULL
<1>2. own \in Queues \cup {NULL} /\ others \in Queues \cup {NULL}
  BY <1>1 DEF QueueTypeOK
<1>3. \A z \in Queues : z # NULL /\ queue[z] \in QueueRecords /\ OtherQueue(z) \in Queues /\ OtherQueue(z) # z
  BY <1>1, TypesAre DEF OtherQueue, Queues
<1>4. /\ HasQueue(x) <=> own # NULL
      /\ HasQueue(y) <=> others # NULL
  BY DEF HasQueue
<1>5. /\ own # NULL => QueueName(x) = own /\ QueueOf(x) = queue[own]
      /\ own = NULL /\ others = NULL => QueueName(x) = x
      /\ own = NULL /\ others # NULL => QueueName(x) = OtherQueue(others)
      /\ own = NULL /\ others = NULL => QueueOf(x) = CreateUpdateQueue(fiber[x].memoizedState)
      /\ own = NULL /\ others # NULL => QueueOf(x) = CloneUpdateQueue(queue[others])
  BY DEF QueueName, QueueOf
<1>6. Exists(y) => /\ others # NULL => QueueName(y) = others /\ QueueOf(y) = queue[others]
                   /\ others = NULL /\ own = NULL => QueueName(y) = y
                   /\ others = NULL /\ own # NULL => QueueName(y) = OtherQueue(own)
  BY <1>1 DEF QueueName, QueueOf
<1>7. fiber[x].memoizedState \in Seq(1 .. created)
  BY DEF IInv, FibersFit
<1>8. /\ own # NULL => /\ ListFits(queue[own], update, created)
                       /\ CaughtFits(queue[own], update, created, renderLevel)
                       /\ (phase = "thrown" /\ x = WorkInProgress) \/ queue[own].firstCapturedUpdate = NULL
      /\ own = NULL => NormalsOf(update, created) = {}
      /\ others # NULL => ListFits(queue[others], update, created)
  BY <1>1 DEF IInv, QueuesFit, HasQueue, QueueNamed
<1> HIDE DEF y, own, others
<1>9. QueueName(x) \in Queues
  BY <1>1, <1>2, <1>3, <1>5
<1>10. /\ QueueOf(x) \in QueueRecords
       /\ ListFits(QueueOf(x), update, created)
       /\ CaughtFits(QueueOf(x), update, created, renderLevel)
       /\ (phase = "thrown" /\ x = WorkInProgress) \/ QueueOf(x).firstCapturedUpdate = NULL
  <2>1. CASE own # NULL
    BY <1>2, <1>3, <1>5, <1>8, <2>1
  <2>2. CASE own = NULL /\ others # NULL
    <3>1. others \in Queues /\ queue[others] \in QueueRecords /\ QueueOf(x) = CloneUpdateQueue(queue[others])
      BY <1>2, <1>3, <1>5, <2>2
    <3> QED
      BY <1>1, <1>8, <2>2, <3>1, CloneFits
  <2>3. CASE own = NULL /\ others = NULL
    <3> DEFINE s == fiber[x].memoizedState
    <3>1. s \in Seq(1 .. created) /\ QueueOf(x) = CreateUpdateQueue(s) /\ NormalsOf(update, created) = {}
      BY <1>5, <1>7, <1>8, <2>3
    <3> HIDE DEF s
    <3> QED
      BY <1>1, <3>1, NewQueueFits
  <2> QED
    BY <2>1, <2>2, <2>3
<1>11. HasQueue(x) => QueueOf(x) = QueueNamed(x) /\ QueueName(x) = fiber[x].updateQueue
  BY <1>4, <1>5 DEF QueueNamed, own
<1>12. ASSUME NEW z \in Fibers, Exists(z), QueueName(x) = QueueName(z)
       PROVE  QueueOf(x) = QueueOf(z)
  <2>1. CASE z = x
    BY <2>1
  <2>2. CASE z = y
    <3>1. own # NULL /\ others # NULL /\ own = others
      BY <1>1, <1>2, <1>3, <1>5, <1>6, <1>12, <2>2
    <3> QED
      BY <1>5, <1>6, <1>12, <2>2, <3>1
  <2> QED
    BY <1>1, <2>1, <2>2
<1> QED
  BY <1>4, <1>8, <1>9, <1>10, <1>11, <1>12

(* The update before the new one.                                          *)
LEMMA LastIsShared ==
  ASSUME IInv, NEW f \in Fibers, Exists(f), NEW x \in Fibers, Exists(x)
  PROVE  /\ LastOf(f) \in NormalsOf(update, created) \cup {NULL}
         /\ QueueOf(x).lastUpdate # NULL => LastOf(f) = QueueOf(x).lastUpdate
<1> DEFINE N == NormalsOf(update, created)
           y == Alternate(f)
<1>1. y \in Fibers /\ (\A z \in Fibers : z = f \/ z = y) /\ N \subseteq Nat
  BY DEF Alternate, Fibers, NormalsOf
<1>2. ASSUME NEW z \in Fibers, Exists(z)
      PROVE  /\ QueueOf(z).lastUpdate \in N \cup {NULL}
             /\ QueueOf(z).lastUpdate # NULL => \A u \in N : u <= QueueOf(z).lastUpdate
  <2>1. ListFits(QueueOf(z), update, created)
    BY <1>2, EnqueuedQueues
  <2> QED
    BY <2>1 DEF ListFits
<1>3. LastOf(f) = IF QueueOf(f).lastUpdate # NULL \/ ~Exists(y) THEN QueueOf(f).lastUpdate
                  ELSE QueueOf(y).lastUpdate
  BY DEF LastOf
<1> HIDE DEF N, y
<1>4. LastOf(f) \in N \cup {NULL}
  BY <1>1, <1>2, <1>3
<1>5. QueueOf(x).lastUpdate # NULL => LastOf(f) = QueueOf(x).lastUpdate
  <2>1. CASE x = f
    BY <1>3, <2>1
  <2>2. CASE x = y
    <3>1. CASE QueueOf(f).lastUpdate = NULL
      BY <1>3, <2>2, <3>1
    <3>2. CASE QueueOf(f).lastUpdate # NULL
      <4>1. QueueOf(f).lastUpdate \in N /\ \A u \in N : u <= QueueOf(f).lastUpdate
        BY <1>2, <3>2
      <4>2. QueueOf(x).lastUpdate # NULL =>
              QueueOf(x).lastUpdate \in N /\ \A u \in N : u <= QueueOf(x).lastUpdate
        BY <1>2
      <4>3. LastOf(f) = QueueOf(f).lastUpdate
        BY <1>3, <3>2
      <4>4. QueueOf(x).lastUpdate # NULL => QueueOf(f).lastUpdate = QueueOf(x).lastUpdate
        <5> SUFFICES ASSUME QueueOf(x).lastUpdate # NULL
                     PROVE  QueueOf(f).lastUpdate = QueueOf(x).lastUpdate
          OBVIOUS
        <5>1. /\ QueueOf(f).lastUpdate \in Nat /\ QueueOf(x).lastUpdate \in Nat
              /\ QueueOf(f).lastUpdate <= QueueOf(x).lastUpdate
              /\ QueueOf(x).lastUpdate <= QueueOf(f).lastUpdate
          BY <1>1, <4>1, <4>2
        <5> QED
          BY <5>1
      <4> QED
        BY <4>3, <4>4
    <3> QED
      BY <3>1, <3>2
  <2> QED
    BY <1>1, <2>1, <2>2
<1> QED
  BY <1>4, <1>5 DEF N

LEMMA SoonerIs ==
  ASSUME NEW t \in QueueTimes, NEW level \in UpdateLevels
  PROVE  /\ Sooner(t, level) \in QueueTimes
         /\ Sooner(t, level) \in 1 .. level
         /\ \A k \in Nat : t \in 1 .. k => Sooner(t, level) \in 1 .. k
  BY LevelsAssumption DEF Sooner, QueueTimes, NoLevel

(* The new update, on every queue there is.                                *)
LEMMA EnqueueKeeps ==
  ASSUME IInv, NEW f \in Fibers, NEW level \in UpdateLevels, NEW callback \in {"none", "set"},
         EnqueueUpdate(f, level, callback)
  PROVE  IInv'
<1> DEFINE u == created + 1
           new == CreateUpdate(level, FALSE, callback)
           holders == {x \in Fibers : Exists(x)}
           N == NormalsOf(update, created)
           Grown(x) == AppendUpdateToQueue(QueueOf(x), u)
           ListTail(x) == TailOf(update, created, QueueOf(x).firstUpdate)
           g(x) == [fiber[x] EXCEPT !.updateQueue = QueueName(x), !.expirationTime = Sooner(@, level)]
<1>1. /\ created < MaxUpdates /\ Exists(f) /\ created' = u
      /\ update' = [v \in Updates |-> IF v = u THEN new
                                      ELSE IF v = LastOf(f) THEN [update[v] EXCEPT !.next = u]
                                      ELSE update[v]]
      /\ queue' = [q \in Queues |-> IF \E x \in holders : QueueName(x) = q
                                    THEN Grown(CHOOSE x \in holders : QueueName(x) = q)
                                    ELSE queue[q]]
      /\ fiber' = [x \in Fibers |-> IF x \in holders THEN g(x) ELSE fiber[x]]
      /\ current' = current /\ paired' = paired /\ phase' = phase /\ renderLevel' = renderLevel
      /\ leftBehind' = leftBehind
  BY DEF EnqueueUpdate
<1>2. /\ created \in Nat /\ created <= MaxUpdates /\ created \in 0 .. MaxUpdates
      /\ 1 .. created \subseteq Updates /\ u \in Updates /\ QueueTypeOK /\ UpdatesFit
      /\ u \notin 1 .. created /\ (\A v \in 1 .. u : v = u \/ v \in 1 .. created) /\ u \in 1 .. u
      /\ NULL \notin Updates /\ (\A v \in 1 .. created : v \in 1 .. u) /\ NULL \notin Queues /\ u # NULL
      /\ N \subseteq 1 .. created
  <2>1. created \in 0 .. MaxUpdates /\ MaxUpdates \in Nat /\ created < MaxUpdates /\ QueueTypeOK /\ UpdatesFit
    BY <1>1, BoundsAssumption DEF IInv, QueueTypeOK
  <2>2. N \subseteq 1 .. created
    BY DEF NormalsOf
  <2> HIDE DEF N
  <2> QED
    BY <2>1, <2>2 DEF Queues, Updates, NULL
<1>3. /\ fiber \in [Fibers -> [updateQueue : Queues \cup {NULL}, expirationTime : QueueTimes,
                               memoizedState : States, callbackTag : BOOLEAN]]
      /\ \A v \in Updates : update[v] \in UpdateRecords
  BY <1>2, TypesAre
<1>4. \A x \in Fibers : Exists(x) =>
        /\ QueueName(x) \in Queues
        /\ QueueOf(x) \in QueueRecords
        /\ ListFits(QueueOf(x), update, created)
        /\ CaughtFits(QueueOf(x), update, created, renderLevel)
        /\ (phase = "thrown" /\ x = WorkInProgress) \/ QueueOf(x).firstCapturedUpdate = NULL
        /\ HasQueue(x) => QueueOf(x) = QueueNamed(x) /\ QueueName(x) = fiber[x].updateQueue
        /\ ~HasQueue(x) => N = {}
        /\ \A y \in Fibers : Exists(y) /\ QueueName(x) = QueueName(y) => QueueOf(x) = QueueOf(y)
  BY EnqueuedQueues
<1>5. /\ LastOf(f) \in N \cup {NULL}
      /\ \A x \in Fibers : Exists(x) /\ QueueOf(x).lastUpdate # NULL => LastOf(f) = QueueOf(x).lastUpdate
  BY <1>1, LastIsShared
<1>6. /\ new \in UpdateRecords /\ ~new.captured /\ new.next = NULL /\ new.level = level
  BY DEF CreateUpdate, Unused, UpdateRecords, QueueTimes, Names, NoLevel
<1> HIDE DEF new, u
<1>7. /\ update'[u] = new
      /\ \A v \in 1 .. created : /\ update'[v].captured = update[v].captured
                                 /\ update'[v].level = update[v].level
                                 /\ v # LastOf(f) => update'[v].next = update[v].next
                                 /\ v = LastOf(f) => update'[v].next = u
  BY <1>1, <1>2, <1>3 DEF UpdateRecords
<1>8. ASSUME NEW x \in Fibers, Exists(x)
      PROVE  /\ ListFits(Grown(x), update', u)
             /\ NormalsOf(update', u) = N \cup {u}
             /\ Grown(x).firstUpdate # NULL
             /\ TailOf(update', u, Grown(x).firstUpdate) = ListTail(x) \cup {u}
             /\ Grown(x) \in QueueRecords
             /\ Grown(x).firstCapturedUpdate = QueueOf(x).firstCapturedUpdate
             /\ Grown(x).lastCapturedUpdate = QueueOf(x).lastCapturedUpdate
  <2> DEFINE q == QueueOf(x)
  <2>1. q \in QueueRecords /\ ListFits(q, update, created)
    BY <1>4, <1>8
  <2>2. q.lastUpdate # NULL => LastOf(f) = q.lastUpdate /\ q.lastUpdate \in 1 .. created
    BY <1>2, <1>5, <1>8
  <2> HIDE DEF q
  <2>3. /\ \A v \in 1 .. created : update'[v].captured = update[v].captured
        /\ ~update'[created + 1].captured /\ update'[created + 1].next = NULL
    BY <1>6, <1>7 DEF u
  <2>4. q.lastUpdate # NULL => update'[q.lastUpdate].next = created + 1
    BY <1>7, <2>2 DEF u
  <2>5. \A v \in NormalsOf(update, created) :
          v # q.lastUpdate /\ q.lastUpdate # NULL => update'[v].next = update[v].next
    BY <1>2, <1>7, <2>2
  <2>6. /\ ListFits(AppendUpdateToQueue(q, created + 1), update', created + 1)
        /\ NormalsOf(update', created + 1) = NormalsOf(update, created) \cup {created + 1}
        /\ AppendUpdateToQueue(q, created + 1).firstUpdate # NULL
        /\ TailOf(update', created + 1, AppendUpdateToQueue(q, created + 1).firstUpdate) =
              TailOf(update, created, q.firstUpdate) \cup {created + 1}
    <3>1. created \in 0 .. MaxUpdates /\ created < MaxUpdates
      BY <1>1, <1>2
    <3> QED
      BY ONLY <3>1, <2>1, <2>3, <2>4, <2>5, AppendFits
  <2>7. /\ AppendUpdateToQueue(q, u) \in QueueRecords
        /\ AppendUpdateToQueue(q, u).firstCapturedUpdate = q.firstCapturedUpdate
        /\ AppendUpdateToQueue(q, u).lastCapturedUpdate = q.lastCapturedUpdate
    BY <1>2, <2>1 DEF AppendUpdateToQueue, QueueRecords, Names
  <2> QED
    BY <2>6, <2>7 DEF q, u
<1> HIDE DEF Grown, g
<1>9. ASSUME NEW x \in Fibers, Exists(x)
      PROVE  queue'[QueueName(x)] = Grown(x)
  <2> DEFINE y == CHOOSE y \in holders : QueueName(y) = QueueName(x)
  <2>1. x \in holders /\ QueueName(x) \in Queues
    BY <1>4, <1>9
  <2>2. y \in holders /\ QueueName(y) = QueueName(x)
    BY <2>1
  <2>3. queue'[QueueName(x)] = Grown(y)
    BY <1>1, <2>1
  <2> HIDE DEF y
  <2>4. QueueOf(x) = QueueOf(y)
    BY <1>4, <1>9, <2>2
  <2> QED
    BY <2>3, <2>4 DEF Grown
<1>10. ASSUME NEW x \in Fibers, Exists(x)
       PROVE  /\ fiber'[x] = g(x)
              /\ g(x).updateQueue = QueueName(x)
              /\ g(x).expirationTime = Sooner(fiber[x].expirationTime, level)
              /\ g(x).memoizedState = fiber[x].memoizedState
              /\ g(x) \in [updateQueue : Queues \cup {NULL}, expirationTime : QueueTimes,
                           memoizedState : States, callbackTag : BOOLEAN]
  <2>1. fiber'[x] = g(x)
    BY <1>1, <1>10
  <2>2. QueueName(x) \in Queues /\ fiber[x].expirationTime \in QueueTimes
    BY <1>3, <1>4, <1>10
  <2>3. Sooner(fiber[x].expirationTime, level) \in QueueTimes
    BY <2>2, SoonerIs
  <2>4. fiber[x] \in [updateQueue : Queues \cup {NULL}, expirationTime : QueueTimes,
                      memoizedState : States, callbackTag : BOOLEAN]
    BY <1>3
  <2> QED
    BY <2>1, <2>2, <2>3, <2>4 DEF g
<1>11. ASSUME NEW x \in Fibers, ~Exists(x)
       PROVE  fiber'[x] = fiber[x] /\ fiber'[x].updateQueue = NULL
  <2>1. fiber'[x] = fiber[x]
    BY <1>1, <1>11
  <2>2. ~HasQueue(x)
    BY <1>11 DEF IInv, QueuesFit
  <2> QED
    BY <2>1, <2>2 DEF HasQueue
<1>12. /\ WorkInProgress' = WorkInProgress
       /\ \A x : Exists(x)' <=> Exists(x)
  BY <1>1 DEF WorkInProgress, Alternate, Exists
<1>13. \A k : CaughtAt(update', u, k) = CaughtAt(update, created, k)
  <2>1. \A v \in 1 .. created : update'[v].captured = update[v].captured /\ update'[v].level = update[v].level
    BY <1>7
  <2>2. ~update'[u].captured
    BY <1>6, <1>7
  <2> QED
    BY <1>2, <2>1, <2>2 DEF CaughtAt
<1>14. QueueTypeOK'
  <2>1. update' \in [Updates -> UpdateRecords]
    <3> SUFFICES ASSUME NEW v \in Updates PROVE update'[v] \in UpdateRecords
      BY <1>1
    <3>1. v = u => update'[v] = new
      BY <1>7
    <3>2. v # u => update'[v] = [update[v] EXCEPT !.next = u] \/ update'[v] = update[v]
      BY <1>1
    <3>3. [update[v] EXCEPT !.next = u] \in UpdateRecords
      BY <1>2, <1>3 DEF UpdateRecords, Names
    <3> QED
      BY <1>3, <1>6, <3>1, <3>2, <3>3
  <2>2. queue' \in [Queues -> QueueRecords]
    <3> SUFFICES ASSUME NEW z \in Queues PROVE queue'[z] \in QueueRecords
      BY <1>1
    <3>1. CASE \E x \in holders : QueueName(x) = z
      <4>1. PICK x \in holders : QueueName(x) = z
        BY <3>1
      <4> QED
        BY <1>8, <1>9, <4>1
    <3>2. CASE ~(\E x \in holders : QueueName(x) = z)
      BY <1>1, <1>2, <3>2, TypesAre
    <3> QED
      BY <3>1, <3>2
  <2>3. fiber' \in [Fibers -> [updateQueue : Queues \cup {NULL}, expirationTime : QueueTimes,
                               memoizedState : States, callbackTag : BOOLEAN]]
    <3> SUFFICES ASSUME NEW x \in Fibers
                 PROVE  fiber'[x] \in [updateQueue : Queues \cup {NULL}, expirationTime : QueueTimes,
                                       memoizedState : States, callbackTag : BOOLEAN]
      BY <1>1
    <3> QED
      BY <1>3, <1>10, <1>11
  <2>4. created' \in 0 .. MaxUpdates
    BY <1>1, <1>2, BoundsAssumption DEF u
  <2> QED
    BY <1>1, <1>2, <2>1, <2>2, <2>3, <2>4 DEF QueueTypeOK, UpdateRecords, QueueRecords
<1>15. UpdatesFit'
  <2> SUFFICES ASSUME NEW v \in 1 .. u
               PROVE  /\ update'[v].level \in UpdateLevels
                      /\ update'[v].captured =>
                           update'[v].next = NULL \/ update'[v].next \in CaughtAt(update', u, update'[v].level)
    BY <1>1 DEF UpdatesFit
  <2>1. CASE v = u
    BY <1>6, <1>7, <2>1
  <2>2. CASE v # u
    <3>1. v \in 1 .. created
      BY <1>2, <2>2
    <3>2. /\ update[v].level \in UpdateLevels
          /\ update[v].captured => update[v].next = NULL \/ update[v].next \in CaughtAt(update, created, update[v].level)
      BY <1>2, <3>1 DEF UpdatesFit
    <3>3. update[v].captured => v # LastOf(f)
      BY <1>2, <1>5, <3>1 DEF N, NormalsOf
    <3> QED
      BY <1>7, <1>13, <3>1, <3>2, <3>3
  <2> QED
    BY <2>1, <2>2
<1>16. QueuesFit'
  <2> SUFFICES ASSUME NEW x \in Fibers
               PROVE  /\ fiber'[x].updateQueue # NULL =>
                           /\ Exists(x)
                           /\ ListFits(queue'[fiber'[x].updateQueue], update', u)
                           /\ CaughtFits(queue'[fiber'[x].updateQueue], update', u, renderLevel)
                           /\ \/ phase = "thrown" /\ x = WorkInProgress
                              \/ queue'[fiber'[x].updateQueue].firstCapturedUpdate = NULL
                      /\ Exists(x) => fiber'[x].updateQueue # NULL
    BY <1>1, <1>12 DEF QueuesFit, HasQueue, QueueNamed
  <2>1. CASE Exists(x)
    <3>1. fiber'[x].updateQueue = QueueName(x) /\ queue'[QueueName(x)] = Grown(x) /\ QueueName(x) # NULL
      BY <1>2, <1>4, <1>9, <1>10, <2>1
    <3>2. CaughtFits(Grown(x), update', u, renderLevel)
      <4>1. CaughtFits(QueueOf(x), update, created, renderLevel)
        BY <1>4, <2>1
      <4>2. /\ Grown(x).firstCapturedUpdate = QueueOf(x).firstCapturedUpdate
            /\ Grown(x).lastCapturedUpdate = QueueOf(x).lastCapturedUpdate
        BY <1>8, <2>1
      <4> QED
        BY <1>13, <4>1, <4>2 DEF CaughtFits
    <3> QED
      BY <1>4, <1>8, <2>1, <3>1, <3>2
  <2>2. CASE ~Exists(x)
    BY <1>11, <2>2
  <2> QED
    BY <2>1, <2>2
<1>17. \A x \in Fibers : Exists(x) /\ ~HasQueue(x) => ListTail(x) = {}
  BY <1>4 DEF TailOf
<1>18. FibersFit'
  <2> SUFFICES ASSUME NEW x \in Fibers
               PROVE  /\ fiber'[x].memoizedState \in Seq(1 .. u)
                      /\ fiber'[x].updateQueue # NULL /\ (x = current \/ phase \in {"created", "begun", "begunAgain"}) =>
                           FiberFits(fiber'[x], queue'[fiber'[x].updateQueue], update', u)
    BY <1>1 DEF FibersFit, HasQueue, QueueNamed
  <2>1. fiber'[x].memoizedState = fiber[x].memoizedState
    BY <1>10, <1>11
  <2>2. fiber'[x].memoizedState \in Seq(1 .. u)
    <3>1. fiber[x].memoizedState \in Seq(1 .. created)
      BY DEF IInv, FibersFit
    <3>2. 1 .. created \subseteq 1 .. u
      BY <1>2
    <3> QED
      BY <2>1, <3>1, <3>2, SeqMonotonic
  <2>3. ASSUME Exists(x), x = current \/ phase \in {"created", "begun", "begunAgain"}
        PROVE  FiberFits(fiber'[x], Grown(x), update', u)
    <3> SUFFICES ASSUME NEW v \in ListTail(x) \cup {u}
                 PROVE  \/ \E i \in 1 .. Len(fiber'[x].memoizedState) : fiber'[x].memoizedState[i] = v
                        \/ fiber'[x].expirationTime \in 1 .. update'[v].level
      BY <1>8, <2>3 DEF FiberFits
    <3>0. fiber'[x].expirationTime = Sooner(fiber[x].expirationTime, level) /\ fiber[x].expirationTime \in QueueTimes
      BY <1>3, <1>10, <2>3
    <3>1. CASE v = u
      BY <1>6, <1>7, <3>0, <3>1, SoonerIs
    <3>2. CASE v \in ListTail(x)
      <4>1. HasQueue(x) /\ QueueOf(x) = QueueNamed(x)
        BY <1>4, <1>17, <2>3, <3>2
      <4>2. FiberFits(fiber[x], QueueOf(x), update, created)
        BY <2>3, <4>1 DEF IInv, FibersFit
      <4>3. v \in 1 .. created /\ update'[v].level = update[v].level /\ update[v].level \in Nat
        <5>1. v \in 1 .. created
          BY <3>2 DEF TailOf, NormalsOf
        <5>2. update[v].level \in UpdateLevels
          BY <1>2, <5>1 DEF UpdatesFit
        <5> QED
          BY <1>7, <5>1, <5>2, LevelsAssumption
      <4>4. \/ \E i \in 1 .. Len(fiber[x].memoizedState) : fiber[x].memoizedState[i] = v
            \/ fiber[x].expirationTime \in 1 .. update[v].level
        BY <3>2, <4>2 DEF FiberFits
      <4>5. fiber[x].expirationTime \in 1 .. update[v].level =>
              Sooner(fiber[x].expirationTime, level) \in 1 .. update[v].level
        BY <3>0, <4>3, SoonerIs
      <4> QED
        BY <2>1, <3>0, <4>3, <4>4, <4>5
    <3> QED
      BY <3>1, <3>2
  <2>4. Exists(x) => fiber'[x].updateQueue = QueueName(x) /\ queue'[QueueName(x)] = Grown(x)
    BY <1>9, <1>10
  <2> QED
    BY <1>11, <2>2, <2>3, <2>4
<1>19. RenderFits'
  <2> DEFINE W == WorkInProgress
  <2> SUFFICES ASSUME Rendering
               PROVE  /\ paired' /\ renderLevel' \in UpdateLevels
                      /\ fiber'[W].updateQueue # NULL
                      /\ TailOf(update', u, queue'[fiber'[W].updateQueue].firstUpdate)
                           \subseteq TailOf(update', u, queue'[fiber'[current].updateQueue].firstUpdate)
    BY <1>1, <1>12 DEF RenderFits, Rendering, HasQueue, QueueNamed
  <2>1. /\ paired /\ renderLevel \in UpdateLevels
        /\ HasQueue(current) =>
             /\ HasQueue(W)
             /\ TailOf(update, created, QueueNamed(W).firstUpdate)
                  \subseteq TailOf(update, created, QueueNamed(current).firstUpdate)
    BY DEF IInv, RenderFits
  <2>2. Exists(W) /\ Exists(current) /\ W \in Fibers /\ current \in Fibers
    BY <1>2, <2>1 DEF Exists, WorkInProgress, Alternate, Fibers, QueueTypeOK
  <2> HIDE DEF W
  <2>3. ListTail(W) \subseteq ListTail(current)
    <3>1. CASE HasQueue(current)
      BY <1>4, <2>1, <2>2, <3>1
    <3>2. CASE ~HasQueue(current)
      <4>1. N = {}
        BY <1>4, <2>2, <3>2
      <4> QED
        BY <4>1 DEF TailOf
    <3> QED
      BY <3>1, <3>2
  <2>4. /\ fiber'[W].updateQueue = QueueName(W) /\ queue'[QueueName(W)] = Grown(W) /\ QueueName(W) # NULL
        /\ fiber'[current].updateQueue = QueueName(current) /\ queue'[QueueName(current)] = Grown(current)
    BY <1>2, <1>4, <1>9, <1>10, <2>2
  <2>5. /\ TailOf(update', u, Grown(W).firstUpdate) = ListTail(W) \cup {u}
        /\ TailOf(update', u, Grown(current).firstUpdate) = ListTail(current) \cup {u}
    BY <1>8, <2>2
  <2> QED
    BY <1>1, <2>1, <2>3, <2>4, <2>5
<1> QED
  BY <1>14, <1>15, <1>16, <1>18, <1>19 DEF IInv

-----------------------------------------------------------------------------
(* commitUpdateQueue leaves the lists of updates as they are: no captured  *)
(* update is left for them to be joined with.                              *)
LEMMA CommitKeeps ==
  ASSUME IInv, CommitRoot
  PROVE  IInv'
<1> DEFINE W == WorkInProgress
           name == fiber[W].updateQueue
           q == queue[name]
<1>1. /\ phase \in {"begun", "begunAgain"} /\ phase' \in {"idle", "hung"} /\ current' = W
      /\ created' = created /\ fiber' = fiber /\ paired' = paired /\ renderLevel' = renderLevel
      /\ (name # NULL /\ CommitUpdateQueue) \/ UNCHANGED <<update, queue, leftBehind>>
  BY DEF CommitRoot
<1>2. /\ W \in Fibers /\ current \in Fibers /\ W # current /\ \A f \in Fibers : f = W \/ f = current
      /\ created \in 0 .. MaxUpdates /\ 1 .. created \subseteq Updates /\ QueueTypeOK /\ UpdatesFit
      /\ name \in Queues \cup {NULL}
  BY BoundsAssumption DEF IInv, QueueTypeOK, WorkInProgress, Alternate, Fibers, Updates
<1>3. /\ paired /\ \A f \in Fibers : HasQueue(f) =>
                     /\ ListFits(QueueNamed(f), update, created)
                     /\ CaughtFits(QueueNamed(f), update, created, renderLevel)
                     /\ QueueNamed(f).firstCapturedUpdate = NULL
      /\ \A f \in Fibers : ~HasQueue(f) => NormalsOf(update, created) = {}
  BY <1>1 DEF IInv, QueuesFit, RenderFits, Rendering, Exists
<1>4. \A v \in Updates : update[v] \in UpdateRecords
  BY <1>2, TypesAre
<1>5. /\ update' \in [Updates -> UpdateRecords] /\ queue' \in [Queues -> QueueRecords]
      /\ leftBehind' \subseteq Updates
      /\ \A u \in 1 .. created : /\ update'[u].captured = update[u].captured
                                 /\ update'[u].next = update[u].next
                                 /\ update'[u].level = update[u].level
      /\ \A x \in Queues : (\E f \in Fibers : HasQueue(f) /\ x = fiber[f].updateQueue) =>
           /\ queue'[x].firstUpdate = queue[x].firstUpdate
           /\ queue'[x].lastUpdate = queue[x].lastUpdate
           /\ queue'[x].baseState = queue[x].baseState
           /\ queue'[x].firstCapturedUpdate = NULL /\ queue'[x].lastCapturedUpdate = NULL
  <2>1. CASE UNCHANGED <<update, queue, leftBehind>>
    <3>1. \A f \in Fibers : HasQueue(f) =>
            /\ queue[fiber[f].updateQueue].firstCapturedUpdate = NULL
            /\ queue[fiber[f].updateQueue].lastCapturedUpdate = NULL
      BY <1>3 DEF QueueNamed, CaughtFits
    <3> QED
      BY <1>2, <2>1, <3>1, TypesAre DEF QueueTypeOK
  <2>2. CASE name # NULL /\ CommitUpdateQueue
    <3> DEFINE effects == Chain(NextEffectOf, q.firstEffect)
               capturedEffects == IF IsFinite(NextEffectOf, q.firstEffect)
                                  THEN Chain(NextEffectOf, q.firstCapturedEffect) ELSE <<>>
               callbacks == WithCallback(effects \o capturedEffects)
               joined(v) == q.firstCapturedUpdate # NULL /\ v = q.lastUpdate
    <3>0. PICK ran \in 1 .. Len(callbacks) \cup {Len(callbacks)} :
            /\ update' = [v \in Updates |->
                 [update[v] EXCEPT
                   !.next = IF joined(v) THEN q.firstCapturedUpdate ELSE @,
                   !.callback = IF v \in ToSet(SubSeq(callbacks, 1, ran)) THEN "called" ELSE @]]
            /\ leftBehind' = leftBehind \cup ToSet(SubSeq(callbacks, ran + 1, Len(callbacks)))
            /\ queue' = [queue EXCEPT ![name] =
                 IF ran < Len(callbacks) THEN JoinCaptured(q)
                 ELSE [JoinCaptured(q) EXCEPT !.firstEffect = NULL, !.lastEffect = NULL,
                                              !.firstCapturedEffect = NULL,
                                              !.lastCapturedEffect = NULL]]
      BY <2>2 DEF CommitUpdateQueue
    <3>1. /\ name \in Queues /\ q \in QueueRecords
          /\ q.firstCapturedUpdate = NULL /\ q.lastCapturedUpdate = NULL
      BY <1>2, <1>3, <2>2, TypesAre DEF HasQueue, QueueNamed, CaughtFits
    <3>2. callbacks \in Seq(Updates)
      <4>1. /\ NULL \notin Updates /\ Names = Updates \cup {NULL}
            /\ \A u \in Updates : NextEffectOf[u] \in Updates \cup {NULL}
        BY <1>4 DEF NextEffectOf, UpdateRecords, Names, Updates, NULL
      <4>2. q.firstEffect \in Updates \cup {NULL} /\ q.firstCapturedEffect \in Updates \cup {NULL}
        BY <3>1, <4>1 DEF QueueRecords
      <4>3. effects \in Seq(Updates) /\ Chain(NextEffectOf, q.firstCapturedEffect) \in Seq(Updates)
        BY <4>1, <4>2, ChainStaysIn
      <4>4. effects \o capturedEffects \in Seq(Updates)
        <5>1. capturedEffects \in Seq(Updates)
          BY <4>3
        <5> HIDE DEF effects, capturedEffects
        <5> QED
          BY <4>3, <5>1, ConcatProperties
      <4> DEFINE S == {u \in Updates : update[u].callback = "set"}
                 all == effects \o capturedEffects
      <4>5. callbacks = Only(all, S)
        BY DEF WithCallback
      <4> HIDE DEF callbacks, effects, capturedEffects, S, all
      <4>6. all \in Seq(Updates)
        BY <4>4 DEF all
      <4> QED
        BY <4>5, <4>6, OnlyHas
    <3>3. \A v \in Updates : ~joined(v)
      BY <3>1
    <3> HIDE DEF callbacks, joined
    <3>4. \A v \in Updates : /\ update'[v].captured = update[v].captured
                             /\ update'[v].next = update[v].next
                             /\ update'[v].level = update[v].level
                             /\ update'[v] \in UpdateRecords
      BY <1>4, <3>0, <3>3 DEF UpdateRecords
    <3>5. update' \in [Updates -> UpdateRecords]
      BY <3>0, <3>4
    <3>6. leftBehind' \subseteq Updates
      <4>1. ran \in Nat /\ Len(callbacks) \in Nat
        <5>1. Len(callbacks) \in Nat
          BY <3>2, LenProperties
        <5>2. ran \in 1 .. Len(callbacks) \cup {Len(callbacks)}
          OBVIOUS
        <5> QED
          BY ONLY <5>1, <5>2
      <4>2. \A i \in (ran + 1) .. Len(callbacks) : callbacks[i] \in Updates
        BY <3>2, <4>1
      <4>3. SubSeq(callbacks, ran + 1, Len(callbacks)) \in Seq(Updates)
        BY <3>2, <4>1, <4>2, SubSeqProperties
      <4>4. ToSet(SubSeq(callbacks, ran + 1, Len(callbacks))) \subseteq Updates
        <5> DEFINE s == SubSeq(callbacks, ran + 1, Len(callbacks))
        <5>1. s \in Seq(Updates)
          BY <4>3
        <5> HIDE DEF s
        <5>2. ToSet(s) \subseteq Updates
          BY <5>1 DEF ToSet
        <5> QED
          BY <5>2 DEF s
      <4>5. leftBehind \subseteq Updates
        BY <1>2 DEF QueueTypeOK
      <4> QED
        BY <3>0, <4>4, <4>5
    <3> DEFINE p == queue'[name]
    <3>7. /\ p = JoinCaptured(q) \/ p = [JoinCaptured(q) EXCEPT !.firstEffect = NULL, !.lastEffect = NULL,
                                              !.firstCapturedEffect = NULL,
                                              !.lastCapturedEffect = NULL]
          /\ queue' = [queue EXCEPT ![name] = p]
          /\ \A x \in Queues : x # name => queue'[x] = queue[x]
      BY <1>2, <3>0, <3>1 DEF QueueTypeOK
    <3> HIDE DEF p
    <3>8. /\ p \in QueueRecords
          /\ p.firstUpdate = q.firstUpdate /\ p.lastUpdate = q.lastUpdate /\ p.baseState = q.baseState
          /\ p.firstCapturedUpdate = NULL /\ p.lastCapturedUpdate = NULL
      BY <3>1, <3>7 DEF JoinCaptured, QueueRecords, Names
    <3>9. queue' \in [Queues -> QueueRecords]
      BY <1>2, <3>1, <3>7, <3>8, TypesAre
    <3>10. \A f \in Fibers : HasQueue(f) =>
             /\ queue[fiber[f].updateQueue].firstCapturedUpdate = NULL
             /\ queue[fiber[f].updateQueue].lastCapturedUpdate = NULL
      BY <1>3 DEF QueueNamed, CaughtFits
    <3> QED
      BY <1>2, <3>4, <3>5, <3>6, <3>7, <3>8, <3>9, <3>10 DEF p
  <2> QED
    BY <1>1, <2>1, <2>2
<1> HIDE DEF W, name, q
<1>6. /\ NormalsOf(update', created) = NormalsOf(update, created)
      /\ \A first : TailOf(update', created, first) = TailOf(update, created, first)
      /\ \A level : CaughtAt(update', created, level) = CaughtAt(update, created, level)
      /\ \A x : ListFits(x, update, created) => ListFits(x, update', created)
      /\ \A f, x : FiberFits(f, x, update, created) => FiberFits(f, x, update', created)
  BY <1>2, <1>5, SameLinksFit
<1>7. ASSUME NEW f \in Fibers, HasQueue(f)
      PROVE  /\ fiber[f].updateQueue \in Queues
             /\ queue'[fiber[f].updateQueue].firstUpdate = QueueNamed(f).firstUpdate
             /\ queue'[fiber[f].updateQueue].lastUpdate = QueueNamed(f).lastUpdate
             /\ queue'[fiber[f].updateQueue].baseState = QueueNamed(f).baseState
             /\ queue'[fiber[f].updateQueue].firstCapturedUpdate = NULL
             /\ queue'[fiber[f].updateQueue].lastCapturedUpdate = NULL
  <2>1. fiber[f].updateQueue \in Queues
    BY <1>2, <1>7 DEF HasQueue, QueueTypeOK
  <2> QED
    BY <1>5, <1>7, <2>1 DEF QueueNamed
<1>8. QueueTypeOK'
  <2>1. /\ update' \in [Updates -> UpdateRecords] /\ queue' \in [Queues -> QueueRecords]
        /\ leftBehind' \subseteq Updates
    BY <1>5
  <2> QED
    BY <1>1, <1>2, <2>1 DEF QueueTypeOK, UpdateRecords, QueueRecords
<1>9. UpdatesFit'
  BY <1>1, <1>2, <1>5, <1>6 DEF UpdatesFit
<1>10. QueuesFit'
  <2> SUFFICES ASSUME NEW f \in Fibers
               PROVE  /\ fiber[f].updateQueue # NULL =>
                           /\ ListFits(queue'[fiber[f].updateQueue], update', created)
                           /\ CaughtFits(queue'[fiber[f].updateQueue], update', created, renderLevel)
                           /\ queue'[fiber[f].updateQueue].firstCapturedUpdate = NULL
                      /\ fiber[f].updateQueue = NULL => NormalsOf(update', created) = {}
    BY <1>1, <1>3 DEF QueuesFit, HasQueue, Exists, QueueNamed
  <2>1. CASE fiber[f].updateQueue = NULL
    BY <1>3, <1>6, <2>1 DEF HasQueue
  <2>2. CASE fiber[f].updateQueue # NULL
    <3>1. HasQueue(f) /\ ListFits(QueueNamed(f), update, created)
      BY <1>3, <2>2 DEF HasQueue
    <3>2. ListFits(QueueNamed(f), update', created)
      BY <1>6, <3>1
    <3>3. ListFits(queue'[fiber[f].updateQueue], update', created)
      BY <1>7, <3>1, <3>2 DEF ListFits
    <3>4. CaughtFits(queue'[fiber[f].updateQueue], update', created, renderLevel)
      BY <1>7, <3>1 DEF CaughtFits
    <3> QED
      BY <1>7, <2>2, <3>1, <3>3, <3>4
  <2> QED
    BY <2>1, <2>2
<1>11. FibersFit'
  <2> SUFFICES ASSUME NEW f \in Fibers
               PROVE  /\ fiber[f].memoizedState \in Seq(1 .. created)
                      /\ HasQueue(f) => FiberFits(fiber[f], queue'[fiber[f].updateQueue], update', created)
    BY <1>1 DEF FibersFit, HasQueue, QueueNamed
  <2>1. /\ fiber[f].memoizedState \in Seq(1 .. created)
        /\ HasQueue(f) => FiberFits(fiber[f], QueueNamed(f), update, created)
    BY <1>1 DEF IInv, FibersFit
  <2>2. HasQueue(f) => FiberFits(fiber[f], QueueNamed(f), update', created)
    BY <1>6, <2>1
  <2>3. HasQueue(f) => FiberFits(fiber[f], queue'[fiber[f].updateQueue], update', created)
    BY <1>7, <2>2 DEF FiberFits
  <2> QED
    BY <2>1, <2>3
<1>12. RenderFits'
  BY <1>1 DEF RenderFits, Rendering
<1> QED
  BY <1>8, <1>9, <1>10, <1>11, <1>12 DEF IInv

LEMMA InitFits ==
  QueueInit => IInv
<1> SUFFICES ASSUME QueueInit PROVE IInv
  OBVIOUS
<1>1. /\ update = [u \in Updates |-> Unused] /\ created = 0
      /\ queue = [q \in Queues |-> CreateUpdateQueue(<<>>)]
      /\ fiber = [f \in Fibers |-> [updateQueue |-> NULL, expirationTime |-> NoLevel,
                                    memoizedState |-> <<>>, callbackTag |-> FALSE]]
      /\ current = 1 /\ paired = FALSE /\ phase = "idle" /\ renderLevel = NoLevel /\ leftBehind = {}
  BY DEF QueueInit
<1>2. /\ <<>> \in States /\ NULL \in Names /\ NoLevel \in QueueTimes /\ <<>> \in Seq(1 .. 0)
      /\ current \in Fibers /\ created \in 0 .. MaxUpdates
  BY <1>1, BoundsAssumption DEF States, Names, QueueTimes, Fibers
<1>3. CreateUpdateQueue(<<>>) \in QueueRecords /\ Unused \in UpdateRecords
  BY <1>2 DEF CreateUpdateQueue, QueueRecords, Unused, UpdateRecords
<1>4. QueueTypeOK
  BY <1>1, <1>2, <1>3, TypesAre
<1>5. \A f \in Fibers : ~HasQueue(f) /\ fiber[f].memoizedState = <<>>
  BY <1>1 DEF HasQueue
<1>6. NormalsOf(update, created) = {}
  BY <1>1 DEF NormalsOf
<1>7. UpdatesFit
  BY <1>1 DEF UpdatesFit
<1>8. QueuesFit
  BY <1>5, <1>6 DEF QueuesFit
<1>9. FibersFit
  BY <1>1, <1>2, <1>5 DEF FibersFit
<1>10. RenderFits
  BY <1>1 DEF RenderFits, Rendering
<1> QED
  BY <1>4, <1>7, <1>8, <1>9, <1>10 DEF IInv

LEMMA StepKeeps ==
  IInv /\ [QueueNext]_queueVars => IInv'
<1> SUFFICES ASSUME IInv, [QueueNext]_queueVars PROVE IInv'
  OBVIOUS
<1>1. CASE \E f \in Fibers, level \in UpdateLevels, callback \in {"none", "set"} :
             EnqueueUpdate(f, level, callback)
  BY <1>1, EnqueueKeeps
<1>2. CASE \E level \in UpdateLevels : CreateWorkInProgress(level)
  BY <1>2, CreateKeeps
<1>3. CASE BailOut
  BY <1>3, BailOutKeeps
<1>4. CASE BeginWork
  BY <1>4, BeginWorkKeeps
<1>5. CASE \E callback \in {"none", "set"} : ThrowException(callback)
  BY <1>5, ThrowKeeps
<1>6. CASE BeginAgain
  BY <1>6, BeginAgainKeeps
<1>7. CASE CommitRoot
  BY <1>7, CommitKeeps
<1>8. CASE UNCHANGED queueVars
  <2>1. UNCHANGED <<update, created, queue, fiber, current, paired, phase, renderLevel, leftBehind>>
    BY <1>8 DEF queueVars
  <2>2. QueueTypeOK' /\ UpdatesFit'
    BY <2>1 DEF IInv, QueueTypeOK, UpdatesFit
  <2>3. QueuesFit'
    BY <2>1 DEF IInv, QueuesFit, HasQueue, QueueNamed, Exists, WorkInProgress
  <2>4. FibersFit'
    BY <2>1 DEF IInv, FibersFit, HasQueue, QueueNamed
  <2>5. RenderFits'
    BY <2>1 DEF IInv, RenderFits, Rendering, HasQueue, QueueNamed, WorkInProgress, Alternate
  <2> QED
    BY <2>2, <2>3, <2>4, <2>5 DEF IInv
<1> QED
  BY <1>1, <1>2, <1>3, <1>4, <1>5, <1>6, <1>7, <1>8 DEF QueueNext

-----------------------------------------------------------------------------
(* What follows from it.                                                   *)
LEMMA SortedSuffix ==
  ASSUME NEW s, NEW T, Sorted(s, T), NEW m \in 1 .. Len(s)
  PROVE  Sorted(SubSeq(s, m, Len(s)), {u \in T : s[m] <= u})
<1> DEFINE p == SubSeq(s, m, Len(s))
           S == {u \in T : s[m] <= u}
<1>1. s \in Seq(Nat) /\ Len(s) \in Nat /\ Ascends(s) /\ m \in Nat /\ 1 <= m /\ m <= Len(s)
  BY DEF Sorted
<1>2. p \in Seq(Nat) /\ Len(p) = Len(s) - m + 1 /\ \A i \in 1 .. (Len(s) - m + 1) : p[i] = s[m + i - 1]
  <2>1. \A i \in m .. Len(s) : s[i] \in Nat
    BY <1>1
  <2> QED
    BY <1>1, <2>1, SubSeqProperties
<1> HIDE DEF p
<1>3. Ascends(p)
  <2> SUFFICES ASSUME NEW i \in 1 .. Len(p), NEW j \in 1 .. Len(p), i < j PROVE p[i] < p[j]
    BY DEF Ascends
  <2>1. /\ m + i - 1 \in 1 .. Len(s) /\ m + j - 1 \in 1 .. Len(s) /\ m + i - 1 < m + j - 1
        /\ p[i] = s[m + i - 1] /\ p[j] = s[m + j - 1]
    BY <1>1, <1>2
  <2> QED
    BY <1>1, <2>1 DEF Ascends
<1>4. ASSUME NEW v \in S PROVE \E i \in 1 .. Len(p) : p[i] = v
  <2>1. PICK j \in 1 .. Len(s) : s[j] = v
    BY DEF Sorted
  <2>2. ~(j < m)
    <3> SUFFICES ASSUME j < m PROVE FALSE
      OBVIOUS
    <3>1. s[j] < s[m] /\ s[j] \in Nat /\ s[m] \in Nat
      BY <1>1 DEF Ascends
    <3> QED
      BY <2>1, <3>1
  <2>3. j - m + 1 \in 1 .. Len(p) /\ m + (j - m + 1) - 1 = j
    BY <1>1, <1>2, <2>2
  <2> QED
    BY <1>2, <2>1, <2>3
<1>5. ASSUME NEW i \in 1 .. Len(p) PROVE p[i] \in S
  <2>1. m + i - 1 \in 1 .. Len(s) /\ p[i] = s[m + i - 1]
    BY <1>1, <1>2
  <2>2. s[m + i - 1] \in T
    BY <2>1 DEF Sorted
  <2>3. m + i - 1 = m \/ m < m + i - 1
    BY <1>1, <1>2
  <2>4. s[m + i - 1] \in Nat /\ s[m] \in Nat /\ (m < m + i - 1 => s[m] < s[m + i - 1])
    BY <1>1, <2>1 DEF Ascends
  <2> QED
    BY <2>1, <2>2, <2>3, <2>4
<1>6. \A v : v \in S <=> \E i \in 1 .. Len(p) : p[i] = v
  BY <1>4, <1>5
<1> QED
  BY <1>2, <1>3, <1>6 DEF Sorted, p

LEMMA SortedIsEmpty ==
  ASSUME NEW s
  PROVE  Sorted(s, {}) => s = <<>>
<1> SUFFICES ASSUME Sorted(s, {}) PROVE s = <<>>
  OBVIOUS
<1>1. s \in Seq(Nat) /\ Len(s) \in Nat /\ \A i \in 1 .. Len(s) : s[i] \in {}
  BY LenProperties DEF Sorted
<1>2. Len(s) = 0
  BY <1>1
<1> QED
  BY <1>1, <1>2

(* The last update of a queue is where its list ends.                      *)
LEMMA LastIsLast ==
  ASSUME QueueTypeOK, NEW q, ListFits(q, update, created), NEW s,
         Sorted(s, TailOf(update, created, q.firstUpdate))
  PROVE  q.lastUpdate = IF s = <<>> THEN NULL ELSE Last(s)
<1> DEFINE N == NormalsOf(update, created)
           T == TailOf(update, created, q.firstUpdate)
<1>1. /\ q.firstUpdate \in N \cup {NULL}
      /\ q.firstUpdate = NULL => q.lastUpdate = NULL
      /\ q.firstUpdate # NULL => q.lastUpdate \in N /\ \A u \in N : u <= q.lastUpdate
  BY DEF ListFits
<1>2. N \subseteq Nat /\ T = {u \in N : q.firstUpdate # NULL /\ q.firstUpdate <= u}
  BY DEF NormalsOf, TailOf
<1>3. /\ s \in Seq(Nat) /\ Len(s) \in Nat /\ Ascends(s)
      /\ \A v : v \in T <=> \E i \in 1 .. Len(s) : s[i] = v
  BY DEF Sorted
<1> HIDE DEF N, T
<1>4. CASE q.firstUpdate = NULL
  <2>1. T = {}
    BY <1>2, <1>4
  <2>2. s = <<>>
    BY <2>1, SortedIsEmpty DEF T
  <2> QED
    BY <1>1, <1>4, <2>2
<1>5. CASE q.firstUpdate # NULL
  <2>1. q.lastUpdate \in T
    <3>1. q.firstUpdate \in N /\ q.lastUpdate \in N /\ q.firstUpdate <= q.lastUpdate
      BY <1>1, <1>5
    <3> QED
      BY <1>2, <1>5, <3>1
  <2>2. PICK i \in 1 .. Len(s) : s[i] = q.lastUpdate
    BY <1>3, <2>1
  <2>3. Len(s) \in 1 .. Len(s) /\ s # <<>>
    <3>1. Len(s) # 0
      BY <1>3
    <3> QED
      BY <1>3, <3>1
  <2>4. s[Len(s)] \in T
    BY <1>3, <2>3
  <2>5. s[Len(s)] \in N /\ s[Len(s)] <= q.lastUpdate
    BY <1>1, <1>2, <1>5, <2>4
  <2>6. i = Len(s)
    <3> SUFFICES ASSUME i # Len(s) PROVE FALSE
      OBVIOUS
    <3>1. i < Len(s)
      BY <1>3
    <3>2. s[i] < s[Len(s)] /\ s[i] \in Nat /\ s[Len(s)] \in Nat
      BY <1>3, <2>3, <3>1 DEF Ascends
    <3> QED
      BY <2>2, <2>5, <3>2
  <2>7. Last(s) = s[Len(s)]
    BY DEF Last
  <2> QED
    BY <2>2, <2>3, <2>6, <2>7
<1> QED
  BY <1>4, <1>5

LEMMA PendingIsSorted ==
  ASSUME IInv, NEW f \in Fibers, HasQueue(f)
  PROVE  /\ Sorted(Pending(f), TailOf(update, created, QueueNamed(f).firstUpdate))
         /\ Pending(f) \in Seq(TailOf(update, created, QueueNamed(f).firstUpdate))
         /\ ListFits(QueueNamed(f), update, created)
         /\ QueueNamed(f).lastUpdate = IF Pending(f) = <<>> THEN NULL ELSE Last(Pending(f))
<1>1. QueueNamed(f) \in QueueRecords
  <2>1. fiber[f].updateQueue \in Queues
    BY DEF IInv, QueueTypeOK, HasQueue
  <2> QED
    BY <2>1, TypesAre DEF IInv, QueueNamed
<1>2. /\ ListFits(QueueNamed(f), update, created)
      /\ CaughtFits(QueueNamed(f), update, created, renderLevel)
      /\ QueueTypeOK /\ UpdatesFit
  BY DEF IInv, QueuesFit
<1>3. Pending(f) = ListOf(QueueNamed(f))
  BY DEF Pending, ListOf, QueueNamed
<1>4. /\ Sorted(Pending(f), TailOf(update, created, QueueNamed(f).firstUpdate))
      /\ Pending(f) \in Seq(TailOf(update, created, QueueNamed(f).firstUpdate))
  BY <1>1, <1>2, <1>3, ListsAreRead
<1> QED
  BY <1>2, <1>4, LastIsLast

LEMMA ListsShare ==
  IInv => ListsShareTheirTail
<1> SUFFICES ASSUME IInv PROVE ListsShareTheirTail
  OBVIOUS
<1>1. \A f \in Fibers : HasQueue(f) => LastUpdate(f) = LastIn(Pending(f))
  BY PendingIsSorted DEF QueueNamed, LastUpdate, LastIn
<1>2. ASSUME NEW f \in Fibers, NEW g \in Fibers, HasQueue(f), HasQueue(g),
             LastUpdate(f) # NULL, LastUpdate(g) # NULL
      PROVE  LastUpdate(f) = LastUpdate(g)
  <2> DEFINE a == LastUpdate(f)
             b == LastUpdate(g)
             N == NormalsOf(update, created)
  <2>1. a = QueueNamed(f).lastUpdate /\ b = QueueNamed(g).lastUpdate
    BY DEF LastUpdate, QueueNamed
  <2>2. ListFits(QueueNamed(f), update, created) /\ ListFits(QueueNamed(g), update, created)
    BY <1>2, PendingIsSorted
  <2>3. QueueNamed(f).firstUpdate # NULL /\ QueueNamed(g).firstUpdate # NULL
    BY <1>2, <2>1, <2>2 DEF ListFits
  <2>4. a \in N /\ b \in N /\ (\A u \in N : u <= a) /\ (\A u \in N : u <= b)
    BY <2>1, <2>2, <2>3 DEF ListFits
  <2>5. N \subseteq Nat
    BY DEF NormalsOf
  <2> HIDE DEF a, b, N
  <2>6. a \in Nat /\ b \in Nat /\ a <= b /\ b <= a
    BY <2>4, <2>5
  <2>7. a = b
    BY <2>6
  <2> QED
    BY <2>7 DEF a, b
<1>3. ASSUME phase \in {"created", "begun", "thrown", "begunAgain"}, HasQueue(current), HasQueue(WorkInProgress)
      PROVE  LET list == Pending(current)
                 rest == Pending(WorkInProgress)
             IN  \E n \in 0 .. Len(list) : rest = SubSeq(list, n + 1, Len(list))
  <2> DEFINE N == NormalsOf(update, created)
             a == QueueNamed(WorkInProgress).firstUpdate
             b == QueueNamed(current).firstUpdate
             s == Pending(WorkInProgress)
             t == Pending(current)
             S == TailOf(update, created, a)
             T == TailOf(update, created, b)
  <2>1. WorkInProgress \in Fibers /\ current \in Fibers
    BY DEF IInv, QueueTypeOK, WorkInProgress, Alternate, Fibers
  <2>2. Sorted(s, S) /\ Sorted(t, T)
    BY <1>3, <2>1, PendingIsSorted
  <2>3. S \subseteq T
    BY <1>3 DEF IInv, RenderFits, Rendering
  <2>4. /\ S = {u \in N : a # NULL /\ a <= u} /\ T = {u \in N : b # NULL /\ b <= u}
        /\ N \subseteq Nat
    BY DEF TailOf, NormalsOf
  <2>5. a \in N \cup {NULL}
    <3>1. ListFits(QueueNamed(WorkInProgress), update, created)
      BY <1>3, <2>1, PendingIsSorted
    <3> QED
      BY <3>1 DEF ListFits
  <2> HIDE DEF N, a, b, s, t, S, T
  <2>6. t \in Seq(Nat) /\ Len(t) \in Nat
    BY <2>2, LenProperties DEF Sorted
  <2>7. \E n \in 0 .. Len(t) : s = SubSeq(t, n + 1, Len(t))
    <3>1. CASE a = NULL
      <4>1. s = <<>>
        <5>1. S = {}
          BY <2>4, <3>1
        <5> QED
          BY <2>2, <5>1, SortedIsEmpty
      <4>2. SubSeq(t, Len(t) + 1, Len(t)) = <<>>
        BY <2>6
      <4>3. Len(t) \in 0 .. Len(t)
        BY <2>6
      <4> QED
        BY <4>1, <4>2, <4>3
    <3>2. CASE a # NULL
      <4>1. a \in N /\ a \in S /\ a \in T /\ a \in Nat
        <5>1. a \in N /\ a \in Nat
          BY <2>4, <2>5, <3>2
        <5>2. a \in S
          BY <2>4, <3>2, <5>1
        <5> QED
          BY <2>3, <5>1, <5>2
      <4>2. PICK m \in 1 .. Len(t) : t[m] = a
        BY <2>2, <4>1 DEF Sorted
      <4>3. Sorted(SubSeq(t, m, Len(t)), {u \in T : a <= u})
        BY <2>2, <4>2, SortedSuffix
      <4>4. {u \in T : a <= u} = S
        BY <2>3, <2>4, <3>2
      <4>5. s = SubSeq(t, m, Len(t))
        BY <2>2, <4>3, <4>4, SortedIsUnique
      <4>6. m - 1 \in 0 .. Len(t) /\ (m - 1) + 1 = m
        BY <2>6
      <4> QED
        BY <4>5, <4>6
    <3> QED
      BY <3>1, <3>2
  <2> QED
    BY <2>7 DEF s, t
<1> QED
  BY <1>1, <1>2, <1>3 DEF ListsShareTheirTail

LEMMA PendingIsScheduled ==
  IInv => PendingWorkIsScheduled
<1> SUFFICES ASSUME IInv, NEW f \in Fibers, HasQueue(f), f = current \/ phase \in {"begun", "begunAgain"},
                    NEW u \in ToSet(Pending(f)) \ ToSet(fiber[f].memoizedState)
             PROVE  fiber[f].expirationTime \in 1 .. update[u].level
  BY DEF PendingWorkIsScheduled
<1>1. Sorted(Pending(f), TailOf(update, created, QueueNamed(f).firstUpdate))
  BY PendingIsSorted
<1>2. u \in TailOf(update, created, QueueNamed(f).firstUpdate)
  <2>1. PICK i \in DOMAIN Pending(f) : u = Pending(f)[i]
    BY DEF ToSet
  <2>2. i \in 1 .. Len(Pending(f))
    BY <1>1 DEF Sorted
  <2> QED
    BY <1>1, <2>1, <2>2 DEF Sorted
<1>3. ~(\E i \in 1 .. Len(fiber[f].memoizedState) : fiber[f].memoizedState[i] = u)
  <2>1. fiber[f].memoizedState \in Seq(1 .. created)
    BY DEF IInv, FibersFit
  <2>2. DOMAIN fiber[f].memoizedState = 1 .. Len(fiber[f].memoizedState)
    BY <2>1, LenProperties
  <2> QED
    BY <2>2 DEF ToSet
<1>4. FiberFits(fiber[f], QueueNamed(f), update, created)
  BY DEF IInv, FibersFit
<1> QED
  BY <1>2, <1>3, <1>4 DEF FiberFits

(* The base state and the list are all updates that are not captured.      *)
LEMMA AllAreThere ==
  ASSUME IInv, NEW f \in Fibers, HasQueue(f)
  PROVE  Normal(BaseState(f) \o Pending(f)) = Normal([u \in 1 .. created |-> u])
<1> DEFINE N == NormalsOf(update, created)
           S == {u \in Updates : ~update[u].captured}
           q == QueueNamed(f)
           T == TailOf(update, created, q.firstUpdate)
           base == BaseState(f)
           list == Pending(f)
           all == [u \in 1 .. created |-> u]
<1>1. /\ created \in Nat /\ 1 .. created \subseteq Updates
  BY BoundsAssumption DEF IInv, QueueTypeOK, Updates
<1>2. /\ N \subseteq 1 .. created /\ (\A u \in 1 .. created : u \in S <=> u \in N)
      /\ T = {u \in N : q.firstUpdate # NULL /\ q.firstUpdate <= u}
  BY <1>1 DEF NormalsOf, TailOf
<1>3. /\ Sorted(list, T) /\ list \in Seq(T) /\ ListFits(q, update, created)
  BY PendingIsSorted
<1>4. /\ base \in Seq(1 .. created) /\ SortedIn(base, N, N \ T) /\ q.firstUpdate \in N \cup {NULL}
  BY <1>3 DEF ListFits, BaseState, QueueNamed
<1> HIDE DEF N, S, q, T, base, list, all
<1>5. base \o list \in Seq(1 .. created) /\ SortedIn(base \o list, N, N)
  <2>1. list \in Seq(1 .. created)
    <3>1. T \subseteq 1 .. created
      BY <1>2
    <3> QED
      BY <1>3, <3>1, SeqMonotonic
  <2>2. SortedIn(list, N, T)
    BY <1>2, <1>3, SortedIsSortedIn
  <2>3. \A u \in N \ T, v \in T : u < v
    <3> SUFFICES ASSUME NEW u \in N \ T, NEW v \in T PROVE u < v
      OBVIOUS
    <3>1. u \in Nat /\ v \in Nat /\ q.firstUpdate # NULL /\ q.firstUpdate <= v /\ ~(q.firstUpdate <= u)
      BY <1>2
    <3>2. q.firstUpdate \in Nat
      <4>1. q.firstUpdate \in N
        BY <1>4, <3>1
      <4>2. \A k \in N : k \in Nat
        BY <1>2
      <4> QED
        BY ONLY <4>1, <4>2
    <3> QED
      BY <3>1, <3>2
  <2>4. (N \ T) \cup T = N
    BY <1>2
  <2>5. SortedIn(base \o list, N, (N \ T) \cup T)
    BY <1>4, <2>2, <2>3, SortedConcat
  <2> QED
    BY <1>4, <2>1, <2>4, <2>5, ConcatProperties
<1>6. all \in Seq(1 .. created) /\ SortedIn(all, N, N)
  <2>1. all \in Seq(1 .. created) /\ Len(all) = created /\ (\A i \in 1 .. created : all[i] = i)
    BY <1>1 DEF all
  <2>2. all \in Seq(Nat)
    <3>1. 1 .. created \subseteq Nat
      OBVIOUS
    <3> QED
      BY <2>1, <3>1, SeqMonotonic
  <2> HIDE DEF all
  <2>3. AscendsIn(all, N)
    BY <2>1 DEF AscendsIn
  <2>4. \A v : v \in N <=> v \in N /\ \E i \in 1 .. Len(all) : all[i] = v
    BY <1>2, <2>1
  <2> QED
    BY <2>1, <2>2, <2>3, <2>4 DEF SortedIn
<1>7. ASSUME NEW s \in Seq(1 .. created), SortedIn(s, N, N)
      PROVE  SortedIn(s, S, N)
  <2>1. \A i \in 1 .. Len(s) : s[i] \in S <=> s[i] \in N
    <3>1. \A i \in 1 .. Len(s) : s[i] \in 1 .. created
      <4>1. s \in Seq(1 .. created)
        OBVIOUS
      <4> QED
        BY ONLY <4>1, ElementOfSeq
    <3> QED
      BY <1>2, <3>1
  <2>2. s \in Seq(Nat) /\ AscendsIn(s, N) /\ \A v : v \in N <=> v \in N /\ \E i \in 1 .. Len(s) : s[i] = v
    BY <1>7 DEF SortedIn
  <2>3. AscendsIn(s, S)
    BY <2>1, <2>2 DEF AscendsIn
  <2>4. \A v : v \in N <=> v \in S /\ \E i \in 1 .. Len(s) : s[i] = v
    BY <1>2, <2>1, <2>2
  <2> QED
    BY <2>2, <2>3, <2>4 DEF SortedIn
<1>8. Sorted(Only(base \o list, S), N) /\ Sorted(Only(all, S), N)
  BY <1>5, <1>6, <1>7, OnlyIsSorted
<1>9. Only(base \o list, S) = Only(all, S)
  BY <1>8, SortedIsUnique
<1> QED
  BY <1>9 DEF Normal, S, base, list, all

-----------------------------------------------------------------------------
(* The fields of the queues and fibers have the values they should have    *)
(* after every step.                                                       *)
THEOREM TypeCorrect == QueueSpec => []QueueTypeOK
<1>1. IInv => QueueTypeOK
  BY DEF IInv
<1> QED
  BY <1>1, InitFits, StepKeeps, PTL DEF QueueSpec

(* No update is lost and none is applied twice in the end: the base state  *)
(* of a queue and its list are always all updates there have been, in the  *)
(* order of their creation; the two lists share their tail, and what is    *)
(* not shown is scheduled (ReactUpdateQueue.js: enqueueUpdate,             *)
(* processUpdateQueue, commitUpdateQueue).                                 *)
THEOREM UpdatesAreKept == QueueSpec => []NothingIsLost
<1>1. IInv => NothingIsLost
  BY ListsShare, PendingIsScheduled, AllAreThere DEF IInv, NothingIsLost
<1> QED
  BY <1>1, InitFits, StepKeeps, PTL DEF QueueSpec
=============================================================================
