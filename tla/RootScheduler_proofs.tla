------------------------ MODULE RootScheduler_proofs ------------------------
EXTENDS RootScheduler, PendingPriority_proofs, WellFoundedInduction, SequenceTheorems

LEMMA NatMin == ASSUME NEW T \in SUBSET Nat, NEW n \in T
                PROVE  \E m \in T : \A k \in T : m <= k
<1>1. IsWellFoundedOn(OpToRel(<, Nat), Nat)
  BY NatLessThanWellFounded
<1>2. PICK m \in T : \A k \in T : ~(<<k, m>> \in OpToRel(<, Nat))
  BY <1>1, WFMin, Zenon
<1>3. \A k \in T : <<k, m>> \in OpToRel(<, Nat) <=> k < m
  BY Zenon DEF OpToRel
<1>4. \A k \in T : k < m \/ m <= k
  OBVIOUS
<1> QED
  BY <1>2, <1>3, <1>4

LEMMA MinIsLeast ==
  ASSUME NEW T \in SUBSET Nat, NEW n \in T
  PROVE  Min(T) \in T /\ \A k \in T : Min(T) <= k
  BY NatMin DEF Min

(* The walk is defined, and is what its equation says.                     *)
LEMMA WalkIsDefined ==
  ASSUME NEW lv, NEW s \in Seq(Roots)
  PROVE  /\ WithWork(lv, s)[0] = <<>>
         /\ \A i \in 1..Len(s) :
              WithWork(lv, s)[i] =
                IF lv[s[i]].expirationTime = NoWork THEN WithWork(lv, s)[i - 1]
                ELSE Append(WithWork(lv, s)[i - 1], s[i])
<1> DEFINE Step(f, i) == IF i = 0 THEN <<>>
                         ELSE IF lv[s[i]].expirationTime = NoWork THEN f[i - 1]
                         ELSE Append(f[i - 1], s[i])
           Fails == {n \in Nat : ~(\E f : f = [i \in 0..n |-> Step(f, i)])}
<1>0. Len(s) \in Nat
  OBVIOUS
<1>1. Fails = {}
  <2> SUFFICES ASSUME NEW n \in Fails, \A k \in Fails : n <= k PROVE FALSE
    BY NatMin
  <2>0. n \in Nat /\ ~(\E f : f = [i \in 0..n |-> Step(f, i)])
    OBVIOUS
  <2>1. CASE n = 0
    <3> DEFINE f == [i \in 0..0 |-> <<>>]
    <3>1. f = [i \in 0..0 |-> Step(f, i)]
      OBVIOUS
    <3> QED
      BY <2>0, <2>1, <3>1
  <2>2. CASE n # 0
    <3>1. n - 1 \in Nat /\ n - 1 \notin Fails
      <4> HIDE DEF Fails
      <4> QED
        BY <2>0, <2>2
    <3>2. PICK g : g = [i \in 0..(n - 1) |-> Step(g, i)]
      BY <3>1
    <3> DEFINE f == [i \in 0..n |-> IF i = n THEN Step(g, n) ELSE g[i]]
    <3>3. f = [i \in 0..n |-> Step(f, i)]
      <4> SUFFICES ASSUME NEW i \in 0..n PROVE f[i] = Step(f, i)
        OBVIOUS
      <4>1. i = 0 \/ f[i - 1] = g[i - 1]
        BY <2>0
      <4>2. Step(f, i) = Step(g, i)
        BY <4>1
      <4>3. i # n => g[i] = Step(g, i)
        <5> HIDE DEF Step
        <5>1. i # n => i \in 0..(n - 1)
          BY <2>0
        <5> QED
          BY <3>2, <5>1
      <4> HIDE DEF Step
      <4> QED
        BY <4>2, <4>3
    <3> HIDE DEF f, Step
    <3> QED
      BY <2>0, <3>3
  <2> QED
    BY <2>1, <2>2
<1>2. \E f : f = [i \in 0..Len(s) |-> Step(f, i)]
  BY <1>0, <1>1
<1>3. WithWork(lv, s) = CHOOSE f : f = [i \in 0..Len(s) |-> Step(f, i)]
  BY DEF WithWork
<1>4. WithWork(lv, s) = [i \in 0..Len(s) |-> Step(WithWork(lv, s), i)]
  <2> HIDE DEF Step
  <2> QED
    BY <1>2, <1>3
<1>5. ASSUME NEW i \in 0..Len(s) PROVE WithWork(lv, s)[i] = Step(WithWork(lv, s), i)
  <2> HIDE DEF Step
  <2> QED
    BY <1>4
<1> QED
  BY <1>0, <1>5

(* What the walk has kept after i steps: the roots with work among the     *)
(* first i, each of them once.                                             *)
Keeps(lv, s, i, kept) ==
  /\ kept \in Seq(Roots) /\ IsInjective(kept)
  /\ \A j \in 1..Len(kept) :
       lv[kept[j]].expirationTime # NoWork /\ \E k \in 1..i : kept[j] = s[k]
  /\ \A k \in 1..i : lv[s[k]].expirationTime # NoWork =>
       \E j \in 1..Len(kept) : kept[j] = s[k]

LEMMA AppendKeeps ==
  ASSUME NEW lv, NEW s \in Seq(Roots), IsInjective(s), NEW i \in 1..Len(s), NEW kept,
         Keeps(lv, s, i - 1, kept), lv[s[i]].expirationTime # NoWork
  PROVE  Keeps(lv, s, i, Append(kept, s[i]))
<1> DEFINE after == Append(kept, s[i])
<1>0. Len(s) \in Nat /\ i \in Nat
  OBVIOUS
<1>1. /\ kept \in Seq(Roots) /\ IsInjective(kept) /\ Len(kept) \in Nat /\ s[i] \in Roots
      /\ DOMAIN kept = 1..Len(kept)
  BY DEF Keeps
<1>2. /\ after \in Seq(Roots) /\ Len(after) = Len(kept) + 1 /\ after[Len(kept) + 1] = s[i]
      /\ DOMAIN after = 1..(Len(kept) + 1)
      /\ \A j \in 1..Len(kept) : after[j] = kept[j]
  BY <1>1
<1>3. \A j \in 1..Len(kept) : kept[j] # s[i]
  <2> SUFFICES ASSUME NEW j \in 1..Len(kept), kept[j] = s[i] PROVE FALSE
    OBVIOUS
  <2>1. PICK k \in 1..(i - 1) : kept[j] = s[k]
    BY DEF Keeps
  <2>2. k \in DOMAIN s /\ i \in DOMAIN s /\ k # i /\ s[k] = s[i]
    BY <1>0, <2>1
  <2> QED
    BY <2>2 DEF IsInjective
<1> HIDE DEF after
<1>4. IsInjective(after)
  <2> SUFFICES ASSUME NEW a \in 1..(Len(kept) + 1), NEW b \in 1..(Len(kept) + 1),
                      after[a] = after[b], a < b
               PROVE  FALSE
    BY <1>1, <1>2 DEF IsInjective
  <2>1. a \in 1..Len(kept)
    BY <1>1
  <2>2. CASE b = Len(kept) + 1
    BY <1>2, <1>3, <2>1, <2>2
  <2>3. CASE b \in 1..Len(kept)
    <3>1. a \in DOMAIN kept /\ b \in DOMAIN kept /\ kept[a] = kept[b]
      BY <1>1, <1>2, <2>1, <2>3
    <3>2. a = b
      BY <1>1, <3>1 DEF IsInjective
    <3> QED
      BY <1>1, <2>1, <2>3, <3>2
  <2> QED
    BY <1>1, <2>2, <2>3
<1>5. \A j \in 1..Len(after) :
        lv[after[j]].expirationTime # NoWork /\ \E k \in 1..i : after[j] = s[k]
  <2> SUFFICES ASSUME NEW j \in 1..(Len(kept) + 1)
               PROVE  lv[after[j]].expirationTime # NoWork /\ \E k \in 1..i : after[j] = s[k]
    BY <1>2
  <2>1. CASE j = Len(kept) + 1
    BY <1>0, <1>2, <2>1
  <2>2. CASE j \in 1..Len(kept)
    <3>1. after[j] = kept[j] /\ lv[kept[j]].expirationTime # NoWork
      BY <1>2, <2>2 DEF Keeps
    <3>2. PICK k \in 1..(i - 1) : kept[j] = s[k]
      BY <2>2 DEF Keeps
    <3>3. k \in 1..i
      BY <1>0
    <3> QED
      BY <3>1, <3>2, <3>3
  <2> QED
    BY <1>1, <2>1, <2>2
<1>6. ASSUME NEW k \in 1..i, lv[s[k]].expirationTime # NoWork
      PROVE  \E j \in 1..Len(after) : after[j] = s[k]
  <2>1. CASE k = i
    BY <1>1, <1>2, <2>1
  <2>2. CASE k # i
    <3>1. k \in 1..(i - 1)
      BY <1>0, <2>2
    <3>2. PICK j \in 1..Len(kept) : kept[j] = s[k]
      BY <1>6, <3>1 DEF Keeps
    <3>3. j \in 1..Len(after) /\ after[j] = s[k]
      BY <1>1, <1>2, <3>2
    <3> QED
      BY <3>3
  <2> QED
    BY <2>1, <2>2
<1>7. Keeps(lv, s, i, after)
  BY <1>2, <1>4, <1>5, <1>6 DEF Keeps
<1> QED
  BY <1>7 DEF after

LEMMA WalkKeeps ==
  ASSUME NEW lv, NEW s \in Seq(Roots), IsInjective(s)
  PROVE  \A i \in 0..Len(s) : Keeps(lv, s, i, WithWork(lv, s)[i])
<1> DEFINE Fails == {i \in 0..Len(s) : ~Keeps(lv, s, i, WithWork(lv, s)[i])}
<1>0. Len(s) \in Nat
  OBVIOUS
<1>1. Fails = {}
  <2>a. Fails \in SUBSET Nat
    BY <1>0
  <2> SUFFICES ASSUME NEW i \in Fails, \A k \in Fails : i <= k PROVE FALSE
    <3> HIDE DEF Fails
    <3> QED
      BY <2>a, NatMin
  <2>0. i \in 0..Len(s) /\ ~Keeps(lv, s, i, WithWork(lv, s)[i])
    OBVIOUS
  <2>1. CASE i = 0
    <3>1. WithWork(lv, s)[0] = <<>>
      BY WalkIsDefined
    <3>2. Keeps(lv, s, 0, <<>>)
      BY DEF Keeps, IsInjective
    <3> QED
      BY <2>0, <2>1, <3>1, <3>2
  <2>2. CASE i # 0
    <3>1. i \in 1..Len(s) /\ i - 1 \in 0..Len(s)
      BY <1>0, <2>0, <2>2
    <3>2. i - 1 \notin Fails
      <4> HIDE DEF Fails
      <4> QED
        BY <1>0, <2>0
    <3>3. Keeps(lv, s, i - 1, WithWork(lv, s)[i - 1])
      BY <3>1, <3>2
    <3>4. CASE lv[s[i]].expirationTime = NoWork
      <4>1. WithWork(lv, s)[i] = WithWork(lv, s)[i - 1]
        BY <3>1, <3>4, WalkIsDefined
      <4> DEFINE kept == WithWork(lv, s)[i - 1]
      <4>2. Keeps(lv, s, i - 1, kept)
        BY <3>3
      <4> HIDE DEF kept
      <4>3. kept \in Seq(Roots) /\ IsInjective(kept)
        BY <4>2 DEF Keeps
      <4>4. ASSUME NEW j \in 1..Len(kept)
            PROVE  lv[kept[j]].expirationTime # NoWork /\ \E k \in 1..i : kept[j] = s[k]
        <5>1. PICK k \in 1..(i - 1) : kept[j] = s[k]
          BY <4>2 DEF Keeps
        <5>2. k \in 1..i
          BY <3>1
        <5> QED
          BY <4>2, <5>1, <5>2 DEF Keeps
      <4>5. ASSUME NEW k \in 1..i, lv[s[k]].expirationTime # NoWork
            PROVE  \E j \in 1..Len(kept) : kept[j] = s[k]
        <5>1. k # i
          BY <3>4, <4>5
        <5>2. k \in 1..(i - 1)
          BY <3>1, <5>1
        <5> QED
          BY <4>2, <4>5, <5>2 DEF Keeps
      <4>6. Keeps(lv, s, i, kept)
        BY <4>3, <4>4, <4>5 DEF Keeps
      <4> QED
        BY <2>0, <4>1, <4>6 DEF kept
    <3>5. CASE lv[s[i]].expirationTime # NoWork
      BY <2>0, <3>1, <3>3, <3>5, WalkIsDefined, AppendKeeps
    <3> QED
      BY <3>4, <3>5
  <2> QED
    BY <2>1, <2>2
<1> QED
  BY <1>1

(* findHighestPriorityRoot returns the root with the earliest work, if     *)
(* there is any, and what it leaves of the list has every root that has    *)
(* work.                                                                   *)
Highest(lv, s, root, time) ==
  /\ root = NoRoot <=> time = NoWork
  /\ time = NoWork => \A r \in Range(s) : lv[r].expirationTime = NoWork
  /\ time # NoWork =>
       /\ root \in Range(s) /\ lv[root].expirationTime = time
       /\ \A r \in Range(s) : lv[r].expirationTime # NoWork => time <= lv[r].expirationTime

Shortened(lv, s, rest) ==
  /\ rest \in Seq(Roots) /\ IsInjective(rest)
  /\ Range(rest) \subseteq Range(s)
  /\ \A r \in Range(s) : lv[r].expirationTime # NoWork => r \in Range(rest)

LEMMA FirstSyncIsFirst ==
  ASSUME NEW lv, NEW s \in Seq(Roots)
  PROVE  /\ FirstSync(lv, s) \in 0..Len(s)
         /\ \/ /\ FirstSync(lv, s) \in 1..Len(s)
               /\ lv[s[FirstSync(lv, s)]].expirationTime = Sync
            \/ FirstSync(lv, s) = Len(s)
<1> DEFINE syncs == {i \in 1..Len(s) : lv[s[i]].expirationTime = Sync}
<1>0. Len(s) \in Nat /\ syncs \in SUBSET Nat
  OBVIOUS
<1>1. CASE syncs = {}
  BY <1>0, <1>1 DEF FirstSync
<1>2. CASE syncs # {}
  <2>1. Min(syncs) \in syncs
    <3> HIDE DEF syncs
    <3> QED
      BY <1>0, <1>2, MinIsLeast
  <2>2. FirstSync(lv, s) = Min(syncs)
    BY <1>2 DEF FirstSync
  <2> QED
    BY <1>0, <2>1, <2>2
<1> QED
  BY <1>1, <1>2

LEMMA HighestPriorityIsLeast ==
  ASSUME NEW lv, \A r \in Roots : lv[r].expirationTime \in Nat, NEW s \in Seq(Roots), s # <<>>
  PROVE  /\ HighestPriority(lv, s) \in 1..Len(s)
         /\ \A j \in 1..Len(s) :
              lv[s[HighestPriority(lv, s)]].expirationTime <= lv[s[j]].expirationTime
<1> DEFINE times == {lv[s[i]].expirationTime : i \in 1..Len(s)}
           least == {i \in 1..Len(s) : \A j \in 1..Len(s) :
                       lv[s[i]].expirationTime <= lv[s[j]].expirationTime}
<1>0. Len(s) \in Nat /\ 1 \in 1..Len(s) /\ least \in SUBSET Nat
  OBVIOUS
<1>1. times \in SUBSET Nat /\ lv[s[1]].expirationTime \in times
  BY <1>0
<1>2. PICK m \in times : \A k \in times : m <= k
  <2> HIDE DEF times
  <2> QED
    BY <1>1, NatMin
<1>3. PICK i \in 1..Len(s) : m = lv[s[i]].expirationTime
  OBVIOUS
<1>4. i \in least
  BY <1>2, <1>3
<1>5. HighestPriority(lv, s) = Min(least)
  BY DEF HighestPriority
<1>6. Min(least) \in least
  <2> HIDE DEF least
  <2> QED
    BY <1>0, <1>4, MinIsLeast
<1> QED
  BY <1>5, <1>6

LEMMA FindFinds ==
  ASSUME NEW lv, \A r \in Roots : lv[r].expirationTime \in Nat,
         NEW s \in Seq(Roots), IsInjective(s)
  PROVE  LET found == FindHighestPriorityRoot(lv, s)
         IN Shortened(lv, s, found.schedule) /\ Highest(lv, found.schedule, found.root, found.time)
<1> DEFINE end == FirstSync(lv, s)
           kept == WithWork(lv, s)[end]
           first == HighestPriority(lv, kept)
           rest == RestOfSchedule(s, end)
           whole == kept \o rest
           found == FindHighestPriorityRoot(lv, s)
<1>1. /\ found.schedule = whole
      /\ found.root = IF kept = <<>> THEN NoRoot ELSE kept[first]
      /\ found.time = IF kept = <<>> THEN NoWork ELSE lv[kept[first]].expirationTime
  BY DEF FindHighestPriorityRoot
<1>2. /\ end \in 0..Len(s) /\ end \in Nat /\ Len(s) \in Nat /\ end <= Len(s)
      /\ \/ end \in 1..Len(s) /\ lv[s[end]].expirationTime = Sync
         \/ end = Len(s)
  BY FirstSyncIsFirst
<1>3. Keeps(lv, s, end, kept)
  BY <1>2, WalkKeeps
<1>4. kept # <<>> => /\ first \in 1..Len(kept)
                     /\ \A j \in 1..Len(kept) :
                          lv[kept[first]].expirationTime <= lv[kept[j]].expirationTime
  BY <1>3, HighestPriorityIsLeast DEF Keeps
<1>5. /\ rest \in Seq(Roots) /\ Len(rest) = Len(s) - end
      /\ \A j \in 1..Len(rest) : rest[j] = s[end + j]
  BY <1>2 DEF RestOfSchedule
<1> HIDE DEF end, kept, first, rest, found
<1>6. kept \in Seq(Roots) /\ Len(kept) \in Nat /\ Len(rest) \in Nat /\ IsInjective(kept)
  BY <1>3, <1>5 DEF Keeps
<1>7. /\ whole \in Seq(Roots) /\ Len(whole) = Len(kept) + Len(rest)
      /\ DOMAIN whole = 1..(Len(kept) + Len(rest))
      /\ \A j \in 1..Len(kept) : whole[j] = kept[j]
      /\ \A j \in 1..Len(rest) : whole[Len(kept) + j] = rest[j]
  <2>1. /\ whole \in Seq(Roots) /\ Len(whole) = Len(kept) + Len(rest)
        /\ \A j \in 1..Len(kept) + Len(rest) :
             whole[j] = IF j <= Len(kept) THEN kept[j] ELSE rest[j - Len(kept)]
    BY <1>5, <1>6, ConcatProperties
  <2>2. ASSUME NEW j \in 1..Len(kept) PROVE whole[j] = kept[j]
    BY <1>6, <2>1
  <2>3. ASSUME NEW j \in 1..Len(rest) PROVE whole[Len(kept) + j] = rest[j]
    <3>1. /\ Len(kept) + j \in 1..(Len(kept) + Len(rest)) /\ ~(Len(kept) + j <= Len(kept))
          /\ (Len(kept) + j) - Len(kept) = j
      BY <1>6
    <3> QED
      BY <2>1, <3>1
  <2> HIDE DEF whole
  <2>4. DOMAIN whole = 1..(Len(kept) + Len(rest))
    BY <2>1
  <2> QED
    BY <2>1, <2>2, <2>3, <2>4
<1> HIDE DEF whole
(* Every entry is one of the list, of the first part or of the second.     *)
<1>8. ASSUME NEW a \in DOMAIN whole
      PROVE  \/ /\ a \in 1..Len(kept) /\ whole[a] = kept[a]
                /\ \E k \in 1..end : whole[a] = s[k]
             \/ a - Len(kept) \in 1..Len(rest) /\ whole[a] = s[end + (a - Len(kept))]
  <2>1. CASE a <= Len(kept)
    <3>1. a \in 1..Len(kept)
      BY <1>6, <1>7, <2>1
    <3> QED
      BY <1>3, <1>7, <3>1 DEF Keeps
  <2>2. CASE ~(a <= Len(kept))
    <3>1. a - Len(kept) \in 1..Len(rest) /\ a = Len(kept) + (a - Len(kept))
      BY <1>6, <1>7, <2>2
    <3> QED
      BY <1>5, <1>7, <3>1
  <2> QED
    BY <2>1, <2>2
<1>9. IsInjective(whole)
  <2> SUFFICES ASSUME NEW a \in DOMAIN whole, NEW b \in DOMAIN whole, whole[a] = whole[b]
               PROVE  a = b
    BY DEF IsInjective
  <2>0. a \in Nat /\ b \in Nat /\ DOMAIN s = 1..Len(s) /\ DOMAIN kept = 1..Len(kept)
        /\ \A i, j \in 1..Len(s) : s[i] = s[j] => i = j
    BY <1>6, <1>7 DEF IsInjective
  <2>1. CASE a \in 1..Len(kept) /\ b \in 1..Len(kept)
    <3>1. kept[a] = kept[b]
      BY <1>7, <2>1
    <3> QED
      BY <1>6, <2>0, <2>1, <3>1 DEF IsInjective
  <2>2. ASSUME NEW i \in 1..end, NEW x \in 1..Len(rest), s[i] = s[end + x] PROVE FALSE
    <3>1. i \in 1..Len(s) /\ end + x \in 1..Len(s) /\ i # end + x
      BY <1>2, <1>5
    <3> QED
      BY <2>0, <2>2, <3>1
  <2>3. CASE a - Len(kept) \in 1..Len(rest) /\ b - Len(kept) \in 1..Len(rest)
    <3>1. whole[a] = s[end + (a - Len(kept))] /\ whole[b] = s[end + (b - Len(kept))]
      BY <1>6, <1>8, <2>0, <2>3
    <3>2. /\ end + (a - Len(kept)) \in 1..Len(s) /\ end + (b - Len(kept)) \in 1..Len(s)
      BY <1>2, <1>5, <1>6, <2>0, <2>3
    <3>3. end + (a - Len(kept)) = end + (b - Len(kept))
      BY <2>0, <3>1, <3>2
    <3> QED
      <4>1. a \in Nat /\ b \in Nat /\ Len(kept) \in Nat /\ end \in Nat
        BY <1>2, <1>6, <2>0
      <4> QED
        BY <3>3, <4>1
  <2> QED
    BY <1>8, <2>1, <2>2, <2>3
<1>10. Range(whole) \subseteq Range(s)
  <2> SUFFICES ASSUME NEW a \in DOMAIN whole PROVE \E k \in 1..Len(s) : whole[a] = s[k]
    BY DEF Range
  <2>1. ASSUME NEW k \in 1..end PROVE k \in 1..Len(s)
    BY <1>2
  <2>2. ASSUME NEW x \in 1..Len(rest) PROVE end + x \in 1..Len(s)
    BY <1>2, <1>5
  <2> QED
    BY <1>8, <2>1, <2>2
<1>11. ASSUME NEW k \in 1..Len(s), lv[s[k]].expirationTime # NoWork
       PROVE  \E a \in DOMAIN whole : whole[a] = s[k]
  <2>1. CASE k \in 1..end
    <3>1. PICK j \in 1..Len(kept) : kept[j] = s[k]
      BY <1>3, <1>11, <2>1 DEF Keeps
    <3>2. j \in DOMAIN whole /\ whole[j] = s[k]
      BY <1>6, <1>7, <3>1
    <3> QED
      BY <3>2
  <2>2. CASE ~(k \in 1..end)
    <3>1. k - end \in 1..Len(rest) /\ end + (k - end) = k
      BY <1>2, <1>5, <2>2
    <3>2. Len(kept) + (k - end) \in DOMAIN whole
      BY <1>2, <1>6, <1>7, <3>1
    <3>3. whole[Len(kept) + (k - end)] = s[k]
      BY <1>5, <1>7, <3>1
    <3> QED
      BY <3>2, <3>3
  <2> QED
    BY <2>1, <2>2
<1>12. \A r \in Range(s) : lv[r].expirationTime # NoWork => r \in Range(whole)
  <2>1. \A r \in Range(s) : \E k \in 1..Len(s) : r = s[k]
    BY DEF Range
  <2> QED
    BY <1>11, <2>1 DEF Range
<1>13. Shortened(lv, s, found.schedule)
  BY <1>1, <1>7, <1>9, <1>10, <1>12 DEF Shortened
<1>14. ASSUME kept = <<>> PROVE Highest(lv, whole, NoRoot, NoWork)
  <2>1. end = Len(s)
    <3> SUFFICES ASSUME end \in 1..Len(s), lv[s[end]].expirationTime = Sync PROVE FALSE
      BY <1>2
    <3>1. end \in 1..end /\ Sync # NoWork
      BY <1>2 DEF Sync, NoWork
    <3>2. \E j \in 1..Len(kept) : kept[j] = s[end]
      BY <1>3, <3>1 DEF Keeps
    <3> QED
      BY <1>14, <3>2
  <2>2. DOMAIN whole = {}
    BY <1>2, <1>5, <1>7, <1>14, <2>1
  <2> QED
    BY <2>2 DEF Highest, Range
<1>15. ASSUME kept # <<>>
       PROVE  Highest(lv, whole, kept[first], lv[kept[first]].expirationTime)
  <2>0. first \in 1..Len(kept) /\ kept[first] \in Roots /\ kept[first] # NoRoot
        /\ lv[kept[first]].expirationTime # NoWork
    BY <1>3, <1>4, <1>6, <1>15, RootSchedulerAssumption DEF Keeps
  <2>1. kept[first] \in Range(whole)
    <3>1. first \in DOMAIN whole /\ whole[first] = kept[first]
      BY <1>6, <1>7, <2>0
    <3> QED
      BY <3>1 DEF Range
  <2>2. ASSUME NEW a \in DOMAIN whole, lv[whole[a]].expirationTime # NoWork
        PROVE  lv[kept[first]].expirationTime <= lv[whole[a]].expirationTime
    <3>1. CASE a \in 1..Len(kept) /\ whole[a] = kept[a]
      BY <1>4, <1>15, <3>1
    <3>2. CASE a - Len(kept) \in 1..Len(rest)
      <4>1. end \in 1..Len(s) /\ lv[s[end]].expirationTime = Sync
        BY <1>2, <1>5, <3>2
      <4>2. PICK j \in 1..Len(kept) : kept[j] = s[end]
        BY <1>2, <1>3, <4>1 DEF Keeps, Sync, NoWork
      <4>3. lv[kept[first]].expirationTime <= Sync
        BY <1>4, <1>15, <4>1, <4>2
      <4>4. lv[whole[a]].expirationTime \in Nat /\ lv[kept[first]].expirationTime \in Nat
        BY <1>7, <2>0
      <4> QED
        BY <2>2, <4>3, <4>4 DEF Sync, NoWork
    <3> QED
      BY <1>8, <3>1, <3>2
  <2> QED
    BY <2>0, <2>1, <2>2 DEF Highest, Range
<1>16. Highest(lv, found.schedule, found.root, found.time)
  BY <1>1, <1>14, <1>15
<1> QED
  BY <1>13, <1>16 DEF found

LEMMA AddRootAdds ==
  ASSUME NEW s \in Seq(Roots), IsInjective(s), NEW r \in Roots
  PROVE  /\ AddRootToSchedule(s, r) \in Seq(Roots) /\ IsInjective(AddRootToSchedule(s, r))
         /\ Range(AddRootToSchedule(s, r)) = Range(s) \cup {r}
<1>1. CASE r \in Range(s)
  BY <1>1 DEF AddRootToSchedule
<1>2. CASE r \notin Range(s)
  <2> DEFINE after == Append(s, r)
  <2>1. /\ Len(s) \in Nat /\ DOMAIN s = 1..Len(s)
        /\ after \in Seq(Roots) /\ DOMAIN after = 1..(Len(s) + 1) /\ after[Len(s) + 1] = r
        /\ \A j \in 1..Len(s) : after[j] = s[j]
    OBVIOUS
  <2>2. AddRootToSchedule(s, r) = after
    BY <1>2 DEF AddRootToSchedule
  <2> HIDE DEF after
  <2>3. \A j \in 1..Len(s) : s[j] # r
    BY <1>2, <2>1 DEF Range
  <2>4. IsInjective(after)
    <3> SUFFICES ASSUME NEW a \in DOMAIN after, NEW b \in DOMAIN after, after[a] = after[b]
                 PROVE  a = b
      BY DEF IsInjective
    <3>1. CASE a \in 1..Len(s) /\ b \in 1..Len(s)
      <4>1. a \in DOMAIN s /\ b \in DOMAIN s /\ s[a] = s[b]
        BY <2>1, <3>1
      <4> QED
        BY <4>1 DEF IsInjective
    <3>2. CASE a = Len(s) + 1 /\ b = Len(s) + 1
      BY <3>2
    <3>3. CASE a \in 1..Len(s) /\ b = Len(s) + 1
      BY <2>1, <2>3, <3>3
    <3>4. CASE a = Len(s) + 1 /\ b \in 1..Len(s)
      BY <2>1, <2>3, <3>4
    <3> QED
      BY <2>1, <3>1, <3>2, <3>3, <3>4
  <2>5. ASSUME NEW x PROVE x \in Range(after) <=> x \in Range(s) \/ x = r
    <3>1. x \in Range(after) <=> \E j \in 1..(Len(s) + 1) : x = after[j]
      BY <2>1 DEF Range
    <3>2. x \in Range(s) <=> \E j \in 1..Len(s) : x = s[j]
      BY <2>1 DEF Range
    <3>3. \A j : j \in 1..(Len(s) + 1) <=> j \in 1..Len(s) \/ j = Len(s) + 1
      BY <2>1
    <3> QED
      BY <2>1, <3>1, <3>2, <3>3
  <2> QED
    BY <2>1, <2>2, <2>4, <2>5
<1> QED
  BY <1>1, <1>2

LEMMA EarliestIsLeast ==
  ASSUME NEW times \in SUBSET Nat, times # {}
  PROVE  Earliest(times) \in times /\ \A u \in times : Earliest(times) <= u
<1>1. \E t \in times : \A u \in times : t <= u
  BY NatMin
<1> QED
  BY <1>1 DEF Earliest

-----------------------------------------------------------------------------
(* The inductive invariant.  Its types first.                              *)
Times0 == LevelTimes \cup {NoWork}

Trees == [level : Times0, left : SUBSET LevelTimes, stale : {FALSE}]

Renders == [root : Roots \cup {NoRoot}, level : Times0, late : SUBSET LevelTimes,
            timeout : Int]

TreesTyped ==
  /\ levels \in [Roots -> LevelsIn(Times0)]
  /\ work \in [Roots -> SUBSET LevelTimes]
  /\ promises \in [Roots -> SUBSET LevelTimes]
  /\ wip \in Renders
  /\ finishedWork \in [Roots -> Trees]
  /\ timeouts \in [Roots -> Trees]

TimesTyped ==
  /\ clock \in 2..MaxTime /\ currentTime \in 2..clock
  /\ application \in Application

LoopTyped ==
  /\ schedule \in Seq(Roots) /\ IsInjective(schedule)
  /\ nextFlushedRoot \in Roots \cup {NoRoot} /\ nextFlushedExpirationTime \in Times0
  /\ callbackExpirationTime \in Times0 /\ callback \in {"none", "waiting", "running"}
  /\ deadlineDidExpire \in BOOLEAN /\ isBatchingUpdates \in BOOLEAN /\ isExpired \in BOOLEAN
  /\ performing \in PerformingKinds /\ phase \in Phases

Exp(r) == levels[r].expirationTime
WorkOn(r) == levels[r].nextExpirationTimeToWorkOn
Scheduled == Range(schedule)
Committing(r) == phase = "commit" /\ nextFlushedRoot = r
MayCrash == "crash" \in application.behaviours

(* A root knows of all its work, and what to work on next.                 *)
LevelsOK(r) ==
  /\ Sound(levels[r])
  /\ Exp(r) # NoWork => WorkOn(r) # NoWork
  /\ \A l \in work[r] : Knows(levels[r], l)

(* It has one tree at most, which is part of its work.  A synchronous      *)
(* update that came too late for it will be found.                         *)
TreesOK(r) ==
  /\ timeouts[r] = NoTree \/ finishedWork[r] = NoTree
  /\ finishedWork[r].left \subseteq work[r] /\ timeouts[r].left \subseteq work[r]
  /\ timeouts[r] # NoTree => timeouts[r].level # NoWork
  /\ finishedWork[r] # NoTree => finishedWork[r].level # NoWork
  /\ Sync \in timeouts[r].left \/ Sync \in finishedWork[r].left =>
       Exp(r) # NoWork /\ r \in Scheduled

(* Without an expiration time, or out of the list, it waits for a promise, *)
(* if it has any work; and it has no synchronous work then.                *)
Waits(r) ==
  /\ levels[r].suspended.earliest # NoWork /\ levels[r].pending.earliest = NoWork
  /\ promises[r] # {}

IsDone(r) == timeouts[r] = NoTree /\ finishedWork[r] = NoTree /\ (work[r] = {} \/ MayCrash)

WaitsOK(r) ==
  /\ Exp(r) = NoWork => Waits(r) \/ IsDone(r)
  /\ r \notin Scheduled => Exp(r) = NoWork \/ Waits(r)
  /\ r \notin Scheduled /\ ~Committing(r) => Exp(r) # Sync
  /\ WorkOn(r) = Sync /\ ~Committing(r) =>
       Exp(r) = NoWork \/ Exp(r) = Sync \/ SyncIsHeld(levels[r])

RootOK(r) == LevelsOK(r) /\ TreesOK(r) /\ WaitsOK(r)

RootsOK == \A r \in Roots : RootOK(r)

(* The root of the render in progress has no other tree.  A synchronous    *)
(* update that comes too late for it is rendered next, synchronously.      *)
WipOK ==
  wip.root # NoRoot =>
    /\ wip.level # NoWork
    /\ wip.late \subseteq work[wip.root]
    /\ wip.timeout # -1 => wip.level \in promises[wip.root]
    /\ timeouts[wip.root] = NoTree /\ finishedWork[wip.root] = NoTree
    /\ Sync \in wip.late /\ wip.level # Sync =>
         /\ phase = "render" => isExpired
         /\ phase # "render" => Exp(wip.root) = Sync /\ HasSync(levels[wip.root])

LoopOK ==
  phase = "loop" =>
    /\ performing \in {"sync", "async"}
    /\ Highest(levels, schedule, nextFlushedRoot, nextFlushedExpirationTime)

PerformOK ==
  /\ phase \in {"perform", "render"} =>
       /\ nextFlushedRoot \in Roots
       /\ performing # "flushRoot" => nextFlushedRoot \in Scheduled /\ Exp(nextFlushedRoot) # NoWork
       /\ performing = "flushRoot" => phase = "perform" /\ finishedWork[nextFlushedRoot] # NoTree
  /\ phase = "perform" => (Exp(nextFlushedRoot) = Sync => isExpired)
  /\ phase = "render" =>
       /\ wip.root = nextFlushedRoot
       /\ wip.level = Sync => isExpired \/ SyncIsHeld(levels[nextFlushedRoot])
  /\ performing = "nothing" <=> phase = "idle"
  /\ performing = "unbatched" => isBatchingUpdates

(* The root that is being committed: its expiration time is set last.      *)
CommitOK ==
  phase = "commit" =>
    LET r == nextFlushedRoot
    IN /\ r \in Roots /\ wip.root # r
       /\ timeouts[r] = NoTree /\ finishedWork[r] = NoTree
       /\ r \in Scheduled \/ work[r] = {} \/ (Waits(r) /\ Sync \notin work[r])
       /\ work[r] # {} => WorkOn(r) # NoWork
       /\ WorkOn(r) = Sync => Sync \in work[r] \/ SyncIsHeld(levels[r])
       /\ levels[r].pending.earliest = Sync => Sync \in work[r]

CallbackOK ==
  /\ (callbackExpirationTime # NoWork) <=> (callback # "none")
  /\ (callback = "running") <=> (performing = "async")

TaskOK ==
  Task => \A r \in Scheduled : Exp(r) # NoWork =>
    /\ callback = "waiting" /\ callbackExpirationTime <= Exp(r) /\ Exp(r) # Sync

IInv ==
  /\ TreesTyped /\ TimesTyped /\ LoopTyped
  /\ RootsOK /\ WipOK
  /\ LoopOK /\ PerformOK /\ CommitOK /\ CallbackOK /\ TaskOK

-----------------------------------------------------------------------------
(* The levels there are: positive, and enough for what the clock yields.   *)
LEMMA LevelTimesAre ==
  /\ MaxTime \in Nat /\ MaxTime > 1
  /\ LevelTimes \in SUBSET Nat /\ NoWork \notin LevelTimes /\ Sync \in LevelTimes
  /\ Times0 \in SUBSET Nat /\ NoWork \in Times0 /\ LevelTimes \subseteq Times0
  /\ NoTree \in Trees /\ NoTree.left = {} /\ NoTree.level = NoWork
  /\ NoRender \in Renders /\ NoRender.root = NoRoot /\ NoRoot \notin Roots
<1>1. MaxTime \in Nat /\ MaxTime > 1 /\ NoRoot \notin Roots
  BY RootSchedulerAssumption
<1>2. /\ LevelTimes \in SUBSET Nat /\ NoWork \notin LevelTimes /\ Sync \in LevelTimes
      /\ Times0 \in SUBSET Nat /\ NoWork \in Times0 /\ LevelTimes \subseteq Times0
  BY <1>1 DEF LevelTimes, Times0, NoWork, Sync
<1>3. NoTree \in Trees /\ NoTree.left = {} /\ NoTree.level = NoWork
  BY <1>2 DEF NoTree, Trees
<1>4. NoRender \in Renders /\ NoRender.root = NoRoot
  BY <1>2 DEF NoRender, Renders
<1> QED
  BY <1>1, <1>2, <1>3, <1>4

LEMMA RootTyped ==
  ASSUME TreesTyped, NEW r \in Roots
  PROVE  /\ levels[r] \in LevelsIn(Times0) /\ levels[r] \in Levels
         /\ Exp(r) \in Times0 /\ WorkOn(r) \in Times0
         /\ work[r] \in SUBSET LevelTimes /\ promises[r] \in SUBSET LevelTimes
         /\ finishedWork[r] \in Trees /\ timeouts[r] \in Trees
<1>1. levels[r] \in LevelsIn(Times0)
  BY DEF TreesTyped
<1>2. levels[r] \in Levels
  BY <1>1, LevelTimesAre, LevelsInAreLevels
<1> QED
  BY <1>1, <1>2 DEF TreesTyped, Exp, WorkOn, LevelsIn

LEMMA ExpirationTimesAreLevels ==
  ASSUME TimesTyped, TreesTyped, NEW now \in 2..clock
  PROVE  ExpirationTimes(now) \subseteq LevelTimes /\ ExplicitTimes(now) \subseteq LevelTimes
<1>1. application.delays \subseteq 1..MaxTime
  BY DEF TimesTyped, Application
<1>2. now \in Nat /\ now <= MaxTime /\ now > 1
  BY LevelTimesAre DEF TimesTyped
<1>3. ASSUME NEW d \in application.delays
      PROVE  now + d \in LevelTimes /\ now + d + 1 \in LevelTimes
  <2>1. d \in 1..MaxTime
    BY <1>1
  <2> QED
    BY <1>2, <2>1, LevelTimesAre DEF LevelTimes
<1>4. ASSUME NEW u \in Later(now) PROVE u \in LevelTimes /\ Bump(u) \in LevelTimes
  BY <1>3 DEF Later, Bump
<1>5. ExplicitTimes(now) \subseteq LevelTimes
  BY <1>4 DEF ExplicitTimes
<1> QED
  BY <1>4, <1>5, LevelTimesAre DEF ExpirationTimes

LEMMA LeftInIs ==
  ASSUME NEW tree \in Trees, NEW t \in LevelTimes
  PROVE  /\ LeftIn(tree, t) \in Trees
         /\ LeftIn(tree, t).level = tree.level
         /\ tree.left \subseteq LeftIn(tree, t).left
         /\ LeftIn(tree, t).left \subseteq tree.left \cup {t}
         /\ tree = NoTree => LeftIn(tree, t) = NoTree
<1>1. t \in Nat /\ t # NoWork /\ NoTree.level = NoWork /\ ~(t <= NoWork)
  BY LevelTimesAre DEF NoWork
<1> QED
  BY <1>1 DEF LeftIn, Trees

(* What a step does not touch of a root stays in order, if the root stays  *)
(* in the list as long as it has work.                                     *)
Untouched(q) ==
  /\ levels'[q] = levels[q] /\ work'[q] = work[q] /\ promises'[q] = promises[q]
  /\ finishedWork'[q] = finishedWork[q] /\ timeouts'[q] = timeouts[q]

LEMMA UntouchedIsOK ==
  ASSUME NEW q \in Roots, RootOK(q), Untouched(q),
         q \in Scheduled /\ Exp(q) # NoWork => q \in Scheduled',
         Committing(q) => Committing(q)',
         MayCrash' = MayCrash
  PROVE  RootOK(q)'
<1>1. LevelsOK(q)'
  BY DEF RootOK, LevelsOK, Untouched, Exp, WorkOn
<1>2. TreesOK(q)'
  BY DEF RootOK, TreesOK, Untouched, Exp
<1>3. /\ Waits(q)' <=> Waits(q)
      /\ IsDone(q)' <=> IsDone(q)
      /\ Exp(q)' = Exp(q)
      /\ WorkOn(q)' = WorkOn(q)
  BY DEF Untouched, Waits, IsDone, Exp, WorkOn
<1>4. SyncIsHeld(levels[q])' <=> SyncIsHeld(levels[q])
  BY DEF Untouched, SyncIsHeld
<1>5. WaitsOK(q)'
  <2>0. WaitsOK(q)
    BY DEF RootOK
  <2>1. Exp(q)' = NoWork => Waits(q)' \/ IsDone(q)'
    BY <1>3, <2>0 DEF WaitsOK
  <2>2. q \notin Scheduled' => Exp(q)' = NoWork \/ Waits(q)'
    BY <1>3, <2>0 DEF WaitsOK
  <2>3. q \notin Scheduled' /\ ~Committing(q)' => Exp(q)' # Sync
    BY <1>3, <2>0 DEF WaitsOK, NoWork, Sync
  <2>4. WorkOn(q)' = Sync /\ ~Committing(q)' =>
          Exp(q)' = NoWork \/ Exp(q)' = Sync \/ SyncIsHeld(levels[q])'
    BY <1>3, <1>4, <2>0 DEF WaitsOK
  <2> QED
    BY <2>1, <2>2, <2>3, <2>4 DEF WaitsOK
<1> QED
  BY <1>1, <1>2, <1>5 DEF RootOK

(* An update of a root, or a retry: the levels of the root become "new",   *)
(* which knows of it, and the root is in the list afterwards.              *)
Adds(before, new, t) ==
  /\ new \in LevelsIn(Times0) /\ Sound(new) /\ TimesAgree(new)
  /\ new.expirationTime # NoWork
  /\ KnowsMore(before, new) /\ Knows(new, t)
  /\ HasSync(before) \/ t = Sync => HasSync(new)

LEMMA MarkPendingIsAdd ==
  ASSUME NEW root \in LevelsIn(Times0), Sound(root), NEW t \in LevelTimes
  PROVE  Adds(root, MarkPending(root, t), t)
<1>1. t \in Nat /\ t # NoWork /\ t \in Times0
  BY LevelTimesAre
<1>2. MarkPending(root, t) \in LevelsIn(Times0)
  BY <1>1, LevelTimesAre, MarkPendingStaysIn
<1> QED
  BY <1>1, <1>2, MarkPendingAdds DEF Adds

LEMMA MarkPingedIsAdd ==
  ASSUME NEW root \in LevelsIn(Times0), Sound(root), NEW t \in LevelTimes,
         IsPriorityLevelSuspended(root, t)
  PROVE  Adds(root, MarkPinged(root, t), t)
<1>1. t \in Nat /\ t # NoWork /\ t \in Times0
  BY LevelTimesAre
<1>2. MarkPinged(root, t) \in LevelsIn(Times0)
  BY <1>1, LevelTimesAre, MarkPingedStaysIn
<1> QED
  BY <1>1, <1>2, MarkPingedAdds DEF Adds

LEMMA UpdateKeepsTypes ==
  ASSUME TreesTyped, NEW r \in Roots, NEW t \in LevelTimes, NEW new \in LevelsIn(Times0),
         NEW render \in {wip, NoRender},
         levels' = [levels EXCEPT ![r] = new], AddWork(r, t, render),
         promises' \in [Roots -> SUBSET LevelTimes]
  PROVE  TreesTyped'
<1>1. levels' \in [Roots -> LevelsIn(Times0)]
  BY DEF TreesTyped
<1>2. work' \in [Roots -> SUBSET LevelTimes]
  BY DEF TreesTyped, AddWork
<1>3. LeftIn(finishedWork[r], t) \in Trees /\ LeftIn(timeouts[r], t) \in Trees
  BY LeftInIs DEF TreesTyped
<1>4. finishedWork' \in [Roots -> Trees] /\ timeouts' \in [Roots -> Trees]
  BY <1>3 DEF TreesTyped, AddWork
<1>5. render \in Renders
  BY LevelTimesAre DEF TreesTyped
<1>6. wip' \in Renders
  BY <1>5 DEF Renders, AddWork
<1> QED
  BY <1>1, <1>2, <1>4, <1>6 DEF TreesTyped

LEMMA UpdateKeepsRoot ==
  ASSUME TreesTyped, NEW r \in Roots, RootOK(r), NEW t \in LevelTimes, NEW new,
         Adds(levels[r], new, t), NEW render,
         levels' = [levels EXCEPT ![r] = new], AddWork(r, t, render),
         r \in Scheduled'
  PROVE  RootOK(r)'
<1>1. levels'[r] = new /\ Exp(r)' = new.expirationTime
      /\ WorkOn(r)' = new.nextExpirationTimeToWorkOn
  BY DEF TreesTyped, Exp, WorkOn
<1>2. work'[r] = work[r] \cup {t} /\ work[r] \in SUBSET Nat
  BY LevelTimesAre DEF TreesTyped, AddWork
<1>3. LevelsOK(r)'
  <2>1. \A l \in work'[r] : Knows(new, l)
    BY <1>2 DEF RootOK, LevelsOK, Adds, KnowsMore
  <2>2. new.nextExpirationTimeToWorkOn # NoWork
    BY DEF Adds, TimesAgree
  <2>3. Sound(new)
    BY DEF Adds
  <2> QED
    BY <1>1, <2>1, <2>2, <2>3 DEF LevelsOK
<1>4. TreesOK(r)'
  <2>1. /\ finishedWork[r] \in Trees /\ timeouts[r] \in Trees
        /\ finishedWork'[r] = LeftIn(finishedWork[r], t)
        /\ timeouts'[r] = LeftIn(timeouts[r], t)
    BY DEF TreesTyped, AddWork
  <2> DEFINE f == LeftIn(finishedWork[r], t)
             o == LeftIn(timeouts[r], t)
  <2>2. /\ f.level = finishedWork[r].level /\ f.left \subseteq finishedWork[r].left \cup {t}
        /\ finishedWork[r] = NoTree => f = NoTree
        /\ o.level = timeouts[r].level /\ o.left \subseteq timeouts[r].left \cup {t}
        /\ timeouts[r] = NoTree => o = NoTree
    BY <2>1, LeftInIs
  <2> HIDE DEF f, o
  <2>3. TreesOK(r)
    BY DEF RootOK
  <2>4. Exp(r)' # NoWork /\ r \in Scheduled'
    BY <1>1 DEF Adds
  <2>5. timeouts'[r] = o /\ finishedWork'[r] = f
    BY <2>1 DEF o, f
  <2>6. o = NoTree \/ f = NoTree
    BY <2>2, <2>3 DEF TreesOK
  <2>7. f.left \subseteq work'[r] /\ o.left \subseteq work'[r]
    BY <1>2, <2>2, <2>3 DEF TreesOK
  <2>8. (o # NoTree => o.level # NoWork) /\ (f # NoTree => f.level # NoWork)
    BY <2>2, <2>3 DEF TreesOK
  <2> QED
    BY <2>4, <2>5, <2>6, <2>7, <2>8 DEF TreesOK
<1>5. WaitsOK(r)'
  <2>1. Exp(r)' # NoWork /\ (WorkOn(r)' = Sync => Exp(r)' = Sync)
    BY <1>1 DEF Adds, TimesAgree
  <2> QED
    BY <2>1 DEF WaitsOK
<1> QED
  BY <1>3, <1>4, <1>5 DEF RootOK

(* The render in progress, if it is not thrown away, notices an update of  *)
(* its root that it may have passed.                                       *)
LEMMA UpdateKeepsWip ==
  ASSUME TreesTyped, NEW r \in Roots, NEW t \in LevelTimes, NEW new,
         WipOK, Adds(levels[r], new, t), NEW render \in {wip, NoRender},
         levels' = [levels EXCEPT ![r] = new], AddWork(r, t, render),
         promises' \in [Roots -> SUBSET LevelTimes],
         render # NoRender /\ wip.level \in promises[wip.root] => wip.level \in promises'[wip.root],
         phase' = "render" <=> phase = "render",
         phase = "render" => isExpired' = isExpired /\ (r = wip.root => t = wip.level)
  PROVE  WipOK'
<1>1. CASE render = NoRender
  <2>1. render.root = NoRoot /\ r # NoRoot
    BY <1>1, LevelTimesAre
  <2>2. wip' = NoRender
    BY <1>1, <2>1 DEF AddWork
  <2> QED
    BY <2>2, LevelTimesAre DEF WipOK
<1>2. CASE render = wip /\ render # NoRender /\ wip.root # NoRoot
  <2>q. PICK q \in Roots : q = wip.root
    BY <1>2 DEF TreesTyped, Renders
  <2>0. /\ wip \in Renders /\ wip.level \in Nat /\ t \in Nat
        /\ wip'.root = q /\ wip'.level = wip.level /\ wip'.timeout = wip.timeout
        /\ wip'.late = IF q = r /\ t <= wip.level THEN wip.late \cup {t} ELSE wip.late
    BY <1>2, <2>q, LevelTimesAre DEF TreesTyped, Renders, AddWork
  <2>1. /\ wip.level # NoWork /\ wip.late \subseteq work[q]
        /\ wip.timeout # -1 => wip.level \in promises[q]
        /\ timeouts[q] = NoTree /\ finishedWork[q] = NoTree
        /\ Sync \in wip.late /\ wip.level # Sync =>
             /\ phase = "render" => isExpired
             /\ phase # "render" => Exp(q) = Sync /\ HasSync(levels[q])
    BY <1>2, <2>q DEF WipOK
  <2>2. work[q] \subseteq work'[q] /\ (q = r => t \in work'[q])
    BY <2>0 DEF TreesTyped, AddWork
  <2>3. timeouts'[q] = NoTree /\ finishedWork'[q] = NoTree
    <3>1. LeftIn(NoTree, t) = NoTree
      BY LevelTimesAre, LeftInIs
    <3> QED
      BY <2>0, <2>1, <3>1 DEF TreesTyped, AddWork
  <2>4. wip'.late \subseteq work'[q]
    BY <2>0, <2>1, <2>2
  <2>5. wip'.timeout # -1 => wip'.level \in promises'[q]
    BY <1>2, <2>q, <2>0, <2>1
  <2>6. ASSUME Sync \in wip'.late, wip'.level # Sync
        PROVE  /\ phase' = "render" => isExpired'
               /\ phase' # "render" => Exp(q)' = Sync /\ HasSync(levels'[q])
    <3>1. CASE q # r
      <4>1. levels'[q] = levels[q] /\ Exp(q)' = Exp(q)
        BY <2>0, <3>1 DEF TreesTyped, Exp
      <4> QED
        BY <2>0, <2>1, <2>6, <3>1, <4>1
    <3>2. CASE q = r
      <4>1. levels'[q] = new /\ Exp(q)' = new.expirationTime
        BY <2>0, <3>2 DEF TreesTyped, Exp
      <4>2. CASE phase = "render"
        <5>1. t # Sync
          BY <2>q, <2>0, <2>6, <3>2, <4>2
        <5> QED
          BY <2>0, <2>1, <2>6, <4>2, <5>1
      <4>3. CASE phase # "render"
        <5>1. Sync \in wip.late \/ t = Sync
          BY <2>0, <2>6
        <5>2. HasSync(new)
          BY <2>0, <2>1, <2>6, <3>2, <4>3, <5>1 DEF Adds
        <5>3. new.expirationTime = Sync
          BY <5>2 DEF Adds, TimesAgree
        <5> QED
          BY <4>1, <4>3, <5>2, <5>3
      <4> QED
        BY <4>2, <4>3
    <3> QED
      BY <3>1, <3>2
  <2> QED
    BY <2>0, <2>1, <2>3, <2>4, <2>5, <2>6 DEF WipOK
<1>3. CASE render = wip /\ wip.root = NoRoot
  <2>1. wip'.root = NoRoot
    BY <1>3, LevelTimesAre DEF AddWork, TreesTyped, Renders
  <2> QED
    BY <2>1 DEF WipOK
<1> QED
  BY <1>1, <1>2, <1>3

-----------------------------------------------------------------------------
(* The conjuncts about where in performing work we are.                    *)
PhaseOK == LoopOK /\ PerformOK /\ CommitOK /\ TaskOK

PerformingTyped ==
  /\ schedule \in Seq(Roots) /\ IsInjective(schedule)
  /\ nextFlushedRoot \in Roots \cup {NoRoot} /\ nextFlushedExpirationTime \in Times0
  /\ isExpired \in BOOLEAN /\ performing \in PerformingKinds /\ phase \in Phases

(* The loop of performWork begins with the root of the highest priority.   *)
LEMMA LoopStarts ==
  ASSUME NEW lv \in [Roots -> LevelsIn(Times0)], levels' = lv,
         NEW s \in Seq(Roots), IsInjective(s), NEW kind \in {"sync", "async"},
         isExpired \in BOOLEAN,
         StartPerformWork(kind, FindHighestPriorityRoot(lv, s))
  PROVE  /\ Shortened(lv, s, schedule') /\ phase' = "loop" /\ performing' = kind
         /\ PerformingTyped' /\ PhaseOK'
<1> DEFINE found == FindHighestPriorityRoot(lv, s)
<1>1. \A r \in Roots : lv[r].expirationTime \in Times0 /\ lv[r].expirationTime \in Nat
  BY LevelTimesAre DEF LevelsIn
<1>2. Shortened(lv, s, found.schedule) /\ Highest(lv, found.schedule, found.root, found.time)
  BY <1>1, FindFinds
<1>3. /\ schedule' = found.schedule /\ nextFlushedRoot' = found.root
      /\ nextFlushedExpirationTime' = found.time
      /\ performing' = kind /\ phase' = "loop" /\ isExpired' = isExpired
  BY DEF StartPerformWork, Find
<1> HIDE DEF found
<1>4. /\ schedule' \in Seq(Roots) /\ IsInjective(schedule') /\ Shortened(lv, s, schedule')
  BY <1>2, <1>3 DEF Shortened
<1>5. Highest(lv, schedule', nextFlushedRoot', nextFlushedExpirationTime')
  BY <1>2, <1>3
<1>6. /\ nextFlushedRoot' \in Roots \cup {NoRoot} /\ nextFlushedExpirationTime' \in Times0
  <2>1. CASE nextFlushedExpirationTime' = NoWork
    BY <1>5, <2>1, LevelTimesAre DEF Highest
  <2>2. CASE nextFlushedExpirationTime' # NoWork
    <3>1. nextFlushedRoot' \in Range(schedule')
      BY <1>5, <2>2 DEF Highest
    <3>2. nextFlushedRoot' \in Roots
      BY <1>4, <3>1 DEF Range
    <3> QED
      BY <1>1, <1>5, <2>2, <3>2 DEF Highest
  <2> QED
    BY <2>1, <2>2
<1>7. PerformingTyped'
  BY <1>3, <1>4, <1>6 DEF PerformingTyped, PerformingKinds, Phases
<1>8. LoopOK'
  BY <1>3, <1>5 DEF LoopOK
<1>9. PerformOK' /\ CommitOK' /\ TaskOK'
  BY <1>3 DEF PerformOK, CommitOK, TaskOK, Task
<1> QED
  BY <1>3, <1>4, <1>7, <1>8, <1>9 DEF PhaseOK

LEMMA AfterPerform ==
  ASSUME NEW lv \in [Roots -> LevelsIn(Times0)], levels' = lv,
         LoopTyped, TimesTyped, PerformOK, phase # "idle", AfterPerformWorkOnRoot(lv),
         UNCHANGED <<clock, application, isBatchingUpdates>>
  PROVE  /\ Shortened(lv, schedule, schedule')
         /\ phase' \in {"loop", "idle"}
         /\ performing' = "async" <=> performing = "async"
         /\ PerformingTyped' /\ PhaseOK' /\ TimesTyped'
<1>0. /\ schedule \in Seq(Roots) /\ IsInjective(schedule) /\ isExpired \in BOOLEAN
      /\ performing \in PerformingKinds /\ performing # "nothing"
      /\ performing = "unbatched" => isBatchingUpdates
  BY DEF LoopTyped, PerformOK
<1>1. CASE performing = "unbatched"
  <2>1. /\ performing' = "nothing" /\ phase' = "idle" /\ isExpired' = FALSE
        /\ nextFlushedRoot' = NoRoot /\ nextFlushedExpirationTime' = NoWork
        /\ currentTime' = currentTime /\ schedule' = schedule /\ isBatchingUpdates'
    BY <1>0, <1>1 DEF AfterPerformWorkOnRoot, StopPerforming
  <2>2. Shortened(lv, schedule, schedule')
    BY <1>0, <2>1 DEF Shortened
  <2>3. PerformingTyped'
    BY <1>0, <2>1, LevelTimesAre DEF PerformingTyped, PerformingKinds, Phases
  <2>4. LoopOK' /\ PerformOK' /\ CommitOK' /\ TaskOK'
    BY <2>1 DEF LoopOK, PerformOK, CommitOK, TaskOK, Task
  <2>5. TimesTyped'
    BY <2>1 DEF TimesTyped
  <2> QED
    BY <1>1, <2>1, <2>2, <2>3, <2>4, <2>5 DEF PhaseOK
<1>2. CASE performing # "unbatched"
  <2> DEFINE kind == IF performing = "flushRoot" THEN "sync" ELSE performing
  <2>1. /\ StartPerformWork(kind, FindHighestPriorityRoot(lv, schedule))
        /\ currentTime' = IF performing = "async" THEN clock ELSE currentTime
    BY <1>2 DEF AfterPerformWorkOnRoot
  <2>2. kind \in {"sync", "async"} /\ (kind = "async" <=> performing = "async")
    BY <1>0, <1>2 DEF PerformingKinds
  <2> HIDE DEF kind
  <2>3. /\ Shortened(lv, schedule, schedule') /\ phase' = "loop" /\ performing' = kind
        /\ PerformingTyped' /\ PhaseOK'
    BY <1>0, <2>1, <2>2, LoopStarts
  <2>4. TimesTyped'
    <3>1. clock \in 2..MaxTime /\ clock \in 2..clock
      BY LevelTimesAre DEF TimesTyped
    <3> QED
      BY <2>1, <3>1 DEF TimesTyped
  <2> QED
    BY <2>2, <2>3, <2>4
<1> QED
  BY <1>1, <1>2

(* When the caller of performWorkOnRoot goes on, the other roots are as    *)
(* they were.                                                              *)
LEMMA OthersAreOK ==
  ASSUME TreesTyped, RootsOK, NEW lv \in [Roots -> LevelsIn(Times0)], levels' = lv,
         NEW r \in Roots, nextFlushedRoot = r,
         Shortened(lv, schedule, schedule'), MayCrash' = MayCrash,
         \A q \in Roots \ {r} : Untouched(q)
  PROVE  \A q \in Roots \ {r} : RootOK(q)'
<1> SUFFICES ASSUME NEW q \in Roots \ {r} PROVE RootOK(q)'
  OBVIOUS
<1>1. RootOK(q) /\ Untouched(q)
  BY DEF RootsOK
<1>2. lv[q] = levels[q]
  BY <1>1 DEF Untouched
<1>3. q \in Scheduled /\ Exp(q) # NoWork => q \in Scheduled'
  BY <1>2 DEF Shortened, Scheduled, Exp
<1>4. ~Committing(q)
  BY DEF Committing
<1> QED
  BY <1>1, <1>3, <1>4, UntouchedIsOK

-----------------------------------------------------------------------------
LEMMA InitIsOK == Init => IInv
<1> SUFFICES ASSUME Init PROVE IInv
  OBVIOUS
<1> USE DEF Init
<1>1. /\ NewLevels \in LevelsIn(Times0) /\ Sound(NewLevels)
      /\ NewLevels.expirationTime = NoWork /\ NewLevels.nextExpirationTimeToWorkOn = NoWork
  <2>1. NoWork \in Nat /\ NoWork \in Times0
    BY LevelTimesAre DEF NoWork
  <2>2. NoLevels \in RangesIn(Times0) /\ NoLevels \in Ranges /\ IsRange(NoLevels)
        /\ NoLevels.earliest = NoWork
    BY <2>1 DEF NoLevels, RangesIn, Ranges, IsRange, NoWork
  <2>3. NewLevels \in LevelsIn(Times0) /\ NewLevels \in Levels
    BY <2>1, <2>2 DEF NewLevels, LevelsIn, Levels
  <2> QED
    BY <2>2, <2>3 DEF NewLevels, Sound, IsPinged
<1>2. TreesTyped
  BY <1>1, LevelTimesAre DEF TreesTyped
<1>3. TimesTyped
  BY LevelTimesAre, RootSchedulerAssumption DEF TimesTyped
<1>4. LoopTyped
  <2>1. schedule \in Seq(Roots) /\ IsInjective(schedule)
    BY DEF IsInjective
  <2> QED
    BY <2>1, LevelTimesAre DEF LoopTyped, PerformingKinds, Phases
<1>5. RootsOK
  <2> SUFFICES ASSUME NEW r \in Roots PROVE RootOK(r)
    BY DEF RootsOK
  <2>1. levels[r] = NewLevels /\ work[r] = {} /\ timeouts[r] = NoTree /\ finishedWork[r] = NoTree
        /\ NoTree.left = {}
    BY LevelTimesAre
  <2>2. LevelsOK(r)
    BY <1>1, <2>1 DEF LevelsOK, Exp
  <2>3. TreesOK(r)
    BY <2>1 DEF TreesOK
  <2>4. WaitsOK(r)
    BY <1>1, <2>1 DEF WaitsOK, Exp, WorkOn, IsDone, NoWork, Sync
  <2> QED
    BY <2>2, <2>3, <2>4 DEF RootOK
<1>6. WipOK
  BY LevelTimesAre DEF WipOK
<1>7. LoopOK /\ PerformOK /\ CommitOK /\ CallbackOK
  BY DEF LoopOK, PerformOK, CommitOK, CallbackOK
<1>8. TaskOK
  BY DEF TaskOK, Scheduled, Range
<1> QED
  BY <1>2, <1>3, <1>4, <1>5, <1>6, <1>7, <1>8 DEF IInv

(* Steps that leave every root as it is.                                   *)
LEMMA UntouchedRootsAreOK ==
  ASSUME RootsOK, UNCHANGED <<levels, treeVars>>, MayCrash' = MayCrash,
         schedule' = schedule \/ Shortened(levels, schedule, schedule'),
         phase # "commit"
  PROVE  RootsOK'
<1> SUFFICES ASSUME NEW q \in Roots PROVE RootOK(q)'
  BY DEF RootsOK
<1>1. RootOK(q) /\ Untouched(q)
  BY DEF RootsOK, Untouched, treeVars
<1>2. q \in Scheduled /\ Exp(q) # NoWork => q \in Scheduled'
  BY DEF Shortened, Scheduled, Exp
<1>3. ~Committing(q)
  BY DEF Committing
<1> QED
  BY <1>1, <1>2, <1>3, UntouchedIsOK

LEMMA UntouchedWipIsOK ==
  ASSUME WipOK, UNCHANGED <<levels, treeVars>>, phase # "render", phase' # "render"
  PROVE  WipOK'
  BY DEF WipOK, treeVars, Exp

LEMMA StutterIsOK == ASSUME IInv, UNCHANGED vars PROVE IInv'
<1> USE DEF vars, treeVars, flushVars, callbackVars, loopVars
<1>1. TreesTyped' /\ TimesTyped' /\ LoopTyped'
  BY DEF IInv, TreesTyped, TimesTyped, LoopTyped
<1>2. RootsOK'
  <2> SUFFICES ASSUME NEW q \in Roots PROVE RootOK(q)'
    BY DEF RootsOK
  <2>1. RootOK(q) /\ Untouched(q)
    BY DEF IInv, RootsOK, Untouched
  <2>2. (q \in Scheduled /\ Exp(q) # NoWork => q \in Scheduled') /\ (Committing(q) => Committing(q)')
        /\ MayCrash' = MayCrash
    BY DEF Scheduled, Committing, MayCrash
  <2> QED
    BY <2>1, <2>2, UntouchedIsOK
<1>3. WipOK'
  BY DEF IInv, WipOK, Exp
<1>4. LoopOK' /\ PerformOK' /\ CallbackOK' /\ TaskOK'
  BY DEF IInv, LoopOK, PerformOK, CallbackOK, TaskOK, Task, Exp, Scheduled
<1>5. CommitOK'
  BY DEF IInv, CommitOK, Waits, WorkOn, Scheduled
<1> QED
  BY <1>1, <1>2, <1>3, <1>4, <1>5 DEF IInv

LEMMA TickIsOK == ASSUME IInv, Tick PROVE IInv'
<1> USE DEF Tick, treeVars, flushVars, callbackVars, loopVars
<1>1. TreesTyped' /\ LoopTyped'
  BY DEF IInv, TreesTyped, LoopTyped
<1>0. TimesTyped'
  <2>1. clock \in Nat /\ clock + 1 \in 2..MaxTime
    BY LevelTimesAre DEF IInv, TimesTyped
  <2>2. currentTime \in 2..(clock + 1)
    BY LevelTimesAre DEF IInv, TimesTyped
  <2> QED
    BY <2>1, <2>2 DEF IInv, TimesTyped
<1>2. RootsOK'
  <2> SUFFICES ASSUME NEW q \in Roots PROVE RootOK(q)'
    BY DEF RootsOK
  <2>1. RootOK(q) /\ Untouched(q)
    BY DEF IInv, RootsOK, Untouched
  <2>2. (q \in Scheduled /\ Exp(q) # NoWork => q \in Scheduled') /\ (Committing(q) => Committing(q)')
        /\ MayCrash' = MayCrash
    BY DEF Scheduled, Committing, MayCrash
  <2> QED
    BY <2>1, <2>2, UntouchedIsOK
<1>3. WipOK'
  BY DEF IInv, WipOK, Exp
<1>4. LoopOK' /\ PerformOK' /\ CallbackOK' /\ TaskOK'
  BY DEF IInv, LoopOK, PerformOK, CallbackOK, TaskOK, Task, Exp, Scheduled
<1>5. CommitOK'
  BY DEF IInv, CommitOK, Waits, WorkOn, Scheduled
<1> QED
  BY <1>0, <1>1, <1>2, <1>3, <1>4, <1>5 DEF IInv

LEMMA BeginBatchIsOK == ASSUME IInv, BeginBatch PROVE IInv'
<1> USE DEF BeginBatch, Event, treeVars, flushVars, callbackVars, loopVars
<1>1. TreesTyped' /\ TimesTyped' /\ LoopTyped'
  BY DEF IInv, TreesTyped, TimesTyped, LoopTyped
<1>2. RootsOK'
  BY UntouchedRootsAreOK DEF IInv, MayCrash
<1>3. WipOK'
  BY UntouchedWipIsOK DEF IInv
<1>4. LoopOK' /\ PerformOK' /\ CallbackOK' /\ TaskOK' /\ CommitOK'
  BY DEF IInv, LoopOK, PerformOK, CallbackOK, TaskOK, Task, CommitOK
<1> QED
  BY <1>1, <1>2, <1>3, <1>4 DEF IInv

LEMMA EndBatchIsOK == ASSUME IInv, EndBatch PROVE IInv'
<1> USE DEF EndBatch, Event, treeVars, callbackVars
<1>1. levels \in [Roots -> LevelsIn(Times0)] /\ levels' = levels
      /\ schedule \in Seq(Roots) /\ IsInjective(schedule) /\ isExpired \in BOOLEAN
  BY DEF IInv, TreesTyped, LoopTyped
<1>2. /\ Shortened(levels, schedule, schedule') /\ phase' = "loop" /\ performing' = "sync"
      /\ PerformingTyped' /\ PhaseOK'
  BY <1>1, LoopStarts
<1>3. TreesTyped' /\ TimesTyped' /\ LoopTyped'
  BY <1>2 DEF IInv, TreesTyped, TimesTyped, LoopTyped, PerformingTyped
<1>4. RootsOK'
  BY <1>2, UntouchedRootsAreOK DEF IInv, MayCrash
<1>5. WipOK'
  BY <1>2, UntouchedWipIsOK DEF IInv
<1>6. CallbackOK'
  BY <1>2 DEF IInv, CallbackOK, PerformOK
<1> QED
  BY <1>2, <1>3, <1>4, <1>5, <1>6 DEF IInv, PhaseOK

LEMMA LoopNextIsOK == ASSUME IInv, LoopNext PROVE IInv'
<1> USE DEF LoopNext, treeVars, flushVars, callbackVars
<1>1. TreesTyped' /\ TimesTyped'
  BY DEF IInv, TreesTyped, TimesTyped
<1>2. LoopTyped'
  BY DEF IInv, LoopTyped, Phases
<1>3. RootsOK'
  BY UntouchedRootsAreOK DEF IInv, MayCrash
<1>4. WipOK'
  BY UntouchedWipIsOK DEF IInv
<1>5. CallbackOK' /\ LoopOK' /\ CommitOK' /\ TaskOK'
  BY DEF IInv, CallbackOK, LoopOK, CommitOK, TaskOK, Task
<1>6. PerformOK'
  <2>1. /\ nextFlushedRoot # NoRoot /\ nextFlushedExpirationTime # NoWork
        /\ performing \in {"sync", "async"}
        /\ nextFlushedRoot \in Scheduled /\ Exp(nextFlushedRoot) = nextFlushedExpirationTime
    BY DEF IInv, LoopGoesOn, LoopOK, Highest, Scheduled, Exp
  <2>2. nextFlushedRoot \in Roots
    BY <2>1 DEF IInv, LoopTyped
  <2>3. nextFlushedExpirationTime = Sync => isExpired'
    <3>1. currentTime \in Nat /\ currentTime >= 2
      BY LevelTimesAre DEF IInv, TimesTyped
    <3>2. Sync <= currentTime
      BY <3>1 DEF Sync
    <3>3. nextFlushedExpirationTime = Sync => WorkHasExpired
      BY <3>2 DEF WorkHasExpired
    <3> QED
      BY <3>3, Zenon
  <2>4. nextFlushedRoot' = nextFlushedRoot /\ phase' = "perform" /\ performing' = performing
        /\ Exp(nextFlushedRoot)' = Exp(nextFlushedRoot) /\ Scheduled' = Scheduled
    BY DEF Exp, Scheduled
  <2> QED
    BY <2>1, <2>2, <2>3, <2>4 DEF PerformOK
<1> QED
  BY <1>1, <1>2, <1>3, <1>4, <1>5, <1>6 DEF IInv

(* The end of performWork: what is left is not synchronous, and the        *)
(* callback will come in time for it.                                      *)
LEMMA LoopEndIsOK == ASSUME IInv, LoopEnd PROVE IInv'
<1> USE DEF LoopEnd, StopPerforming, treeVars
<1>1. TreesTyped' /\ TimesTyped'
  BY DEF IInv, TreesTyped, TimesTyped
<1>0. /\ performing \in {"sync", "async"}
      /\ Highest(levels, schedule, nextFlushedRoot, nextFlushedExpirationTime)
      /\ nextFlushedExpirationTime \in Times0 /\ callbackExpirationTime \in Times0
  BY DEF IInv, LoopOK, LoopTyped
<1>2. /\ callbackExpirationTime' \in Times0 /\ callback' \in {"none", "waiting"}
      /\ (callbackExpirationTime' # NoWork) <=> (callback' # "none")
  BY <1>0, LevelTimesAre DEF IInv, CallbackOK, LoopTyped, ScheduleNextCallback, callbackVars,
       ScheduleCallbackWithExpirationTime
<1>3. LoopTyped'
  BY <1>2, LevelTimesAre DEF IInv, LoopTyped, Phases, PerformingKinds
<1>4. RootsOK'
  BY UntouchedRootsAreOK DEF IInv, MayCrash
<1>5. WipOK'
  BY UntouchedWipIsOK DEF IInv
<1>6. CallbackOK' /\ LoopOK' /\ CommitOK' /\ PerformOK'
  BY <1>2 DEF CallbackOK, LoopOK, CommitOK, PerformOK
<1>7. TaskOK'
  <2> SUFFICES ASSUME NEW r \in Scheduled, Exp(r) # NoWork
               PROVE  callback' = "waiting" /\ callbackExpirationTime' <= Exp(r) /\ Exp(r) # Sync
    BY DEF TaskOK, Exp, Scheduled
  <2>0. r \in Roots /\ r \in Range(schedule) /\ Exp(r) \in Nat
    <3>1. r \in Roots
      BY DEF IInv, LoopTyped, Scheduled, Range
    <3> QED
      BY <3>1, LevelTimesAre, RootTyped DEF IInv, Scheduled
  <2>1. /\ nextFlushedExpirationTime # NoWork /\ nextFlushedRoot # NoRoot
        /\ nextFlushedExpirationTime <= Exp(r)
    BY <1>0, <2>0 DEF Highest, Exp
  <2>2. nextFlushedExpirationTime \in Nat /\ callbackExpirationTime \in Nat
        /\ currentTime \in Nat /\ currentTime >= 2
    BY <1>0, LevelTimesAre DEF IInv, TimesTyped
  <2>3. nextFlushedExpirationTime > Sync
    BY <2>1, <2>2 DEF LoopGoesOn, WorkHasExpired, Sync
  <2>4. /\ callback' = "waiting" /\ callbackExpirationTime' <= nextFlushedExpirationTime
        /\ callbackExpirationTime' \in Nat
    <3>1. CASE performing = "async"
      BY <2>1, <2>2, <3>1 DEF ScheduleNextCallback
    <3>2. CASE performing # "async"
      <4>1. callback \in {"none", "waiting"} /\ (callbackExpirationTime # NoWork => callback = "waiting")
        BY <3>2 DEF IInv, CallbackOK, LoopTyped
      <4> QED
        BY <2>1, <2>2, <3>2, <4>1
           DEF ScheduleNextCallback, ScheduleCallbackWithExpirationTime, callbackVars
    <3> QED
      BY <3>1, <3>2
  <2> QED
    BY <2>0, <2>1, <2>2, <2>3, <2>4 DEF Sync
<1> QED
  BY <1>1, <1>3, <1>4, <1>5, <1>6, <1>7 DEF IInv

-----------------------------------------------------------------------------
(* What the actions that schedule an update have in common.                *)
LEMMA UpdateKeepsRoots ==
  ASSUME TreesTyped, RootsOK, NEW r \in Roots, NEW t \in LevelTimes, NEW new,
         Adds(levels[r], new, t), NEW render,
         levels' = [levels EXCEPT ![r] = new], AddWork(r, t, render),
         r \in Scheduled',
         \A q \in Scheduled : q # r /\ Exp(q) # NoWork => q \in Scheduled',
         \A q \in Roots \ {r} : promises'[q] = promises[q],
         phase = "commit" => phase' = "commit" /\ nextFlushedRoot' = nextFlushedRoot,
         MayCrash' = MayCrash
  PROVE  RootsOK'
<1> SUFFICES ASSUME NEW q \in Roots PROVE RootOK(q)'
  BY DEF RootsOK
<1>1. CASE q = r
  <2>1. RootOK(r)
    BY DEF RootsOK
  <2>2. RootOK(r)'
    BY <2>1, UpdateKeepsRoot
  <2> QED
    BY <1>1, <2>2
<1>2. CASE q # r
  <2>1. RootOK(q)
    BY DEF RootsOK
  <2>2. Untouched(q)
    BY <1>2 DEF Untouched, TreesTyped, AddWork
  <2>3. q \in Scheduled /\ Exp(q) # NoWork => q \in Scheduled'
    BY <1>2
  <2>4. Committing(q) => Committing(q)'
    BY DEF Committing
  <2> QED
    BY <2>1, <2>2, <2>3, <2>4, UntouchedIsOK
<1> QED
  BY <1>1, <1>2

LEMMA CountUpdateKeepsTypes ==
  ASSUME TimesTyped, CountUpdate, NEW now \in {clock, currentTime},
         clock' = clock, currentTime' = now
  PROVE  TimesTyped' /\ MayCrash' = MayCrash
<1>1. /\ application \in Application /\ application.updates \in 1..9
      /\ application' = [application EXCEPT !.updates = @ - 1]
  BY DEF TimesTyped, Application, CountUpdate
<1>2. application.updates - 1 \in 0..9
  BY <1>1
<1>3. application' \in Application /\ application'.behaviours = application.behaviours
  BY <1>1, <1>2 DEF Application
<1>4. clock \in 2..clock
  BY LevelTimesAre DEF TimesTyped
<1> QED
  BY <1>3, <1>4 DEF TimesTyped, MayCrash

(* requestCurrentTime looks for the root of the highest priority: the list *)
(* loses only roots without work.                                          *)
LEMMA RequestCurrentTimeIs ==
  ASSUME TreesTyped, TimesTyped, LoopTyped
  PROVE  LET found == FindHighestPriorityRoot(levels, schedule)
         IN /\ Shortened(levels, schedule, found.schedule)
            /\ RequestCurrentTime(found) \in {clock, currentTime}
            /\ RequestCurrentTime(found) \in 2..clock
<1> DEFINE found == FindHighestPriorityRoot(levels, schedule)
<1>1. \A r \in Roots : levels[r].expirationTime \in Nat
  BY LevelTimesAre, RootTyped DEF Exp
<1>2. Shortened(levels, schedule, found.schedule)
  BY <1>1, FindFinds DEF LoopTyped
<1> HIDE DEF found
<1>3. RequestCurrentTime(found) \in {clock, currentTime}
  BY DEF RequestCurrentTime
<1>4. clock \in 2..clock /\ currentTime \in 2..clock
  BY LevelTimesAre DEF TimesTyped
<1> QED
  BY <1>2, <1>3, <1>4 DEF found

(* requestWork: the root is in the list afterwards, and is performed now,  *)
(* at the end of the batch, or by a callback that comes in time.           *)
LEMMA RequestWorkIsOK ==
  ASSUME IInv, Event, NEW r \in Roots, NEW lv \in [Roots -> LevelsIn(Times0)], levels' = lv,
         lv[r].expirationTime # NoWork, \A q \in Roots \ {r} : lv[q] = levels[q],
         NEW scheduled, Shortened(levels, schedule, scheduled),
         RequestWork(r, lv, scheduled), isBatchingUpdates' = isBatchingUpdates,
         deadlineDidExpire' = deadlineDidExpire
  PROVE  /\ LoopTyped' /\ PhaseOK' /\ CallbackOK'
         /\ r \in Scheduled' /\ phase' \in {"idle", "loop"}
         /\ \A q \in Scheduled : q # r /\ Exp(q) # NoWork => q \in Scheduled'
<1> DEFINE s == AddRootToSchedule(scheduled, r)
           t == lv[r].expirationTime
<1>1. /\ s \in Seq(Roots) /\ IsInjective(s) /\ Range(s) = Range(scheduled) \cup {r}
      /\ Range(scheduled) \subseteq Range(schedule)
      /\ \A q \in Range(schedule) : Exp(q) # NoWork => q \in Range(scheduled)
  BY AddRootAdds DEF Shortened, Exp
<1>2. /\ t \in Times0 /\ t \in Nat /\ t # NoWork /\ phase = "idle" /\ performing = "nothing"
      /\ isExpired \in BOOLEAN /\ callbackExpirationTime \in Nat
      /\ Range(schedule) \subseteq Roots
  <2>1. t \in Times0
    BY DEF LevelsIn
  <2>2. Range(schedule) \subseteq Roots
    BY DEF IInv, LoopTyped, Range
  <2> QED
    BY <2>1, <2>2, LevelTimesAre DEF IInv, Event, PerformOK, LoopTyped
<1>3. /\ callback \in {"none", "waiting"} /\ (callbackExpirationTime # NoWork => callback = "waiting")
      /\ callbackExpirationTime = NoWork => callback = "none"
  BY <1>2 DEF IInv, CallbackOK, LoopTyped
<1>4. \/ /\ schedule' = s /\ UNCHANGED <<flushVars, loopVars>>
         /\ \/ isBatchingUpdates /\ UNCHANGED callbackVars
            \/ ~isBatchingUpdates /\ t # Sync /\ ScheduleCallbackWithExpirationTime(t)
      \/ StartPerformWork("sync", FindHighestPriorityRoot(lv, s)) /\ UNCHANGED callbackVars
  BY DEF RequestWork
<1> HIDE DEF s
<1>5. CASE StartPerformWork("sync", FindHighestPriorityRoot(lv, s)) /\ UNCHANGED callbackVars
  <2>1. /\ Shortened(lv, s, schedule') /\ phase' = "loop" /\ performing' = "sync"
        /\ PerformingTyped' /\ PhaseOK'
    BY <1>1, <1>2, <1>5, LoopStarts
  <2>2. r \in Scheduled'
    BY <1>1, <2>1 DEF Shortened, Scheduled
  <2>3. ASSUME NEW q \in Scheduled, q # r, Exp(q) # NoWork PROVE q \in Scheduled'
    <3>1. q \in Range(s) /\ lv[q] = levels[q]
      BY <1>1, <1>2, <2>3 DEF Scheduled
    <3> QED
      BY <2>1, <2>3, <3>1 DEF Shortened, Scheduled, Exp
  <2>4. LoopTyped'
    BY <1>5, <2>1 DEF LoopTyped, PerformingTyped, IInv, callbackVars
  <2>5. CallbackOK'
    BY <1>2, <1>5, <2>1 DEF CallbackOK, IInv, callbackVars
  <2> QED
    BY <2>1, <2>2, <2>3, <2>4, <2>5
<1>6. CASE /\ schedule' = s /\ UNCHANGED <<flushVars, loopVars>>
           /\ \/ isBatchingUpdates /\ UNCHANGED callbackVars
              \/ ~isBatchingUpdates /\ t # Sync /\ ScheduleCallbackWithExpirationTime(t)
  <2>1. /\ schedule' = s /\ nextFlushedRoot' = nextFlushedRoot
        /\ nextFlushedExpirationTime' = nextFlushedExpirationTime
        /\ performing' = "nothing" /\ isExpired' = isExpired /\ phase' = "idle"
    BY <1>2, <1>6 DEF flushVars, loopVars
  <2>2. r \in Scheduled' /\ \A q \in Scheduled : q # r /\ Exp(q) # NoWork => q \in Scheduled'
    BY <1>1, <2>1 DEF Scheduled
  <2>3. /\ callbackExpirationTime' \in Times0 /\ callback' \in {"none", "waiting"}
        /\ (callbackExpirationTime' # NoWork) <=> (callback' # "none")
    <3>1. callbackExpirationTime \in Times0
      BY DEF IInv, LoopTyped
    <3> QED
      BY <1>2, <1>3, <1>6, <3>1 DEF callbackVars, ScheduleCallbackWithExpirationTime
  <2>4. LoopTyped'
    BY <1>1, <2>1, <2>3 DEF IInv, LoopTyped, PerformingKinds, Phases
  <2>5. LoopOK' /\ CommitOK' /\ PerformOK' /\ CallbackOK'
    BY <2>1, <2>3 DEF LoopOK, CommitOK, PerformOK, CallbackOK
  <2>6. TaskOK'
    <3> SUFFICES ASSUME Task', NEW q \in Scheduled', Exp(q)' # NoWork
                 PROVE  /\ callback' = "waiting" /\ callbackExpirationTime' <= Exp(q)'
                        /\ Exp(q)' # Sync
      BY DEF TaskOK
    <3>0. ~isBatchingUpdates /\ t # Sync /\ ScheduleCallbackWithExpirationTime(t) /\ Task
      BY <1>2, <1>6 DEF Task
    <3>1. Exp(q)' = lv[q].expirationTime
      BY DEF Exp
    <3>2. /\ callback' = "waiting" /\ callbackExpirationTime' <= t
          /\ callbackExpirationTime' \in Nat
          /\ callbackExpirationTime # NoWork => callbackExpirationTime' <= callbackExpirationTime
      BY <1>2, <1>3, <3>0 DEF ScheduleCallbackWithExpirationTime, callbackVars
    <3>3. CASE q = r
      BY <3>0, <3>1, <3>2, <3>3
    <3>4. CASE q # r
      <4>1. q \in Scheduled /\ q \in Roots /\ lv[q] = levels[q]
        BY <1>1, <1>2, <2>1, <3>4 DEF Scheduled
      <4>2. Exp(q)' = Exp(q) /\ Exp(q) \in Nat
        BY <3>1, <4>1, LevelTimesAre, RootTyped DEF Exp, IInv
      <4>3. callback = "waiting" /\ callbackExpirationTime <= Exp(q) /\ Exp(q) # Sync
        BY <3>0, <4>1, <4>2 DEF IInv, TaskOK
      <4>4. callbackExpirationTime # NoWork
        BY <1>3, <4>3
      <4> QED
        BY <1>2, <3>2, <4>2, <4>3, <4>4
    <3> QED
      BY <3>3, <3>4
  <2> QED
    BY <2>1, <2>2, <2>4, <2>5, <2>6 DEF PhaseOK
<1> QED
  BY <1>4, <1>5, <1>6

LEMMA ScheduleWorkIsOK ==
  ASSUME IInv, NEW r \in Roots, ScheduleWork(r) PROVE IInv'
<1> DEFINE found == FindHighestPriorityRoot(levels, schedule)
           now == RequestCurrentTime(found)
<1>1. PICK t \in ExpirationTimes(now) :
        LET lv == [levels EXCEPT ![r] = MarkPending(levels[r], t)]
        IN /\ levels' = lv
           /\ AddWork(r, t, IF t < wip.level THEN NoRender ELSE wip)
           /\ RequestWork(r, lv, found.schedule)
  BY DEF ScheduleWork
<1>2. /\ Event /\ CountUpdate /\ currentTime' = now /\ clock' = clock /\ promises' = promises
      /\ deadlineDidExpire' = deadlineDidExpire /\ isBatchingUpdates' = isBatchingUpdates
  BY DEF ScheduleWork
<1>3. /\ TreesTyped /\ TimesTyped /\ LoopTyped /\ RootsOK /\ WipOK
  BY DEF IInv
<1>4. Shortened(levels, schedule, found.schedule) /\ now \in {clock, currentTime} /\ now \in 2..clock
  BY <1>3, RequestCurrentTimeIs
<1>5. t \in LevelTimes
  BY <1>3, <1>4, ExpirationTimesAreLevels
<1> DEFINE new == MarkPending(levels[r], t)
           render == IF t < wip.level THEN NoRender ELSE wip
<1>6. /\ levels' = [levels EXCEPT ![r] = new] /\ AddWork(r, t, render)
      /\ RequestWork(r, [levels EXCEPT ![r] = new], found.schedule)
      /\ render \in {wip, NoRender}
  BY <1>1
<1>7. Adds(levels[r], new, t)
  BY <1>3, <1>5, RootTyped, MarkPendingIsAdd DEF RootsOK, RootOK, LevelsOK
<1> HIDE DEF found, now, new, render
<1>8. new \in LevelsIn(Times0) /\ new.expirationTime # NoWork
  BY <1>7 DEF Adds
<1>9. /\ [levels EXCEPT ![r] = new] \in [Roots -> LevelsIn(Times0)]
      /\ [levels EXCEPT ![r] = new][r] = new
      /\ \A q \in Roots \ {r} : [levels EXCEPT ![r] = new][q] = levels[q]
  BY <1>3, <1>8 DEF TreesTyped
<1>10. /\ LoopTyped' /\ PhaseOK' /\ CallbackOK'
       /\ r \in Scheduled' /\ phase' \in {"idle", "loop"}
       /\ \A q \in Scheduled : q # r /\ Exp(q) # NoWork => q \in Scheduled'
  BY <1>2, <1>4, <1>6, <1>8, <1>9, RequestWorkIsOK
<1>11. TimesTyped' /\ MayCrash' = MayCrash
  BY <1>2, <1>3, <1>4, CountUpdateKeepsTypes
<1>12. promises' \in [Roots -> SUBSET LevelTimes] /\ phase = "idle"
  BY <1>2, <1>3 DEF TreesTyped, Event
<1>13. TreesTyped'
  BY <1>3, <1>5, <1>6, <1>8, <1>12, UpdateKeepsTypes
<1>14. RootsOK'
  BY <1>2, <1>3, <1>5, <1>6, <1>7, <1>10, <1>11, <1>12, UpdateKeepsRoots
<1>15. WipOK'
  BY <1>2, <1>3, <1>5, <1>6, <1>7, <1>10, <1>12, UpdateKeepsWip
<1> QED
  BY <1>10, <1>11, <1>13, <1>14, <1>15 DEF IInv, PhaseOK

LEMMA UpdateUnbatchedIsOK ==
  ASSUME IInv, NEW r \in Roots, UpdateUnbatched(r) PROVE IInv'
<1> DEFINE found == FindHighestPriorityRoot(levels, schedule)
           now == RequestCurrentTime(found)
           new == MarkPending(levels[r], Sync)
           render == IF Sync < wip.level THEN NoRender ELSE wip
<1>1. /\ Event /\ isBatchingUpdates /\ CountUpdate /\ currentTime' = now /\ clock' = clock
      /\ schedule' = AddRootToSchedule(found.schedule, r)
      /\ levels' = [levels EXCEPT ![r] = new] /\ AddWork(r, Sync, render)
      /\ nextFlushedRoot' = r /\ nextFlushedExpirationTime' = Sync
      /\ performing' = "unbatched" /\ isExpired' = TRUE /\ phase' = "perform"
      /\ UNCHANGED <<promises, callbackVars, deadlineDidExpire, isBatchingUpdates>>
      /\ render \in {wip, NoRender}
  BY DEF UpdateUnbatched
<1>2. /\ TreesTyped /\ TimesTyped /\ LoopTyped /\ RootsOK /\ WipOK /\ phase = "idle"
      /\ performing = "nothing"
  BY <1>1 DEF IInv, Event, PerformOK
<1>3. Shortened(levels, schedule, found.schedule) /\ now \in {clock, currentTime}
  BY <1>2, RequestCurrentTimeIs
<1>4. Sync \in LevelTimes
  BY LevelTimesAre
<1>5. Adds(levels[r], new, Sync)
  BY <1>2, <1>4, RootTyped, MarkPendingIsAdd DEF RootsOK, RootOK, LevelsOK
<1> HIDE DEF found, now, new, render
<1>6. /\ schedule' \in Seq(Roots) /\ IsInjective(schedule')
      /\ r \in Scheduled' /\ \A q \in Scheduled : q # r /\ Exp(q) # NoWork => q \in Scheduled'
  BY <1>1, <1>3, AddRootAdds DEF Shortened, Scheduled, Exp
<1>7. TimesTyped' /\ MayCrash' = MayCrash
  BY <1>1, <1>2, <1>3, CountUpdateKeepsTypes
<1>8. promises' \in [Roots -> SUBSET LevelTimes] /\ new \in LevelsIn(Times0)
  BY <1>1, <1>2, <1>5 DEF TreesTyped, Adds
<1>9. TreesTyped'
  BY <1>1, <1>2, <1>4, <1>8, UpdateKeepsTypes
<1>10. RootsOK'
  BY <1>1, <1>2, <1>4, <1>5, <1>6, <1>7, UpdateKeepsRoots
<1>11. WipOK'
  BY <1>1, <1>2, <1>4, <1>5, <1>8, UpdateKeepsWip
<1>12. LoopTyped'
  BY <1>1, <1>2, <1>4, <1>6, LevelTimesAre DEF LoopTyped, callbackVars, PerformingKinds, Phases
<1>13. LoopOK' /\ CommitOK' /\ TaskOK'
  BY <1>1 DEF LoopOK, CommitOK, TaskOK, Task
<1>14. CallbackOK'
  BY <1>1, <1>2 DEF IInv, CallbackOK, callbackVars
<1>15. PerformOK'
  <2>1. Exp(r)' = new.expirationTime /\ new.expirationTime # NoWork
    BY <1>1, <1>2, <1>5 DEF Exp, Adds, TreesTyped
  <2> QED
    BY <1>1, <1>6, <2>1 DEF PerformOK, Exp
<1> QED
  BY <1>7, <1>9, <1>10, <1>11, <1>12, <1>13, <1>14, <1>15 DEF IInv

LEMMA FlushSyncIsOK ==
  ASSUME IInv, NEW r \in Roots, FlushSync(r) PROVE IInv'
<1> DEFINE found == FindHighestPriorityRoot(levels, schedule)
           now == RequestCurrentTime(found)
           new == MarkPending(levels[r], Sync)
           lv == [levels EXCEPT ![r] = new]
           s == AddRootToSchedule(found.schedule, r)
           render == IF Sync < wip.level THEN NoRender ELSE wip
<1>1. /\ Event /\ CountUpdate /\ currentTime' = now /\ clock' = clock
      /\ levels' = lv /\ AddWork(r, Sync, render)
      /\ StartPerformWork("sync", FindHighestPriorityRoot(lv, s))
      /\ UNCHANGED <<promises, callbackVars, deadlineDidExpire, isBatchingUpdates>>
      /\ render \in {wip, NoRender}
  BY DEF FlushSync
<1>2. /\ TreesTyped /\ TimesTyped /\ LoopTyped /\ RootsOK /\ WipOK /\ phase = "idle"
      /\ performing = "nothing" /\ isExpired \in BOOLEAN
  BY <1>1 DEF IInv, Event, PerformOK, LoopTyped
<1>3. Shortened(levels, schedule, found.schedule) /\ now \in {clock, currentTime}
  BY <1>2, RequestCurrentTimeIs
<1>4. Sync \in LevelTimes
  BY LevelTimesAre
<1>5. Adds(levels[r], new, Sync)
  BY <1>2, <1>4, RootTyped, MarkPendingIsAdd DEF RootsOK, RootOK, LevelsOK
<1> HIDE DEF found, now, new, render
<1>6. /\ s \in Seq(Roots) /\ IsInjective(s)
      /\ r \in Range(s) /\ \A q \in Scheduled : q # r /\ Exp(q) # NoWork => q \in Range(s)
  BY <1>1, <1>3, AddRootAdds DEF Shortened, Scheduled, Exp
<1>7. TimesTyped' /\ MayCrash' = MayCrash
  BY <1>1, <1>2, <1>3, CountUpdateKeepsTypes
<1>8. promises' \in [Roots -> SUBSET LevelTimes] /\ new \in LevelsIn(Times0)
      /\ new.expirationTime # NoWork
  BY <1>1, <1>2, <1>5 DEF TreesTyped, Adds
<1>9. TreesTyped'
  BY <1>1, <1>2, <1>4, <1>8, UpdateKeepsTypes
<1>10. /\ lv \in [Roots -> LevelsIn(Times0)] /\ lv[r] = new
       /\ \A q \in Roots \ {r} : lv[q] = levels[q]
  BY <1>2, <1>8 DEF TreesTyped
<1> HIDE DEF s, lv
<1>11. /\ Shortened(lv, s, schedule') /\ phase' = "loop" /\ performing' = "sync"
       /\ PerformingTyped' /\ PhaseOK'
  BY <1>1, <1>2, <1>6, <1>10, LoopStarts
<1>12. r \in Scheduled'
  BY <1>6, <1>8, <1>10, <1>11 DEF Shortened, Scheduled
<1>13. ASSUME NEW q \in Scheduled, q # r, Exp(q) # NoWork PROVE q \in Scheduled'
  <2>1. q \in Range(s) /\ q \in Roots
    BY <1>2, <1>6, <1>13 DEF Scheduled, LoopTyped, Range
  <2> QED
    BY <1>10, <1>11, <1>13, <2>1 DEF Shortened, Scheduled, Exp
<1>14. RootsOK'
  <2>1. levels' = [levels EXCEPT ![r] = new]
    BY <1>1 DEF lv
  <2> QED
    BY <1>1, <1>2, <1>4, <1>5, <1>7, <1>12, <1>13, <2>1, UpdateKeepsRoots
<1>15. WipOK'
  <2>1. levels' = [levels EXCEPT ![r] = new]
    BY <1>1 DEF lv
  <2> QED
    BY <1>1, <1>2, <1>4, <1>5, <1>8, <1>11, <2>1, UpdateKeepsWip
<1>16. LoopTyped'
  BY <1>1, <1>2, <1>11 DEF LoopTyped, PerformingTyped, callbackVars
<1>17. CallbackOK'
  BY <1>1, <1>2, <1>11 DEF IInv, CallbackOK, callbackVars
<1> QED
  BY <1>7, <1>9, <1>11, <1>14, <1>15, <1>16, <1>17 DEF IInv, PhaseOK

(* The promise may have been what the root was waiting for: afterwards it  *)
(* has an expiration time and is in the list.                              *)
LEMMA PingIsOK ==
  ASSUME IInv, NEW r \in Roots, NEW t \in promises[r], Ping(r, t) PROVE IInv'
<1> DEFINE isSuspended == IsPriorityLevelSuspended(levels[r], t)
           found == FindHighestPriorityRoot(levels, schedule)
           s == IF isSuspended THEN schedule ELSE found.schedule
           now == IF isSuspended THEN currentTime ELSE RequestCurrentTime(found)
           render == IF wip.root = r /\ wip.level = t THEN NoRender ELSE wip
<1>1. PICK u \in IF isSuspended THEN {t} ELSE ExpirationTimes(now) :
        LET lv == [levels EXCEPT ![r] = IF isSuspended
                                        THEN MarkPinged(@, u) ELSE MarkPending(@, u)]
        IN /\ levels' = lv
           /\ AddWork(r, u, render)
           /\ IF lv[r].expirationTime # NoWork
              THEN RequestWork(r, lv, s)
              ELSE schedule' = s /\ UNCHANGED <<flushVars, callbackVars, loopVars>>
  BY DEF Ping
<1>2. /\ Task /\ promises' = [promises EXCEPT ![r] = @ \ {t}] /\ currentTime' = now
      /\ UNCHANGED <<clock, deadlineDidExpire, isBatchingUpdates, application>>
  BY DEF Ping
<1>3. /\ TreesTyped /\ TimesTyped /\ LoopTyped /\ RootsOK /\ WipOK
  BY DEF IInv
<1>4. /\ Shortened(levels, schedule, s) /\ now \in 2..clock
  <2>1. CASE isSuspended
    BY <1>3, <2>1 DEF Shortened, LoopTyped, TimesTyped
  <2>2. CASE ~isSuspended
    BY <1>3, <2>2, RequestCurrentTimeIs
  <2> QED
    BY <2>1, <2>2
<1>5. u \in LevelTimes /\ t \in LevelTimes
  <2>1. t \in LevelTimes
    BY <1>3 DEF TreesTyped
  <2>2. CASE isSuspended
    BY <2>1, <2>2
  <2>3. CASE ~isSuspended
    BY <1>3, <1>4, <2>1, <2>3, ExpirationTimesAreLevels
  <2> QED
    BY <2>2, <2>3
<1> DEFINE new == IF isSuspended THEN MarkPinged(levels[r], u) ELSE MarkPending(levels[r], u)
<1>6. Adds(levels[r], new, u)
  <2>1. levels[r] \in LevelsIn(Times0) /\ Sound(levels[r])
    BY <1>3, RootTyped DEF RootsOK, RootOK, LevelsOK
  <2>2. CASE isSuspended
    BY <1>1, <1>5, <2>1, <2>2, MarkPingedIsAdd
  <2>3. CASE ~isSuspended
    BY <1>5, <2>1, <2>3, MarkPendingIsAdd
  <2> QED
    BY <2>2, <2>3
<1>7. new \in LevelsIn(Times0) /\ new.expirationTime # NoWork
  BY <1>6 DEF Adds
<1>8. /\ levels' = [levels EXCEPT ![r] = new] /\ AddWork(r, u, render)
      /\ render \in {wip, NoRender}
  BY <1>1, <1>3 DEF TreesTyped
<1>9. /\ [levels EXCEPT ![r] = new] \in [Roots -> LevelsIn(Times0)]
      /\ [levels EXCEPT ![r] = new][r] = new
      /\ \A q \in Roots \ {r} : [levels EXCEPT ![r] = new][q] = levels[q]
  BY <1>3, <1>7 DEF TreesTyped
<1>10. RequestWork(r, [levels EXCEPT ![r] = new], s)
  <2>1. levels'[r] = new
    BY <1>3, <1>8 DEF TreesTyped
  <2>2. levels'[r].expirationTime # NoWork
    BY <1>7, <2>1
  <2>3. levels'[r].expirationTime # NoWork => RequestWork(r, levels', s)
    BY <1>1
  <2> QED
    BY <1>8, <2>2, <2>3
<1>11. render # NoRender /\ wip.level \in promises[wip.root] => wip.level \in promises'[wip.root]
  BY <1>2, <1>3 DEF TreesTyped
<1> HIDE DEF isSuspended, found, s, now, render, new
<1>12. /\ LoopTyped' /\ PhaseOK' /\ CallbackOK'
       /\ r \in Scheduled' /\ phase' \in {"idle", "loop"} /\ phase = "idle"
       /\ \A q \in Scheduled : q # r /\ Exp(q) # NoWork => q \in Scheduled'
  BY <1>2, <1>4, <1>7, <1>9, <1>8, <1>10, RequestWorkIsOK DEF Task, Event
<1>13. TimesTyped' /\ MayCrash' = MayCrash
  BY <1>2, <1>3, <1>4 DEF TimesTyped, MayCrash
<1>14. /\ promises' \in [Roots -> SUBSET LevelTimes]
       /\ \A q \in Roots \ {r} : promises'[q] = promises[q]
  BY <1>2, <1>3 DEF TreesTyped
<1>15. TreesTyped'
  BY <1>3, <1>5, <1>7, <1>8, <1>14, UpdateKeepsTypes
<1>16. RootsOK'
  BY <1>3, <1>5, <1>6, <1>8, <1>12, <1>13, <1>14, UpdateKeepsRoots
<1>17. WipOK'
  BY <1>3, <1>5, <1>6, <1>8, <1>11, <1>12, <1>14, UpdateKeepsWip
<1> QED
  BY <1>12, <1>13, <1>15, <1>16, <1>17 DEF IInv, PhaseOK

LEMMA TimeoutFiresIsOK ==
  ASSUME IInv, NEW r \in Roots, TimeoutFires(r) PROVE IInv'
<1>1. /\ phase = "idle" /\ performing = "nothing" /\ timeouts[r] # NoTree
      /\ timeouts' = [timeouts EXCEPT ![r] = NoTree]
      /\ finishedWork' = [finishedWork EXCEPT ![r] = timeouts[r]]
      /\ currentTime' = clock
      /\ nextFlushedRoot' = r /\ nextFlushedExpirationTime' = timeouts[r].level
      /\ performing' = "flushRoot" /\ isExpired' = TRUE /\ phase' = "perform"
      /\ UNCHANGED <<clock, levels, work, promises, wip, schedule, callbackVars,
                     deadlineDidExpire, isBatchingUpdates, application>>
  BY DEF TimeoutFires, Task, IInv, PerformOK
<1>2. TreesTyped /\ TimesTyped /\ LoopTyped /\ RootsOK /\ WipOK
  BY DEF IInv
<1>3. timeouts[r] \in Trees /\ timeouts[r].level \in Times0
  BY <1>2, RootTyped DEF Trees
<1>4. TreesTyped'
  BY <1>1, <1>2, <1>3, LevelTimesAre DEF TreesTyped
<1>5. TimesTyped'
  <2>1. clock \in 2..clock
    BY <1>2, LevelTimesAre DEF TimesTyped
  <2> QED
    BY <1>1, <1>2, <2>1 DEF TimesTyped
<1>6. LoopTyped'
  BY <1>1, <1>2, <1>3 DEF LoopTyped, callbackVars, PerformingKinds, Phases
<1>7. RootsOK'
  <2> SUFFICES ASSUME NEW q \in Roots PROVE RootOK(q)'
    BY DEF RootsOK
  <2>1. CASE q # r
    <3>1. RootOK(q) /\ Untouched(q)
      BY <1>1, <1>2, <2>1 DEF RootsOK, Untouched, TreesTyped
    <3>2. q \in Scheduled /\ Exp(q) # NoWork => q \in Scheduled'
      BY <1>1 DEF Scheduled
    <3>3. ~Committing(q) /\ MayCrash' = MayCrash
      BY <1>1 DEF Committing, MayCrash
    <3> QED
      BY <3>1, <3>2, <3>3, UntouchedIsOK
  <2>2. CASE q = r
    <3>1. /\ timeouts'[r] = NoTree /\ finishedWork'[r] = timeouts[r]
          /\ levels' = levels /\ work' = work /\ promises' = promises
          /\ Exp(r)' = Exp(r) /\ WorkOn(r)' = WorkOn(r) /\ Scheduled' = Scheduled
          /\ ~Committing(r)
      BY <1>1, <1>2 DEF TreesTyped, Exp, WorkOn, Scheduled, Committing
    <3>2. LevelsOK(r) /\ TreesOK(r) /\ WaitsOK(r)
      BY <1>2 DEF RootsOK, RootOK
    <3>3. LevelsOK(r)'
      BY <3>1, <3>2 DEF LevelsOK
    <3>4. TreesOK(r)'
      BY <1>1, <3>1, <3>2, LevelTimesAre DEF TreesOK
    <3>5. Waits(r)' <=> Waits(r)
      BY <3>1 DEF Waits
    <3>6. WaitsOK(r)'
      BY <1>1, <3>1, <3>2, <3>5 DEF WaitsOK, IsDone
    <3> QED
      BY <2>2, <3>3, <3>4, <3>6 DEF RootOK
  <2> QED
    BY <2>1, <2>2
<1>8. WipOK'
  <2>1. wip.root # NoRoot => wip.root \in Roots /\ wip.root # r
    BY <1>1, <1>2 DEF WipOK, TreesTyped, Renders
  <2>2. wip.root # NoRoot =>
          timeouts'[wip.root] = timeouts[wip.root] /\ finishedWork'[wip.root] = finishedWork[wip.root]
    BY <1>1, <1>2, <2>1 DEF TreesTyped
  <2> QED
    BY <1>1, <1>2, <2>2 DEF WipOK, Exp
<1>9. PerformOK'
  <2>1. finishedWork'[r] # NoTree
    BY <1>1, <1>2 DEF TreesTyped
  <2> QED
    BY <1>1, <2>1 DEF PerformOK
<1>10. LoopOK' /\ CommitOK' /\ TaskOK'
  BY <1>1 DEF LoopOK, CommitOK, TaskOK, Task
<1>11. CallbackOK'
  BY <1>1 DEF IInv, CallbackOK, callbackVars
<1> QED
  BY <1>4, <1>5, <1>6, <1>7, <1>8, <1>9, <1>10, <1>11 DEF IInv

LEMMA DidExpireKeeps ==
  ASSUME NEW root \in LevelsIn(Times0), Sound(root), NEW now \in LevelTimes, now # Sync
  PROVE  LET after == DidExpireAt(root, now)
         IN /\ after \in LevelsIn(Times0) /\ Sound(after)
            /\ after.pending = root.pending /\ after.suspended = root.suspended
            /\ after.expirationTime = root.expirationTime
            /\ root.nextExpirationTimeToWorkOn # NoWork => after.nextExpirationTimeToWorkOn # NoWork
            /\ after.nextExpirationTimeToWorkOn = Sync => root.nextExpirationTimeToWorkOn = Sync
            /\ root.expirationTime = NoWork => after = root
<1> DEFINE flushed == [root EXCEPT !.nextExpirationTimeToWorkOn = now]
<1>1. now \in Times0 /\ now \in Nat /\ now # NoWork /\ root \in Levels
  BY LevelTimesAre, LevelsInAreLevels
<1>2. /\ flushed \in LevelsIn(Times0) /\ flushed \in Levels
      /\ flushed.pending = root.pending /\ flushed.suspended = root.suspended
      /\ flushed.expirationTime = root.expirationTime
      /\ flushed.latestPingedTime = root.latestPingedTime
      /\ flushed.nextExpirationTimeToWorkOn = now
  BY <1>1 DEF LevelsIn, Levels
<1>3. Sound(flushed)
  <2> HIDE DEF flushed
  <2>1. IsPinged(flushed) <=> IsPinged(root)
    BY <1>2 DEF IsPinged
  <2> QED
    BY <1>1, <1>2, <2>1 DEF Sound, IsPriorityLevelSuspended
<1>4. DidExpireAt(root, now) = root \/
        (DidExpireAt(root, now) = flushed /\ root.expirationTime # NoWork)
  BY DEF DidExpireAt
<1> HIDE DEF flushed
<1> QED
  BY <1>1, <1>2, <1>3, <1>4

LEMMA PerformAsyncWorkIsOK ==
  ASSUME IInv, NEW didTimeout \in BOOLEAN, PerformAsyncWork(didTimeout) PROVE IInv'
<1> DEFINE lv == [r \in Roots |-> IF didTimeout /\ r \in Range(schedule)
                                  THEN DidExpireAt(levels[r], clock) ELSE levels[r]]
<1>1. /\ phase = "idle" /\ callback = "waiting" /\ callback' = "running" /\ currentTime' = clock
      /\ levels' = lv /\ StartPerformWork("async", FindHighestPriorityRoot(lv, schedule))
      /\ UNCHANGED <<clock, treeVars, callbackExpirationTime, deadlineDidExpire,
                     isBatchingUpdates, application>>
  BY DEF PerformAsyncWork, Task
<1>2. TreesTyped /\ TimesTyped /\ LoopTyped /\ RootsOK /\ WipOK
  BY DEF IInv
<1>3. clock \in LevelTimes /\ clock # Sync /\ clock \in 2..clock
  BY <1>2, LevelTimesAre DEF TimesTyped, LevelTimes, Sync
<1>4. ASSUME NEW r \in Roots
      PROVE  /\ lv[r] \in LevelsIn(Times0) /\ Sound(lv[r])
             /\ lv[r].pending = levels[r].pending /\ lv[r].suspended = levels[r].suspended
             /\ lv[r].expirationTime = levels[r].expirationTime
             /\ levels[r].nextExpirationTimeToWorkOn # NoWork
                  => lv[r].nextExpirationTimeToWorkOn # NoWork
             /\ lv[r].nextExpirationTimeToWorkOn = Sync
                  => levels[r].nextExpirationTimeToWorkOn = Sync
  <2>1. levels[r] \in LevelsIn(Times0) /\ Sound(levels[r])
    BY <1>2, RootTyped DEF RootsOK, RootOK, LevelsOK
  <2>2. lv[r] = levels[r] \/ lv[r] = DidExpireAt(levels[r], clock)
    OBVIOUS
  <2> HIDE DEF lv
  <2>3. CASE lv[r] = levels[r]
    BY <2>1, <2>3
  <2>4. CASE lv[r] = DidExpireAt(levels[r], clock)
    BY <1>3, <2>1, <2>4, DidExpireKeeps
  <2> QED
    BY <2>2, <2>3, <2>4
<1>5. lv \in [Roots -> LevelsIn(Times0)]
  BY <1>4
<1> HIDE DEF lv
<1>6. /\ Shortened(lv, schedule, schedule') /\ phase' = "loop" /\ performing' = "async"
      /\ PerformingTyped' /\ PhaseOK'
  BY <1>1, <1>2, <1>5, LoopStarts DEF LoopTyped
<1>7. TreesTyped' /\ TimesTyped'
  BY <1>1, <1>2, <1>3, <1>5 DEF TreesTyped, TimesTyped, treeVars
<1>8. LoopTyped'
  BY <1>1, <1>2, <1>6 DEF LoopTyped, PerformingTyped
<1>9. CallbackOK'
  BY <1>1, <1>6 DEF IInv, CallbackOK
<1>10. ASSUME NEW r \in Roots
       PROVE  /\ Exp(r)' = Exp(r) /\ (WorkOn(r) # NoWork => WorkOn(r)' # NoWork)
              /\ (WorkOn(r)' = Sync => WorkOn(r) = Sync)
              /\ levels'[r].pending = levels[r].pending
              /\ levels'[r].suspended = levels[r].suspended /\ Sound(levels'[r])
  BY <1>1, <1>4 DEF Exp, WorkOn
<1>11. RootsOK'
  <2> SUFFICES ASSUME NEW r \in Roots PROVE RootOK(r)'
    BY DEF RootsOK
  <2>1. LevelsOK(r) /\ TreesOK(r) /\ WaitsOK(r)
    BY <1>2 DEF RootsOK, RootOK
  <2>2. /\ work' = work /\ promises' = promises /\ timeouts' = timeouts
        /\ finishedWork' = finishedWork /\ MayCrash' = MayCrash /\ ~Committing(r) /\ ~Committing(r)'
    BY <1>1, <1>6 DEF treeVars, MayCrash, Committing
  <2>3. r \in Scheduled /\ Exp(r) # NoWork => r \in Scheduled'
    BY <1>6, <1>4 DEF Shortened, Scheduled, Exp
  <2>4. LevelsOK(r)'
    BY <1>10, <2>1, <2>2 DEF LevelsOK, Knows
  <2>5. TreesOK(r)'
    BY <1>10, <2>1, <2>2, <2>3 DEF TreesOK
  <2>6. /\ Waits(r)' <=> Waits(r)
        /\ IsDone(r)' <=> IsDone(r)
        /\ SyncIsHeld(levels'[r]) <=> SyncIsHeld(levels[r])
    BY <1>10, <2>2 DEF Waits, IsDone, SyncIsHeld
  <2>7. Sync # NoWork
    BY DEF Sync, NoWork
  <2>8. WaitsOK(r)'
    <3>1. Exp(r)' = NoWork => Waits(r)' \/ IsDone(r)'
      BY <1>10, <2>1, <2>6 DEF WaitsOK
    <3>2. r \notin Scheduled' => Exp(r)' = NoWork \/ Waits(r)'
      BY <1>10, <2>1, <2>3, <2>6 DEF WaitsOK
    <3>3. r \notin Scheduled' => Exp(r)' # Sync
      BY <1>10, <2>1, <2>2, <2>3, <2>7 DEF WaitsOK
    <3>4. WorkOn(r)' = Sync => Exp(r)' = NoWork \/ Exp(r)' = Sync \/ SyncIsHeld(levels'[r])
      BY <1>10, <2>1, <2>2, <2>6 DEF WaitsOK
    <3> QED
      BY <3>1, <3>2, <3>3, <3>4 DEF WaitsOK
  <2> QED
    BY <2>4, <2>5, <2>8 DEF RootOK
<1>12. WipOK'
  <2>1. wip.root # NoRoot => wip.root \in Roots
    BY <1>2 DEF TreesTyped, Renders
  <2>2. wip.root # NoRoot => Exp(wip.root)' = Exp(wip.root) /\
          (HasSync(levels'[wip.root]) <=> HasSync(levels[wip.root]))
    BY <1>1, <1>10, <2>1 DEF HasSync, Exp, treeVars
  <2> QED
    BY <1>1, <1>2, <1>6, <2>2 DEF WipOK, treeVars
<1> QED
  BY <1>6, <1>7, <1>8, <1>9, <1>11, <1>12 DEF IInv, PhaseOK

-----------------------------------------------------------------------------
(* Rendering.                                                              *)
LEMMA RenderingIs ==
  ASSUME IInv, phase = "render"
  PROVE  /\ nextFlushedRoot \in Roots /\ wip.root = nextFlushedRoot /\ wip.root # NoRoot
         /\ nextFlushedRoot \in Scheduled /\ Exp(nextFlushedRoot) # NoWork
         /\ performing # "flushRoot" /\ performing # "nothing"
         /\ wip.level \in LevelTimes /\ wip.level # NoWork
         /\ wip.late \subseteq work[nextFlushedRoot]
         /\ timeouts[nextFlushedRoot] = NoTree /\ finishedWork[nextFlushedRoot] = NoTree
<1>1. /\ nextFlushedRoot \in Roots /\ wip.root = nextFlushedRoot /\ performing # "flushRoot"
      /\ nextFlushedRoot \in Scheduled /\ Exp(nextFlushedRoot) # NoWork
      /\ performing # "nothing"
  BY DEF IInv, PerformOK
<1>2. wip.root # NoRoot /\ wip.level \in Times0
  BY <1>1, LevelTimesAre DEF IInv, TreesTyped, Renders
<1>3. /\ wip.level # NoWork /\ wip.late \subseteq work[nextFlushedRoot]
      /\ timeouts[nextFlushedRoot] = NoTree /\ finishedWork[nextFlushedRoot] = NoTree
  BY <1>1, <1>2 DEF IInv, WipOK
<1> QED
  BY <1>1, <1>2, <1>3 DEF Times0

LEMMA RenderRootIsOK == ASSUME IInv, RenderRoot PROVE IInv'
<1> DEFINE isResumed == wip.root = nextFlushedRoot /\ wip.level = WorkOn(nextFlushedRoot)
<1>1. PICK r \in Roots : r = nextFlushedRoot
  BY DEF RenderRoot, IInv, PerformOK
<1>2. /\ phase = "perform" /\ finishedWork[r] = NoTree
      /\ timeouts' = [timeouts EXCEPT ![r] = NoTree]
      /\ wip' = IF isResumed THEN wip ELSE [NoRender EXCEPT !.root = r, !.level = WorkOn(r)]
      /\ phase' = "render"
      /\ UNCHANGED <<clock, currentTime, levels, work, promises, finishedWork, schedule,
                     flushVars, callbackVars, deadlineDidExpire, isBatchingUpdates,
                     performing, isExpired, application>>
  BY <1>1 DEF RenderRoot, CancelTimeout, WorkOn
<1>3. /\ TreesTyped /\ TimesTyped /\ LoopTyped /\ RootsOK /\ WipOK
      /\ performing # "flushRoot" /\ r \in Scheduled /\ Exp(r) # NoWork /\ performing # "nothing"
      /\ Exp(r) = Sync => isExpired
      /\ performing = "unbatched" => isBatchingUpdates
  BY <1>1, <1>2 DEF IInv, PerformOK
<1>4. WorkOn(r) # NoWork /\ WorkOn(r) \in Times0
  BY <1>3, RootTyped DEF RootsOK, RootOK, LevelsOK
<1>5. /\ wip'.root = r /\ wip'.level = WorkOn(r) /\ wip' \in Renders
      /\ wip' = wip \/ (wip'.late = {} /\ wip'.timeout = -1)
  BY <1>1, <1>2, <1>3, <1>4, LevelTimesAre DEF NoRender, Renders, TreesTyped
<1>6. TreesTyped' /\ TimesTyped' /\ LoopTyped'
  <2>1. TreesTyped'
    BY <1>2, <1>3, <1>5, LevelTimesAre DEF TreesTyped
  <2>2. TimesTyped'
    BY <1>2, <1>3 DEF TimesTyped
  <2>3. LoopTyped'
    BY <1>2, <1>3 DEF LoopTyped, flushVars, callbackVars, Phases
  <2> QED
    BY <2>1, <2>2, <2>3
<1>7. RootsOK'
  <2> SUFFICES ASSUME NEW q \in Roots PROVE RootOK(q)'
    BY DEF RootsOK
  <2>1. CASE q # r
    <3>1. RootOK(q) /\ Untouched(q)
      BY <1>2, <1>3, <2>1 DEF RootsOK, Untouched, TreesTyped
    <3>2. q \in Scheduled /\ Exp(q) # NoWork => q \in Scheduled'
      BY <1>2 DEF Scheduled
    <3>3. ~Committing(q) /\ MayCrash' = MayCrash
      BY <1>2 DEF Committing, MayCrash
    <3> QED
      BY <3>1, <3>2, <3>3, UntouchedIsOK
  <2>2. CASE q = r
    <3>1. /\ timeouts'[r] = NoTree /\ finishedWork' = finishedWork
          /\ levels' = levels /\ work' = work /\ promises' = promises
          /\ Exp(r)' = Exp(r) /\ WorkOn(r)' = WorkOn(r) /\ Scheduled' = Scheduled
          /\ ~Committing(r) /\ ~Committing(r)'
      BY <1>2, <1>3 DEF TreesTyped, Exp, WorkOn, Scheduled, Committing
    <3>2. LevelsOK(r) /\ TreesOK(r) /\ WaitsOK(r)
      BY <1>3 DEF RootsOK, RootOK
    <3>3. LevelsOK(r)'
      BY <3>1, <3>2 DEF LevelsOK
    <3>4. TreesOK(r)'
      BY <3>1, <3>2, LevelTimesAre DEF TreesOK
    <3>5. Waits(r)' <=> Waits(r)
      BY <3>1 DEF Waits
    <3>6. WaitsOK(r)'
      BY <1>3, <3>1, <3>2, <3>5 DEF WaitsOK
    <3> QED
      BY <2>2, <3>3, <3>4, <3>6 DEF RootOK
  <2> QED
    BY <2>1, <2>2
<1>8. WipOK'
  <2>1. CASE wip' = wip
    <3>1. wip.root # NoRoot /\ wip.root = r
      BY <1>5, <2>1, LevelTimesAre
    <3>2. /\ wip.level # NoWork /\ wip.late \subseteq work[r]
          /\ wip.timeout # -1 => wip.level \in promises[r]
          /\ Sync \in wip.late /\ wip.level # Sync => Exp(r) = Sync
      BY <1>2, <1>3, <3>1 DEF WipOK
    <3> QED
      BY <1>2, <1>3, <2>1, <3>1, <3>2 DEF WipOK, TreesTyped
  <2>2. CASE wip'.late = {} /\ wip'.timeout = -1
    BY <1>2, <1>3, <1>4, <1>5, <2>2 DEF WipOK, TreesTyped
  <2> QED
    BY <1>5, <2>1, <2>2
<1>9. PerformOK'
  <2>1. WorkOn(r) = Sync => isExpired \/ SyncIsHeld(levels[r])
    <3>1. WaitsOK(r) /\ ~Committing(r)
      BY <1>2, <1>3 DEF RootsOK, RootOK, Committing
    <3> QED
      BY <1>3, <3>1 DEF WaitsOK
  <2>2. /\ nextFlushedRoot' = r /\ performing' = performing /\ isExpired' = isExpired
        /\ Exp(r)' = Exp(r) /\ Scheduled' = Scheduled /\ levels' = levels
        /\ isBatchingUpdates' = isBatchingUpdates
    BY <1>1, <1>2 DEF flushVars, Exp, Scheduled
  <2> QED
    BY <1>2, <1>3, <1>5, <2>1, <2>2 DEF PerformOK, Exp
<1>10. LoopOK' /\ CommitOK' /\ TaskOK'
  BY <1>2 DEF LoopOK, CommitOK, TaskOK, Task
<1>11. CallbackOK'
  BY <1>2 DEF IInv, CallbackOK, callbackVars
<1> QED
  BY <1>6, <1>7, <1>8, <1>9, <1>10, <1>11 DEF IInv

LEMMA UpdateDuringRenderIsOK ==
  ASSUME IInv, NEW r \in Roots, UpdateDuringRender(r) PROVE IInv'
<1> DEFINE t == wip.level
           new == MarkPending(levels[r], t)
<1>1. /\ phase = "render" /\ CountUpdate
      /\ levels' = [levels EXCEPT ![r] = new] /\ AddWork(r, t, wip)
      /\ schedule' = IF r = wip.root THEN schedule ELSE AddRootToSchedule(schedule, r)
      /\ UNCHANGED <<clock, currentTime, promises, flushVars, callbackVars,
                     deadlineDidExpire, isBatchingUpdates, loopVars>>
  BY DEF UpdateDuringRender
<1>2. TreesTyped /\ TimesTyped /\ LoopTyped /\ RootsOK /\ WipOK /\ PerformOK
  BY DEF IInv
<1>3. PICK c \in Roots : c = nextFlushedRoot
  BY <1>1, RenderingIs
<1>4. /\ wip.root = c /\ c \in Scheduled /\ Exp(c) # NoWork /\ performing # "flushRoot"
      /\ t \in LevelTimes /\ performing # "nothing"
  BY <1>1, <1>3, RenderingIs
<1>5. levels[r] \in LevelsIn(Times0) /\ Sound(levels[r])
  BY <1>2, RootTyped DEF RootsOK, RootOK, LevelsOK
<1>6. Adds(levels[r], new, t) /\ new.suspended = levels[r].suspended
  <2>1. t \in Nat /\ t # NoWork
    BY <1>4, LevelTimesAre
  <2> QED
    BY <1>4, <1>5, <2>1, MarkPendingIsAdd, MarkPendingAdds
<1>7. /\ phase' = phase /\ isExpired' = isExpired /\ performing' = performing
      /\ nextFlushedRoot' = nextFlushedRoot
  BY <1>1 DEF flushVars, loopVars
<1>8. wip'.root = wip.root /\ wip'.level = wip.level
  BY <1>1, <1>2 DEF AddWork, TreesTyped, Renders
<1> HIDE DEF t, new
<1>9. /\ schedule' \in Seq(Roots) /\ IsInjective(schedule')
      /\ r \in Scheduled' /\ Scheduled \subseteq Scheduled'
  <2>1. CASE r = wip.root
    BY <1>1, <1>2, <1>4, <2>1 DEF LoopTyped, Scheduled
  <2>2. CASE r # wip.root
    BY <1>1, <1>2, <2>2, AddRootAdds DEF LoopTyped, Scheduled
  <2> QED
    BY <2>1, <2>2
<1>10. TimesTyped' /\ MayCrash' = MayCrash
  BY <1>1, <1>2, CountUpdateKeepsTypes
<1>11. promises' \in [Roots -> SUBSET LevelTimes] /\ new \in LevelsIn(Times0) /\ wip \in {wip, NoRender}
  BY <1>1, <1>2, <1>6 DEF TreesTyped, Adds
<1>12. TreesTyped'
  BY <1>1, <1>2, <1>4, <1>11, UpdateKeepsTypes
<1>13. RootsOK'
  BY <1>1, <1>2, <1>4, <1>6, <1>7, <1>9, <1>10, UpdateKeepsRoots
<1>14. WipOK'
  <2>1. phase = "render" => isExpired' = isExpired /\ (r = wip.root => t = wip.level)
    BY <1>7 DEF t
  <2> QED
    BY <1>1, <1>2, <1>4, <1>6, <1>7, <1>11, <2>1, UpdateKeepsWip
<1>15. LoopTyped'
  BY <1>1, <1>2, <1>9 DEF LoopTyped, flushVars, callbackVars, loopVars
<1>16. PerformOK'
  <2>1. CASE r = c
    <3>1. levels'[c] = new /\ Exp(c)' # NoWork
      BY <1>1, <1>2, <1>6, <2>1 DEF TreesTyped, Exp, Adds
    <3>2. SyncIsHeld(levels[c]) => SyncIsHeld(levels'[c])
      BY <1>6, <2>1, <3>1 DEF SyncIsHeld
    <3> QED
      BY <1>1, <1>2, <1>3, <1>4, <1>7, <1>8, <1>9, <3>1, <3>2 DEF PerformOK, Exp
  <2>2. CASE r # c
    <3>1. levels'[c] = levels[c] /\ Exp(c)' = Exp(c)
      BY <1>1, <1>2, <2>2 DEF TreesTyped, Exp
    <3> QED
      BY <1>1, <1>2, <1>3, <1>4, <1>7, <1>8, <1>9, <3>1 DEF PerformOK, Exp
  <2> QED
    BY <2>1, <2>2
<1>17. LoopOK' /\ CommitOK' /\ TaskOK'
  BY <1>1, <1>7 DEF LoopOK, CommitOK, TaskOK, Task
<1>18. CallbackOK'
  BY <1>1, <1>7 DEF IInv, CallbackOK, callbackVars
<1> QED
  BY <1>10, <1>12, <1>13, <1>14, <1>15, <1>16, <1>17, <1>18 DEF IInv

LEMMA SuspendDuringRenderIsOK ==
  ASSUME IInv, NEW until \in Int, SuspendDuringRender(until) PROVE IInv'
<1>1. /\ phase = "render"
      /\ promises' = [promises EXCEPT ![wip.root] = @ \cup {wip.level}]
      /\ wip' = IF until > wip.timeout THEN [wip EXCEPT !.timeout = until] ELSE wip
      /\ UNCHANGED <<clock, currentTime, levels, work, finishedWork, timeouts, schedule,
                     flushVars, callbackVars, deadlineDidExpire, isBatchingUpdates,
                     loopVars, application>>
  BY DEF SuspendDuringRender
<1>2. TreesTyped /\ TimesTyped /\ LoopTyped /\ RootsOK /\ WipOK /\ PerformOK
  BY DEF IInv
<1>3. PICK c \in Roots : c = wip.root
  BY <1>1, RenderingIs
<1>4. wip.level \in LevelTimes /\ wip.root # NoRoot
  BY <1>1, RenderingIs
<1>5. /\ wip'.root = wip.root /\ wip'.level = wip.level /\ wip'.late = wip.late
      /\ wip' \in Renders
  BY <1>1, <1>2 DEF TreesTyped, Renders
<1>6. /\ promises'[c] = promises[c] \cup {wip.level}
      /\ \A q \in Roots : q # c => promises'[q] = promises[q]
      /\ promises' \in [Roots -> SUBSET LevelTimes]
  BY <1>1, <1>2, <1>3, <1>4 DEF TreesTyped
<1>7. TreesTyped' /\ TimesTyped' /\ LoopTyped'
  BY <1>1, <1>2, <1>5, <1>6 DEF TreesTyped, TimesTyped, LoopTyped, flushVars, callbackVars, loopVars
<1>8. RootsOK'
  <2> SUFFICES ASSUME NEW q \in Roots PROVE RootOK(q)'
    BY DEF RootsOK
  <2>1. /\ levels' = levels /\ work' = work /\ finishedWork' = finishedWork /\ timeouts' = timeouts
        /\ Exp(q)' = Exp(q) /\ WorkOn(q)' = WorkOn(q) /\ Scheduled' = Scheduled
        /\ Committing(q)' = Committing(q) /\ MayCrash' = MayCrash
    BY <1>1 DEF Exp, WorkOn, Scheduled, Committing, MayCrash, flushVars, loopVars
  <2>2. LevelsOK(q) /\ TreesOK(q) /\ WaitsOK(q)
    BY <1>2 DEF RootsOK, RootOK
  <2>3. LevelsOK(q)' /\ TreesOK(q)'
    BY <2>1, <2>2 DEF LevelsOK, TreesOK
  <2>4. (Waits(q) => Waits(q)') /\ (IsDone(q)' <=> IsDone(q))
    <3>1. promises[q] # {} => promises'[q] # {}
      BY <1>6
    <3> QED
      BY <2>1, <3>1 DEF Waits, IsDone
  <2>5. WaitsOK(q)'
    BY <2>1, <2>2, <2>4 DEF WaitsOK
  <2> QED
    BY <2>3, <2>5 DEF RootOK
<1>9. WipOK'
  BY <1>1, <1>2, <1>3, <1>4, <1>5, <1>6 DEF WipOK, loopVars, Exp
<1>10. /\ LoopOK' /\ CommitOK' /\ TaskOK' /\ CallbackOK'
  BY <1>1 DEF LoopOK, CommitOK, TaskOK, Task, loopVars, callbackVars, CallbackOK, IInv
<1>11. PerformOK'
  BY <1>1, <1>2, <1>5 DEF PerformOK, loopVars, flushVars, Exp, Scheduled
<1> QED
  BY <1>7, <1>8, <1>9, <1>10, <1>11 DEF IInv

(* How performing a root ends: what remains to be shown is about the root, *)
(* and the render in progress.                                             *)
LEMMA PerformEnds ==
  ASSUME IInv, phase \in {"render", "commit"}, NEW r \in Roots, nextFlushedRoot = r,
         NEW lv \in [Roots -> LevelsIn(Times0)], levels' = lv, AfterPerformWorkOnRoot(lv),
         UNCHANGED <<clock, application, isBatchingUpdates, callbackVars>>,
         deadlineDidExpire' \in BOOLEAN, TreesTyped', \A q \in Roots \ {r} : Untouched(q),
         Shortened(lv, schedule, schedule') /\ phase' \in {"loop", "idle"} => RootOK(r)' /\ WipOK'
  PROVE  IInv'
<1>1. /\ TreesTyped /\ TimesTyped /\ LoopTyped /\ RootsOK /\ PerformOK /\ CallbackOK
  BY DEF IInv
<1>2. /\ Shortened(lv, schedule, schedule')
      /\ phase' \in {"loop", "idle"}
      /\ performing' = "async" <=> performing = "async"
      /\ PerformingTyped' /\ PhaseOK' /\ TimesTyped'
  BY <1>1, AfterPerform
<1>3. RootOK(r)' /\ WipOK'
  BY <1>2
<1>4. RootsOK'
  <2>1. \A q \in Roots \ {r} : RootOK(q)'
    <3>1. MayCrash' = MayCrash
      BY DEF MayCrash
    <3> QED
      BY <1>1, <1>2, <3>1, OthersAreOK
  <2> QED
    BY <1>3, <2>1 DEF RootsOK
<1>5. LoopTyped'
  BY <1>1, <1>2 DEF LoopTyped, PerformingTyped, callbackVars
<1>6. CallbackOK'
  BY <1>1, <1>2 DEF CallbackOK, callbackVars
<1> QED
  BY <1>2, <1>3, <1>4, <1>5, <1>6 DEF IInv, PhaseOK

LEMMA YieldIsOK == ASSUME IInv, Yield PROVE IInv'
<1>1. /\ phase = "render" /\ ~isExpired /\ deadlineDidExpire' = TRUE
      /\ AfterPerformWorkOnRoot(levels)
      /\ UNCHANGED <<clock, levels, treeVars, callbackVars, isBatchingUpdates, application>>
  BY DEF Yield
<1>2. PICK r \in Roots : r = nextFlushedRoot
  BY <1>1, RenderingIs
<1>3. TreesTyped /\ RootsOK /\ WipOK
  BY DEF IInv
<1>4. TreesTyped'
  BY <1>1, <1>3 DEF TreesTyped, treeVars
<1>5. \A q \in Roots : Untouched(q)
  BY <1>1 DEF Untouched, treeVars
<1>6. ASSUME Shortened(levels, schedule, schedule'), phase' \in {"loop", "idle"}
      PROVE  RootOK(r)' /\ WipOK'
  <2>1. RootsOK'
    BY <1>1, <1>3, <1>6, UntouchedRootsAreOK DEF MayCrash
  <2>2. WipOK'
    BY <1>1, <1>3, <1>6 DEF WipOK, treeVars
  <2> QED
    BY <2>1, <2>2 DEF RootsOK
<1>7. levels \in [Roots -> LevelsIn(Times0)] /\ levels' = levels
  BY <1>1, <1>3 DEF TreesTyped
<1> QED
  BY <1>1, <1>2, <1>4, <1>5, <1>6, <1>7, PerformEnds

LEMMA FailFatallyIsOK == ASSUME IInv, FailFatally PROVE IInv'
<1>1. PICK r \in Roots : r = nextFlushedRoot
  BY RenderingIs DEF FailFatally
<1> DEFINE new == [levels[r] EXCEPT !.expirationTime = NoWork]
           lv == [levels EXCEPT ![r] = new]
<1>2. /\ MayCrash /\ phase = "render" /\ levels' = lv /\ wip' = NoRender
      /\ AfterPerformWorkOnRoot(lv)
      /\ UNCHANGED <<clock, work, promises, finishedWork, timeouts, callbackVars,
                     deadlineDidExpire, isBatchingUpdates, application>>
  BY <1>1 DEF FailFatally, MayCrash
<1>3. TreesTyped /\ LoopTyped /\ RootsOK /\ WipOK
  BY DEF IInv
<1>4. levels[r] \in LevelsIn(Times0) /\ levels[r] \in Levels
      /\ LevelsOK(r) /\ TreesOK(r) /\ WaitsOK(r)
  BY <1>3, RootTyped DEF RootsOK, RootOK
<1>5. /\ new \in LevelsIn(Times0) /\ new \in Levels /\ new.expirationTime = NoWork
      /\ new.pending = levels[r].pending /\ new.suspended = levels[r].suspended
      /\ new.latestPingedTime = levels[r].latestPingedTime
      /\ new.nextExpirationTimeToWorkOn = levels[r].nextExpirationTimeToWorkOn
  BY <1>4, LevelTimesAre DEF LevelsIn, Levels, NoWork
<1>6. /\ lv \in [Roots -> LevelsIn(Times0)] /\ lv[r] = new
      /\ \A q \in Roots \ {r} : lv[q] = levels[q]
  BY <1>3, <1>5 DEF TreesTyped
<1>7. timeouts[r] = NoTree /\ finishedWork[r] = NoTree
  BY <1>1, <1>2, RenderingIs
<1> HIDE DEF new, lv
<1>8. TreesTyped'
  BY <1>2, <1>3, <1>6, LevelTimesAre DEF TreesTyped
<1>9. \A q \in Roots \ {r} : Untouched(q)
  BY <1>2, <1>6 DEF Untouched
<1>10. RootOK(r)' /\ WipOK'
  <2>1. levels'[r] = new /\ Exp(r)' = NoWork /\ timeouts'[r] = NoTree /\ finishedWork'[r] = NoTree
        /\ work'[r] = work[r] /\ MayCrash'
    BY <1>2, <1>5, <1>6, <1>7 DEF Exp, MayCrash
  <2>2. LevelsOK(r)'
    <3>1. Sound(new)
      <4>1. Sound(levels[r]) /\ (IsPinged(new) <=> IsPinged(levels[r]))
        BY <1>4, <1>5 DEF LevelsOK, IsPinged
      <4> QED
        BY <1>5, <4>1 DEF Sound, IsPriorityLevelSuspended
    <3>2. \A l \in work[r] : Knows(new, l)
      BY <1>4, <1>5 DEF LevelsOK, Knows
    <3> QED
      BY <2>1, <3>1, <3>2 DEF LevelsOK
  <2>3. TreesOK(r)'
    BY <2>1, LevelTimesAre DEF TreesOK
  <2>4. WaitsOK(r)'
    BY <2>1 DEF WaitsOK, IsDone, Sync, NoWork
  <2>5. WipOK'
    BY <1>2, LevelTimesAre DEF WipOK
  <2> QED
    BY <2>2, <2>3, <2>4, <2>5 DEF RootOK
<1>11. deadlineDidExpire' \in BOOLEAN
  BY <1>2, <1>3 DEF LoopTyped
<1> QED
  BY <1>1, <1>2, <1>6, <1>8, <1>9, <1>10, <1>11, PerformEnds

(* A render ends without a commit: the root has a tree or none, and an     *)
(* expiration time or a promise to wait for.                               *)
LEMMA RenderIsOver ==
  ASSUME IInv, phase = "render", NEW r \in Roots, r = nextFlushedRoot,
         NEW new \in LevelsIn(Times0), Sound(new), KnowsMore(levels[r], new),
         new.expirationTime # NoWork => new.nextExpirationTimeToWorkOn # NoWork,
         new.expirationTime = NoWork => /\ new.suspended.earliest # NoWork
                                        /\ new.pending.earliest = NoWork /\ promises[r] # {},
         new.nextExpirationTimeToWorkOn = Sync =>
           new.expirationTime = NoWork \/ new.expirationTime = Sync \/ SyncIsHeld(new),
         NEW tree \in TreesDone \cup {NoTree}, Sync \in tree.left => new.expirationTime # NoWork,
         levels' = [levels EXCEPT ![r] = new],
         AfterPerformWorkOnRoot([levels EXCEPT ![r] = new]),
         \/ timeouts' = [timeouts EXCEPT ![r] = tree] /\ finishedWork' = finishedWork
         \/ finishedWork' = [finishedWork EXCEPT ![r] = tree] /\ timeouts' = timeouts
         \/ tree = NoTree /\ timeouts' = timeouts /\ finishedWork' = finishedWork,
         wip' = NoRender, deadlineDidExpire' \in BOOLEAN,
         UNCHANGED <<clock, work, promises, callbackVars, isBatchingUpdates, application>>
  PROVE  IInv'
<1> DEFINE lv == [levels EXCEPT ![r] = new]
<1>1. TreesTyped /\ LoopTyped /\ RootsOK /\ WipOK
  BY DEF IInv
<1>2. /\ lv \in [Roots -> LevelsIn(Times0)] /\ lv[r] = new
      /\ \A q \in Roots \ {r} : lv[q] = levels[q]
  BY <1>1 DEF TreesTyped
<1>3. levels' = lv /\ AfterPerformWorkOnRoot(lv)
  OBVIOUS
<1> HIDE DEF lv
<1>4. /\ r \in Scheduled /\ timeouts[r] = NoTree /\ finishedWork[r] = NoTree
      /\ wip.level \in LevelTimes /\ wip.level # NoWork /\ wip.late \subseteq work[r]
  BY RenderingIs
<1>5. work[r] \in SUBSET LevelTimes /\ \A l \in work[r] : l \in Nat /\ Knows(levels[r], l)
  BY <1>1, LevelTimesAre, RootTyped DEF RootsOK, RootOK, LevelsOK
<1>6. /\ tree \in Trees /\ tree.left \subseteq work[r]
      /\ tree # NoTree => tree.level # NoWork
  <2>1. CASE tree = NoTree
    BY <2>1, LevelTimesAre
  <2>2. CASE tree \in TreesDone
    <3>1. PICK left \in SUBSET wip.late :
            tree = [level |-> wip.level, left |-> left, stale |-> FALSE]
      BY <2>2 DEF TreesDone
    <3>2. left \in SUBSET LevelTimes /\ left \subseteq work[r] /\ wip.level \in Times0
      BY <1>4, <1>5, LevelTimesAre
    <3> QED
      BY <1>4, <3>1, <3>2 DEF Trees
  <2> QED
    BY <2>1, <2>2
<1>7. /\ \/ timeouts'[r] = tree /\ finishedWork'[r] = NoTree
         \/ timeouts'[r] = NoTree /\ finishedWork'[r] = tree
      /\ \A q \in Roots \ {r} : timeouts'[q] = timeouts[q] /\ finishedWork'[q] = finishedWork[q]
      /\ timeouts' \in [Roots -> Trees] /\ finishedWork' \in [Roots -> Trees]
  BY <1>1, <1>4, <1>6 DEF TreesTyped
<1>8. TreesTyped'
  BY <1>1, <1>2, <1>3, <1>7, LevelTimesAre DEF TreesTyped
<1>9. \A q \in Roots \ {r} : Untouched(q)
  BY <1>2, <1>3, <1>7 DEF Untouched
<1>10. ASSUME Shortened(lv, schedule, schedule') PROVE RootOK(r)' /\ WipOK'
  <2>1. /\ levels'[r] = new /\ Exp(r)' = new.expirationTime
        /\ WorkOn(r)' = new.nextExpirationTimeToWorkOn
        /\ new.expirationTime # NoWork => r \in Scheduled'
        /\ work'[r] = work[r] /\ promises'[r] = promises[r]
    BY <1>2, <1>3, <1>4, <1>10 DEF Exp, WorkOn, Shortened, Scheduled
  <2>2. LevelsOK(r)'
    <3>1. \A l \in work[r] : Knows(new, l)
      BY <1>5 DEF KnowsMore
    <3> QED
      BY <2>1, <3>1 DEF LevelsOK
  <2>3. TreesOK(r)'
    BY <1>6, <1>7, <2>1, LevelTimesAre DEF TreesOK
  <2>4. WaitsOK(r)'
    BY <2>1 DEF WaitsOK, Waits, Sync, NoWork
  <2>5. WipOK'
    BY LevelTimesAre DEF WipOK
  <2> QED
    BY <2>2, <2>3, <2>4, <2>5 DEF RootOK
<1> QED
  BY <1>2, <1>3, <1>8, <1>9, <1>10, PerformEnds

(* A tree is committed: the root knows of what is left.                    *)
LEMMA StartCommitIsOK ==
  ASSUME IInv, phase \in {"perform", "render"}, NEW r \in Roots, r = nextFlushedRoot,
         NEW tree \in Trees, tree.level # NoWork, tree.left \subseteq work[r],
         Sync \in tree.left => r \in Scheduled, timeouts[r] = NoTree,
         NEW level \in LevelsIn(Times0), Sound(level), \A l \in work[r] : Knows(level, l),
         r \in Scheduled \/ (level = levels[r] /\ Waits(r)),
         StartCommit(r, tree, level),
         wip' = NoRender \/ (wip' = wip /\ wip.root # r /\ phase # "render"),
         deadlineDidExpire' \in BOOLEAN,
         UNCHANGED <<clock, promises, callbackVars, isBatchingUpdates, application>>
  PROVE  IInv'
<1> DEFINE remaining == {t \in work[r] : t > tree.level} \cup tree.left
           new == MarkCommitted(level, Earliest(remaining))
<1>1. /\ work' = [work EXCEPT ![r] = remaining]
      /\ levels' = [levels EXCEPT ![r] = new]
      /\ finishedWork' = [finishedWork EXCEPT ![r] = NoTree]
      /\ timeouts' = [timeouts EXCEPT ![r] = NoTree]
      /\ phase' = "commit"
      /\ UNCHANGED <<currentTime, schedule, flushVars, performing, isExpired>>
  BY DEF StartCommit, Outdated, IInv, TreesTyped
<1>2. TreesTyped /\ TimesTyped /\ LoopTyped /\ RootsOK /\ WipOK /\ PerformOK /\ CallbackOK
  BY DEF IInv
<1>3. /\ work[r] \in SUBSET LevelTimes /\ remaining \subseteq work[r]
      /\ Sync \in remaining => r \in Scheduled
  <2>1. work[r] \in SUBSET LevelTimes /\ tree.level \in Nat
    BY <1>2, LevelTimesAre, RootTyped DEF Trees
  <2>2. ~(Sync > tree.level)
    BY <2>1 DEF Sync, NoWork
  <2> QED
    BY <2>1, <2>2
<1> HIDE DEF remaining
<1>4. remaining \in SUBSET Nat /\ NoWork \notin remaining /\ \A l \in remaining : Knows(level, l)
  BY <1>3, LevelTimesAre
<1>5. /\ new \in LevelsIn(Times0) /\ Sound(new)
      /\ \A l \in remaining : Knows(new, l)
      /\ remaining = {} => /\ new.expirationTime = NoWork
                           /\ new.nextExpirationTimeToWorkOn = NoWork /\ new.pending = NoLevels
      /\ remaining # {} =>
           /\ new.expirationTime # NoWork /\ new.nextExpirationTimeToWorkOn # NoWork
           /\ new.pending.earliest = Sync => Sync \in remaining
           /\ new.nextExpirationTimeToWorkOn = Sync => Sync \in remaining \/ SyncIsHeld(new)
           /\ level.pending.earliest = NoWork =>
                new.pending = NoLevels /\ new.suspended = level.suspended
  <2>1. CASE remaining = {}
    <3>1. new = MarkCommitted(level, NoWork)
      BY <2>1 DEF Earliest
    <3>2. /\ Sound(new) /\ new.expirationTime = NoWork
          /\ new.nextExpirationTimeToWorkOn = NoWork /\ new.pending = NoLevels
      BY <3>1, MarkCommittedClears
    <3>3. new \in LevelsIn(Times0)
      BY <3>1, LevelTimesAre, MarkCommittedStaysIn
    <3> HIDE DEF new
    <3> QED
      BY <2>1, <3>2, <3>3
  <2>2. CASE remaining # {}
    <3> DEFINE t == Earliest(remaining)
    <3>1. t \in remaining /\ \A l \in remaining : t <= l
      BY <1>4, <2>2, EarliestIsLeast
    <3>2. t \in Times0
      BY <1>3, <3>1, LevelTimesAre
    <3>3. new = MarkCommitted(level, t)
      OBVIOUS
    <3> HIDE DEF t, new
    <3>4. /\ Sound(new) /\ TimesAgree(new) /\ new.expirationTime # NoWork
          /\ \A l \in remaining : Knows(new, l)
          /\ new.pending.earliest = Sync => Sync \in remaining
          /\ new.nextExpirationTimeToWorkOn = Sync => Sync \in remaining \/ SyncIsHeld(new)
          /\ level.pending.earliest = NoWork =>
               new.pending = NoLevels /\ new.suspended = level.suspended
      BY <1>4, <3>1, <3>3, MarkCommittedLeaves
    <3>5. new \in LevelsIn(Times0)
      BY <3>2, <3>3, LevelTimesAre, MarkCommittedStaysIn
    <3> QED
      BY <2>2, <3>4, <3>5 DEF TimesAgree
  <2> QED
    BY <2>1, <2>2
<1> HIDE DEF new
<1>6. /\ work'[r] = remaining /\ levels'[r] = new /\ timeouts'[r] = NoTree /\ finishedWork'[r] = NoTree
      /\ Exp(r)' = new.expirationTime /\ WorkOn(r)' = new.nextExpirationTimeToWorkOn
      /\ promises'[r] = promises[r] /\ Scheduled' = Scheduled /\ Committing(r)'
      /\ nextFlushedRoot' = r /\ performing' = performing
  BY <1>1, <1>2 DEF TreesTyped, Exp, WorkOn, Scheduled, Committing, flushVars
<1>7. \A q \in Roots \ {r} : Untouched(q)
  BY <1>1, <1>2 DEF Untouched, TreesTyped
<1>8. r \in Scheduled \/ remaining = {} \/ (Waits(r)' /\ Sync \notin remaining)
  <2> SUFFICES ASSUME r \notin Scheduled, remaining # {} PROVE Waits(r)' /\ Sync \notin remaining
    OBVIOUS
  <2>1. /\ level.pending.earliest = NoWork /\ level.suspended.earliest # NoWork
        /\ promises[r] # {}
    BY DEF Waits
  <2> QED
    BY <1>3, <1>5, <1>6, <2>1 DEF Waits, NoLevels
<1>9. TreesTyped'
  <2>1. wip' \in Renders
    BY <1>2, LevelTimesAre DEF TreesTyped
  <2>2. remaining \subseteq LevelTimes
    BY <1>3
  <2> QED
    BY <1>1, <1>2, <1>5, <2>1, <2>2, LevelTimesAre DEF TreesTyped
<1>10. TimesTyped' /\ LoopTyped' /\ CallbackOK'
  BY <1>1, <1>2 DEF TimesTyped, LoopTyped, CallbackOK, flushVars, callbackVars, Phases
<1>11. RootsOK'
  <2> SUFFICES ASSUME NEW q \in Roots PROVE RootOK(q)'
    BY DEF RootsOK
  <2>1. CASE q # r
    <3>1. RootOK(q) /\ Untouched(q)
      BY <1>2, <1>7, <2>1 DEF RootsOK
    <3>2. ~Committing(q) /\ MayCrash' = MayCrash /\ Scheduled' = Scheduled
      BY <1>6 DEF Committing, MayCrash
    <3> QED
      BY <3>1, <3>2, UntouchedIsOK
  <2>2. CASE q = r
    <3>1. LevelsOK(r)'
      BY <1>5, <1>6 DEF LevelsOK
    <3>2. TreesOK(r)'
      BY <1>6, LevelTimesAre DEF TreesOK
    <3>3. WaitsOK(r)'
      BY <1>5, <1>6, <1>8 DEF WaitsOK, IsDone
    <3> QED
      BY <2>2, <3>1, <3>2, <3>3 DEF RootOK
  <2> QED
    BY <2>1, <2>2
<1>12. WipOK'
  <2>1. CASE wip' = NoRender
    BY <2>1, LevelTimesAre DEF WipOK
  <2>2. CASE wip' = wip /\ wip.root # r /\ phase # "render" /\ wip.root # NoRoot
    <3>1. wip.root \in Roots \ {r}
      BY <1>2, <2>2 DEF TreesTyped, Renders
    <3>2. Untouched(wip.root)
      BY <1>7, <3>1
    <3> QED
      BY <1>1, <1>2, <2>2, <3>2 DEF WipOK, Untouched, Exp
  <2>3. CASE wip' = wip /\ wip.root = NoRoot
    BY <2>3 DEF WipOK
  <2> QED
    BY <2>1, <2>2, <2>3
<1>13. PerformOK' /\ LoopOK' /\ TaskOK'
  <2>1. performing # "nothing" /\ (performing = "unbatched" => isBatchingUpdates)
    BY <1>2 DEF PerformOK
  <2> QED
    BY <1>1, <1>6, <2>1 DEF PerformOK, LoopOK, TaskOK, Task
<1>14. CommitOK'
  <2>1. wip'.root # r
    BY LevelTimesAre
  <2>2. /\ r \in Scheduled' \/ work'[r] = {} \/ (Waits(r)' /\ Sync \notin work'[r])
        /\ work'[r] # {} => WorkOn(r)' # NoWork
        /\ WorkOn(r)' = Sync => Sync \in work'[r] \/ SyncIsHeld(levels'[r])
        /\ levels'[r].pending.earliest = Sync => Sync \in work'[r]
    BY <1>5, <1>6, <1>8 DEF NoLevels, Sync, NoWork
  <2> QED
    BY <1>6, <2>1, <2>2 DEF CommitOK, Waits, WorkOn, Scheduled
<1> QED
  BY <1>9, <1>10, <1>11, <1>12, <1>13, <1>14 DEF IInv

LEMMA FailAndWaitIsOK == ASSUME IInv, FailAndWait PROVE IInv'
<1>1. PICK r \in Roots : r = nextFlushedRoot
  BY RenderingIs DEF FailAndWait
<1> DEFINE new == MarkSuspended(levels[r], wip.level)
<1>2. wip.root = r /\ wip.level \in LevelTimes /\ phase = "render"
  BY <1>1, RenderingIs DEF FailAndWait
<1>3. /\ HasLowerPriorityWork(levels[r], wip.level)
      /\ ExitWithoutCommit([levels EXCEPT ![r] = new]) /\ wip' = NoRender
      /\ UNCHANGED <<clock, promises, timeouts, callbackVars, deadlineDidExpire,
                     isBatchingUpdates, application>>
  <2>1. r \in DOMAIN levels
    BY DEF IInv, TreesTyped
  <2> QED
    BY <1>2, <2>1 DEF FailAndWait, MayRepair
<1>4. levels[r] \in LevelsIn(Times0) /\ Sound(levels[r]) /\ wip.level \in Nat
      /\ wip.level # NoWork /\ wip.level \in Times0
  BY <1>2, LevelTimesAre, RootTyped DEF IInv, RootsOK, RootOK, LevelsOK
<1>5. new \in LevelsIn(Times0)
  BY <1>4, LevelTimesAre, MarkSuspendedStaysIn
<1>6. /\ Sound(new) /\ TimesAgree(new) /\ KnowsMore(levels[r], new) /\ new.expirationTime # NoWork
  BY <1>3, <1>4, MarkSuspendedAdds
<1>7. /\ new.nextExpirationTimeToWorkOn # NoWork
      /\ new.nextExpirationTimeToWorkOn = Sync => new.expirationTime = Sync
  BY <1>6 DEF TimesAgree
<1> HIDE DEF new
<1>8. /\ levels' = [levels EXCEPT ![r] = new] /\ AfterPerformWorkOnRoot([levels EXCEPT ![r] = new])
      /\ UNCHANGED <<work, finishedWork>> /\ NoTree.left = {} /\ NoTree \in TreesDone \cup {NoTree}
      /\ deadlineDidExpire' \in BOOLEAN
  BY <1>3, LevelTimesAre DEF ExitWithoutCommit, IInv, LoopTyped
<1> QED
  BY <1>1, <1>2, <1>3, <1>5, <1>6, <1>7, <1>8, RenderIsOver

LEMMA FailAndRetryIsOK == ASSUME IInv, FailAndRetry PROVE IInv'
<1>1. PICK r \in Roots : r = nextFlushedRoot
  BY RenderingIs DEF FailAndRetry
<1> DEFINE new == [levels[r] EXCEPT !.didError = TRUE,
                                    !.nextExpirationTimeToWorkOn = wip.level,
                                    !.expirationTime = Sync]
<1>2. wip.root = r /\ wip.level \in LevelTimes /\ phase = "render"
  BY <1>1, RenderingIs DEF FailAndRetry
<1>3. levels[r] \in LevelsIn(Times0) /\ levels[r] \in Levels /\ Sound(levels[r])
      /\ wip.level \in Nat /\ wip.level # NoWork /\ wip.level \in Times0
      /\ Sync \in Times0 /\ Sync \in Nat /\ r \in DOMAIN levels
  BY <1>2, LevelTimesAre, RootTyped DEF IInv, RootsOK, RootOK, LevelsOK, TreesTyped
<1>4. /\ ExitWithoutCommit([levels EXCEPT ![r] = new]) /\ wip' = NoRender
      /\ UNCHANGED <<clock, promises, timeouts, callbackVars, deadlineDidExpire,
                     isBatchingUpdates, application>>
  <2>1. [levels EXCEPT ![r].didError = TRUE, ![r].nextExpirationTimeToWorkOn = wip.level,
                       ![r].expirationTime = Sync] = [levels EXCEPT ![r] = new]
    BY <1>3 DEF IInv, TreesTyped
  <2> QED
    BY <1>2, <2>1 DEF FailAndRetry
<1>5. /\ new \in LevelsIn(Times0) /\ new \in Levels
      /\ new.pending = levels[r].pending /\ new.suspended = levels[r].suspended
      /\ new.latestPingedTime = levels[r].latestPingedTime
      /\ new.nextExpirationTimeToWorkOn = wip.level /\ new.expirationTime = Sync
  BY <1>3 DEF LevelsIn, Levels
<1> HIDE DEF new
<1>6. Sound(new)
  <2>1. IsPinged(new) <=> IsPinged(levels[r])
    BY <1>5 DEF IsPinged
  <2> QED
    BY <1>3, <1>5, <2>1 DEF Sound, IsPriorityLevelSuspended
<1>7. KnowsMore(levels[r], new)
  BY <1>5 DEF KnowsMore, Knows
<1>8. Sync # NoWork
  BY DEF Sync, NoWork
<1>9. /\ levels' = [levels EXCEPT ![r] = new] /\ AfterPerformWorkOnRoot([levels EXCEPT ![r] = new])
      /\ UNCHANGED <<work, finishedWork>> /\ NoTree.left = {} /\ NoTree \in TreesDone \cup {NoTree}
      /\ deadlineDidExpire' \in BOOLEAN
  BY <1>4, LevelTimesAre DEF ExitWithoutCommit, IInv, LoopTyped
<1> QED
  BY <1>1, <1>2, <1>3, <1>4, <1>5, <1>6, <1>7, <1>8, <1>9, RenderIsOver

LEMMA CommitFinishedWorkIsOK == ASSUME IInv, CommitFinishedWork PROVE IInv'
<1>1. PICK r \in Roots : r = nextFlushedRoot
  BY DEF CommitFinishedWork, IInv, PerformOK
<1> DEFINE tree == finishedWork[r]
<1>2. /\ phase = "perform" /\ tree # NoTree /\ StartCommit(r, tree, levels[r])
      /\ UNCHANGED <<clock, promises, wip, callbackVars, deadlineDidExpire,
                     isBatchingUpdates, application>>
  BY <1>1 DEF CommitFinishedWork
<1>3. TreesTyped /\ LoopTyped /\ RootsOK /\ WipOK
  BY DEF IInv
<1>4. /\ tree \in Trees /\ levels[r] \in LevelsIn(Times0)
      /\ LevelsOK(r) /\ TreesOK(r) /\ WaitsOK(r)
  BY <1>3, RootTyped DEF RootsOK, RootOK
<1>5. /\ tree.level # NoWork /\ tree.left \subseteq work[r]
      /\ Sync \in tree.left => r \in Scheduled
      /\ timeouts[r] = NoTree
  BY <1>2, <1>4 DEF TreesOK
<1>6. r \in Scheduled \/ Waits(r)
  BY <1>2, <1>4 DEF WaitsOK, IsDone
<1>7. wip.root # r
  <2>1. wip.root = r => wip.root # NoRoot
    BY LevelTimesAre
  <2> QED
    BY <1>2, <1>3, <2>1 DEF WipOK
<1>8. deadlineDidExpire' \in BOOLEAN /\ Sound(levels[r]) /\ \A l \in work[r] : Knows(levels[r], l)
  BY <1>2, <1>3, <1>4 DEF LoopTyped, LevelsOK
<1> HIDE DEF tree
<1> QED
  BY <1>1, <1>2, <1>4, <1>5, <1>6, <1>7, <1>8, StartCommitIsOK

(* The tree that a render has finished.                                    *)
LEMMA TreeDoneIs ==
  ASSUME IInv, phase = "render", NEW tree \in TreesDone
  PROVE  /\ tree \in Trees /\ tree.level = wip.level /\ tree.level # NoWork
         /\ tree.left \subseteq wip.late /\ tree.left \subseteq work[nextFlushedRoot]
<1>1. /\ wip.level \in LevelTimes /\ wip.level # NoWork
      /\ wip.late \subseteq work[nextFlushedRoot] /\ nextFlushedRoot \in Roots
  BY RenderingIs
<1>2. work[nextFlushedRoot] \in SUBSET LevelTimes
  BY <1>1, RootTyped DEF IInv
<1>3. PICK left \in SUBSET wip.late :
        tree = [level |-> wip.level, left |-> left, stale |-> FALSE]
  BY DEF TreesDone
<1>4. left \in SUBSET LevelTimes /\ wip.level \in Times0
  BY <1>1, <1>2, LevelTimesAre
<1> QED
  BY <1>1, <1>3, <1>4 DEF Trees

LEMMA CompleteIsOK == ASSUME IInv, Complete PROVE IInv'
<1>1. PICK r \in Roots : r = nextFlushedRoot
  BY RenderingIs DEF Complete
<1>2. PICK tree \in TreesDone : ExitWithFinishedWork(tree, levels)
  BY DEF Complete
<1>3. /\ phase = "render" /\ wip' = NoRender
      /\ UNCHANGED <<clock, promises, callbackVars, isBatchingUpdates, application>>
  BY DEF Complete
<1>4. /\ TreesTyped /\ LoopTyped /\ LevelsOK(r) /\ WaitsOK(r) /\ levels[r] \in LevelsIn(Times0)
  BY RootTyped DEF IInv, RootsOK, RootOK
<1>5. /\ wip.root = r /\ r \in Scheduled /\ Exp(r) # NoWork
      /\ timeouts[r] = NoTree /\ finishedWork[r] = NoTree
  BY <1>1, <1>3, RenderingIs
<1>6. /\ tree \in Trees /\ tree.level # NoWork /\ tree.left \subseteq work[r]
  BY <1>1, <1>3, TreeDoneIs
<1>7. Sound(levels[r]) /\ \A l \in work[r] : Knows(levels[r], l)
  BY <1>4 DEF LevelsOK
<1>8. CASE StartCommit(r, tree, levels[r]) /\ UNCHANGED deadlineDidExpire
  <2>1. deadlineDidExpire' \in BOOLEAN
    BY <1>4, <1>8 DEF LoopTyped
  <2> QED
    BY <1>1, <1>3, <1>4, <1>5, <1>6, <1>7, <1>8, <2>1, StartCommitIsOK
<1>9. CASE /\ deadlineDidExpire' = TRUE /\ levels' = levels
           /\ finishedWork' = [finishedWork EXCEPT ![r] = tree]
           /\ AfterPerformWorkOnRoot(levels) /\ UNCHANGED <<work, timeouts>>
  <2>1. levels = [levels EXCEPT ![r] = levels[r]]
    BY <1>4 DEF TreesTyped
  <2>2. levels' = [levels EXCEPT ![r] = levels[r]]
        /\ AfterPerformWorkOnRoot([levels EXCEPT ![r] = levels[r]])
    BY <1>9, <2>1
  <2>3. KnowsMore(levels[r], levels[r])
    BY DEF KnowsMore
  <2>4. /\ levels[r].expirationTime # NoWork
        /\ levels[r].nextExpirationTimeToWorkOn # NoWork
        /\ levels[r].nextExpirationTimeToWorkOn = Sync =>
             levels[r].expirationTime = Sync \/ SyncIsHeld(levels[r])
    BY <1>3, <1>4, <1>5 DEF LevelsOK, WaitsOK, Exp, WorkOn, Committing
  <2> QED
    BY <1>1, <1>3, <1>4, <1>7, <1>9, <2>2, <2>3, <2>4, RenderIsOver
<1> QED
  BY <1>2, <1>5, <1>8, <1>9 DEF ExitWithFinishedWork

(* The level is suspended: the root waits for the promise that suspended   *)
(* it, if it has nothing else to work on.  A synchronous update that came  *)
(* too late is not lost: the render was synchronous itself, and then it    *)
(* either has expired or a later level was suspended together with it.     *)
LEMMA SuspendIsOK == ASSUME IInv, Suspend PROVE IInv'
<1>1. PICK r \in Roots : r = nextFlushedRoot
  BY RenderingIs DEF Suspend
<1>2. /\ wip.root = r /\ r \in Scheduled /\ Exp(r) # NoWork
      /\ timeouts[r] = NoTree /\ finishedWork[r] = NoTree
      /\ wip.level \in LevelTimes /\ wip.level # NoWork /\ wip.root # NoRoot
      /\ phase = "render"
  BY <1>1, RenderingIs DEF Suspend
<1> DEFINE new == MarkSuspended(levels[r], wip.level)
           lv == [levels EXCEPT ![r] = new]
<1>3. r \in DOMAIN levels
  BY DEF IInv, TreesTyped
<1>4. /\ ~isExpired /\ wip.timeout # -1 /\ wip' = NoRender
      /\ UNCHANGED <<clock, promises, callbackVars, isBatchingUpdates, application>>
  BY DEF Suspend, IsSuspended
<1>5. PICK tree \in TreesDone :
        \/ /\ timeouts' = [timeouts EXCEPT ![r] = tree]
           /\ ExitWithoutCommit(lv)
           /\ UNCHANGED deadlineDidExpire
        \/ /\ ~deadlineDidExpire
           /\ ExitWithFinishedWork(tree, lv)
        \/ /\ deadlineDidExpire' = TRUE
           /\ ExitWithoutCommit(lv)
           /\ UNCHANGED timeouts
  BY <1>2, <1>3 DEF Suspend
<1>6. /\ TreesTyped /\ LoopTyped /\ RootsOK /\ WipOK /\ PerformOK
  BY DEF IInv
<1>7. /\ levels[r] \in LevelsIn(Times0) /\ Sound(levels[r])
      /\ \A l \in work[r] : l \in Nat /\ Knows(levels[r], l)
      /\ wip.level \in Nat /\ wip.level \in Times0
  BY <1>2, <1>6, LevelTimesAre, RootTyped DEF RootsOK, RootOK, LevelsOK
<1>8. new \in LevelsIn(Times0)
  BY <1>7, LevelTimesAre, MarkSuspendedStaysIn
<1>9. /\ Sound(new) /\ TimesAgree(new) /\ KnowsMore(levels[r], new)
      /\ new.expirationTime = NoWork =>
           /\ new.pending = NoLevels /\ new.suspended.earliest # NoWork
           /\ ~HasLowerPriorityWork(levels[r], wip.level)
  BY <1>2, <1>7, MarkSuspendedAdds
<1> HIDE DEF new
<1>10. /\ tree \in Trees /\ tree.level # NoWork /\ tree.left \subseteq work[r]
       /\ tree.left \subseteq wip.late
  BY <1>1, <1>2, TreeDoneIs
<1>11. wip.level \in promises[r]
  BY <1>2, <1>4, <1>6 DEF WipOK
<1>12. ASSUME Sync \in tree.left PROVE new.expirationTime # NoWork
  <2>1. wip.level = Sync
    BY <1>2, <1>4, <1>6, <1>10, <1>12 DEF WipOK
  <2>2. SyncIsHeld(levels[r])
    BY <1>1, <1>2, <1>4, <1>6, <2>1 DEF PerformOK
  <2>3. HasLowerPriorityWork(levels[r], wip.level)
    BY <2>1, <2>2 DEF SyncIsHeld, HasLowerPriorityWork
  <2> QED
    BY <1>9, <2>3
<1>13. /\ new.expirationTime # NoWork => new.nextExpirationTimeToWorkOn # NoWork
       /\ new.expirationTime = NoWork => /\ new.suspended.earliest # NoWork
                                         /\ new.pending.earliest = NoWork /\ promises[r] # {}
       /\ new.nextExpirationTimeToWorkOn = Sync => new.expirationTime = Sync
  BY <1>9, <1>11 DEF TimesAgree, NoLevels
<1>14. \A l \in work[r] : Knows(new, l)
  BY <1>7, <1>9 DEF KnowsMore
<1>15. lv[r] = new
  BY <1>3
<1>16. CASE StartCommit(r, tree, new) /\ UNCHANGED deadlineDidExpire
  <2>1. deadlineDidExpire' \in BOOLEAN
    BY <1>6, <1>16 DEF LoopTyped
  <2> QED
    BY <1>1, <1>2, <1>4, <1>8, <1>9, <1>10, <1>14, <1>16, <2>1, StartCommitIsOK
<1>17. CASE /\ levels' = lv /\ AfterPerformWorkOnRoot(lv) /\ work' = work
            /\ deadlineDidExpire' \in BOOLEAN
            /\ \/ timeouts' = [timeouts EXCEPT ![r] = tree] /\ finishedWork' = finishedWork
               \/ finishedWork' = [finishedWork EXCEPT ![r] = tree] /\ timeouts' = timeouts
  BY <1>1, <1>2, <1>4, <1>8, <1>9, <1>12, <1>13, <1>17, RenderIsOver
<1>18. CASE /\ levels' = lv /\ AfterPerformWorkOnRoot(lv) /\ work' = work
            /\ deadlineDidExpire' \in BOOLEAN
            /\ timeouts' = timeouts /\ finishedWork' = finishedWork
  <2>1. NoTree.left = {} /\ NoTree \in TreesDone \cup {NoTree}
    BY LevelTimesAre
  <2> QED
    BY <1>1, <1>2, <1>4, <1>8, <1>9, <1>13, <1>18, <2>1, RenderIsOver
<1> HIDE DEF lv
<1>19. deadlineDidExpire \in BOOLEAN
  BY <1>6 DEF LoopTyped
<1> QED
  <2>1. CASE timeouts' = [timeouts EXCEPT ![r] = tree] /\ ExitWithoutCommit(lv)
             /\ UNCHANGED deadlineDidExpire
    BY <1>17, <1>19, <2>1 DEF ExitWithoutCommit
  <2>2. CASE ExitWithFinishedWork(tree, lv)
    BY <1>2, <1>15, <1>16, <1>17, <2>2 DEF ExitWithFinishedWork
  <2>3. CASE deadlineDidExpire' = TRUE /\ ExitWithoutCommit(lv) /\ UNCHANGED timeouts
    BY <1>18, <2>3 DEF ExitWithoutCommit
  <2> QED
    BY <1>5, <2>1, <2>2, <2>3

-----------------------------------------------------------------------------
(* Committing.                                                             *)
LEMMA UpdateDuringCommitIsOK ==
  ASSUME IInv, NEW r \in Roots, NEW t \in {Sync} \cup ExplicitTimes(currentTime),
         UpdateDuringCommit(r, t)
  PROVE  IInv'
<1> DEFINE new == MarkPending(levels[r], t)
<1>1. /\ phase = "commit" /\ CountUpdate
      /\ levels' = [levels EXCEPT ![r] = new] /\ AddWork(r, t, wip)
      /\ schedule' = AddRootToSchedule(schedule, r)
      /\ UNCHANGED <<clock, currentTime, promises, flushVars, callbackVars,
                     deadlineDidExpire, isBatchingUpdates, loopVars>>
  BY DEF UpdateDuringCommit
<1>2. TreesTyped /\ TimesTyped /\ LoopTyped /\ RootsOK /\ WipOK /\ PerformOK /\ CommitOK
  BY DEF IInv
<1>3. PICK c \in Roots : c = nextFlushedRoot
  BY <1>1, <1>2 DEF CommitOK
<1>4. t \in LevelTimes /\ t \in Nat /\ t # NoWork
  <2>1. t \in LevelTimes
    BY <1>2, LevelTimesAre, ExpirationTimesAreLevels DEF TimesTyped
  <2> QED
    BY <2>1, LevelTimesAre
<1>5. levels[r] \in LevelsIn(Times0) /\ Sound(levels[r])
  BY <1>2, RootTyped DEF RootsOK, RootOK, LevelsOK
<1>6. /\ Adds(levels[r], new, t)
      /\ new.pending.earliest = Sync => levels[r].pending.earliest = Sync \/ t = Sync
      /\ new.nextExpirationTimeToWorkOn = new.pending.earliest
  BY <1>4, <1>5, MarkPendingIsAdd, MarkPendingAdds
<1>7. /\ phase' = phase /\ isExpired' = isExpired /\ performing' = performing
      /\ nextFlushedRoot' = nextFlushedRoot /\ promises' = promises
  BY <1>1 DEF flushVars, loopVars
<1> HIDE DEF new
<1>8. /\ schedule' \in Seq(Roots) /\ IsInjective(schedule')
      /\ r \in Scheduled' /\ Scheduled \subseteq Scheduled'
  <2>1. schedule \in Seq(Roots) /\ IsInjective(schedule)
    BY <1>2 DEF LoopTyped
  <2>2. /\ schedule' \in Seq(Roots) /\ IsInjective(schedule')
        /\ Range(schedule') = Range(schedule) \cup {r}
    BY <1>1, <2>1, AddRootAdds
  <2> QED
    BY <2>2 DEF Scheduled
<1>9. TimesTyped' /\ MayCrash' = MayCrash
  BY <1>1, <1>2, CountUpdateKeepsTypes
<1>10. promises' \in [Roots -> SUBSET LevelTimes] /\ new \in LevelsIn(Times0) /\ wip \in {wip, NoRender}
  BY <1>1, <1>2, <1>6 DEF TreesTyped, Adds
<1>11. TreesTyped'
  BY <1>1, <1>2, <1>4, <1>10, UpdateKeepsTypes
<1>12. RootsOK'
  BY <1>1, <1>2, <1>4, <1>6, <1>7, <1>8, <1>9, UpdateKeepsRoots
<1>13. WipOK'
  BY <1>1, <1>2, <1>4, <1>6, <1>7, <1>10, UpdateKeepsWip
<1>14. LoopTyped'
  BY <1>1, <1>2, <1>8 DEF LoopTyped, flushVars, callbackVars, loopVars
<1>15. CommitOK'
  <2>1. /\ wip.root # c /\ timeouts[c] = NoTree /\ finishedWork[c] = NoTree
        /\ c \in Scheduled \/ work[c] = {} \/ (Waits(c) /\ Sync \notin work[c])
        /\ work[c] # {} => WorkOn(c) # NoWork
        /\ WorkOn(c) = Sync => Sync \in work[c] \/ SyncIsHeld(levels[c])
        /\ levels[c].pending.earliest = Sync => Sync \in work[c]
    BY <1>1, <1>2, <1>3 DEF CommitOK
  <2>2. wip'.root = wip.root
    BY <1>1, <1>2 DEF AddWork, TreesTyped, Renders
  <2>3. timeouts'[c] = NoTree /\ finishedWork'[c] = NoTree
    <3>1. LeftIn(NoTree, t) = NoTree
      BY <1>4, LevelTimesAre, LeftInIs
    <3> QED
      BY <1>1, <1>2, <2>1, <3>1 DEF TreesTyped, AddWork
  <2>4. CASE r = c
    <3>1. /\ levels'[c] = new /\ WorkOn(c)' = new.nextExpirationTimeToWorkOn
          /\ work'[c] = work[c] \cup {t} /\ c \in Scheduled'
      BY <1>1, <1>2, <1>8, <2>4 DEF TreesTyped, AddWork, WorkOn
    <3>2. /\ WorkOn(c)' # NoWork
          /\ new.pending.earliest = Sync => Sync \in work'[c]
      BY <1>6, <2>1, <2>4, <3>1 DEF Adds, TimesAgree
    <3> QED
      BY <1>1, <1>3, <1>6, <1>7, <2>1, <2>2, <2>3, <3>1, <3>2 DEF CommitOK, WorkOn, Scheduled
  <2>5. CASE r # c
    <3>1. /\ levels'[c] = levels[c] /\ WorkOn(c)' = WorkOn(c) /\ work'[c] = work[c]
          /\ (Waits(c)' <=> Waits(c))
      BY <1>1, <1>2, <2>5 DEF TreesTyped, AddWork, WorkOn, Waits
    <3> QED
      BY <1>1, <1>3, <1>7, <1>8, <2>1, <2>2, <2>3, <3>1 DEF CommitOK, WorkOn, Scheduled, Waits
  <2> QED
    BY <2>4, <2>5
<1>16. PerformOK' /\ LoopOK' /\ TaskOK' /\ CallbackOK'
  BY <1>1, <1>2, <1>7 DEF PerformOK, LoopOK, TaskOK, Task, IInv, CallbackOK, callbackVars
<1> QED
  BY <1>9, <1>11, <1>12, <1>13, <1>14, <1>15, <1>16 DEF IInv

(* onCommit sets the expiration time by what is left in the tree, which    *)
(* includes what the lifecycles scheduled.                                 *)
LEMMA CommitEndsIsOK == ASSUME IInv, CommitEnds PROVE IInv'
<1>1. TreesTyped /\ LoopTyped /\ RootsOK /\ WipOK /\ CommitOK
  BY DEF IInv
<1>2. PICK r \in Roots : r = nextFlushedRoot
  BY <1>1 DEF CommitEnds, CommitOK
<1> DEFINE new == OnCommit(levels[r], Earliest(work[r]))
           lv == [levels EXCEPT ![r] = new]
<1>3. /\ phase = "commit" /\ levels' = lv /\ AfterPerformWorkOnRoot(lv)
      /\ UNCHANGED <<clock, treeVars, callbackVars, deadlineDidExpire,
                     isBatchingUpdates, application>>
  <2>1. r \in DOMAIN levels
    BY <1>1 DEF TreesTyped
  <2> QED
    BY <1>2, <2>1 DEF CommitEnds
<1>4. /\ wip.root # r /\ timeouts[r] = NoTree /\ finishedWork[r] = NoTree
      /\ r \in Scheduled \/ work[r] = {} \/ (Waits(r) /\ Sync \notin work[r])
      /\ work[r] # {} => WorkOn(r) # NoWork
      /\ WorkOn(r) = Sync => Sync \in work[r] \/ SyncIsHeld(levels[r])
  BY <1>1, <1>2, <1>3 DEF CommitOK
<1>5. /\ levels[r] \in LevelsIn(Times0) /\ levels[r] \in Levels /\ Sound(levels[r])
      /\ work[r] \in SUBSET LevelTimes /\ \A l \in work[r] : Knows(levels[r], l)
  BY <1>1, RootTyped DEF RootsOK, RootOK, LevelsOK
<1> DEFINE time == Earliest(work[r])
<1>6. /\ work[r] = {} => time = NoWork
      /\ work[r] # {} => time \in work[r] /\ time # NoWork
      /\ Sync \in work[r] => time = Sync
  <2>1. CASE work[r] = {}
    BY <2>1 DEF Earliest
  <2>2. CASE work[r] # {}
    <3>1. work[r] \in SUBSET Nat /\ NoWork \notin work[r]
      BY <1>5, LevelTimesAre
    <3>2. time \in work[r] /\ \A u \in work[r] : time <= u
      BY <2>2, <3>1, EarliestIsLeast
    <3> HIDE DEF time
    <3>3. time \in Nat /\ time # NoWork
      BY <3>1, <3>2
    <3>4. Sync \in work[r] => time = Sync
      BY <3>2, <3>3 DEF Sync, NoWork
    <3> QED
      BY <2>2, <3>2, <3>3, <3>4
  <2> QED
    BY <2>1, <2>2
<1> HIDE DEF time
<1>7. time \in Times0 /\ time \in Nat
  BY <1>5, <1>6, LevelTimesAre
<1>8. /\ new \in LevelsIn(Times0) /\ new \in Levels /\ new.expirationTime = time
      /\ new.pending = levels[r].pending /\ new.suspended = levels[r].suspended
      /\ new.latestPingedTime = levels[r].latestPingedTime
      /\ new.nextExpirationTimeToWorkOn = levels[r].nextExpirationTimeToWorkOn
  BY <1>5, <1>7 DEF OnCommit, LevelsIn, Levels, time
<1>9. /\ lv \in [Roots -> LevelsIn(Times0)] /\ lv[r] = new
      /\ \A q \in Roots \ {r} : lv[q] = levels[q]
  BY <1>1, <1>8 DEF TreesTyped
<1> HIDE DEF new, lv
<1>10. TreesTyped'
  BY <1>1, <1>3, <1>9 DEF TreesTyped, treeVars
<1>11. \A q \in Roots \ {r} : Untouched(q)
  BY <1>3, <1>9 DEF Untouched, treeVars
<1>12. ASSUME Shortened(lv, schedule, schedule'), phase' \in {"loop", "idle"}
       PROVE  RootOK(r)' /\ WipOK'
  <2>1. /\ levels'[r] = new /\ Exp(r)' = time /\ WorkOn(r)' = WorkOn(r)
        /\ timeouts'[r] = NoTree /\ finishedWork'[r] = NoTree
        /\ work'[r] = work[r] /\ promises'[r] = promises[r]
        /\ r \in Scheduled /\ time # NoWork => r \in Scheduled'
    BY <1>3, <1>4, <1>8, <1>9, <1>12 DEF Exp, WorkOn, Shortened, Scheduled, treeVars
  <2>2. LevelsOK(r)'
    <3>1. Sound(new)
      <4>1. IsPinged(new) <=> IsPinged(levels[r])
        BY <1>8 DEF IsPinged
      <4> QED
        BY <1>5, <1>8, <4>1 DEF Sound, IsPriorityLevelSuspended
    <3>2. \A l \in work[r] : Knows(new, l)
      BY <1>5, <1>8 DEF Knows
    <3> QED
      BY <1>4, <1>6, <2>1, <3>1, <3>2 DEF LevelsOK
  <2>3. TreesOK(r)'
    BY <2>1, LevelTimesAre DEF TreesOK
  <2>4. /\ Waits(r) => Waits(r)'
        /\ SyncIsHeld(levels[r]) => SyncIsHeld(levels'[r])
    BY <1>8, <2>1 DEF Waits, SyncIsHeld
  <2>5. WaitsOK(r)'
    <3>1. Exp(r)' = NoWork => IsDone(r)'
      BY <1>6, <2>1 DEF IsDone
    <3>2. r \notin Scheduled' => Exp(r)' = NoWork \/ (Waits(r)' /\ Exp(r)' # Sync)
      BY <1>4, <1>6, <2>1, <2>4
    <3>3. WorkOn(r)' = Sync => Exp(r)' = Sync \/ SyncIsHeld(levels'[r])
      BY <1>4, <1>6, <2>1, <2>4
    <3>4. Sync # NoWork
      BY DEF Sync, NoWork
    <3> QED
      BY <3>1, <3>2, <3>3, <3>4 DEF WaitsOK
  <2>6. WipOK'
    <3>1. CASE wip.root = NoRoot
      BY <1>3, <3>1 DEF WipOK, treeVars
    <3>2. CASE wip.root # NoRoot
      <4>1. wip.root \in Roots \ {r}
        BY <1>1, <1>4, <3>2 DEF TreesTyped, Renders
      <4>2. Untouched(wip.root)
        BY <1>11, <4>1
      <4> QED
        BY <1>1, <1>3, <1>12, <3>2, <4>2 DEF WipOK, Untouched, Exp, treeVars
    <3> QED
      BY <3>1, <3>2
  <2> QED
    BY <2>2, <2>3, <2>5, <2>6 DEF RootOK
<1>13. deadlineDidExpire' \in BOOLEAN
  BY <1>1, <1>3 DEF LoopTyped
<1> QED
  BY <1>2, <1>3, <1>9, <1>10, <1>11, <1>12, <1>13, PerformEnds

-----------------------------------------------------------------------------
LEMMA StepIsOK == IInv /\ [Next]_vars => IInv'
<1> SUFFICES ASSUME IInv, [Next]_vars PROVE IInv'
  OBVIOUS
<1>0. application.roots \subseteq Roots
  BY DEF IInv, TimesTyped, Application
<1>1. ASSUME NEW r \in application.roots, ScheduleWork(r) \/ UpdateUnbatched(r) \/ FlushSync(r)
      PROVE  IInv'
  BY <1>0, <1>1, ScheduleWorkIsOK, UpdateUnbatchedIsOK, FlushSyncIsOK
<1>2. ASSUME BeginBatch \/ EndBatch \/ LoopNext \/ LoopEnd \/ Tick PROVE IInv'
  BY <1>2, BeginBatchIsOK, EndBatchIsOK, LoopNextIsOK, LoopEndIsOK, TickIsOK
<1>3. ASSUME NEW r \in application.roots, NEW t \in promises[r], Ping(r, t) PROVE IInv'
  BY <1>0, <1>3, PingIsOK
<1>4. ASSUME NEW r \in application.roots, TimeoutFires(r) PROVE IInv'
  BY <1>0, <1>4, TimeoutFiresIsOK
<1>5. ASSUME NEW didTimeout \in BOOLEAN, PerformAsyncWork(didTimeout) PROVE IInv'
  BY <1>5, PerformAsyncWorkIsOK
<1>6. ASSUME CommitFinishedWork \/ RenderRoot PROVE IInv'
  BY <1>6, CommitFinishedWorkIsOK, RenderRootIsOK
<1>7. ASSUME NEW r \in application.roots, UpdateDuringRender(r) PROVE IInv'
  BY <1>0, <1>7, UpdateDuringRenderIsOK
<1>8. ASSUME NEW until \in {currentTime, MaxTime + 9}, SuspendDuringRender(until) PROVE IInv'
  <2>1. until \in Int
    BY LevelTimesAre DEF IInv, TimesTyped
  <2> QED
    BY <1>8, <2>1, SuspendDuringRenderIsOK
<1>9. ASSUME Yield \/ FailFatally \/ FailAndWait \/ FailAndRetry \/ Suspend \/ Complete
      PROVE  IInv'
  BY <1>9, YieldIsOK, FailFatallyIsOK, FailAndWaitIsOK, FailAndRetryIsOK, SuspendIsOK, CompleteIsOK
<1>10. ASSUME NEW r \in application.roots, NEW t \in {Sync} \cup ExplicitTimes(currentTime),
              UpdateDuringCommit(r, t)
       PROVE  IInv'
  BY <1>0, <1>10, UpdateDuringCommitIsOK
<1>11. ASSUME CommitEnds PROVE IInv'
  BY <1>11, CommitEndsIsOK
<1>12. ASSUME UNCHANGED vars PROVE IInv'
  BY <1>12, StutterIsOK
<1> QED
  BY <1>1, <1>2, <1>3, <1>4, <1>5, <1>6, <1>7, <1>8, <1>9, <1>10, <1>11, <1>12 DEF Next

LEMMA IInvHolds == Spec => []IInv
<1>1. Init => IInv
  BY InitIsOK
<1>2. IInv /\ [Next]_vars => IInv'
  BY StepIsOK
<1> QED
  BY <1>1, <1>2, PTL DEF Spec

-----------------------------------------------------------------------------
LEMMA IInvIsTyped == IInv => TypeOK
<1> SUFFICES ASSUME IInv PROVE TypeOK
  OBVIOUS
<1>1. clock \in Nat /\ currentTime \in Nat
  BY LevelTimesAre DEF IInv, TimesTyped
<1>2. levels \in [Roots -> Levels]
  <2>1. levels \in [Roots -> LevelsIn(Times0)] /\ \A r \in Roots : levels[r] \in Levels
    BY RootTyped DEF IInv, TreesTyped
  <2> QED
    BY <2>1
<1>3. work \in [Roots -> SUBSET Nat] /\ promises \in [Roots -> SUBSET Nat]
  BY LevelTimesAre DEF IInv, TreesTyped
<1>4. wip.root \in Roots \cup {NoRoot}
  BY DEF IInv, TreesTyped, Renders
<1>5. application.roots \subseteq Roots /\ application.updates \in Nat
  BY DEF IInv, TimesTyped, Application
<1> QED
  BY <1>1, <1>2, <1>3, <1>4, <1>5 DEF IInv, LoopTyped, TypeOK

(* The variables keep their types, at every moment of every run; the list  *)
(* of scheduled roots in particular has no root twice (nextScheduledRoot   *)
(* links each into it once).                                               *)
THEOREM TypeCorrect == Spec => []TypeOK
  BY IInvHolds, IInvIsTyped, PTL

(* Between two tasks the callback is known of as it is scheduled, no       *)
(* synchronous work is left, and every root with an expiration time is in  *)
(* the list with a callback that comes no later, or waits for a promise:   *)
(* whatever was scheduled in events, batches, renders and lifecycles, and  *)
(* however the renders ended.                                              *)
THEOREM WorkIsScheduled == Spec => []RootsWithWorkWait
<1>1. IInv => RootsWithWorkWait
  <2> SUFFICES ASSUME IInv PROVE RootsWithWorkWait
    OBVIOUS
  <2>1. CallbackIsKnown
    BY IInvIsTyped DEF IInv, CallbackOK, CallbackIsKnown
  <2>2. ASSUME Task, NEW r \in Roots
        PROVE  /\ Exp(r) # Sync
               /\ Exp(r) # NoWork => IsScheduled(r) \/
                    (levels[r].suspended # NoLevels /\ promises[r] # {})
    <3>1. WaitsOK(r) /\ ~Committing(r)
      BY <2>2 DEF IInv, RootsOK, RootOK, Task, Committing
    <3>2. CASE r \in Scheduled
      BY <2>2, <3>2 DEF IInv, TaskOK, IsScheduled, Scheduled, Exp, Sync, NoWork
    <3>3. CASE r \notin Scheduled
      BY <3>1, <3>3 DEF WaitsOK, Waits, NoLevels
    <3> QED
      BY <3>2, <3>3
  <2> QED
    BY <2>1, <2>2 DEF RootsWithWorkWait, SyncWorkIsFlushed, Exp
<1> QED
  BY IInvHolds, <1>1, PTL

(* No update is left behind where nothing leads back to it, and no tree    *)
(* that waits for its time would undo a later commit.                      *)
THEOREM WorkIsInReach == Spec => []WorkIsReachable
<1>1. IInv => WorkIsReachable
  <2> SUFFICES ASSUME IInv PROVE WorkIsReachable
    OBVIOUS
  <2>1. NothingStale
    BY DEF IInv, TreesTyped, Trees, NothingStale
  <2>2. ASSUME "crash" \notin application.behaviours, NEW r \in Roots, work[r] # {},
               levels[r].expirationTime = NoWork
        PROVE  timeouts[r] # NoTree \/ promises[r] # {}
    <3>1. WaitsOK(r)
      BY DEF IInv, RootsOK, RootOK
    <3> QED
      BY <2>2, <3>1 DEF WaitsOK, Waits, IsDone, MayCrash, Exp
  <2> QED
    BY <2>1, <2>2 DEF WorkIsReachable
<1> QED
  BY IInvHolds, <1>1, PTL

-----------------------------------------------------------------------------
(* What the scheduler does to the levels of a root is what RootLevels says *)
(* it may do: first in the terms of this module, then in those of          *)
(* RootLevels, whose definitions are the same.                             *)
KeptTo(before, after) ==
  \/ after = before
  \/ \E t \in LevelTimes :
       \/ after = MarkPending(before, t)
       \/ after = MarkSuspended(before, t)
       \/ after = [before EXCEPT !.didError = TRUE, !.nextExpirationTimeToWorkOn = t,
                                 !.expirationTime = Sync]
       \/ IsPriorityLevelSuspended(before, t) /\ after = MarkPinged(before, t)
       \/ after = DidExpireAt(before, t)
  \/ \E t \in Times0 : \/ after = MarkCommitted(before, t)
                       \/ after = [before EXCEPT !.expirationTime = t]
  \/ \E t \in LevelTimes : \E remaining \in Times0 :
       after = MarkCommitted(MarkSuspended(before, t), remaining)

LEMMA SameFunctions ==
  ASSUME NEW q, NEW root, NEW t
  PROVE  /\ LevelsOf(q)!MarkPending(root, t) = MarkPending(root, t)
         /\ LevelsOf(q)!MarkSuspended(root, t) = MarkSuspended(root, t)
         /\ LevelsOf(q)!MarkPinged(root, t) = MarkPinged(root, t)
         /\ LevelsOf(q)!MarkCommitted(root, t) = MarkCommitted(root, t)
         /\ LevelsOf(q)!DidExpireAt(root, t) = DidExpireAt(root, t)
         /\ LevelsOf(q)!IsPriorityLevelSuspended(root, t) <=> IsPriorityLevelSuspended(root, t)
<1> USE DEF NoWork, LevelsOf!NoWork
<1>1. ASSUME NEW level, NEW u PROVE LevelsOf(q)!FindNext(level, u) = FindNext(level, u)
  BY DEF FindNext, LevelsOf!FindNext, NextTimeToWorkOn, LevelsOf!NextTimeToWorkOn
<1>2. ASSUME NEW level, NEW u PROVE LevelsOf(q)!MarkPending(level, u) = MarkPending(level, u)
  BY <1>1 DEF MarkPending, LevelsOf!MarkPending, Extend, LevelsOf!Extend
<1>3. LevelsOf(q)!MarkSuspended(root, t) = MarkSuspended(root, t)
  BY <1>1 DEF MarkSuspended, LevelsOf!MarkSuspended, ClearPing, LevelsOf!ClearPing,
       Withdraw, LevelsOf!Withdraw, NoLevels, LevelsOf!NoLevels, Extend, LevelsOf!Extend
<1>4. LevelsOf(q)!MarkPinged(root, t) = MarkPinged(root, t)
  BY <1>1 DEF MarkPinged, LevelsOf!MarkPinged
<1>5. LevelsOf(q)!MarkCommitted(root, t) = MarkCommitted(root, t)
  BY <1>1, <1>2 DEF MarkCommitted, LevelsOf!MarkCommitted, DropBefore, LevelsOf!DropBefore,
       NoLevels, LevelsOf!NoLevels, IsMoreUrgentThanSuspended, LevelsOf!IsMoreUrgentThanSuspended
<1>6. /\ LevelsOf(q)!DidExpireAt(root, t) = DidExpireAt(root, t)
      /\ LevelsOf(q)!IsPriorityLevelSuspended(root, t) <=> IsPriorityLevelSuspended(root, t)
  BY DEF DidExpireAt, LevelsOf!DidExpireAt, IsPriorityLevelSuspended,
       LevelsOf!IsPriorityLevelSuspended
<1> QED
  BY <1>2, <1>3, <1>4, <1>5, <1>6

LEMMA KeptIsAStep ==
  ASSUME NEW q, KeptTo(levels[q], levels'[q])
  PROVE  [LevelsOf(q)!Next \/ SuspendedAndCommitted(q)]_(levels[q])
<1>1. LevelsOf(q)!NoWork = NoWork /\ LevelsOf(q)!Sync = Sync
  BY DEF NoWork, LevelsOf!NoWork, Sync, LevelsOf!Sync
<1>2. ASSUME NEW t \in LevelTimes,
             \/ levels'[q] = MarkPending(levels[q], t)
             \/ levels'[q] = MarkSuspended(levels[q], t)
             \/ levels'[q] = [levels[q] EXCEPT !.didError = TRUE,
                                !.nextExpirationTimeToWorkOn = t, !.expirationTime = Sync]
             \/ IsPriorityLevelSuspended(levels[q], t) /\ levels'[q] = MarkPinged(levels[q], t)
             \/ levels'[q] = DidExpireAt(levels[q], t)
      PROVE  LevelsOf(q)!Next
  <2>1. \/ LevelsOf(q)!Schedule(t) \/ LevelsOf(q)!Suspend(t)
        \/ LevelsOf(q)!RetrySynchronously(t) \/ LevelsOf(q)!Ping(t) \/ LevelsOf(q)!Expire(t)
    <3>1. CASE levels'[q] = MarkPending(levels[q], t)
      BY <3>1, SameFunctions DEF LevelsOf!Schedule
    <3>2. CASE levels'[q] = MarkSuspended(levels[q], t)
      BY <3>2, SameFunctions DEF LevelsOf!Suspend
    <3>3. CASE levels'[q] = [levels[q] EXCEPT !.didError = TRUE,
                               !.nextExpirationTimeToWorkOn = t, !.expirationTime = Sync]
      BY <1>1, <3>3 DEF LevelsOf!RetrySynchronously
    <3>4. CASE IsPriorityLevelSuspended(levels[q], t) /\ levels'[q] = MarkPinged(levels[q], t)
      BY <3>4, SameFunctions DEF LevelsOf!Ping
    <3>5. CASE levels'[q] = DidExpireAt(levels[q], t)
      BY <3>5, SameFunctions DEF LevelsOf!Expire
    <3> QED
      BY <1>2, <3>1, <3>2, <3>3, <3>4, <3>5
  <2> QED
    BY <2>1 DEF LevelsOf!Next
<1>3. ASSUME NEW t \in Times0, \/ levels'[q] = MarkCommitted(levels[q], t)
                               \/ levels'[q] = [levels[q] EXCEPT !.expirationTime = t]
      PROVE  LevelsOf(q)!Next
  BY <1>1, <1>3, SameFunctions
     DEF LevelsOf!Next, LevelsOf!Commit, LevelsOf!SetExpirationTime, Times0
<1> QED
  BY <1>2, <1>3 DEF KeptTo, SuspendedAndCommitted, Times0

LEMMA OneRootIsKept ==
  ASSUME TreesTyped, NEW r \in Roots, NEW new, KeptTo(levels[r], new),
         levels' = [levels EXCEPT ![r] = new]
  PROVE  \A q \in Roots : KeptTo(levels[q], levels'[q])
<1> SUFFICES ASSUME NEW q \in Roots PROVE KeptTo(levels[q], levels'[q])
  OBVIOUS
<1>1. levels'[q] = IF q = r THEN new ELSE levels[q]
  BY DEF TreesTyped
<1> QED
  BY <1>1 DEF KeptTo

LEMMA RemainingIsALevel ==
  ASSUME NEW times \in SUBSET LevelTimes
  PROVE  Earliest(times) \in Times0
<1>1. CASE times = {}
  BY <1>1, LevelTimesAre DEF Earliest
<1>2. CASE times # {}
  <2>1. times \in SUBSET Nat
    BY LevelTimesAre
  <2>2. Earliest(times) \in times
    BY <1>2, <2>1, EarliestIsLeast
  <2> QED
    BY <2>2, LevelTimesAre
<1> QED
  BY <1>1, <1>2

LEMMA CommitIsKept ==
  ASSUME TreesTyped, NEW r \in Roots, NEW tree \in Trees, NEW level, StartCommit(r, tree, level),
         level = levels[r] \/ \E t \in LevelTimes : level = MarkSuspended(levels[r], t)
  PROVE  \A q \in Roots : KeptTo(levels[q], levels'[q])
<1> DEFINE remaining == {t \in work[r] : t > tree.level} \cup tree.left
           new == MarkCommitted(level, Earliest(remaining))
<1>1. remaining \in SUBSET LevelTimes
  BY RootTyped DEF Trees
<1>2. levels' = [levels EXCEPT ![r] = new]
  BY DEF StartCommit
<1> HIDE DEF remaining
<1>3. Earliest(remaining) \in Times0
  BY <1>1, RemainingIsALevel
<1>4. KeptTo(levels[r], new)
  BY <1>3 DEF KeptTo
<1> HIDE DEF new
<1> QED
  BY <1>2, <1>4, OneRootIsKept

LEMMA StepKeepsLevels ==
  ASSUME IInv, Next, levels' # levels
  PROVE  \A q \in Roots : KeptTo(levels[q], levels'[q])
<1>1. /\ TreesTyped /\ TimesTyped /\ LoopTyped /\ application.roots \subseteq Roots
      /\ Sync \in LevelTimes /\ levels = [q \in Roots |-> levels[q]]
  BY LevelTimesAre DEF IInv, TreesTyped, TimesTyped, Application
<1> DEFINE found == FindHighestPriorityRoot(levels, schedule)
           now == RequestCurrentTime(found)
<1>2. now \in 2..clock /\ currentTime \in 2..clock
  BY <1>1, RequestCurrentTimeIs DEF TimesTyped
<1>3. ASSUME NEW r \in Roots, NEW t \in LevelTimes,
             levels' = [levels EXCEPT ![r] = MarkPending(levels[r], t)]
      PROVE  \A q \in Roots : KeptTo(levels[q], levels'[q])
  <2>1. KeptTo(levels[r], MarkPending(levels[r], t))
    BY DEF KeptTo
  <2> QED
    BY <1>1, <1>3, <2>1, OneRootIsKept
<1>4. ASSUME NEW r \in application.roots, ScheduleWork(r)
      PROVE  \A q \in Roots : KeptTo(levels[q], levels'[q])
  <2>1. PICK t \in ExpirationTimes(now) : levels' = [levels EXCEPT ![r] = MarkPending(levels[r], t)]
    BY <1>4 DEF ScheduleWork
  <2>2. t \in LevelTimes /\ r \in Roots
    BY <1>1, <1>2, ExpirationTimesAreLevels
  <2> QED
    BY <1>3, <2>1, <2>2
<1>5. ASSUME NEW r \in application.roots, UpdateUnbatched(r) \/ FlushSync(r)
      PROVE  \A q \in Roots : KeptTo(levels[q], levels'[q])
  <2>1. levels' = [levels EXCEPT ![r] = MarkPending(levels[r], Sync)] /\ r \in Roots
    BY <1>1, <1>5 DEF UpdateUnbatched, FlushSync
  <2> QED
    BY <1>1, <1>3, <2>1
<1>6. ASSUME NEW r \in application.roots, NEW t \in promises[r], Ping(r, t)
      PROVE  \A q \in Roots : KeptTo(levels[q], levels'[q])
  <2>1. r \in Roots /\ t \in LevelTimes
    BY <1>1, <1>6 DEF TreesTyped
  <2>2. CASE IsPriorityLevelSuspended(levels[r], t)
    <3>1. levels' = [levels EXCEPT ![r] = MarkPinged(levels[r], t)]
      BY <1>1, <1>6, <2>1, <2>2 DEF Ping
    <3>2. KeptTo(levels[r], MarkPinged(levels[r], t))
      BY <2>1, <2>2 DEF KeptTo
    <3> QED
      BY <1>1, <2>1, <3>1, <3>2, OneRootIsKept
  <2>3. CASE ~IsPriorityLevelSuspended(levels[r], t)
    <3>1. PICK u \in ExpirationTimes(now) :
            levels' = [levels EXCEPT ![r] = MarkPending(levels[r], u)]
      BY <1>1, <1>6, <2>1, <2>3 DEF Ping
    <3>2. u \in LevelTimes
      BY <1>1, <1>2, ExpirationTimesAreLevels
    <3> QED
      BY <1>3, <2>1, <3>1, <3>2
  <2> QED
    BY <2>2, <2>3
<1>7. ASSUME NEW didTimeout \in BOOLEAN, PerformAsyncWork(didTimeout)
      PROVE  \A q \in Roots : KeptTo(levels[q], levels'[q])
  <2>1. clock \in LevelTimes
    BY <1>1, LevelTimesAre DEF TimesTyped, LevelTimes
  <2>2. \A q \in Roots : levels'[q] = levels[q] \/ levels'[q] = DidExpireAt(levels[q], clock)
    BY <1>7 DEF PerformAsyncWork
  <2> QED
    BY <2>1, <2>2 DEF KeptTo
<1>8. ASSUME CommitFinishedWork PROVE \A q \in Roots : KeptTo(levels[q], levels'[q])
  <2>1. PICK r \in Roots : r = nextFlushedRoot
    BY <1>8 DEF CommitFinishedWork, IInv, PerformOK
  <2>2. StartCommit(r, finishedWork[r], levels[r]) /\ finishedWork[r] \in Trees
    BY <1>1, <1>8, <2>1, RootTyped DEF CommitFinishedWork
  <2> QED
    BY <1>1, <2>2, CommitIsKept
<1>9. ASSUME FailFatally \/ FailAndWait \/ FailAndRetry \/ Suspend \/ Complete
      PROVE  \A q \in Roots : KeptTo(levels[q], levels'[q])
  <2>0. phase = "render"
    BY <1>9 DEF FailFatally, FailAndWait, FailAndRetry, Suspend, Complete
  <2>1. PICK r \in Roots : r = nextFlushedRoot
    BY <2>0, RenderingIs
  <2>2. wip.root = r /\ wip.level \in LevelTimes /\ levels[r] \in Levels /\ NoWork \in Times0
    BY <1>1, <2>0, <2>1, RenderingIs, RootTyped, LevelTimesAre
  <2> DEFINE suspended == MarkSuspended(levels[r], wip.level)
  <2>3. KeptTo(levels[r], suspended)
    BY <2>2 DEF KeptTo
  <2>4. CASE FailFatally
    <3>1. levels' = [levels EXCEPT ![r] = [levels[r] EXCEPT !.expirationTime = NoWork]]
      BY <1>1, <2>1, <2>4 DEF FailFatally
    <3>2. KeptTo(levels[r], [levels[r] EXCEPT !.expirationTime = NoWork])
      BY <2>2 DEF KeptTo
    <3> QED
      BY <1>1, <3>1, <3>2, OneRootIsKept
  <2>5. CASE FailAndWait
    <3>1. levels' = [levels EXCEPT ![r] = suspended]
      BY <1>1, <2>2, <2>5 DEF FailAndWait, ExitWithoutCommit
    <3> QED
      BY <1>1, <2>3, <3>1, OneRootIsKept
  <2>6. CASE FailAndRetry
    <3> DEFINE new == [levels[r] EXCEPT !.didError = TRUE,
                                        !.nextExpirationTimeToWorkOn = wip.level,
                                        !.expirationTime = Sync]
    <3>1. levels' = [levels EXCEPT ![r] = new]
      <4>1. [levels EXCEPT ![r].didError = TRUE, ![r].nextExpirationTimeToWorkOn = wip.level,
                           ![r].expirationTime = Sync] = [levels EXCEPT ![r] = new]
        BY <1>1
      <4> QED
        BY <2>2, <2>6, <4>1 DEF FailAndRetry, ExitWithoutCommit
    <3>2. KeptTo(levels[r], new)
      BY <2>2 DEF KeptTo
    <3> HIDE DEF new
    <3> QED
      BY <1>1, <3>1, <3>2, OneRootIsKept
  <2>7. CASE Suspend
    <3>1. [levels EXCEPT ![r] = suspended][r] = suspended /\ r \in DOMAIN levels
      BY <1>1
    <3>2. PICK tree \in TreesDone :
            \/ levels' = [levels EXCEPT ![r] = suspended]
            \/ StartCommit(r, tree, suspended)
      BY <2>2, <2>7, <3>1 DEF Suspend, ExitWithoutCommit, ExitWithFinishedWork
    <3>3. tree \in Trees
      BY <2>0, TreeDoneIs
    <3> QED
      BY <1>1, <2>2, <2>3, <3>2, <3>3, CommitIsKept, OneRootIsKept
  <2>8. CASE Complete
    <3>1. PICK tree \in TreesDone : levels' = levels \/ StartCommit(r, tree, levels[r])
      BY <2>2, <2>8 DEF Complete, ExitWithFinishedWork
    <3>2. tree \in Trees
      BY <2>0, TreeDoneIs
    <3> QED
      BY <1>1, <3>1, <3>2, CommitIsKept
  <2> QED
    BY <1>9, <2>4, <2>5, <2>6, <2>7, <2>8
<1>10. ASSUME NEW r \in application.roots, UpdateDuringRender(r)
       PROVE  \A q \in Roots : KeptTo(levels[q], levels'[q])
  <2>1. wip.level \in LevelTimes /\ r \in Roots
        /\ levels' = [levels EXCEPT ![r] = MarkPending(levels[r], wip.level)]
    BY <1>1, <1>10, RenderingIs DEF UpdateDuringRender
  <2> QED
    BY <1>3, <2>1
<1>11. ASSUME NEW r \in application.roots, NEW t \in {Sync} \cup ExplicitTimes(currentTime),
              UpdateDuringCommit(r, t)
       PROVE  \A q \in Roots : KeptTo(levels[q], levels'[q])
  <2>1. t \in LevelTimes /\ r \in Roots
        /\ levels' = [levels EXCEPT ![r] = MarkPending(levels[r], t)]
    BY <1>1, <1>2, <1>11, ExpirationTimesAreLevels DEF UpdateDuringCommit
  <2> QED
    BY <1>3, <2>1
<1>12. ASSUME CommitEnds PROVE \A q \in Roots : KeptTo(levels[q], levels'[q])
  <2>1. PICK r \in Roots : r = nextFlushedRoot
    BY <1>12 DEF CommitEnds, IInv, CommitOK
  <2>2. levels' = [levels EXCEPT ![r] = [levels[r] EXCEPT !.expirationTime = Earliest(work[r])]]
    BY <1>1, <1>12, <2>1 DEF CommitEnds, OnCommit
  <2>3. Earliest(work[r]) \in Times0
    BY <1>1, RootTyped, RemainingIsALevel
  <2>4. KeptTo(levels[r], [levels[r] EXCEPT !.expirationTime = Earliest(work[r])])
    BY <2>3 DEF KeptTo
  <2> QED
    BY <1>1, <2>2, <2>4, OneRootIsKept
<1>13. ASSUME \/ BeginBatch \/ EndBatch \/ LoopNext \/ LoopEnd \/ RenderRoot \/ Yield \/ Tick
              \/ \E r \in application.roots : TimeoutFires(r)
              \/ \E until \in {currentTime, MaxTime + 9} : SuspendDuringRender(until)
       PROVE  FALSE
  BY <1>13 DEF BeginBatch, EndBatch, LoopNext, LoopEnd, RenderRoot, Yield, Tick,
       TimeoutFires, SuspendDuringRender
<1> QED
  BY <1>4, <1>5, <1>6, <1>7, <1>8, <1>9, <1>10, <1>11, <1>12, <1>13 DEF Next

(* The reconciler keeps to what RootLevels assumes of it: every step does  *)
(* to the levels of each root what one of its actions does, or, for a tree *)
(* whose timeout has passed already, a suspension and a commit at once.    *)
THEOREM LevelsImplemented == Spec => LevelsAreKept
<1> DEFINE Kept == \A r \in Roots :
                     [LevelsOf(r)!Next \/ SuspendedAndCommitted(r)]_(levels[r])
<1>1. Init => \A r \in Roots : LevelsOf(r)!Init
  BY DEF Init, LevelsOf!Init, LevelsOf!NewLevels, LevelsOf!NoLevels, LevelsOf!NoWork,
         NewLevels, NoLevels, NoWork
<1>2. IInv /\ [Next]_vars => [Kept]_levels
  <2> SUFFICES ASSUME IInv, Next, levels' # levels
               PROVE  \A r \in Roots :
                        [LevelsOf(r)!Next \/ SuspendedAndCommitted(r)]_(levels[r])
    BY DEF vars
  <2>1. \A r \in Roots : KeptTo(levels[r], levels'[r])
    BY StepKeepsLevels
  <2> QED
    BY <2>1, KeptIsAStep
<1> HIDE DEF Kept
<1>3. Spec => (\A r \in Roots : LevelsOf(r)!Init) /\ [][Kept]_levels
  BY IInvHolds, <1>1, <1>2, PTL DEF Spec
<1> QED
  BY <1>3 DEF LevelsAreKept, Kept
=============================================================================
