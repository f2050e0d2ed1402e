------------------------ MODULE HostChildren_proofs ------------------------
(***************************************************************************)
(* The theorem about the children of hosts: after any calls, for any       *)
(* number of instances and of children, each host shows the children in    *)
(* the order they were asked for.                                          *)
(*                                                                         *)
(* First come facts about lists, entry by entry: a list is fixed by what   *)
(* it had before an entry was taken out or put in.  With them the index    *)
(* that a host computes, in the list without the child, around foreign     *)
(* nodes, or in native views, is the place the child was asked for.  What  *)
(* is shown is not inductive alone: a native view can only be placed if it *)
(* has no parent, a tag must be new, and what goes with a removed child    *)
(* must have no place elsewhere (HostsInv).                                *)
(***************************************************************************)
EXTENDS HostChildren, SequenceTheorems, TLAPS

Distinct(s) == \A i, j \in 1 .. Len(s) : s[i] = s[j] => i = j

(* s without its p-th entry; s with x as its new k-th entry.               *)
IsRemoval(r, s, p) ==
  r \in Seq(Int) /\ Len(r) = Len(s) - 1 /\ \A j \in 1 .. Len(r) : r[j] = IF j < p THEN s[j] ELSE s[j + 1]
IsInsertion(r, s, x, k) ==
  r \in Seq(Int) /\ Len(r) = Len(s) + 1 /\ \A j \in 1 .. Len(r) : r[j] = IF j < k THEN s[j] ELSE IF j = k THEN x ELSE s[j - 1]

(* What the operators on lists return, entry by entry.                     *)
LEMMA ToSetIs ==
  ASSUME NEW s \in Seq(Int)
  PROVE  /\ \A x : x \in ToSet(s) <=> \E i \in 1 .. Len(s) : s[i] = x
         /\ \A i \in 1 .. Len(s) : s[i] \in ToSet(s)
         /\ ToSet(s) \subseteq Int
<1>1. DOMAIN s = 1 .. Len(s) /\ \A i \in 1 .. Len(s) : s[i] \in Int
  BY LenProperties, ElementOfSeq
<1> QED
  BY <1>1 DEF ToSet

LEMMA PositionIs ==
  ASSUME NEW s \in Seq(Int), NEW x
  PROVE  /\ x \in ToSet(s) => Position(s, x) \in 1 .. Len(s) /\ s[Position(s, x)] = x
         /\ x \notin ToSet(s) => Position(s, x) = 0
<1>1. DOMAIN s = 1 .. Len(s)
  BY LenProperties
<1>2. ASSUME x \in ToSet(s) PROVE Position(s, x) \in 1 .. Len(s) /\ s[Position(s, x)] = x
  <2>1. \E i \in DOMAIN s : s[i] = x
    BY <1>1, <1>2, ToSetIs
  <2>2. Position(s, x) = CHOOSE i \in DOMAIN s : s[i] = x
    BY <1>2 DEF Position
  <2> QED
    BY <2>1, <2>2, <1>1, Zenon
<1> QED
  BY <1>2, Zenon DEF Position

LEMMA PositionOf ==
  ASSUME NEW s \in Seq(Int), Distinct(s), NEW i \in 1 .. Len(s)
  PROVE  Position(s, s[i]) = i
<1>1. s[i] \in ToSet(s)
  BY ToSetIs
<1>2. Position(s, s[i]) \in 1 .. Len(s) /\ s[Position(s, s[i])] = s[i]
  BY <1>1, PositionIs
<1> QED
  BY <1>2 DEF Distinct

LEMMA RemovalsAre ==
  ASSUME NEW s \in Seq(Int), NEW p \in 1 .. Len(s)
  PROVE  IsRemoval(RemoveAt(s, p), s, p)
<1> DEFINE a == SubSeq(s, 1, p - 1)
           b == SubSeq(s, p + 1, Len(s))
<1>1. Len(s) \in Nat /\ \A i \in 1 .. Len(s) : s[i] \in Int
  BY LenProperties, ElementOfSeq
<1>2. a \in Seq(Int) /\ Len(a) = p - 1 /\ \A i \in 1 .. p - 1 : a[i] = s[i]
  <2>1. \A i \in 1 .. p - 1 : s[i] \in Int
    BY <1>1
  <2>2. /\ a \in Seq(Int) /\ Len(a) = IF 1 <= p - 1 THEN p - 1 - 1 + 1 ELSE 0
        /\ \A i \in 1 .. p - 1 - 1 + 1 : a[i] = s[1 + i - 1]
    BY <2>1, <1>1, SubSeqProperties
  <2> QED
    BY <2>2, <1>1
<1>3. b \in Seq(Int) /\ Len(b) = Len(s) - p /\ \A i \in 1 .. Len(s) - p : b[i] = s[p + i]
  <2>1. \A i \in p + 1 .. Len(s) : s[i] \in Int
    BY <1>1
  <2>2. /\ b \in Seq(Int) /\ Len(b) = IF p + 1 <= Len(s) THEN Len(s) - (p + 1) + 1 ELSE 0
        /\ \A i \in 1 .. Len(s) - (p + 1) + 1 : b[i] = s[p + 1 + i - 1]
    BY <2>1, <1>1, SubSeqProperties
  <2> QED
    BY <2>2, <1>1
<1> HIDE DEF a, b
<1> DEFINE w == a \o b
<1>4. /\ w \in Seq(Int) /\ Len(w) = Len(s) - 1
      /\ \A i \in 1 .. Len(s) - 1 : w[i] = IF i <= p - 1 THEN a[i] ELSE b[i - (p - 1)]
  <2>1. /\ w \in Seq(Int) /\ Len(w) = Len(a) + Len(b)
        /\ \A i \in 1 .. Len(a) + Len(b) : w[i] = IF i <= Len(a) THEN a[i] ELSE b[i - Len(a)]
    BY <1>2, <1>3, ConcatProperties
  <2>2. Len(a) + Len(b) = Len(s) - 1
    BY <1>1, <1>2, <1>3
  <2> QED
    BY <1>2, <2>1, <2>2, Zenon
<1>5. RemoveAt(s, p) = w
  BY Zenon DEF RemoveAt, a, b
<1> HIDE DEF w
<1>6. \A i \in 1 .. Len(s) - 1 : w[i] = IF i < p THEN s[i] ELSE s[i + 1]
  <2> TAKE i \in 1 .. Len(s) - 1
  <2>1. i \in Int /\ p \in Int
    BY <1>1
  <2>2. CASE i < p
    <3>1. i <= p - 1 /\ i \in 1 .. p - 1
      BY <1>1, <2>2
    <3> QED
      BY <1>2, <1>4, <2>2, <3>1, Zenon
  <2>3. CASE ~(i < p)
    <3>1. ~(i <= p - 1) /\ i - (p - 1) \in 1 .. Len(s) - p /\ p + (i - (p - 1)) = i + 1
      BY <1>1, <2>1, <2>3
    <3> QED
      BY <1>3, <1>4, <2>3, <3>1, Zenon
  <2> QED
    BY <2>2, <2>3, Zenon
<1> QED
  BY <1>4, <1>5, <1>6, Zenon DEF IsRemoval

LEMMA InsertionsAre ==
  ASSUME NEW s \in Seq(Int), NEW x \in Int, NEW k \in 1 .. Len(s) + 1
  PROVE  IsInsertion(WithBefore(s, x, k), s, x, k)
<1> DEFINE a == SubSeq(s, 1, k - 1)
           b == SubSeq(s, k, Len(s))
           m == <<x>>
           c == a \o m
<1>1. Len(s) \in Nat /\ \A i \in 1 .. Len(s) : s[i] \in Int
  BY LenProperties, ElementOfSeq
<1>2. a \in Seq(Int) /\ Len(a) = k - 1 /\ \A i \in 1 .. k - 1 : a[i] = s[i]
  <2>1. \A i \in 1 .. k - 1 : s[i] \in Int
    BY <1>1
  <2>2. /\ a \in Seq(Int) /\ Len(a) = IF 1 <= k - 1 THEN k - 1 - 1 + 1 ELSE 0
        /\ \A i \in 1 .. k - 1 - 1 + 1 : a[i] = s[1 + i - 1]
    BY <2>1, <1>1, SubSeqProperties
  <2> QED
    BY <2>2, <1>1
<1>3. b \in Seq(Int) /\ Len(b) = Len(s) - k + 1 /\ \A i \in 1 .. Len(s) - k + 1 : b[i] = s[k + i - 1]
  <2>1. \A i \in k .. Len(s) : s[i] \in Int
    BY <1>1
  <2>2. /\ b \in Seq(Int) /\ Len(b) = IF k <= Len(s) THEN Len(s) - k + 1 ELSE 0
        /\ \A i \in 1 .. Len(s) - k + 1 : b[i] = s[k + i - 1]
    BY <2>1, <1>1, SubSeqProperties
  <2> QED
    BY <2>2, <1>1
<1>4. m \in Seq(Int) /\ Len(m) = 1 /\ m[1] = x
  OBVIOUS
<1> HIDE DEF a, b, m
<1>5. /\ c \in Seq(Int) /\ Len(c) = k
      /\ \A i \in 1 .. k : c[i] = IF i <= k - 1 THEN a[i] ELSE m[i - (k - 1)]
  <2>1. /\ c \in Seq(Int) /\ Len(c) = Len(a) + Len(m)
        /\ \A i \in 1 .. Len(a) + Len(m) : c[i] = IF i <= Len(a) THEN a[i] ELSE m[i - Len(a)]
    BY <1>2, <1>4, ConcatProperties
  <2>2. Len(a) + Len(m) = k
    BY <1>2, <1>4, <1>1
  <2> QED
    BY <2>1, <2>2, <1>2, Zenon
<1> HIDE DEF c
<1>6. /\ c \o b \in Seq(Int) /\ Len(c \o b) = Len(s) + 1
      /\ \A i \in 1 .. Len(s) + 1 : (c \o b)[i] = IF i <= k THEN c[i] ELSE b[i - k]
  <2>1. /\ c \o b \in Seq(Int) /\ Len(c \o b) = Len(c) + Len(b)
        /\ \A i \in 1 .. Len(c) + Len(b) : (c \o b)[i] = IF i <= Len(c) THEN c[i] ELSE b[i - Len(c)]
    BY <1>3, <1>5, ConcatProperties
  <2>2. Len(c) + Len(b) = Len(s) + 1
    BY <1>3, <1>5, <1>1
  <2> QED
    BY <2>1, <2>2, <1>5, Zenon
<1>7. WithBefore(s, x, k) = c \o b
  BY Zenon DEF WithBefore, a, b, m, c
<1> DEFINE w == c \o b
<1> HIDE DEF w
<1>8. \A i \in 1 .. Len(s) + 1 : w[i] = IF i <= k THEN c[i] ELSE b[i - k]
  BY <1>6, Zenon DEF w
<1>9. \A i \in 1 .. Len(s) + 1 : w[i] = IF i < k THEN s[i] ELSE IF i = k THEN x ELSE s[i - 1]
  <2> TAKE i \in 1 .. Len(s) + 1
  <2>1. CASE i < k
    <3>1. i \in 1 .. k /\ i <= k - 1 /\ i \in 1 .. k - 1 /\ i <= k
      BY <2>1, <1>1
    <3>2. w[i] = s[i]
      BY <3>1, <1>8, <1>5, <1>2
    <3> QED
      BY <3>2, <2>1
  <2>2. CASE i = k
    <3>1. c[k] = m[1]
      <4>1. k \in 1 .. k /\ ~(k <= k - 1) /\ k - (k - 1) = 1
        BY <1>1
      <4> QED
        BY <4>1, <1>5
    <3>2. w[i] = x /\ ~(i < k)
      BY <3>1, <1>8, <1>4, <2>2, <1>1
    <3> QED
      BY <3>2, <2>2
  <2>3. CASE i > k
    <3>1. i - k \in 1 .. Len(s) - k + 1 /\ k + (i - k) - 1 = i - 1 /\ ~(i <= k) /\ ~(i < k) /\ i # k
      BY <2>3, <1>1
    <3>2. w[i] = s[i - 1]
      BY <3>1, <1>8, <1>3
    <3> QED
      BY <3>2, <3>1
  <2>4. i < k \/ i = k \/ i > k
    BY <1>1
  <2> QED
    BY <2>1, <2>2, <2>3, <2>4
<1> QED
  BY <1>6, <1>7, <1>9, Zenon DEF IsInsertion, w

(* Entries fix a list.                                                     *)
LEMMA RemovalIsOne ==
  ASSUME NEW r, NEW q, NEW s \in Seq(Int), NEW p \in 1 .. Len(s), IsRemoval(r, s, p), IsRemoval(q, s, p)
  PROVE  r = q
<1>1. r \in Seq(Int) /\ q \in Seq(Int) /\ Len(r) = Len(q)
  BY DEF IsRemoval
<1>2. \A j \in 1 .. Len(r) : r[j] = q[j]
  BY <1>1 DEF IsRemoval
<1> QED
  BY <1>1, <1>2, SeqEqual

LEMMA InsertionIsOne ==
  ASSUME NEW r, NEW q, NEW s \in Seq(Int), NEW x \in Int, NEW k \in 1 .. Len(s) + 1,
         IsInsertion(r, s, x, k), IsInsertion(q, s, x, k)
  PROVE  r = q
<1>1. r \in Seq(Int) /\ q \in Seq(Int) /\ Len(r) = Len(q)
  BY DEF IsInsertion
<1>2. \A j \in 1 .. Len(r) : r[j] = q[j]
  BY <1>1 DEF IsInsertion
<1> QED
  BY <1>1, <1>2, SeqEqual

(* The members of a list with one entry fewer, or with one more.           *)
Fewer(r, s, p, n) == \A j \in 1 .. n - 1 : r[j] = IF j < p THEN s[j] ELSE s[j + 1]
More(r, s, x, k, n) == \A j \in 1 .. n + 1 : r[j] = IF j < k THEN s[j] ELSE IF j = k THEN x ELSE s[j - 1]
Apart(s, n) == \A i, j \in 1 .. n : s[i] = s[j] => i = j
Occurs(x, s, n) == \E i \in 1 .. n : s[i] = x

LEMMA OneFewer ==
  ASSUME NEW n \in Nat, NEW s, NEW r, NEW p \in 1 .. n,
         Apart(s, n), Fewer(r, s, p, n)
  PROVE  /\ Apart(r, n - 1)
         /\ \A y : Occurs(y, r, n - 1) <=> Occurs(y, s, n) /\ y # s[p]
<1> USE DEF Apart, Fewer
<1>1. \A i, j \in 1 .. n - 1 : r[i] = r[j] => i = j
  <2> SUFFICES ASSUME NEW i \in 1 .. n - 1, NEW j \in 1 .. n - 1, r[i] = r[j] PROVE i = j
    OBVIOUS
  <2>1. \A a \in 1 .. n - 1 : a \in 1 .. n /\ a + 1 \in 1 .. n /\ a \in Int
    OBVIOUS
  <2>2. \A a \in 1 .. n - 1 : (a < p => r[a] = s[a]) /\ (~(a < p) => r[a] = s[a + 1])
    BY Zenon
  <2>3. CASE i < p /\ j < p
    BY <2>1, <2>2, <2>3, Zenon
  <2>4. CASE ~(i < p) /\ ~(j < p)
    <3>1. i + 1 = j + 1
      BY <2>1, <2>2, <2>4, Zenon
    <3> QED
      BY <2>1, <3>1
  <2>5. CASE i < p /\ ~(j < p)
    <3>1. i = j + 1
      BY <2>1, <2>2, <2>5, Zenon
    <3> QED
      BY <2>1, <2>5, <3>1
  <2>6. CASE ~(i < p) /\ j < p
    <3>0. s[i + 1] = r[i] /\ s[j] = r[j] /\ i + 1 \in 1 .. n /\ j \in 1 .. n
      BY <2>1, <2>2, <2>6, Zenon
    <3>1. i + 1 = j
      BY <3>0
    <3> QED
      BY <2>1, <2>6, <3>1
  <2> QED
    BY <2>3, <2>4, <2>5, <2>6, Zenon
<1>2. \A j \in 1 .. n - 1 : r[j] # s[p] /\ \E i \in 1 .. n : s[i] = r[j]
  <2> TAKE j \in 1 .. n - 1
  <2>1. j \in 1 .. n /\ j + 1 \in 1 .. n /\ r[j] = IF j < p THEN s[j] ELSE s[j + 1]
    OBVIOUS
  <2>2. r[j] # s[p]
    BY <2>1
  <2> QED
    BY <2>1, <2>2
<1>3. \A i \in 1 .. n : i # p => \E j \in 1 .. n - 1 : r[j] = s[i]
  <2> SUFFICES ASSUME NEW i \in 1 .. n, i # p PROVE \E j \in 1 .. n - 1 : r[j] = s[i]
    OBVIOUS
  <2>1. CASE i < p
    <3>1. i \in 1 .. n - 1 /\ r[i] = s[i]
      BY <2>1
    <3> QED
      BY <3>1
  <2>2. CASE i > p
    <3>1. i - 1 \in 1 .. n - 1 /\ ~(i - 1 < p) /\ (i - 1) + 1 = i
      BY <2>2
    <3>2. r[i - 1] = s[i]
      BY <3>1
    <3> QED
      BY <3>1, <3>2
  <2> QED
    BY <2>1, <2>2
<1>4. ASSUME NEW y PROVE Occurs(y, r, n - 1) <=> Occurs(y, s, n) /\ y # s[p]
  <2>1. ASSUME Occurs(y, r, n - 1) PROVE Occurs(y, s, n) /\ y # s[p]
    <3>1. PICK j \in 1 .. n - 1 : r[j] = y
      BY <2>1, Zenon DEF Occurs
    <3>2. r[j] # s[p] /\ \E i \in 1 .. n : s[i] = r[j]
      BY <1>2, Zenon
    <3> QED
      BY <3>1, <3>2 DEF Occurs
  <2>2. ASSUME Occurs(y, s, n), y # s[p] PROVE Occurs(y, r, n - 1)
    <3>1. PICK i \in 1 .. n : s[i] = y
      BY <2>2, Zenon DEF Occurs
    <3>2. i # p
      BY <2>2, <3>1, Zenon
    <3>3. \E j \in 1 .. n - 1 : r[j] = s[i]
      BY <1>3, <3>2, Zenon
    <3> QED
      BY <3>1, <3>3 DEF Occurs
  <2> QED
    BY <2>1, <2>2, Zenon
<1> QED
  BY <1>1, <1>4, Zenon

LEMMA OneMore ==
  ASSUME NEW n \in Nat, NEW s, NEW r, NEW x, NEW k \in 1 .. n + 1,
         Apart(s, n), ~Occurs(x, s, n), More(r, s, x, k, n)
  PROVE  /\ Apart(r, n + 1)
         /\ \A y : Occurs(y, r, n + 1) <=> Occurs(y, s, n) \/ y = x
<1> USE DEF Apart, More
<1>0. \A i \in 1 .. n : s[i] # x
  BY Zenon DEF Occurs
<1>1. \A i, j \in 1 .. n + 1 : r[i] = r[j] => i = j
  <2> SUFFICES ASSUME NEW i \in 1 .. n + 1, NEW j \in 1 .. n + 1, r[i] = r[j] PROVE i = j
    OBVIOUS
  <2>1. \A a \in 1 .. n + 1 : (a < k => a \in 1 .. n) /\ (~(a < k) /\ a # k => a - 1 \in 1 .. n) /\ a \in Int
    OBVIOUS
  <2>2. \A a \in 1 .. n + 1 : /\ (a < k => r[a] = s[a])
                             /\ (a = k => r[a] = x)
                             /\ (~(a < k) /\ a # k => r[a] = s[a - 1])
    <3> TAKE a \in 1 .. n + 1
    <3>1. r[a] = IF a < k THEN s[a] ELSE IF a = k THEN x ELSE s[a - 1]
      BY Zenon
    <3>2. a = k => ~(a < k)
      OBVIOUS
    <3> QED
      BY <3>1, <3>2, Zenon
  <2>3. CASE i = k
    <3>1. r[j] = x
      BY <2>2, <2>3
    <3>2. ~(j < k)
      BY <1>0, <2>1, <2>2, <3>1, Zenon
    <3>3. j = k
      BY <1>0, <2>1, <2>2, <3>1, <3>2, Zenon
    <3> QED
      BY <2>3, <3>3, Zenon
  <2>4. CASE j = k
    <3>1. r[i] = x
      BY <2>2, <2>4
    <3>2. ~(i < k)
      BY <1>0, <2>1, <2>2, <3>1, Zenon
    <3>3. i = k
      BY <1>0, <2>1, <2>2, <3>1, <3>2, Zenon
    <3> QED
      BY <2>4, <3>3, Zenon
  <2>5. CASE i < k /\ j < k
    BY <2>1, <2>2, <2>5, Zenon
  <2>6. CASE ~(i < k) /\ i # k /\ ~(j < k) /\ j # k
    <3>1. i - 1 = j - 1
      BY <2>1, <2>2, <2>6, Zenon
    <3> QED
      BY <2>1, <3>1
  <2>7. CASE i < k /\ ~(j < k) /\ j # k
    <3>1. i = j - 1
      BY <2>1, <2>2, <2>7, Zenon
    <3> QED
      BY <2>1, <2>7, <3>1
  <2>8. CASE ~(i < k) /\ i # k /\ j < k
    <3>0. s[i - 1] = r[i] /\ s[j] = r[j] /\ i - 1 \in 1 .. n /\ j \in 1 .. n
      BY <2>1, <2>2, <2>8, Zenon
    <3>1. i - 1 = j
      BY <3>0
    <3> QED
      BY <2>1, <2>8, <3>1
  <2> QED
    BY <2>3, <2>4, <2>5, <2>6, <2>7, <2>8, Zenon
<1>2. \A j \in 1 .. n + 1 : r[j] = x \/ \E i \in 1 .. n : s[i] = r[j]
  <2> TAKE j \in 1 .. n + 1
  <2>1. (j < k => j \in 1 .. n /\ r[j] = s[j]) /\ (j = k => r[j] = x) /\ (j > k => j - 1 \in 1 .. n /\ r[j] = s[j - 1])
    OBVIOUS
  <2> QED
    BY <2>1
<1>3. \E j \in 1 .. n + 1 : r[j] = x
  <2>1. r[k] = x
    OBVIOUS
  <2> QED
    BY <2>1
<1>4. \A i \in 1 .. n : \E j \in 1 .. n + 1 : r[j] = s[i]
  <2> TAKE i \in 1 .. n
  <2>1. CASE i < k
    <3>1. i \in 1 .. n + 1 /\ r[i] = s[i]
      BY <2>1
    <3> QED
      BY <3>1
  <2>2. CASE i >= k
    <3>1. i + 1 \in 1 .. n + 1 /\ ~(i + 1 < k) /\ i + 1 # k /\ (i + 1) - 1 = i
      BY <2>2
    <3>2. r[i + 1] = s[i]
      BY <3>1
    <3> QED
      BY <3>1, <3>2
  <2> QED
    BY <2>1, <2>2
<1>5. ASSUME NEW y PROVE Occurs(y, r, n + 1) <=> Occurs(y, s, n) \/ y = x
  <2>1. ASSUME Occurs(y, r, n + 1) PROVE Occurs(y, s, n) \/ y = x
    <3>1. PICK j \in 1 .. n + 1 : r[j] = y
      BY <2>1, Zenon DEF Occurs
    <3>2. r[j] = x \/ \E i \in 1 .. n : s[i] = r[j]
      BY <1>2, Zenon
    <3> QED
      BY <3>1, <3>2 DEF Occurs
  <2>2. ASSUME Occurs(y, s, n) PROVE Occurs(y, r, n + 1)
    <3>1. PICK i \in 1 .. n : s[i] = y
      BY <2>2, Zenon DEF Occurs
    <3>2. \E j \in 1 .. n + 1 : r[j] = s[i]
      BY <1>4, Zenon
    <3> QED
      BY <3>1, <3>2 DEF Occurs
  <2>3. y = x => Occurs(y, r, n + 1)
    BY <1>3, Zenon DEF Occurs
  <2> QED
    BY <2>1, <2>2, <2>3, Zenon
<1> QED
  BY <1>1, <1>5, Zenon

LEMMA RemovalKeeps ==
  ASSUME NEW s \in Seq(Int), Distinct(s), NEW p \in 1 .. Len(s), NEW r, IsRemoval(r, s, p)
  PROVE  /\ r \in Seq(Int) /\ Distinct(r) /\ Len(r) = Len(s) - 1
         /\ ToSet(r) = ToSet(s) \ {s[p]}
<1> DEFINE n == Len(s)
<1>1. r \in Seq(Int) /\ Len(r) = n - 1 /\ n \in Nat /\ p \in 1 .. n
  BY LenProperties DEF IsRemoval
<1>2. Fewer(r, s, p, n)
  BY <1>1, Zenon DEF IsRemoval, Fewer
<1>3. Apart(s, n)
  BY Zenon DEF Distinct, Apart
<1>4. \A y : y \in ToSet(s) <=> Occurs(y, s, n)
  BY ToSetIs, Zenon DEF Occurs
<1> HIDE DEF n
<1>5. Apart(r, n - 1) /\ \A y : Occurs(y, r, n - 1) <=> Occurs(y, s, n) /\ y # s[p]
  BY <1>1, <1>2, <1>3, OneFewer, Zenon
<1>6. \A y : y \in ToSet(r) <=> Occurs(y, r, n - 1)
  BY <1>1, ToSetIs, Zenon DEF Occurs
<1>7. ToSet(r) = ToSet(s) \ {s[p]}
  BY <1>4, <1>5, <1>6
<1> QED
  BY <1>1, <1>5, <1>7, Zenon DEF n, Distinct, Apart

LEMMA InsertionKeeps ==
  ASSUME NEW s \in Seq(Int), Distinct(s), NEW x \in Int, x \notin ToSet(s), NEW k \in 1 .. Len(s) + 1,
         NEW r, IsInsertion(r, s, x, k)
  PROVE  /\ r \in Seq(Int) /\ Distinct(r) /\ Len(r) = Len(s) + 1
         /\ ToSet(r) = ToSet(s) \cup {x}
<1> DEFINE n == Len(s)
<1>1. r \in Seq(Int) /\ Len(r) = n + 1 /\ n \in Nat /\ k \in 1 .. n + 1
  BY LenProperties DEF IsInsertion
<1>2. More(r, s, x, k, n)
  BY <1>1, Zenon DEF IsInsertion, More
<1>3. Apart(s, n)
  BY Zenon DEF Distinct, Apart
<1>4. \A y : y \in ToSet(s) <=> Occurs(y, s, n)
  BY ToSetIs, Zenon DEF Occurs
<1> HIDE DEF n
<1>5. ~Occurs(x, s, n)
  BY <1>4, Zenon
<1>6. Apart(r, n + 1) /\ \A y : Occurs(y, r, n + 1) <=> Occurs(y, s, n) \/ y = x
  BY <1>1, <1>2, <1>3, <1>5, OneMore, Zenon
<1>7. \A y : y \in ToSet(r) <=> Occurs(y, r, n + 1)
  BY <1>1, ToSetIs, Zenon DEF Occurs
<1>8. ToSet(r) = ToSet(s) \cup {x}
  BY <1>4, <1>6, <1>7
<1> QED
  BY <1>1, <1>6, <1>8, Zenon DEF n, Distinct, Apart

LEMMA WithoutIs ==
  ASSUME NEW s \in Seq(Int), Distinct(s), NEW x
  PROVE  /\ Without(s, x) \in Seq(Int) /\ Distinct(Without(s, x)) /\ ToSet(Without(s, x)) = ToSet(s) \ {x}
         /\ x \in ToSet(s) => /\ Without(s, x) = RemoveAt(s, Position(s, x))
                              /\ IsRemoval(Without(s, x), s, Position(s, x))
                              /\ Len(Without(s, x)) = Len(s) - 1
         /\ x \notin ToSet(s) => Without(s, x) = s
<1>1. CASE x \in ToSet(s)
  <2>1. Position(s, x) \in 1 .. Len(s) /\ s[Position(s, x)] = x
    BY <1>1, PositionIs
  <2>2. Without(s, x) = RemoveAt(s, Position(s, x))
    BY <1>1 DEF Without
  <2>3. IsRemoval(Without(s, x), s, Position(s, x))
    BY <2>1, <2>2, RemovalsAre
  <2>4. /\ Without(s, x) \in Seq(Int) /\ Distinct(Without(s, x)) /\ Len(Without(s, x)) = Len(s) - 1
        /\ ToSet(Without(s, x)) = ToSet(s) \ {s[Position(s, x)]}
    BY <2>1, <2>3, RemovalKeeps
  <2> QED
    BY <1>1, <2>1, <2>2, <2>3, <2>4, Zenon
<1>2. CASE x \notin ToSet(s)
  <2>1. Without(s, x) = s
    BY <1>2 DEF Without
  <2>2. ToSet(s) = ToSet(s) \ {x}
    BY <1>2
  <2> QED
    BY <1>2, <2>1, <2>2, Zenon
<1> QED
  BY <1>1, <1>2, Zenon

LEMMA InsertedIs ==
  ASSUME NEW s \in Seq(Int), Distinct(s), NEW x \in Int, x \notin ToSet(s), NEW k \in 1 .. Len(s) + 1
  PROVE  /\ WithBefore(s, x, k) \in Seq(Int) /\ Distinct(WithBefore(s, x, k))
         /\ Len(WithBefore(s, x, k)) = Len(s) + 1
         /\ ToSet(WithBefore(s, x, k)) = ToSet(s) \cup {x}
BY InsertionsAre, InsertionKeeps, Zenon

(* Appending is inserting before nothing; so is the list insertBefore is   *)
(* asked for.                                                              *)
LEMMA AppendedIs ==
  ASSUME NEW s \in Seq(Int), NEW x \in Int
  PROVE  Len(s) + 1 \in 1 .. Len(s) + 1 /\ Append(s, x) = WithBefore(s, x, Len(s) + 1)
<1>1. Len(s) \in Nat
  BY LenProperties
<1>2. Len(s) + 1 \in 1 .. Len(s) + 1
  BY <1>1
<1>3. Append(s, x) \in Seq(Int) /\ Len(Append(s, x)) = Len(s) + 1
  OBVIOUS
<1>4. \A j \in 1 .. Len(s) + 1 : Append(s, x)[j] = IF j < Len(s) + 1 THEN s[j] ELSE IF j = Len(s) + 1 THEN x ELSE s[j - 1]
  <2> TAKE j \in 1 .. Len(s) + 1
  <2>1. CASE j = Len(s) + 1
    <3>1. Append(s, x)[j] = x /\ ~(j < Len(s) + 1)
      BY <2>1, <1>1
    <3> QED
      BY <2>1, <3>1, Zenon
  <2>2. CASE j # Len(s) + 1
    <3>1. j \in 1 .. Len(s) /\ j < Len(s) + 1
      BY <2>2, <1>1
    <3>2. Append(s, x)[j] = s[j]
      BY <3>1
    <3> QED
      BY <3>1, <3>2, Zenon
  <2> QED
    BY <2>1, <2>2, Zenon
<1>5. IsInsertion(Append(s, x), s, x, Len(s) + 1)
  BY <1>3, <1>4, Zenon DEF IsInsertion
<1>6. IsInsertion(WithBefore(s, x, Len(s) + 1), s, x, Len(s) + 1)
  BY <1>2, InsertionsAre, Zenon
<1>7. Append(s, x) = WithBefore(s, x, Len(s) + 1)
  BY <1>2, <1>5, <1>6, InsertionIsOne, Zenon
<1> QED
  BY <1>2, <1>7, Zenon

LEMMA AskedIs ==
  ASSUME NEW s \in Seq(Int), NEW x \in Int, NEW k \in 1 .. Len(s) + 1
  PROVE  [j \in 1 .. Len(s) + 1 |-> IF j < k THEN s[j] ELSE IF j = k THEN x ELSE s[j - 1]] = WithBefore(s, x, k)
<1> DEFINE e(j) == IF j < k THEN s[j] ELSE IF j = k THEN x ELSE s[j - 1]
           f == [j \in 1 .. Len(s) + 1 |-> e(j)]
<1>1. Len(s) \in Nat /\ \A i \in 1 .. Len(s) : s[i] \in Int
  BY LenProperties, ElementOfSeq
<1>2. ASSUME NEW j \in 1 .. Len(s) + 1 PROVE e(j) \in Int
  <2>1. CASE j < k
    <3>1. j \in 1 .. Len(s)
      BY <2>1, <1>1
    <3> QED
      BY <3>1, <2>1, <1>1
  <2>2. CASE j = k
    <3>1. ~(j < k)
      BY <2>2, <1>1
    <3> QED
      BY <3>1, <2>2
  <2>3. CASE j > k
    <3>1. j - 1 \in 1 .. Len(s) /\ ~(j < k) /\ j # k
      BY <2>3, <1>1
    <3> QED
      BY <3>1, <1>1
  <2>4. j < k \/ j = k \/ j > k
    BY <1>1
  <2> QED
    BY <2>1, <2>2, <2>3, <2>4, Zenon
<1>3. Len(s) + 1 \in Nat
  BY <1>1
<1> HIDE DEF e
<1>4. f \in Seq(Int)
  BY <1>2, <1>3, IsASeq
<1>5. Len(f) = Len(s) + 1
  <2>1. DOMAIN f = 1 .. Len(f) /\ DOMAIN f = 1 .. Len(s) + 1 /\ Len(f) \in Nat
    BY <1>4, LenProperties
  <2> QED
    BY <2>1, <1>3
<1>6. \A j \in 1 .. Len(s) + 1 : f[j] = e(j)
  BY Zenon
<1> HIDE DEF f
<1>7. IsInsertion(f, s, x, k)
  BY <1>4, <1>5, <1>6, Zenon DEF IsInsertion, e
<1>8. f = WithBefore(s, x, k)
  BY <1>7, InsertionsAre, InsertionIsOne, Zenon
<1> QED
  BY <1>8, Zenon DEF f, e

(* The children of the DOM's container: React's, between a foreign node    *)
(* and the comment with another foreign node.                              *)
Framed(a) == <<-1>> \o a \o <<Comment, -2>>

LEMMA FramedIs ==
  ASSUME NEW a \in Seq(Int)
  PROVE  /\ Framed(a) \in Seq(Int) /\ Len(Framed(a)) = Len(a) + 3
         /\ \A j \in 1 .. Len(a) + 3 :
              Framed(a)[j] = IF j = 1 THEN -1 ELSE IF j <= Len(a) + 1 THEN a[j - 1] ELSE IF j = Len(a) + 2 THEN 0 ELSE -2
<1> DEFINE l == <<-1>>
           m == l \o a
           r == <<Comment, -2>>
           n == Len(a)
<1>1. n \in Nat
  BY LenProperties
<1>2. l \in Seq(Int) /\ Len(l) = 1 /\ l[1] = -1
  OBVIOUS
<1>3. r \in Seq(Int) /\ Len(r) = 2 /\ r[1] = 0 /\ r[2] = -2
  BY DEF Comment
<1> HIDE DEF l, r
<1>4. m \in Seq(Int) /\ Len(m) = n + 1 /\ \A i \in 1 .. n + 1 : m[i] = IF i <= 1 THEN l[i] ELSE a[i - 1]
  <2>1. m \in Seq(Int) /\ Len(m) = Len(l) + Len(a) /\ \A i \in 1 .. Len(l) + Len(a) : m[i] = IF i <= Len(l) THEN l[i] ELSE a[i - Len(l)]
    BY <1>2, ConcatProperties
  <2>2. Len(l) + Len(a) = n + 1
    BY <1>1, <1>2
  <2> QED
    BY <1>2, <2>1, <2>2, Zenon
<1> HIDE DEF m
<1> DEFINE f == m \o r
<1>5. f \in Seq(Int) /\ Len(f) = n + 3 /\ \A i \in 1 .. n + 3 : f[i] = IF i <= n + 1 THEN m[i] ELSE r[i - (n + 1)]
  <2>1. f \in Seq(Int) /\ Len(f) = Len(m) + Len(r) /\ \A i \in 1 .. Len(m) + Len(r) : f[i] = IF i <= Len(m) THEN m[i] ELSE r[i - Len(m)]
    BY <1>3, <1>4, ConcatProperties
  <2>2. Len(m) + Len(r) = n + 3
    BY <1>1, <1>3, <1>4
  <2> QED
    BY <1>4, <2>1, <2>2, Zenon
<1>6. Framed(a) = f
  BY Zenon DEF Framed, f, m, l, r
<1> HIDE DEF f, n
<1>7. \A j \in 1 .. n + 3 : f[j] = IF j = 1 THEN -1 ELSE IF j <= n + 1 THEN a[j - 1] ELSE IF j = n + 2 THEN 0 ELSE -2
  <2> TAKE j \in 1 .. n + 3
  <2>1. CASE j = 1
    <3>1. f[j] = m[1] /\ m[1] = l[1]
      BY <1>1, <1>4, <1>5, <2>1
    <3> QED
      BY <1>2, <2>1, <3>1, Zenon
  <2>2. CASE j # 1 /\ j <= n + 1
    <3>1. j \in 1 .. n + 1 /\ ~(j <= 1)
      BY <1>1, <2>2
    <3>2. f[j] = m[j] /\ m[j] = a[j - 1]
      BY <1>4, <1>5, <2>2, <3>1, Zenon
    <3> QED
      BY <2>2, <3>2, Zenon
  <2>3. CASE j = n + 2
    <3>1. j # 1 /\ ~(j <= n + 1) /\ j - (n + 1) = 1
      BY <1>1, <2>3
    <3>2. f[j] = r[1]
      BY <1>5, <3>1, Zenon
    <3> QED
      BY <1>3, <2>3, <3>1, <3>2, Zenon
  <2>4. CASE j = n + 3
    <3>1. j # 1 /\ ~(j <= n + 1) /\ j # n + 2 /\ j - (n + 1) = 2
      BY <1>1, <2>4
    <3>2. f[j] = r[2]
      BY <1>5, <3>1, Zenon
    <3> QED
      BY <1>3, <2>4, <3>1, <3>2, Zenon
  <2>5. j = 1 \/ (j # 1 /\ j <= n + 1) \/ j = n + 2 \/ j = n + 3
    BY <1>1
  <2> QED
    BY <2>1, <2>2, <2>3, <2>4, <2>5, Zenon
<1> QED
  BY <1>5, <1>6, <1>7, Zenon DEF n

IsFramed(f, a, n) ==
  \A j \in 1 .. n + 3 : f[j] = IF j = 1 THEN -1 ELSE IF j <= n + 1 THEN a[j - 1] ELSE IF j = n + 2 THEN 0 ELSE -2

IsAround(f, a, n) ==
  /\ f[1] = -1 /\ f[n + 2] = 0 /\ f[n + 3] = -2
  /\ \A i \in 1 .. n : f[i + 1] = a[i]
  /\ \A j \in 1 .. n + 3 : j = 1 \/ j = n + 2 \/ j = n + 3 \/ (j - 1 \in 1 .. n /\ f[j] = a[j - 1])

LEMMA FramePlaces ==
  ASSUME NEW n \in Nat, NEW a, NEW f, IsFramed(f, a, n)
  PROVE  IsAround(f, a, n)
<1>1. f[1] = -1
  <2>1. 1 \in 1 .. n + 3
    OBVIOUS
  <2> QED
    BY <2>1, Zenon DEF IsFramed
<1>2. f[n + 2] = 0
  <2>1. n + 2 \in 1 .. n + 3 /\ n + 2 # 1 /\ ~(n + 2 <= n + 1)
    OBVIOUS
  <2> QED
    BY <2>1, Zenon DEF IsFramed
<1>3. f[n + 3] = -2
  <2>1. n + 3 \in 1 .. n + 3 /\ n + 3 # 1 /\ ~(n + 3 <= n + 1) /\ n + 3 # n + 2
    OBVIOUS
  <2> QED
    BY <2>1, Zenon DEF IsFramed
<1>4. ASSUME NEW j \in 1 .. n + 3, j # 1, j # n + 2, j # n + 3 PROVE j - 1 \in 1 .. n /\ f[j] = a[j - 1]
  <2>1. j - 1 \in 1 .. n /\ j <= n + 1
    BY <1>4
  <2> QED
    BY <1>4, <2>1, Zenon DEF IsFramed
<1>5. ASSUME NEW i \in 1 .. n PROVE f[i + 1] = a[i]
  <2>1. i + 1 \in 1 .. n + 3 /\ i + 1 # 1 /\ i + 1 # n + 2 /\ i + 1 # n + 3 /\ (i + 1) - 1 = i
    OBVIOUS
  <2>2. f[i + 1] = a[(i + 1) - 1]
    BY <1>4, <2>1, Zenon
  <2> QED
    BY <2>1, <2>2, Zenon
<1> QED
  BY <1>1, <1>2, <1>3, <1>4, <1>5, Zenon DEF IsAround

(* A frame around a list with one entry fewer, or with one more.           *)
LEMMA FrameOfFewer ==
  ASSUME NEW n \in Nat, NEW s, NEW r, NEW p \in 1 .. n, NEW f, NEW g,
         Fewer(r, s, p, n), IsFramed(f, s, n), IsFramed(g, r, n - 1)
  PROVE  Fewer(g, f, p + 1, n + 3)
<1>1. /\ f[1] = -1 /\ f[n + 2] = 0 /\ f[n + 3] = -2
      /\ \A i \in 1 .. n : f[i + 1] = s[i]
  <2>1. IsAround(f, s, n)
    BY FramePlaces, Zenon
  <2> QED
    BY <2>1, Zenon DEF IsAround
<1>2. /\ g[1] = -1 /\ g[n + 1] = 0 /\ g[n + 2] = -2
      /\ \A j \in 1 .. n + 2 : j = 1 \/ j = n + 1 \/ j = n + 2 \/ (j - 1 \in 1 .. n - 1 /\ g[j] = r[j - 1])
  <2>1. n - 1 \in Nat /\ (n - 1) + 2 = n + 1 /\ (n - 1) + 3 = n + 2
    OBVIOUS
  <2>2. IsAround(g, r, n - 1)
    BY <2>1, FramePlaces, Zenon
  <2> QED
    BY <2>1, <2>2, Zenon DEF IsAround
<1>3. ASSUME NEW j \in 1 .. n + 2 PROVE g[j] = IF j < p + 1 THEN f[j] ELSE f[j + 1]
  <2>1. CASE j = 1
    <3>1. j < p + 1
      BY <2>1
    <3> QED
      BY <1>1, <1>2, <2>1, <3>1, Zenon
  <2>2. CASE j = n + 1
    <3>1. ~(j < p + 1) /\ j + 1 = n + 2
      BY <2>2
    <3> QED
      BY <1>1, <1>2, <2>2, <3>1, Zenon
  <2>3. CASE j = n + 2
    <3>1. ~(j < p + 1) /\ j + 1 = n + 3
      BY <2>3
    <3> QED
      BY <1>1, <1>2, <2>3, <3>1, Zenon
  <2>4. CASE j - 1 \in 1 .. n - 1 /\ g[j] = r[j - 1]
    <3>1. r[j - 1] = IF j - 1 < p THEN s[j - 1] ELSE s[(j - 1) + 1]
      BY <2>4, Zenon DEF Fewer
    <3>2. (j - 1) + 1 = j /\ j - 1 \in 1 .. n /\ j \in 1 .. n /\ (j - 1 < p <=> j < p + 1)
      BY <2>4
    <3>3. f[(j - 1) + 1] = s[j - 1] /\ f[j + 1] = s[j]
      BY <1>1, <3>2, Zenon
    <3>4. f[j] = s[j - 1]
      BY <3>2, <3>3, Zenon
    <3>5. CASE j - 1 < p
      BY <2>4, <3>1, <3>2, <3>4, <3>5, Zenon
    <3>6. CASE ~(j - 1 < p)
      BY <2>4, <3>1, <3>2, <3>3, <3>6, Zenon
    <3> QED
      BY <3>5, <3>6, Zenon
  <2> QED
    BY <1>2, <2>1, <2>2, <2>3, <2>4, Zenon
<1>4. (n + 3) - 1 = n + 2
  OBVIOUS
<1> QED
  BY <1>3, <1>4, Zenon DEF Fewer

LEMMA FrameOfMore ==
  ASSUME NEW n \in Nat, NEW s, NEW r, NEW x, NEW k \in 1 .. n + 1, NEW f, NEW g,
         More(r, s, x, k, n), IsFramed(f, s, n), IsFramed(g, r, n + 1)
  PROVE  More(g, f, x, k + 1, n + 3)
<1>1. /\ f[1] = -1 /\ f[n + 2] = 0 /\ f[n + 3] = -2
      /\ \A i \in 1 .. n : f[i + 1] = s[i]
  <2>1. IsAround(f, s, n)
    BY FramePlaces, Zenon
  <2> QED
    BY <2>1, Zenon DEF IsAround
<1>2. /\ g[1] = -1 /\ g[n + 3] = 0 /\ g[n + 4] = -2
      /\ \A j \in 1 .. n + 4 : j = 1 \/ j = n + 3 \/ j = n + 4 \/ (j - 1 \in 1 .. n + 1 /\ g[j] = r[j - 1])
  <2>1. n + 1 \in Nat /\ (n + 1) + 2 = n + 3 /\ (n + 1) + 3 = n + 4
    OBVIOUS
  <2>2. IsAround(g, r, n + 1)
    BY <2>1, FramePlaces, Zenon
  <2> QED
    BY <2>1, <2>2, Zenon DEF IsAround
<1>3. ASSUME NEW j \in 1 .. n + 4 PROVE g[j] = IF j < k + 1 THEN f[j] ELSE IF j = k + 1 THEN x ELSE f[j - 1]
  <2>1. CASE j = 1
    <3>1. j < k + 1
      BY <2>1
    <3> QED
      BY <1>1, <1>2, <2>1, <3>1, Zenon
  <2>2. CASE j = n + 3
    <3>1. ~(j < k + 1) /\ j # k + 1 /\ j - 1 = n + 2
      BY <2>2
    <3> QED
      BY <1>1, <1>2, <2>2, <3>1, Zenon
  <2>3. CASE j = n + 4
    <3>1. ~(j < k + 1) /\ j # k + 1 /\ j - 1 = n + 3
      BY <2>3
    <3> QED
      BY <1>1, <1>2, <2>3, <3>1, Zenon
  <2>4. CASE j - 1 \in 1 .. n + 1 /\ g[j] = r[j - 1]
    <3>1. r[j - 1] = IF j - 1 < k THEN s[j - 1] ELSE IF j - 1 = k THEN x ELSE s[(j - 1) - 1]
      BY <2>4, Zenon DEF More
    <3>2. (j - 1 < k <=> j < k + 1) /\ (j - 1 = k <=> j = k + 1)
      BY <2>4
    <3>3. CASE j - 1 < k
      <4>1. j - 1 \in 1 .. n /\ (j - 1) + 1 = j
        BY <2>4, <3>3
      <4>2. f[(j - 1) + 1] = s[j - 1]
        BY <1>1, <4>1, Zenon
      <4> QED
        BY <2>4, <3>1, <3>2, <3>3, <4>1, <4>2, Zenon
    <3>4. CASE j - 1 = k
      <4>1. ~(j - 1 < k)
        BY <2>4, <3>4
      <4>2. r[j - 1] = x
        BY <3>1, <3>4, <4>1, Zenon
      <4> QED
        BY <2>4, <3>2, <3>4, <4>1, <4>2, Zenon
    <3>5. CASE ~(j - 1 < k) /\ j - 1 # k
      <4>1. (j - 1) - 1 \in 1 .. n /\ ((j - 1) - 1) + 1 = j - 1
        BY <2>4, <3>5
      <4>2. f[((j - 1) - 1) + 1] = s[(j - 1) - 1]
        BY <1>1, <4>1, Zenon
      <4>3. r[j - 1] = f[j - 1]
        BY <3>1, <3>5, <4>1, <4>2, Zenon
      <4> QED
        BY <2>4, <3>2, <3>5, <4>3, Zenon
    <3> QED
      BY <3>3, <3>4, <3>5, Zenon
  <2> QED
    BY <1>2, <2>1, <2>2, <2>3, <2>4, Zenon
<1>4. (n + 3) + 1 = n + 4
  OBVIOUS
<1> QED
  BY <1>3, <1>4, Zenon DEF More

LEMMA FrameIsFramed ==
  ASSUME NEW a \in Seq(Int)
  PROVE  /\ Framed(a) \in Seq(Int) /\ Len(Framed(a)) = Len(a) + 3 /\ Len(a) \in Nat
         /\ IsFramed(Framed(a), a, Len(a)) /\ IsAround(Framed(a), a, Len(a))
<1>1. Len(a) \in Nat
  BY LenProperties
<1>2. IsFramed(Framed(a), a, Len(a))
  BY FramedIs, Zenon DEF IsFramed
<1> QED
  BY <1>1, <1>2, FramedIs, FramePlaces, Zenon

(* React's children: tags, each in one place.                              *)
IsList(a) == a \in Seq(Int) /\ Distinct(a) /\ \A x \in ToSet(a) : x >= 1

LEMMA FrameEntries ==
  ASSUME NEW a, IsList(a)
  PROVE  /\ Distinct(Framed(a))
         /\ \A x \in ToSet(a) : x \in ToSet(Framed(a)) /\ Position(Framed(a), x) = Position(a, x) + 1
         /\ Comment \in ToSet(Framed(a)) /\ Position(Framed(a), Comment) = Len(a) + 2
         /\ \A x \in Int : x >= 1 /\ x \notin ToSet(a) => x \notin ToSet(Framed(a))
<1> DEFINE n == Len(a)
           f == Framed(a)
<1>1. f \in Seq(Int) /\ Len(f) = n + 3 /\ n \in Nat /\ IsAround(f, a, n)
  BY FrameIsFramed, Zenon DEF IsList
<1>2. \A x : x \in ToSet(a) <=> \E i \in 1 .. n : a[i] = x
  BY ToSetIs, Zenon DEF IsList
<1>3. \A i \in 1 .. n : a[i] \in Int /\ a[i] >= 1
  <2> TAKE i \in 1 .. n
  <2>1. a[i] \in Int
    BY ElementOfSeq DEF IsList
  <2>2. a[i] \in ToSet(a)
    BY <1>2, Zenon
  <2> QED
    BY <2>1, <2>2, Zenon DEF IsList
<1>4. \A i, j \in 1 .. n : a[i] = a[j] => i = j
  BY Zenon DEF IsList, Distinct
<1>5. \A x : x \in ToSet(f) <=> \E i \in 1 .. n + 3 : f[i] = x
  BY <1>1, ToSetIs, Zenon
<1> HIDE DEF n, f
<1>6. /\ f[1] = -1 /\ f[n + 2] = 0 /\ f[n + 3] = -2
      /\ \A i \in 1 .. n : f[i + 1] = a[i]
      /\ \A j \in 1 .. n + 3 : j = 1 \/ j = n + 2 \/ j = n + 3 \/ (j - 1 \in 1 .. n /\ f[j] = a[j - 1])
  BY <1>1, Zenon DEF IsAround
<1>7. \A j \in 1 .. n + 3 : \/ (j = 1 /\ f[j] = -1) \/ (j = n + 2 /\ f[j] = 0) \/ (j = n + 3 /\ f[j] = -2)
                            \/ (j - 1 \in 1 .. n /\ f[j] = a[j - 1] /\ f[j] >= 1)
  <2> TAKE j \in 1 .. n + 3
  <2>1. CASE j - 1 \in 1 .. n /\ f[j] = a[j - 1]
    <3>1. a[j - 1] >= 1
      BY <1>3, <2>1, Zenon
    <3> QED
      BY <2>1, <3>1, Zenon
  <2>2. CASE j = 1
    BY <1>6, <2>2
  <2>3. CASE j = n + 2
    BY <1>6, <2>3
  <2>4. CASE j = n + 3
    BY <1>6, <2>4
  <2> QED
    BY <1>6, <2>1, <2>2, <2>3, <2>4, Zenon
<1>8. \A i, j \in 1 .. n + 3 : f[i] = f[j] => i = j
  <2> SUFFICES ASSUME NEW i \in 1 .. n + 3, NEW j \in 1 .. n + 3, f[i] = f[j] PROVE i = j
    OBVIOUS
  <2>1. CASE f[i] >= 1
    <3>1. f[j] >= 1
      BY <2>1
    <3>2. i - 1 \in 1 .. n /\ f[i] = a[i - 1]
      BY <1>7, <2>1
    <3>3. j - 1 \in 1 .. n /\ f[j] = a[j - 1]
      BY <1>7, <3>1
    <3>4. i - 1 = j - 1
      BY <1>4, <3>2, <3>3
    <3> QED
      BY <1>1, <3>4
  <2>2. CASE ~(f[i] >= 1)
    <3>1. ~(f[j] >= 1)
      BY <2>2
    <3>2. (i = 1 /\ f[i] = -1) \/ (i = n + 2 /\ f[i] = 0) \/ (i = n + 3 /\ f[i] = -2)
      BY <1>7, <2>2, Zenon
    <3>3. (j = 1 /\ f[j] = -1) \/ (j = n + 2 /\ f[j] = 0) \/ (j = n + 3 /\ f[j] = -2)
      BY <1>7, <3>1, Zenon
    <3> QED
      BY <3>2, <3>3
  <2> QED
    BY <2>1, <2>2
<1>9. Distinct(f)
  BY <1>1, <1>8, Zenon DEF Distinct
<1>10. ASSUME NEW x \in ToSet(a) PROVE x \in ToSet(f) /\ Position(f, x) = Position(a, x) + 1
  <2>1. Position(a, x) \in 1 .. n /\ a[Position(a, x)] = x
    BY <1>10, PositionIs, Zenon DEF IsList, n
  <2>2. Position(a, x) + 1 \in 1 .. n + 3
    BY <1>1, <2>1
  <2>3. f[Position(a, x) + 1] = x
    BY <1>6, <2>1, Zenon
  <2>4. Position(f, f[Position(a, x) + 1]) = Position(a, x) + 1
    BY <1>1, <1>9, <2>2, PositionOf, Zenon
  <2> QED
    BY <1>5, <2>2, <2>3, <2>4, Zenon
<1>11. Comment \in ToSet(f) /\ Position(f, Comment) = n + 2
  <2>1. n + 2 \in 1 .. n + 3
    BY <1>1
  <2>2. Position(f, f[n + 2]) = n + 2
    BY <1>1, <1>9, <2>1, PositionOf, Zenon
  <2> QED
    BY <1>5, <1>6, <2>1, <2>2, Zenon DEF Comment
<1>12. ASSUME NEW x \in Int, x >= 1, x \notin ToSet(a) PROVE x \notin ToSet(f)
  <2> SUFFICES ASSUME x \in ToSet(f) PROVE FALSE
    OBVIOUS
  <2>1. PICK j \in 1 .. n + 3 : f[j] = x
    BY <1>5, Zenon
  <2>2. j - 1 \in 1 .. n /\ f[j] = a[j - 1]
    BY <1>7, <1>12, <2>1
  <2> QED
    BY <1>2, <1>12, <2>1, <2>2, Zenon
<1> QED
  BY <1>9, <1>10, <1>11, <1>12, Zenon DEF n, f

(* Taking a child out of the frame, and putting one in.                    *)
LEMMA FramedWithout ==
  ASSUME NEW a, IsList(a), NEW x \in Int, x >= 1
  PROVE  Without(Framed(a), x) = Framed(Without(a, x))
<1> DEFINE n == Len(a)
           f == Framed(a)
           w == Without(a, x)
<1>1. a \in Seq(Int) /\ Distinct(a) /\ n \in Nat
  BY LenProperties DEF IsList
<1>2. f \in Seq(Int) /\ Len(f) = n + 3 /\ IsFramed(f, a, n)
  BY <1>1, FrameIsFramed, Zenon
<1>3. Distinct(f)
  BY FrameEntries, Zenon
<1>4. CASE x \notin ToSet(a)
  <2>1. x \notin ToSet(f)
    BY <1>4, FrameEntries, Zenon
  <2>2. w = a /\ Without(f, x) = f
    BY <1>1, <1>2, <1>3, <1>4, <2>1, WithoutIs, Zenon
  <2> QED
    BY <2>2, Zenon
<1>5. CASE x \in ToSet(a)
  <2> DEFINE p == Position(a, x)
  <2>1. p \in 1 .. n
    BY <1>1, <1>5, PositionIs, Zenon
  <2>2. w \in Seq(Int) /\ IsRemoval(w, a, p) /\ Len(w) = n - 1
    BY <1>1, <1>5, WithoutIs, Zenon
  <2>3. x \in ToSet(f) /\ Position(f, x) = p + 1
    BY <1>5, FrameEntries, Zenon
  <2>4. IsRemoval(Without(f, x), f, p + 1)
    BY <1>2, <1>3, <2>3, WithoutIs, Zenon
  <2>5. Framed(w) \in Seq(Int) /\ Len(Framed(w)) = Len(w) + 3 /\ IsFramed(Framed(w), w, Len(w))
    BY <2>2, FrameIsFramed, Zenon
  <2> HIDE DEF p, n, f, w
  <2>6. Fewer(w, a, p, n)
    BY <2>2, Zenon DEF IsRemoval, Fewer
  <2>7. IsFramed(Framed(w), w, n - 1)
    BY <2>2, <2>5, Zenon
  <2>8. Fewer(Framed(w), f, p + 1, n + 3)
    BY <1>1, <1>2, <2>1, <2>6, <2>7, FrameOfFewer, Zenon
  <2>9. Len(Framed(w)) = Len(f) - 1 /\ Len(f) - 1 = (n + 3) - 1
    BY <1>1, <1>2, <2>2, <2>5
  <2>10. IsRemoval(Framed(w), f, p + 1)
    BY <2>5, <2>8, <2>9, Zenon DEF IsRemoval, Fewer
  <2>11. p + 1 \in 1 .. Len(f)
    BY <1>1, <1>2, <2>1
  <2>12. Without(f, x) = Framed(w)
    BY <1>2, <2>4, <2>10, <2>11, RemovalIsOne, Zenon
  <2> QED
    BY <2>12, Zenon DEF f, w
<1> QED
  BY <1>4, <1>5, Zenon

LEMMA FramedInsertion ==
  ASSUME NEW a, IsList(a), NEW x \in Int, NEW k \in 1 .. Len(a) + 1
  PROVE  WithBefore(Framed(a), x, k + 1) = Framed(WithBefore(a, x, k))
<1> DEFINE n == Len(a)
           f == Framed(a)
           w == WithBefore(a, x, k)
<1>1. a \in Seq(Int) /\ n \in Nat /\ k \in 1 .. n + 1
  BY LenProperties DEF IsList
<1>2. f \in Seq(Int) /\ Len(f) = n + 3 /\ IsFramed(f, a, n)
  BY <1>1, FrameIsFramed, Zenon
<1>3. IsInsertion(w, a, x, k)
  BY <1>1, InsertionsAre, Zenon
<1>4. w \in Seq(Int) /\ Len(w) = n + 1 /\ More(w, a, x, k, n)
  BY <1>3, Zenon DEF IsInsertion, More
<1>5. Framed(w) \in Seq(Int) /\ Len(Framed(w)) = Len(w) + 3 /\ IsFramed(Framed(w), w, Len(w))
  BY <1>4, FrameIsFramed, Zenon
<1> HIDE DEF n, f, w
<1>6. IsFramed(Framed(w), w, n + 1)
  BY <1>4, <1>5, Zenon
<1>7. More(Framed(w), f, x, k + 1, n + 3)
  BY <1>1, <1>2, <1>4, <1>6, FrameOfMore, Zenon
<1>8. Len(Framed(w)) = Len(f) + 1 /\ Len(f) + 1 = (n + 3) + 1
  BY <1>1, <1>2, <1>4, <1>5
<1>9. IsInsertion(Framed(w), f, x, k + 1)
  BY <1>5, <1>7, <1>8, Zenon DEF IsInsertion, More
<1>10. k + 1 \in 1 .. Len(f) + 1
  BY <1>1, <1>2
<1>11. IsInsertion(WithBefore(f, x, k + 1), f, x, k + 1)
  BY <1>2, <1>10, InsertionsAre, Zenon
<1>12. WithBefore(f, x, k + 1) = Framed(w)
  BY <1>2, <1>9, <1>10, <1>11, InsertionIsOne, Zenon
<1> QED
  BY <1>12, Zenon DEF f, w

(* Whatever hangs below a tag: the tag, the children of what hangs below   *)
(* it, and nothing that some closed set with the tag lacks.                *)
LEMMA DescendantsAre ==
  ASSUME NEW tree, NEW t \in DOMAIN tree, IsClosed(tree, DOMAIN tree)
  PROVE  /\ Descendants(tree, t) \subseteq DOMAIN tree
         /\ t \in Descendants(tree, t)
         /\ IsClosed(tree, Descendants(tree, t))
         /\ \A S \in SUBSET DOMAIN tree : t \in S /\ IsClosed(tree, S) => Descendants(tree, t) \subseteq S
<1> DEFINE C == {S \in SUBSET (HungIn(tree) \ {t}) : IsClosed(tree, S \cup {t})}
<1>1. Descendants(tree, t) = {d \in DOMAIN tree : \A S \in C : d \in S \cup {t}}
  BY Zenon DEF Descendants
<1>2. t \in Descendants(tree, t)
  BY <1>1, Zenon
<1>3. IsClosed(tree, Descendants(tree, t))
  <2> SUFFICES ASSUME NEW d \in Descendants(tree, t), NEW e \in ToSet(tree[d]) PROVE e \in Descendants(tree, t)
    BY DEF IsClosed
  <2>1. d \in DOMAIN tree /\ \A S \in C : d \in S \cup {t}
    BY <1>1, Zenon
  <2>2. e \in DOMAIN tree
    BY <2>1 DEF IsClosed
  <2>3. ASSUME NEW S \in C PROVE e \in S \cup {t}
    <3>1. IsClosed(tree, S \cup {t}) /\ d \in S \cup {t}
      BY <2>1
    <3> QED
      BY <3>1 DEF IsClosed
  <2> QED
    BY <1>1, <2>2, <2>3, Zenon
<1>4. ASSUME NEW S \in SUBSET DOMAIN tree, t \in S, IsClosed(tree, S) PROVE Descendants(tree, t) \subseteq S
  <2> DEFINE R == S \cap (HungIn(tree) \ {t})
  <2>1. ASSUME NEW u \in R \cup {t}, NEW e \in ToSet(tree[u]) PROVE e \in R \cup {t}
    <3>1. u \in S /\ u \in DOMAIN tree
      BY <1>4
    <3>2. e \in S
      BY <1>4, <3>1 DEF IsClosed
    <3>3. e \in HungIn(tree)
      BY <3>1, <2>1, Zenon DEF HungIn
    <3> QED
      BY <3>2, <3>3
  <2>2. IsClosed(tree, R \cup {t})
    BY <2>1 DEF IsClosed
  <2>3. R \in C
    BY <2>2
  <2>4. R \cup {t} \subseteq S
    BY <1>4
  <2> QED
    BY <1>1, <2>3, <2>4
<1> QED
  BY <1>1, <1>2, <1>3, <1>4, Zenon

-----------------------------------------------------------------------------
(* The inductive invariant. Tags are numbered upwards from the container's *)
(* and never used again; the lists asked for are a forest in which nothing *)
(* has two places; each host shows them, attached or not; and a native     *)
(* view has no parent if its instance has none, so that it can be placed.  *)
TagsAreNew ==
  /\ host \in {"native", "dom", "arrays"}
  /\ nextReactTag \in Int /\ nextReactTag >= 3
  /\ \A t \in DOMAIN asked : t \in Int /\ 1 <= t /\ t < nextReactTag
  /\ Container \in DOMAIN asked

HasOnePlace(tree) ==
  /\ \A t \in DOMAIN tree : IsList(tree[t]) /\ ToSet(tree[t]) \subseteq DOMAIN tree \ {Container}
  /\ \A t, u \in DOMAIN tree : \A x \in ToSet(tree[t]) : x \in ToSet(tree[u]) => t = u

Shown(t, list) ==
  IF t = Container /\ host = "dom" THEN Framed(list) ELSE IF t = Container /\ host = "native" THEN <<>> ELSE list

ListsAreShown == children = [t \in DOMAIN asked |-> Shown(t, asked[t])]

ViewsMirror ==
  /\ views \in [DOMAIN views -> [children : Seq(Int), parent : Int \cup {NoParent}]]
  /\ \A t \in DOMAIN views : t \in Int /\ t < nextReactTag
  /\ \A t \in DOMAIN asked : t \in DOMAIN views /\ views[t].children = asked[t]
  /\ \A t \in Unplaced : views[t].parent = NoParent
  /\ Len(asked[Container]) <= 1
  /\ instanceCache = DOMAIN asked \ {Container}

HostsInv ==
  /\ TagsAreNew /\ asked = [t \in DOMAIN asked |-> asked[t]] /\ HasOnePlace(asked) /\ ListsAreShown /\ ~refused
  /\ host = "native" => ViewsMirror

LEMMA HostsInvShows == HostsInv => HostShowsTree
<1> SUFFICES ASSUME HostsInv PROVE HostShowsTree
  OBVIOUS
<1>1. ~refused /\ (host = "native" => instanceCache = DOMAIN asked \ {Container})
  BY Zenon DEF HostsInv, ViewsMirror
<1>2. ASSUME NEW t \in DOMAIN asked
      PROVE  /\ children[t] = IF t = Container /\ host = "dom" THEN <<-1>> \o asked[t] \o <<Comment, -2>>
                              ELSE IF t = Container /\ host = "native" THEN <<>> ELSE asked[t]
             /\ host = "native" => views[t].children = asked[t]
  <2>1. children[t] = Shown(t, asked[t])
    BY <1>2, Zenon DEF HostsInv, ListsAreShown
  <2>2. host = "native" => views[t].children = asked[t]
    BY <1>2, Zenon DEF HostsInv, ViewsMirror
  <2> QED
    BY <2>1, <2>2, Zenon DEF Shown, Framed
<1> QED
  BY <1>1, <1>2, Zenon DEF HostShowsTree

LEMMA HostInitInv == HostInit => HostsInv
<1> SUFFICES ASSUME HostInit PROVE HostsInv
  OBVIOUS
<1>1. DOMAIN asked = {Container} /\ asked[Container] = <<>> /\ asked = [t \in DOMAIN asked |-> asked[t]]
  BY DEF HostInit
<1>2. TagsAreNew
  BY <1>1 DEF HostInit, TagsAreNew, Container
<1>3. <<>> \in Seq(Int) /\ Len(<<>>) = 0
  BY EmptySeq
<1>4. \A x : x \notin ToSet(<<>>)
  <2>1. \A i : ~(i \in 1 .. Len(<<>>))
    BY <1>3
  <2> QED
    BY <1>3, <2>1, ToSetIs, Zenon
<1>5. IsList(<<>>)
  <2>1. \A i : ~(i \in 1 .. Len(<<>>))
    BY <1>3
  <2> QED
    BY <1>3, <1>4, <2>1, Zenon DEF IsList, Distinct
<1>6. HasOnePlace(asked)
  BY <1>1, <1>4, <1>5 DEF HasOnePlace
<1>7. ListsAreShown
  <2>1. Framed(<<>>) = <<-1, Comment, -2>>
    <3> DEFINE f == Framed(<<>>)
               g == <<-1, 0, -2>>
    <3>1. /\ f \in Seq(Int) /\ Len(f) = Len(<<>>) + 3
          /\ \A j \in 1 .. Len(<<>>) + 3 :
               f[j] = IF j = 1 THEN -1 ELSE IF j <= Len(<<>>) + 1 THEN (<<>>)[j - 1] ELSE IF j = Len(<<>>) + 2 THEN 0 ELSE -2
      BY <1>3, FramedIs, Zenon
    <3> HIDE DEF f
    <3>2. Len(f) = 3 /\ \A j \in 1 .. 3 : f[j] = IF j = 1 THEN -1 ELSE IF j = 2 THEN 0 ELSE -2
      BY <1>3, <3>1
    <3>3. g \in Seq(Int) /\ Len(g) = 3 /\ g[1] = -1 /\ g[2] = 0 /\ g[3] = -2
      OBVIOUS
    <3> HIDE DEF g
    <3>4. \A j \in 1 .. 3 : f[j] = g[j]
      BY <3>2, <3>3
    <3>6. f \in Seq(Int) /\ Len(f) = Len(g) /\ \A j \in 1 .. Len(f) : f[j] = g[j]
      BY <3>1, <3>2, <3>3, <3>4, Zenon
    <3>5. f = g
      BY <3>3, <3>6, SeqEqual
    <3> QED
      BY <3>5, Zenon DEF f, g, Comment
  <2>2. children = [t \in {Container} |-> IF host = "dom" THEN <<-1, Comment, -2>> ELSE <<>>]
    BY Zenon DEF HostInit
  <2>3. \A t \in {Container} : Shown(t, asked[t]) = IF host = "dom" THEN <<-1, Comment, -2>> ELSE <<>>
    BY <1>1, <2>1 DEF Shown
  <2> QED
    BY <1>1, <2>2, <2>3 DEF ListsAreShown
<1>8. ASSUME host = "native" PROVE ViewsMirror
  <2>1. views = [t \in {Container} |-> [children |-> <<>>, parent |-> NoParent]]
    BY <1>8 DEF HostInit
  <2>2. DOMAIN views = {Container} /\ views[Container] = [children |-> <<>>, parent |-> NoParent]
    BY <2>1
  <2>3. views \in [DOMAIN views -> [children : Seq(Int), parent : Int \cup {NoParent}]]
    BY <2>1, <1>3
  <2>4. Unplaced = {}
    BY <1>1 DEF Unplaced
  <2>5. instanceCache = DOMAIN asked \ {Container}
    BY <1>1 DEF HostInit
  <2>6. Container \in Int /\ Container < nextReactTag
    BY DEF HostInit, Container
  <2> QED
    BY <1>1, <1>3, <2>2, <2>3, <2>4, <2>5, <2>6 DEF ViewsMirror
<1> QED
  BY <1>1, <1>2, <1>6, <1>7, <1>8, Zenon DEF HostsInv, HostInit

LEMMA UnplacedAre ==
  ASSUME HostsInv, NEW c \in Unplaced
  PROVE  c \in DOMAIN asked /\ c # Container /\ c \in Int /\ c >= 1 /\ \A t \in DOMAIN asked : c \notin ToSet(asked[t])
BY DEF Unplaced, HostsInv, TagsAreNew

(* The children a new instance is made with.                               *)
LEMMA InitialChildrenAre ==
  ASSUME HostsInv, NEW initial \in InitialChildren
  PROVE  IsList(initial) /\ ToSet(initial) \subseteq Unplaced
<1>1. PICK n \in 0 .. MaxInitialChildren : initial \in [1 .. n -> Unplaced] /\ IsInjective(initial)
  BY DEF InitialChildren
<1>2. n \in Nat
  BY HostAssumption
<1>3. \A i \in 1 .. n : initial[i] \in Unplaced /\ initial[i] \in Int /\ initial[i] >= 1
  BY <1>1, UnplacedAre
<1>4. initial = [i \in 1 .. n |-> initial[i]] /\ DOMAIN initial = 1 .. n
  BY <1>1
<1> DEFINE e(i) == initial[i]
<1>5. \A i \in 1 .. n : e(i) \in Int
  BY <1>3
<1>6. initial = [i \in 1 .. n |-> e(i)]
  BY <1>4, Zenon
<1> HIDE DEF e
<1>7. [i \in 1 .. n |-> e(i)] \in Seq(Int)
  BY <1>2, <1>5, IsASeq
<1>8. initial \in Seq(Int)
  BY <1>6, <1>7, Zenon
<1>9. 1 .. Len(initial) = 1 .. n
  BY <1>4, <1>8, LenProperties
<1>10. Distinct(initial)
  BY <1>1, <1>4, <1>9, Zenon DEF Distinct, IsInjective
<1>11. \A x \in ToSet(initial) : x \in Unplaced /\ x >= 1
  <2> TAKE x \in ToSet(initial)
  <2>1. PICK i \in 1 .. n : initial[i] = x
    BY <1>8, <1>9, ToSetIs, Zenon
  <2> QED
    BY <1>3, <2>1, Zenon
<1> QED
  BY <1>8, <1>10, <1>11 DEF IsList

LEMMA AllocatedTagIs ==
  ASSUME HostsInv
  PROVE  /\ allocateTag \in Int /\ allocateTag >= nextReactTag /\ allocateTag # Container
         /\ allocateTag \notin DOMAIN asked
<1>1. nextReactTag \in Int /\ nextReactTag >= 3 /\ \A t \in DOMAIN asked : t \in Int /\ t < nextReactTag
  BY DEF HostsInv, TagsAreNew
<1>2. allocateTag = nextReactTag \/ allocateTag = nextReactTag + 2
  BY Zenon DEF allocateTag
<1>3. allocateTag \in Int /\ allocateTag >= nextReactTag
  BY <1>1, <1>2
<1> QED
  BY <1>1, <1>3 DEF Container

LEMMA CreateInstanceKeeps ==
  ASSUME HostsInv, NEW initial \in InitialChildren, createInstance(initial)
  PROVE  HostsInv'
<1> DEFINE D == DOMAIN asked
<1> SUFFICES ASSUME NEW tag, tag = allocateTag PROVE HostsInv'
  OBVIOUS
<1>1. /\ nextReactTag' = tag + 2 /\ host' = host
      /\ children' = [t \in DOMAIN children \cup {tag} |-> IF t = tag THEN initial ELSE children[t]]
      /\ asked' = [t \in D \cup {tag} |-> IF t = tag THEN initial ELSE asked[t]]
  BY DEF createInstance
<1>2. tag \in Int /\ tag >= nextReactTag /\ tag # Container /\ tag \notin D
  BY AllocatedTagIs
<1>3. IsList(initial) /\ ToSet(initial) \subseteq Unplaced
  BY InitialChildrenAre, Zenon
<1>4. \A x \in ToSet(initial) : x \in D /\ x # Container /\ \A t \in D : x \notin ToSet(asked[t])
  BY <1>3, UnplacedAre
<1>5. TagsAreNew /\ HasOnePlace(asked) /\ children = [t \in D |-> Shown(t, asked[t])]
  BY Zenon DEF HostsInv, ListsAreShown
<1>6. DOMAIN asked' = D \cup {tag} /\ asked'[tag] = initial /\ \A t \in D : asked'[t] = asked[t]
  BY <1>1, <1>2
<1>7. asked' = [t \in DOMAIN asked' |-> asked'[t]]
  BY <1>1
<1>8. TagsAreNew'
  <2>1. nextReactTag' \in Int /\ nextReactTag' >= 3 /\ nextReactTag < nextReactTag' /\ tag < nextReactTag' /\ 1 <= tag
    BY <1>1, <1>2, <1>5 DEF TagsAreNew
  <2> QED
    BY <1>1, <1>2, <1>5, <1>6, <2>1 DEF TagsAreNew
<1>9. HasOnePlace(asked')
  <2>1. ASSUME NEW t \in D \cup {tag} PROVE IsList(asked'[t]) /\ ToSet(asked'[t]) \subseteq (D \cup {tag}) \ {Container}
    <3>1. CASE t = tag
      BY <1>3, <1>4, <1>6, <3>1
    <3>2. CASE t \in D
      BY <1>5, <1>6, <3>2 DEF HasOnePlace
    <3> QED
      BY <3>1, <3>2
  <2>2. ASSUME NEW t \in D \cup {tag}, NEW u \in D \cup {tag}, NEW x \in ToSet(asked'[t]), x \in ToSet(asked'[u]) PROVE t = u
    <3>1. CASE t \in D /\ u \in D
      BY <1>5, <1>6, <2>2, <3>1 DEF HasOnePlace
    <3>2. CASE t = tag /\ u \in D
      BY <1>4, <1>6, <2>2, <3>2, Zenon
    <3>3. CASE t \in D /\ u = tag
      BY <1>4, <1>6, <2>2, <3>3, Zenon
    <3> QED
      BY <3>1, <3>2, <3>3
  <2> QED
    BY <1>6, <2>1, <2>2, Zenon DEF HasOnePlace
<1>10. ListsAreShown'
  <2>1. DOMAIN children = D /\ \A t \in D : children[t] = Shown(t, asked[t])
    BY <1>5
  <2>2. \A t \in D : Shown(t, asked[t])' = Shown(t, asked[t])
    BY <1>1, <1>6, Zenon DEF Shown
  <2>3. Shown(tag, asked[tag])' = initial
    BY <1>2, <1>6, Zenon DEF Shown
  <2>4. children' = [t \in D \cup {tag} |-> Shown(t, asked[t])']
    <3>1. \A t \in D \cup {tag} : (IF t = tag THEN initial ELSE children[t]) = Shown(t, asked[t])'
      BY <1>2, <2>1, <2>2, <2>3, Zenon
    <3> QED
      BY <1>1, <2>1, <3>1, Zenon
  <2> QED
    BY <1>6, <2>4 DEF ListsAreShown
<1>11. CASE host = "native"
  <2>1. ViewsMirror /\ ~refused
    BY <1>11, Zenon DEF HostsInv
  <2>2. /\ views' = [t \in DOMAIN views \cup {tag} |->
                       IF t = tag THEN [children |-> initial, parent |-> NoParent]
                       ELSE IF t \in ToSet(initial) THEN [views[t] EXCEPT !.parent = tag] ELSE views[t]]
        /\ refused' = (refused \/ tag \in DOMAIN views \/ \E t \in ToSet(initial) : views[t].parent # NoParent)
        /\ instanceCache' = instanceCache \cup {tag}
    BY <1>11 DEF createInstance
  <2>3. /\ \A t \in DOMAIN views : views[t] \in [children : Seq(Int), parent : Int \cup {NoParent}] /\ t \in Int /\ t < nextReactTag
        /\ \A t \in D : t \in DOMAIN views /\ views[t].children = asked[t]
        /\ \A t \in Unplaced : views[t].parent = NoParent
        /\ Len(asked[Container]) <= 1 /\ instanceCache = D \ {Container}
    BY <2>1 DEF ViewsMirror
  <2>4. tag \notin DOMAIN views
    BY <1>2, <1>5, <2>3 DEF TagsAreNew
  <2>5. ~refused'
    BY <1>3, <2>1, <2>2, <2>3, <2>4
  <2>6. /\ DOMAIN views' = DOMAIN views \cup {tag}
        /\ views'[tag] = [children |-> initial, parent |-> NoParent]
        /\ \A t \in DOMAIN views : views'[t] = IF t \in ToSet(initial) THEN [views[t] EXCEPT !.parent = tag] ELSE views[t]
    BY <2>2, <2>4
  <2>7. views'[tag] \in [children : Seq(Int), parent : Int \cup {NoParent}]
    BY <1>3, <2>6 DEF IsList
  <2>8. ASSUME NEW t \in DOMAIN views
        PROVE  /\ views'[t] \in [children : Seq(Int), parent : Int \cup {NoParent}]
               /\ views'[t].children = views[t].children
               /\ t \notin ToSet(initial) => views'[t] = views[t]
    <3>1. views[t] \in [children : Seq(Int), parent : Int \cup {NoParent}]
      BY <2>3
    <3>2. CASE t \in ToSet(initial)
      <4>1. views'[t] = [views[t] EXCEPT !.parent = tag]
        BY <2>6, <3>2
      <4> QED
        BY <1>2, <3>1, <3>2, <4>1
    <3>3. CASE t \notin ToSet(initial)
      <4>1. views'[t] = views[t]
        BY <2>6, <3>3
      <4> QED
        BY <3>1, <4>1
    <3> QED
      BY <3>2, <3>3
  <2>9. views' \in [DOMAIN views' -> [children : Seq(Int), parent : Int \cup {NoParent}]]
    <3>1. views' = [t \in DOMAIN views' |-> views'[t]]
      BY <2>2
    <3>2. \A t \in DOMAIN views' : views'[t] \in [children : Seq(Int), parent : Int \cup {NoParent}]
      BY <2>6, <2>7, <2>8, Zenon
    <3> QED
      BY <3>1, <3>2
  <2>10. \A t \in DOMAIN views' : t \in Int /\ t < nextReactTag'
    BY <1>1, <1>2, <1>5, <2>3, <2>6 DEF TagsAreNew
  <2>11. \A t \in DOMAIN asked' : t \in DOMAIN views' /\ views'[t].children = asked'[t]
    <3>1. views'[tag].children = initial
      BY <2>6
    <3> QED
      BY <1>6, <2>3, <2>6, <2>8, <3>1
  <2>12. \A t \in Unplaced' : views'[t].parent = NoParent
    <3> SUFFICES ASSUME NEW t \in Unplaced' PROVE views'[t].parent = NoParent
      OBVIOUS
    <3>1. t \in D \cup {tag} /\ t # Container /\ \A u \in D \cup {tag} : t \notin ToSet(asked'[u])
      BY <1>6 DEF Unplaced
    <3>2. CASE t = tag
      BY <2>6, <3>2
    <3>3. CASE t \in D
      <4>1. t \notin ToSet(initial) /\ \A u \in D : t \notin ToSet(asked[u])
        BY <1>6, <3>1
      <4>2. t \in Unplaced
        BY <3>1, <3>3, <4>1 DEF Unplaced
      <4> QED
        BY <2>3, <2>8, <3>3, <4>1, <4>2
    <3> QED
      BY <3>1, <3>2, <3>3
  <2>13. Len(asked'[Container]) <= 1 /\ instanceCache' = DOMAIN asked' \ {Container}
    BY <1>2, <1>5, <1>6, <2>2, <2>3 DEF TagsAreNew
  <2>14. ViewsMirror'
    BY <2>9, <2>10, <2>11, <2>12, <2>13, Zenon DEF ViewsMirror
  <2> QED
    BY <1>7, <1>8, <1>9, <1>10, <2>5, <2>14, Zenon DEF HostsInv
<1>12. CASE host # "native"
  <2>1. ~refused'
    BY <1>12, Zenon DEF HostsInv, createInstance
  <2> QED
    BY <1>1, <1>7, <1>8, <1>9, <1>10, <1>12, <2>1, Zenon DEF HostsInv
<1> QED
  BY <1>11, <1>12, Zenon

(* Views of which one has other children, and one another parent.          *)
View == [children : Seq(Int), parent : Int \cup {NoParent}]

IsChanged(new, old, p, list, c, q) ==
  /\ new \in [DOMAIN old -> View]
  /\ \A t \in DOMAIN old : /\ new[t].children = IF t = p THEN list ELSE old[t].children
                           /\ new[t].parent = IF t = c THEN q ELSE old[t].parent

LEMMA ViewsChange ==
  ASSUME NEW old, old \in [DOMAIN old -> View], NEW p \in DOMAIN old, NEW list \in Seq(Int),
         NEW c \in DOMAIN old, NEW q \in Int \cup {NoParent}
  PROVE  IsChanged([old EXCEPT ![p].children = list, ![c].parent = q], old, p, list, c, q)
<1> DEFINE one == [old EXCEPT ![p].children = list]
           two == [one EXCEPT ![c].parent = q]
<1>1. \A t \in DOMAIN old : old[t] \in View
  BY Zenon
<1>2. DOMAIN one = DOMAIN old /\ one[p] = [old[p] EXCEPT !.children = list] /\ \A t \in DOMAIN old : t # p => one[t] = old[t]
  OBVIOUS
<1>3. \A t \in DOMAIN old : one[t] \in View /\ one[t].children = (IF t = p THEN list ELSE old[t].children) /\ one[t].parent = old[t].parent
  <2> TAKE t \in DOMAIN old
  <2> HIDE DEF one
  <2>1. CASE t = p
    BY <1>1, <1>2, <2>1 DEF View
  <2>2. CASE t # p
    BY <1>1, <1>2, <2>2, Zenon
  <2> QED
    BY <2>1, <2>2
<1>4. two = [old EXCEPT ![p].children = list, ![c].parent = q]
  OBVIOUS
<1>5. two = [t \in DOMAIN one |-> IF t = c THEN [one[c] EXCEPT !.parent = q] ELSE one[t]]
  BY <1>2
<1> HIDE DEF one, two
<1>6. DOMAIN two = DOMAIN old /\ two[c] = [one[c] EXCEPT !.parent = q] /\ \A t \in DOMAIN old : t # c => two[t] = one[t]
  BY <1>2, <1>5
<1>7. \A t \in DOMAIN old : two[t] \in View /\ two[t].children = one[t].children /\ two[t].parent = (IF t = c THEN q ELSE one[t].parent)
  <2> TAKE t \in DOMAIN old
  <2>1. CASE t = c
    BY <1>3, <1>6, <2>1 DEF View
  <2>2. CASE t # c
    BY <1>3, <1>6, <2>2, Zenon
  <2> QED
    BY <2>1, <2>2
<1>8. two \in [DOMAIN old -> View]
  BY <1>2, <1>5, <1>6, <1>7
<1>9. IsChanged(two, old, p, list, c, q)
  BY <1>3, <1>7, <1>8, Zenon DEF IsChanged
<1> QED
  BY <1>4, <1>9, Zenon

LEMMA InsertSubviewIs ==
  ASSUME NEW old, old \in [DOMAIN old -> View], NEW p \in DOMAIN old, p \in Int, NEW c \in DOMAIN old, c \in Int,
         old[c].parent = NoParent, NEW k \in 1 .. Len(old[p].children) + 1, NEW b, b = TRUE
  PROVE  LET v == InsertSubview([tree |-> old, ok |-> b], p, c, k - 1)
         IN  v.ok = TRUE /\ IsChanged(v.tree, old, p, WithBefore(old[p].children, c, k), c, p)
<1> DEFINE a == [tree |-> old, ok |-> b]
           v == InsertSubview(a, p, c, k - 1)
           list == WithBefore(old[p].children, c, k)
           new == [old EXCEPT ![p].children = list, ![c].parent = p]
<1>1. old[p].children \in Seq(Int) /\ Len(old[p].children) \in Nat
  <2>1. old[p].children \in Seq(Int)
    BY DEF View
  <2> QED
    BY <2>1, LenProperties
<1>2. k - 1 \in 0 .. Len(old[p].children) /\ (k - 1) + 1 = k
  BY <1>1
<1>3. a.tree = old /\ a.ok = b
  BY Zenon
<1> HIDE DEF a
<1>4. v.tree = new /\ v.ok = TRUE
  <2>1. a.ok /\ a.tree[c].parent = NoParent /\ k - 1 \in 0 .. Len(a.tree[p].children)
    BY <1>2, <1>3, Zenon
  <2>2. v.tree = [a.tree EXCEPT ![p].children = WithBefore(@, c, (k - 1) + 1), ![c].parent = p]
    BY <2>1, Zenon DEF InsertSubview
  <2>3. v.ok = (a.ok /\ a.tree[c].parent = NoParent /\ k - 1 \in 0 .. Len(a.tree[p].children))
    BY Zenon DEF InsertSubview
  <2>4. [a.tree EXCEPT ![p].children = WithBefore(@, c, (k - 1) + 1), ![c].parent = p] = new
    BY <1>2, <1>3, Zenon
  <2> QED
    BY <2>1, <2>2, <2>3, <2>4, Zenon
<1>5. list \in Seq(Int)
  BY <1>1, InsertionsAre, Zenon DEF IsInsertion
<1>6. IsChanged(new, old, p, list, c, p)
  BY <1>5, ViewsChange
<1> QED
  BY <1>4, <1>6, Zenon DEF a

LEMMA RemoveSubviewIs ==
  ASSUME NEW old, old \in [DOMAIN old -> View], NEW p \in DOMAIN old, NEW i \in 1 .. Len(old[p].children),
         old[p].children[i] \in DOMAIN old
  PROVE  IsChanged(RemoveSubview(old, p, i - 1), old, p, RemoveAt(old[p].children, i), old[p].children[i], NoParent)
<1> DEFINE list == RemoveAt(old[p].children, i)
           c == old[p].children[i]
<1>1. old[p].children \in Seq(Int)
  BY DEF View
<1>2. list \in Seq(Int)
  BY <1>1, RemovalsAre, Zenon DEF IsRemoval
<1>3. (i - 1) + 1 = i
  BY <1>1, LenProperties
<1>4. RemoveSubview(old, p, i - 1) = [old EXCEPT ![p].children = list, ![c].parent = NoParent]
  BY <1>3, Zenon DEF RemoveSubview
<1>5. NoParent \in Int \cup {NoParent} /\ c \in DOMAIN old
  OBVIOUS
<1> HIDE DEF list, c
<1>6. IsChanged([old EXCEPT ![p].children = list, ![c].parent = NoParent], old, p, list, c, NoParent)
  BY <1>2, <1>5, ViewsChange, Zenon
<1> QED
  BY <1>4, <1>6, Zenon DEF list, c

(* The list of a parent, when a child is moved in it or comes to it.       *)
Placed(parent, child, k) == WithBefore(Without(asked[parent], child), child, k)

LEMMA ListsAre ==
  ASSUME HostsInv, NEW t \in DOMAIN asked
  PROVE  /\ t \in Int /\ IsList(asked[t]) /\ asked[t] \in Seq(Int) /\ Distinct(asked[t])
         /\ \A x \in ToSet(asked[t]) : x \in DOMAIN asked /\ x # Container /\ x \in Int /\ x >= 1
<1>1. IsList(asked[t]) /\ ToSet(asked[t]) \subseteq DOMAIN asked \ {Container}
  BY Zenon DEF HostsInv, HasOnePlace
<1>2. \A x \in DOMAIN asked : x \in Int /\ x >= 1
  BY DEF HostsInv, TagsAreNew
<1> QED
  BY <1>1, <1>2 DEF IsList

LEMMA ViewsAre ==
  ASSUME HostsInv, host = "native"
  PROVE  /\ views \in [DOMAIN views -> View]
         /\ \A t \in DOMAIN views : t \in Int /\ t < nextReactTag
         /\ \A t \in DOMAIN asked : t \in DOMAIN views /\ views[t].children = asked[t]
         /\ \A t \in Unplaced : views[t].parent = NoParent
         /\ Len(asked[Container]) <= 1 /\ instanceCache = DOMAIN asked \ {Container}
BY Zenon DEF HostsInv, ViewsMirror, View

LEMMA MoveIs ==
  ASSUME HostsInv, host = "native", NEW parent \in DOMAIN asked, NEW child \in ToSet(asked[parent]),
         NEW k \in 1 .. Len(Without(asked[parent], child)) + 1
  PROVE  LET v == manageMove(parent, Position(asked[parent], child) - 1, k - 1)
         IN  v.ok = TRUE /\ IsChanged(v.tree, views, parent, Placed(parent, child, k), child, parent)
<1> DEFINE list == asked[parent]
           p == Position(list, child)
           mid == RemoveSubview(views, parent, p - 1)
           rest == Without(list, child)
           yes == TRUE
           w == InsertSubview([tree |-> mid, ok |-> yes], parent, child, k - 1)
<1>1. list \in Seq(Int) /\ Distinct(list) /\ child \in DOMAIN asked /\ child \in Int /\ parent \in Int
  BY ListsAre, Zenon
<1>2. p \in 1 .. Len(list) /\ list[p] = child
  BY <1>1, PositionIs, Zenon
<1>3. rest = RemoveAt(list, p)
  BY <1>1, WithoutIs, Zenon
<1>4. views \in [DOMAIN views -> View] /\ parent \in DOMAIN views /\ child \in DOMAIN views /\ views[parent].children = list
  BY <1>1, ViewsAre, Zenon
<1>5. rest \in Seq(Int)
  BY <1>1, WithoutIs, Zenon
<1>6. IsChanged(mid, views, parent, rest, child, NoParent)
  <2> HIDE DEF p, rest, mid, list
  <2>1. p \in 1 .. Len(views[parent].children) /\ views[parent].children[p] \in DOMAIN views
    BY <1>2, <1>4, Zenon
  <2>2. IsChanged(RemoveSubview(views, parent, p - 1), views, parent, RemoveAt(views[parent].children, p),
                  views[parent].children[p], NoParent)
    BY <1>4, <2>1, RemoveSubviewIs, Zenon
  <2> QED
    BY <1>2, <1>3, <1>4, <2>2, Zenon DEF mid
<1>7. /\ mid \in [DOMAIN views -> View] /\ mid[parent].children = rest /\ mid[child].parent = NoParent
      /\ \A t \in DOMAIN views : /\ t # parent => mid[t].children = views[t].children
                                 /\ t # child => mid[t].parent = views[t].parent
  <2> HIDE DEF mid, rest, list, p
  <2> QED
    BY <1>4, <1>6, Zenon DEF IsChanged
<1>8. (p - 1) + 1 = p /\ p \in DOMAIN list
  BY <1>1, <1>2, LenProperties
<1>9. manageMove(parent, p - 1, k - 1) = w
  <2> HIDE DEF p, mid, rest, list
  <2>1. manageMove(parent, p - 1, k - 1)
          = InsertSubview([tree |-> RemoveSubview(views, parent, p - 1), ok |-> TRUE], parent,
                          views[parent].children[p], k - 1)
    BY <1>4, <1>8, Zenon DEF manageMove
  <2> QED
    BY <1>2, <1>4, <2>1, Zenon DEF mid
<1> HIDE DEF mid, rest, yes, list, p
<1>10. DOMAIN mid = DOMAIN views /\ mid \in [DOMAIN mid -> View]
  BY <1>7
<1>11. yes = TRUE
  BY DEF yes
<1>12. k \in 1 .. Len(mid[parent].children) + 1
  BY <1>7, Zenon DEF rest, list
<1>13. w.ok = TRUE /\ IsChanged(w.tree, mid, parent, WithBefore(mid[parent].children, child, k), child, parent)
  BY <1>1, <1>4, <1>7, <1>10, <1>11, <1>12, InsertSubviewIs, Zenon
<1> HIDE DEF w
<1>14. IsChanged(w.tree, views, parent, WithBefore(rest, child, k), child, parent)
  <2>1. w.tree \in [DOMAIN views -> View]
    BY <1>10, <1>13, Zenon DEF IsChanged
  <2>2. \A t \in DOMAIN views : /\ w.tree[t].children = IF t = parent THEN WithBefore(mid[parent].children, child, k) ELSE mid[t].children
                                /\ w.tree[t].parent = IF t = child THEN parent ELSE mid[t].parent
    BY <1>10, <1>13, Zenon DEF IsChanged
  <2>3. \A t \in DOMAIN views : /\ w.tree[t].children = IF t = parent THEN WithBefore(rest, child, k) ELSE views[t].children
                                /\ w.tree[t].parent = IF t = child THEN parent ELSE views[t].parent
    BY <1>7, <2>2, Zenon
  <2> QED
    BY <2>1, <2>3, Zenon DEF IsChanged
<1> QED
  BY <1>9, <1>13, <1>14, Zenon DEF Placed, rest, p, list

LEMMA AddIs ==
  ASSUME HostsInv, host = "native", NEW parent \in DOMAIN asked, NEW child \in Unplaced, NEW k \in 1 .. Len(asked[parent]) + 1
  PROVE  /\ Placed(parent, child, k) = WithBefore(asked[parent], child, k)
         /\ LET v == manageAdd(parent, child, k - 1)
            IN  v.ok = TRUE /\ IsChanged(v.tree, views, parent, Placed(parent, child, k), child, parent)
<1> DEFINE yes == TRUE
<1>1. child \in DOMAIN asked /\ child \in Int /\ child \notin ToSet(asked[parent])
  BY UnplacedAre, Zenon
<1>2. asked[parent] \in Seq(Int) /\ Distinct(asked[parent]) /\ parent \in Int
  BY ListsAre, Zenon
<1>3. /\ views \in [DOMAIN views -> View] /\ parent \in DOMAIN views /\ child \in DOMAIN views
      /\ views[parent].children = asked[parent] /\ views[child].parent = NoParent
  BY <1>1, ViewsAre, Zenon
<1>4. Without(asked[parent], child) = asked[parent]
  BY <1>1, <1>2, WithoutIs, Zenon
<1>5. manageAdd(parent, child, k - 1) = InsertSubview([tree |-> views, ok |-> yes], parent, child, k - 1)
  BY Zenon DEF manageAdd
<1>6. yes = TRUE
  OBVIOUS
<1>7. k \in 1 .. Len(views[parent].children) + 1
  BY <1>3, Zenon
<1> HIDE DEF yes
<1> DEFINE w == InsertSubview([tree |-> views, ok |-> yes], parent, child, k - 1)
<1>8. w.ok = TRUE /\ IsChanged(w.tree, views, parent, WithBefore(views[parent].children, child, k), child, parent)
  BY <1>1, <1>2, <1>3, <1>6, <1>7, InsertSubviewIs, Zenon
<1> HIDE DEF w
<1>9. manageAdd(parent, child, k - 1) = w
  BY <1>5, Zenon DEF w
<1> QED
  BY <1>3, <1>4, <1>8, <1>9, Zenon DEF Placed

(* What a step does that gives a child a place among a parent's children.  *)
PlacesChild(parent, child, k) ==
  /\ asked' = [asked EXCEPT ![parent] = Placed(parent, child, k)]
  /\ children' = [children EXCEPT ![parent] = Shown(parent, Placed(parent, child, k))]
  /\ ~refused'
  /\ host = "native" => IsChanged(views', views, parent, Placed(parent, child, k), child, parent)
  /\ UNCHANGED <<host, nextReactTag, instanceCache>>

LEMMA PlacingKeeps ==
  ASSUME HostsInv, NEW parent \in DOMAIN asked, NEW child \in Unplaced \cup ToSet(asked[parent]),
         NEW k \in 1 .. Len(Without(asked[parent], child)) + 1,
         parent = Container /\ host = "native" => asked[Container] = <<>>,
         PlacesChild(parent, child, k)
  PROVE  HostsInv'
<1> DEFINE D == DOMAIN asked
<1> SUFFICES ASSUME NEW new, new = Placed(parent, child, k) PROVE HostsInv'
  OBVIOUS
<1>1. /\ asked' = [asked EXCEPT ![parent] = new]
      /\ children' = [children EXCEPT ![parent] = Shown(parent, new)]
      /\ ~refused' /\ host' = host /\ nextReactTag' = nextReactTag /\ instanceCache' = instanceCache
      /\ host = "native" => IsChanged(views', views, parent, new, child, parent)
  BY Zenon DEF PlacesChild
<1>2. asked[parent] \in Seq(Int) /\ Distinct(asked[parent]) /\ IsList(asked[parent])
  BY ListsAre, Zenon
<1>3. child \in D /\ child # Container /\ child \in Int /\ child >= 1 /\ \A t \in D : t # parent => child \notin ToSet(asked[t])
  <2>1. CASE child \in Unplaced
    BY <2>1, UnplacedAre, Zenon
  <2>2. CASE child \in ToSet(asked[parent])
    <3>1. \A t \in D : t # parent => child \notin ToSet(asked[t])
      BY <2>2, Zenon DEF HostsInv, HasOnePlace
    <3> QED
      BY <2>2, <3>1, ListsAre, Zenon
  <2> QED
    BY <2>1, <2>2, Zenon
<1>4. IsList(new) /\ ToSet(new) = ToSet(asked[parent]) \cup {child} /\ Len(new) = Len(Without(asked[parent], child)) + 1
  <2> DEFINE w == Without(asked[parent], child)
  <2>1. w \in Seq(Int) /\ Distinct(w) /\ ToSet(w) = ToSet(asked[parent]) \ {child}
    BY <1>2, WithoutIs, Zenon
  <2>2. child \notin ToSet(w)
    BY <2>1
  <2> HIDE DEF w
  <2>3. k \in 1 .. Len(w) + 1
    BY Zenon DEF w
  <2>4. /\ WithBefore(w, child, k) \in Seq(Int) /\ Distinct(WithBefore(w, child, k))
        /\ Len(WithBefore(w, child, k)) = Len(w) + 1 /\ ToSet(WithBefore(w, child, k)) = ToSet(w) \cup {child}
    BY <1>3, <2>1, <2>2, <2>3, InsertedIs, Zenon
  <2>5. new = WithBefore(w, child, k)
    BY Zenon DEF Placed, w
  <2>6. ToSet(new) = ToSet(asked[parent]) \cup {child}
    BY <2>1, <2>4, <2>5
  <2>7. \A x \in ToSet(new) : x >= 1
    BY <1>2, <1>3, <2>6 DEF IsList
  <2> QED
    BY <2>4, <2>5, <2>6, <2>7, Zenon DEF IsList, w
<1>5. TagsAreNew /\ asked = [t \in D |-> asked[t]] /\ HasOnePlace(asked) /\ children = [t \in D |-> Shown(t, asked[t])]
  BY Zenon DEF HostsInv, ListsAreShown
<1>6. DOMAIN asked' = D /\ asked'[parent] = new /\ \A t \in D : t # parent => asked'[t] = asked[t]
  BY <1>1
<1>7. asked' = [t \in DOMAIN asked' |-> asked'[t]]
  BY <1>1
<1>8. TagsAreNew'
  BY <1>1, <1>5, <1>6, Zenon DEF TagsAreNew
<1>9. HasOnePlace(asked')
  <2>1. ASSUME NEW t \in D PROVE IsList(asked'[t]) /\ ToSet(asked'[t]) \subseteq D \ {Container}
    <3>1. CASE t = parent
      BY <1>3, <1>4, <1>5, <1>6, <3>1 DEF HasOnePlace
    <3>2. CASE t # parent
      BY <1>5, <1>6, <3>2, Zenon DEF HasOnePlace
    <3> QED
      BY <3>1, <3>2
  <2>2. ASSUME NEW t \in D, NEW u \in D, NEW x \in ToSet(asked'[t]), x \in ToSet(asked'[u]) PROVE t = u
    <3>1. \A v \in D : x \in ToSet(asked'[v]) => x \in ToSet(asked[v]) \/ (x = child /\ v = parent)
      BY <1>4, <1>6
    <3>2. \A v \in D : child \in ToSet(asked[v]) => v = parent
      BY <1>3
    <3>3. \A v, s \in D : x \in ToSet(asked[v]) /\ x \in ToSet(asked[s]) => v = s
      BY <1>5, Zenon DEF HasOnePlace
    <3> QED
      BY <2>2, <3>1, <3>2, <3>3
  <2> QED
    BY <1>6, <2>1, <2>2, Zenon DEF HasOnePlace
<1>10. ListsAreShown'
  <2>1. DOMAIN children = D /\ \A t \in D : children[t] = Shown(t, asked[t])
    BY <1>5
  <2>2. \A t \in D : Shown(t, asked[t])' = IF t = parent THEN Shown(parent, new) ELSE children[t]
    BY <1>1, <1>6, <2>1, Zenon DEF Shown
  <2>3. children' = [t \in D |-> IF t = parent THEN Shown(parent, new) ELSE children[t]]
    BY <1>1, <2>1, Zenon
  <2>4. children' = [t \in D |-> Shown(t, asked[t])']
    BY <2>2, <2>3, Zenon
  <2> QED
    BY <1>6, <2>4 DEF ListsAreShown
<1>11. ASSUME host = "native" PROVE ViewsMirror'
  <2>1. /\ views \in [DOMAIN views -> View]
        /\ \A t \in DOMAIN views : t \in Int /\ t < nextReactTag
        /\ \A t \in D : t \in DOMAIN views /\ views[t].children = asked[t]
        /\ \A t \in Unplaced : views[t].parent = NoParent
        /\ Len(asked[Container]) <= 1 /\ instanceCache = D \ {Container}
    BY <1>11, ViewsAre, Zenon
  <2>2. /\ views' \in [DOMAIN views -> View]
        /\ \A t \in DOMAIN views : /\ views'[t].children = IF t = parent THEN new ELSE views[t].children
                                   /\ views'[t].parent = IF t = child THEN parent ELSE views[t].parent
    BY <1>1, <1>11, Zenon DEF IsChanged
  <2>3. DOMAIN views' = DOMAIN views
    BY <2>2
  <2>4. \A t \in D : views'[t].children = asked'[t]
    BY <1>6, <2>1, <2>2, Zenon
  <2>5. ASSUME NEW t \in Unplaced' PROVE views'[t].parent = NoParent
    <3>1. t \in D /\ t # Container /\ \A u \in D : t \notin ToSet(asked'[u])
      BY <1>6, <2>5, Zenon DEF Unplaced
    <3>2. t \notin ToSet(new)
      BY <1>6, <3>1, Zenon
    <3>3. t # child /\ t \notin ToSet(asked[parent])
      BY <1>4, <3>2
    <3>4. \A u \in D : t \notin ToSet(asked[u])
      BY <1>6, <3>1, <3>3, Zenon
    <3>5. t \in Unplaced
      BY <3>1, <3>4 DEF Unplaced
    <3> QED
      BY <2>1, <2>2, <3>1, <3>3, <3>5, Zenon
  <2>6. Len(asked'[Container]) <= 1
    <3>1. CASE parent = Container
      <4>1. asked[parent] = <<>>
        BY <1>11, <3>1, Zenon
      <4>2. child \notin ToSet(asked[parent])
        <5>1. ~ \E i \in 1 .. Len(asked[parent]) : asked[parent][i] = child
          BY <4>1
        <5> QED
          BY <1>2, <5>1, ToSetIs, Zenon
      <4>3. Without(asked[parent], child) = asked[parent]
        BY <1>2, <4>2, WithoutIs, Zenon
      <4>4. Len(new) = Len(asked[parent]) + 1
        BY <1>4, <4>3, Zenon
      <4>5. Len(asked[parent]) = 0
        BY <4>1
      <4>6. Len(new) = 1
        BY <4>4, <4>5
      <4>7. asked'[Container] = new
        BY <1>6, <3>1, Zenon
      <4>8. Len(asked'[Container]) = 1
        BY <4>6, <4>7, Zenon
      <4> QED
        BY <4>8
    <3>2. CASE parent # Container
      BY <1>5, <1>6, <2>1, <3>2 DEF TagsAreNew
    <3> QED
      BY <3>1, <3>2
  <2>7. views' \in [DOMAIN views' -> [children : Seq(Int), parent : Int \cup {NoParent}]]
    BY <2>2, <2>3, Zenon DEF View
  <2> QED
    BY <1>1, <1>6, <2>1, <2>3, <2>4, <2>5, <2>6, <2>7, Zenon DEF ViewsMirror
<1> QED
  BY <1>1, <1>7, <1>8, <1>9, <1>10, <1>11, Zenon DEF HostsInv

LEMMA AppendChildKeeps ==
  ASSUME HostsInv, NEW parent \in DOMAIN asked, NEW child \in Unplaced \cup ToSet(asked[parent]), appendChild(parent, child)
  PROVE  HostsInv'
<1> DEFINE list == asked[parent]
           w == Without(list, child)
           k == Len(w) + 1
<1>1. /\ child \in Unplaced \cup ToSet(list)
      /\ parent = Container /\ host = "native" => list = <<>>
      /\ children' = [children EXCEPT ![parent] =
                        IF parent = Container THEN appendedToContainer(child) ELSE Append(Without(children[parent], child), child)]
      /\ asked' = [asked EXCEPT ![parent] = Append(Without(list, child), child)]
      /\ UNCHANGED <<host, nextReactTag, instanceCache>>
  BY DEF appendChild
<1>2. list \in Seq(Int) /\ Distinct(list) /\ IsList(list) /\ parent \in Int
  BY ListsAre, Zenon
<1>3. child \in DOMAIN asked /\ child \in Int /\ child >= 1 /\ child # Container
  BY <1>1, UnplacedAre, ListsAre, Zenon
<1>4. w \in Seq(Int) /\ Distinct(w) /\ ToSet(w) = ToSet(list) \ {child}
  BY <1>2, WithoutIs, Zenon
<1>5. IsList(w)
  BY <1>2, <1>4 DEF IsList
<1>6. k \in 1 .. Len(w) + 1 /\ Append(w, child) = Placed(parent, child, k)
  BY <1>3, <1>4, AppendedIs, Zenon DEF Placed
<1>7. children[parent] = Shown(parent, list)
  BY Zenon DEF HostsInv, ListsAreShown
<1>8. (IF parent = Container THEN appendedToContainer(child) ELSE Append(Without(children[parent], child), child))
        = Shown(parent, Placed(parent, child, k))
  <2>1. CASE parent # Container
    BY <1>6, <1>7, <2>1, Zenon DEF Shown
  <2>2. CASE parent = Container /\ host = "native"
    BY <2>2, Zenon DEF Shown, appendedToContainer
  <2>3. CASE parent = Container /\ host = "dom"
    <3>1. children[Container] = Framed(list)
      BY <1>7, <2>3, Zenon DEF Shown
    <3>2. Without(children[Container], child) = Framed(w)
      BY <1>2, <1>3, <3>1, FramedWithout, Zenon
    <3>3. Position(Framed(w), Comment) = k + 1
      <4>1. Position(Framed(w), Comment) = Len(w) + 2
        BY <1>5, FrameEntries, Zenon
      <4>2. Len(w) \in Nat
        BY <1>4, LenProperties
      <4> HIDE DEF w
      <4>3. Len(w) + 2 = (Len(w) + 1) + 1
        BY <4>2
      <4> QED
        BY <4>1, <4>3, Zenon
    <3>4. WithBefore(Framed(w), child, k + 1) = Framed(WithBefore(w, child, k))
      BY <1>3, <1>5, <1>6, FramedInsertion, Zenon
    <3>5. appendedToContainer(child) = WithBefore(Framed(w), child, k + 1)
      <4>1. host # "native"
        BY <2>3
      <4> QED
        BY <2>3, <3>2, <3>3, <4>1, Zenon DEF appendedToContainer
    <3> QED
      BY <2>3, <3>4, <3>5, Zenon DEF Shown, Placed
  <2>4. CASE parent = Container /\ host # "native" /\ host # "dom"
    <3>1. children[Container] = list
      BY <1>7, <2>4, Zenon DEF Shown
    <3>2. appendedToContainer(child) = Append(w, child)
      BY <2>4, <3>1, Zenon DEF appendedToContainer
    <3> QED
      BY <1>6, <2>4, <3>2, Zenon DEF Shown
  <2> QED
    BY <2>1, <2>2, <2>3, <2>4, Zenon
<1>9. ASSUME host = "native" PROVE ~refused' /\ IsChanged(views', views, parent, Placed(parent, child, k), child, parent)
  <2> DEFINE v == IF parent = Container THEN setChildren(parent, child)
                  ELSE IF child \in ToSet(children[parent])
                  THEN manageMove(parent, Position(children[parent], child) - 1, Len(children[parent]) - 1)
                  ELSE manageAdd(parent, child, Len(children[parent]))
  <2>1. ViewsBecome(v)
    BY Zenon DEF appendChild
  <2>2. v.ok = TRUE /\ IsChanged(v.tree, views, parent, Placed(parent, child, k), child, parent)
    <3>0. Len(list) \in Nat /\ Len(w) \in Nat
      BY <1>2, <1>4, LenProperties
    <3>1. CASE parent = Container
      <4>1. list = <<>>
        BY <1>1, <1>9, <3>1, Zenon
      <4>2. child \in Unplaced
        <5>1. ~ \E i \in 1 .. Len(list) : list[i] = child
          BY <4>1
        <5>2. child \notin ToSet(list)
          BY <1>2, <5>1, ToSetIs, Zenon
        <5> QED
          BY <1>1, <5>2
      <4>3. child \notin ToSet(list) /\ \A t \in DOMAIN asked : child \notin ToSet(asked[t])
        BY <4>2, UnplacedAre, Zenon
      <4>4. w = list
        BY <1>2, <4>3, WithoutIs, Zenon
      <4>5. k = 1 /\ k - 1 = 0 /\ 1 \in 1 .. Len(list) + 1
        BY <4>1, <4>4
      <4>6. /\ views \in [DOMAIN views -> View] /\ parent \in DOMAIN views /\ child \in DOMAIN views
            /\ views[parent].children = list /\ views[child].parent = NoParent
        BY <1>3, <1>9, <4>2, ViewsAre, Zenon
      <4> DEFINE b == (views[parent].children = <<>>)
                 s == InsertSubview([tree |-> views, ok |-> b], parent, child, k - 1)
      <4>7. b = TRUE
        BY <4>1, <4>6
      <4> HIDE DEF b
      <4>8. k \in 1 .. Len(views[parent].children) + 1
        BY <4>5, <4>6
      <4>9. s.ok = TRUE /\ IsChanged(s.tree, views, parent, WithBefore(views[parent].children, child, k), child, parent)
        BY <1>2, <1>3, <4>6, <4>7, <4>8, InsertSubviewIs, Zenon
      <4>10. v = setChildren(parent, child)
        BY <3>1, Zenon
      <4>11. setChildren(parent, child) = s
        BY <4>5, Zenon DEF setChildren, b
      <4>12. WithBefore(views[parent].children, child, k) = Placed(parent, child, k)
        BY <4>4, <4>6, Zenon DEF Placed
      <4> HIDE DEF v, s
      <4> QED
        BY <4>9, <4>10, <4>11, <4>12, Zenon
    <3>2. CASE parent # Container /\ child \in ToSet(list)
      <4>1. children[parent] = list
        BY <1>7, <3>2, Zenon DEF Shown
      <4>2. Len(w) = Len(list) - 1
        BY <1>2, <3>2, WithoutIs, Zenon
      <4>3. k - 1 = Len(list) - 1
        BY <3>0, <4>2
      <4>4. v = manageMove(parent, Position(list, child) - 1, k - 1)
        BY <3>2, <4>1, <4>3, Zenon
      <4> DEFINE s == manageMove(parent, Position(list, child) - 1, k - 1)
      <4>5. s.ok = TRUE /\ IsChanged(s.tree, views, parent, Placed(parent, child, k), child, parent)
        BY <1>6, <1>9, <3>2, MoveIs, Zenon
      <4> HIDE DEF v, s
      <4>6. v = s
        BY <4>4, Zenon DEF s
      <4> QED
        BY <4>5, <4>6, Zenon
    <3>3. CASE parent # Container /\ child \notin ToSet(list)
      <4>1. children[parent] = list
        BY <1>7, <3>3, Zenon DEF Shown
      <4>2. w = list
        BY <1>2, <3>3, WithoutIs, Zenon
      <4>3. k - 1 = Len(list) /\ k \in 1 .. Len(list) + 1
        BY <3>0, <4>2
      <4>4. child \in Unplaced
        BY <1>1, <3>3
      <4> DEFINE s == manageAdd(parent, child, k - 1)
      <4>5. s.ok = TRUE /\ IsChanged(s.tree, views, parent, Placed(parent, child, k), child, parent)
        BY <1>9, <4>3, <4>4, AddIs, Zenon
      <4>6. v = s
        BY <3>3, <4>1, <4>3, Zenon
      <4> HIDE DEF v, s
      <4> QED
        BY <4>5, <4>6, Zenon
    <3> QED
      BY <3>1, <3>2, <3>3, Zenon
  <2> HIDE DEF v
  <2>3. views' = v.tree /\ refused' = (refused \/ ~v.ok)
    BY <1>9, <2>1, Zenon DEF ViewsBecome
  <2>4. ~refused
    BY Zenon DEF HostsInv
  <2> QED
    BY <2>2, <2>3, <2>4, Zenon
<1>10. host # "native" => ~refused'
  BY Zenon DEF HostsInv, appendChild, ViewsBecome
<1>11. PlacesChild(parent, child, k)
  <2>1. asked' = [asked EXCEPT ![parent] = Placed(parent, child, k)]
    BY <1>1, <1>6, Zenon
  <2>2. children' = [children EXCEPT ![parent] = Shown(parent, Placed(parent, child, k))]
    BY <1>1, <1>8, Zenon
  <2> QED
    BY <1>1, <1>9, <1>10, <2>1, <2>2, Zenon DEF PlacesChild
<1> HIDE DEF k
<1>12. k \in 1 .. Len(Without(asked[parent], child)) + 1
  BY <1>6, Zenon DEF w, list
<1>13. parent = Container /\ host = "native" => asked[Container] = <<>>
  BY <1>1, Zenon
<1>14. child \in Unplaced \cup ToSet(asked[parent])
  BY <1>1, Zenon
<1> HIDE DEF w, list
<1> QED
  BY <1>11, <1>12, <1>13, <1>14, PlacingKeeps, Zenon

LEMMA InsertBeforeKeeps ==
  ASSUME HostsInv, NEW parent \in DOMAIN asked, NEW child \in Unplaced \cup ToSet(asked[parent]),
         NEW before \in ToSet(asked[parent]), insertBefore(parent, child, before)
  PROVE  HostsInv'
<1> DEFINE list == asked[parent]
           w == Without(list, child)
           k == Position(w, before)
           siblings == children[parent]
           at == BeforeIndex(siblings, child, before)
<1>1. /\ child \in Unplaced \cup ToSet(list) /\ before \in ToSet(list) \ {child}
      /\ ~(parent = Container /\ host = "native")
      /\ children' = [children EXCEPT ![parent] = WithBefore(Without(siblings, child), child, at)]
      /\ asked' = [asked EXCEPT ![parent] = [j \in 1 .. Len(w) + 1 |-> IF j < k THEN w[j] ELSE IF j = k THEN child ELSE w[j - 1]]]
      /\ UNCHANGED <<host, nextReactTag, instanceCache>>
  BY DEF insertBefore
<1>2. list \in Seq(Int) /\ Distinct(list) /\ IsList(list) /\ parent \in Int
  BY ListsAre, Zenon
<1>3. child \in DOMAIN asked /\ child \in Int /\ child >= 1 /\ child # Container
  BY <1>1, UnplacedAre, ListsAre, Zenon
<1>4. w \in Seq(Int) /\ Distinct(w) /\ ToSet(w) = ToSet(list) \ {child}
  BY <1>2, WithoutIs, Zenon
<1>5. IsList(w) /\ before \in ToSet(w)
  BY <1>1, <1>2, <1>4 DEF IsList
<1>6. k \in 1 .. Len(w) + 1
  <2>1. k \in 1 .. Len(w)
    BY <1>4, <1>5, PositionIs, Zenon
  <2>2. Len(w) \in Nat
    BY <1>4, LenProperties
  <2> HIDE DEF k, w
  <2> QED
    BY <2>1, <2>2
<1>7. [j \in 1 .. Len(w) + 1 |-> IF j < k THEN w[j] ELSE IF j = k THEN child ELSE w[j - 1]] = Placed(parent, child, k)
  BY <1>3, <1>4, <1>6, AskedIs, Zenon DEF Placed
<1>8. siblings = Shown(parent, list)
  BY Zenon DEF HostsInv, ListsAreShown
<1>9. WithBefore(Without(siblings, child), child, at) = Shown(parent, Placed(parent, child, k))
  <2>1. CASE parent = Container /\ host = "dom"
    <3>1. siblings = Framed(list)
      BY <1>8, <2>1, Zenon DEF Shown
    <3>2. Without(siblings, child) = Framed(w)
      BY <1>2, <1>3, <3>1, FramedWithout, Zenon
    <3>3. at = k + 1
      BY <1>5, <3>2, FrameEntries, Zenon DEF BeforeIndex
    <3>4. WithBefore(Framed(w), child, k + 1) = Framed(WithBefore(w, child, k))
      BY <1>3, <1>5, <1>6, FramedInsertion, Zenon
    <3> QED
      BY <2>1, <3>2, <3>3, <3>4, Zenon DEF Shown, Placed
  <2>2. CASE ~(parent = Container /\ host = "dom")
    BY <1>1, <1>8, <2>2, Zenon DEF Shown, Placed, BeforeIndex
  <2> QED
    BY <2>1, <2>2, Zenon
<1>10. ASSUME host = "native" PROVE ~refused' /\ IsChanged(views', views, parent, Placed(parent, child, k), child, parent)
  <2>1. siblings = list
    BY <1>1, <1>8, <1>10 DEF Shown
  <2>2. at = k
    BY <2>1, Zenon DEF BeforeIndex
  <2> DEFINE v == IF child \in ToSet(list) THEN manageMove(parent, Position(list, child) - 1, k - 1) ELSE manageAdd(parent, child, k - 1)
  <2>3. ViewsBecome(v)
    <3>1. ViewsBecome(IF child \in ToSet(siblings) THEN manageMove(parent, Position(siblings, child) - 1, at - 1)
                      ELSE manageAdd(parent, child, at - 1))
      BY DEF insertBefore
    <3> QED
      BY <2>1, <2>2, <3>1, Zenon
  <2>4. v.ok = TRUE /\ IsChanged(v.tree, views, parent, Placed(parent, child, k), child, parent)
    <3>1. CASE child \in ToSet(list)
      <4> DEFINE s == manageMove(parent, Position(list, child) - 1, k - 1)
      <4>1. s.ok = TRUE /\ IsChanged(s.tree, views, parent, Placed(parent, child, k), child, parent)
        BY <1>6, <1>10, <3>1, MoveIs, Zenon
      <4>2. v = s
        BY <3>1, Zenon
      <4> HIDE DEF v, s
      <4> QED
        BY <4>1, <4>2, Zenon
    <3>2. CASE child \notin ToSet(list)
      <4>1. child \in Unplaced
        BY <1>1, <3>2
      <4>2. w = list
        BY <1>2, <3>2, WithoutIs, Zenon
      <4>3. k \in 1 .. Len(list) + 1
        BY <1>6, <4>2, Zenon
      <4> DEFINE s == manageAdd(parent, child, k - 1)
      <4>4. s.ok = TRUE /\ IsChanged(s.tree, views, parent, Placed(parent, child, k), child, parent)
        BY <1>10, <4>1, <4>3, AddIs, Zenon
      <4>5. v = s
        BY <3>2, Zenon
      <4> HIDE DEF v, s
      <4> QED
        BY <4>4, <4>5, Zenon
    <3> QED
      BY <3>1, <3>2, Zenon
  <2> HIDE DEF v
  <2>5. views' = v.tree /\ refused' = (refused \/ ~v.ok)
    BY <1>10, <2>3, Zenon DEF ViewsBecome
  <2>6. ~refused
    BY Zenon DEF HostsInv
  <2> QED
    BY <2>4, <2>5, <2>6, Zenon
<1>11. host # "native" => ~refused'
  BY Zenon DEF HostsInv, insertBefore, ViewsBecome
<1>12. PlacesChild(parent, child, k)
  <2>1. asked' = [asked EXCEPT ![parent] = Placed(parent, child, k)]
    BY <1>1, <1>7, Zenon
  <2>2. children' = [children EXCEPT ![parent] = Shown(parent, Placed(parent, child, k))]
    BY <1>1, <1>9, Zenon
  <2> QED
    BY <1>1, <1>10, <1>11, <2>1, <2>2, Zenon DEF PlacesChild
<1> HIDE DEF k
<1>13. k \in 1 .. Len(Without(asked[parent], child)) + 1
  BY <1>6, Zenon DEF w, list
<1>14. ~(parent = Container /\ host = "native")
  BY <1>1, Zenon
<1>15. child \in Unplaced \cup ToSet(asked[parent])
  BY <1>1, Zenon
<1> HIDE DEF w, list
<1> QED
  BY <1>12, <1>13, <1>14, <1>15, PlacingKeeps, Zenon

(* What is removed with a child: a tree of its own, whose members have no  *)
(* place outside it; a native container, which keeps no list, is not in it.*)
LEMMA RemovedAre ==
  ASSUME HostsInv, NEW parent \in DOMAIN asked, NEW child \in ToSet(asked[parent])
  PROVE  /\ Descendants(asked, child) \subseteq DOMAIN asked
         /\ child \in Descendants(asked, child) /\ Container \notin Descendants(asked, child)
         /\ \A t \in Descendants(asked, child) : ToSet(asked[t]) \subseteq Descendants(asked, child)
         /\ \A t \in DOMAIN asked \ Descendants(asked, child) :
              ToSet(asked[t]) \ {child} \subseteq DOMAIN asked \ Descendants(asked, child)
<1> DEFINE D == DOMAIN asked
           gone == Descendants(asked, child)
<1>1. child \in D /\ child # Container
  BY ListsAre, Zenon
<1>2. /\ \A t \in D : ToSet(asked[t]) \subseteq D \ {Container}
      /\ \A t, u \in D : \A x \in ToSet(asked[t]) : x \in ToSet(asked[u]) => t = u
  BY Zenon DEF HostsInv, HasOnePlace
<1>3. IsClosed(asked, D)
  BY <1>2 DEF IsClosed
<1>4. /\ gone \subseteq D /\ child \in gone /\ IsClosed(asked, gone)
      /\ \A S \in SUBSET D : child \in S /\ IsClosed(asked, S) => gone \subseteq S
  BY <1>1, <1>3, DescendantsAre, Zenon
<1> HIDE DEF gone
<1>5. Container \notin gone
  <2> DEFINE S == D \ {Container}
  <2>1. S \in SUBSET D /\ child \in S /\ IsClosed(asked, S)
    BY <1>1, <1>2 DEF IsClosed
  <2>2. gone \subseteq S
    BY <1>4, <2>1, Zenon
  <2> QED
    BY <2>2
<1>6. \A t \in gone : ToSet(asked[t]) \subseteq gone
  BY <1>4, Zenon DEF IsClosed
<1>7. ASSUME NEW t \in D \ gone, NEW x \in ToSet(asked[t]), x # child PROVE x \in D \ gone
  <2> SUFFICES ASSUME x \in gone PROVE FALSE
    BY <1>2
  <2> DEFINE S == gone \ {x}
  <2>1. S \in SUBSET D /\ child \in S
    BY <1>4, <1>7
  <2>2. ASSUME NEW u \in S PROVE ToSet(asked[u]) \subseteq S
    <3>1. u \in gone /\ u \in D /\ u # t
      BY <1>4, <1>7, <2>2
    <3>2. x \notin ToSet(asked[u])
      BY <1>2, <1>7, <3>1, Zenon
    <3> QED
      BY <1>6, <3>1, <3>2
  <2>3. IsClosed(asked, S)
    BY <2>2, Zenon DEF IsClosed
  <2>4. gone \subseteq S
    BY <1>4, <2>1, <2>3, Zenon
  <2> QED
    BY <2>4
<1>8. \A t \in D \ gone : ToSet(asked[t]) \ {child} \subseteq D \ gone
  BY <1>7
<1> QED
  BY <1>4, <1>5, <1>6, <1>8, Zenon DEF gone

LEMMA RemovedFibersAre ==
  ASSUME HostsInv, host = "native", NEW parent \in DOMAIN asked, NEW child \in ToSet(asked[parent])
  PROVE  Descendants(children, child) = Descendants(asked, child)
<1> DEFINE D == DOMAIN asked
<1>1. child \in D /\ child # Container
  BY ListsAre, Zenon
<1>2. \A t \in D : ToSet(asked[t]) \subseteq D \ {Container}
  BY Zenon DEF HostsInv, HasOnePlace
<1>3. children = [t \in D |-> Shown(t, asked[t])]
  BY Zenon DEF HostsInv, ListsAreShown
<1>4. DOMAIN children = D /\ \A t \in D : children[t] = Shown(t, asked[t])
  BY <1>3
<1>5. \A t \in D : t # Container => children[t] = asked[t]
  BY <1>4, Zenon DEF Shown
<1>6. ToSet(children[Container]) = {}
  <2>1. children[Container] = <<>>
    <3>1. Container \in D
      BY Zenon DEF HostsInv, TagsAreNew
    <3>2. host # "dom"
      OBVIOUS
    <3> QED
      BY <1>4, <3>1, <3>2, Zenon DEF Shown
  <2>2. ~ \E i \in 1 .. Len(children[Container]) : TRUE
    BY <2>1
  <2>3. children[Container] \in Seq(Int)
    BY <2>1
  <2>4. \A x : x \notin ToSet(children[Container])
    BY <2>2, <2>3, ToSetIs, Zenon
  <2> QED
    BY <2>4
<1>7. \A t \in D : ToSet(children[t]) \subseteq ToSet(asked[t])
  BY <1>5, <1>6
<1>8. IsClosed(asked, D) /\ IsClosed(children, DOMAIN children)
  BY <1>2, <1>4, <1>7 DEF IsClosed
<1>9. /\ Descendants(asked, child) \subseteq D /\ child \in Descendants(asked, child) /\ IsClosed(asked, Descendants(asked, child))
      /\ \A S \in SUBSET D : child \in S /\ IsClosed(asked, S) => Descendants(asked, child) \subseteq S
  BY <1>1, <1>8, DescendantsAre, Zenon
<1>10. /\ Descendants(children, child) \subseteq D /\ child \in Descendants(children, child)
       /\ IsClosed(children, Descendants(children, child))
       /\ \A S \in SUBSET D : child \in S /\ IsClosed(children, S) => Descendants(children, child) \subseteq S
  <2>1. child \in DOMAIN children
    BY <1>1, <1>4, Zenon
  <2>2. /\ Descendants(children, child) \subseteq DOMAIN children /\ child \in Descendants(children, child)
        /\ IsClosed(children, Descendants(children, child))
        /\ \A S \in SUBSET DOMAIN children : child \in S /\ IsClosed(children, S) => Descendants(children, child) \subseteq S
    BY <1>8, <2>1, DescendantsAre, Zenon
  <2> QED
    BY <1>4, <2>2, Zenon
<1>11. Descendants(children, child) \subseteq Descendants(asked, child)
  <2>1. IsClosed(children, Descendants(asked, child))
    BY <1>7, <1>9 DEF IsClosed
  <2> QED
    BY <1>9, <1>10, <2>1
<1>12. Descendants(asked, child) \subseteq Descendants(children, child)
  <2> DEFINE S == Descendants(children, child) \ {Container}
  <2>1. S \in SUBSET D /\ child \in S
    BY <1>1, <1>10
  <2>2. IsClosed(asked, S)
    <3> SUFFICES ASSUME NEW t \in S PROVE ToSet(asked[t]) \subseteq S
      BY Zenon DEF IsClosed
    <3>1. t \in D /\ t # Container /\ t \in Descendants(children, child)
      BY <1>10
    <3>2. ToSet(asked[t]) \subseteq Descendants(children, child)
      BY <1>5, <1>10, <3>1 DEF IsClosed
    <3> QED
      BY <1>2, <3>1, <3>2
  <2>3. Descendants(asked, child) \subseteq S
    BY <1>9, <2>1, <2>2, Zenon
  <2> QED
    BY <2>3
<1> QED
  BY <1>11, <1>12

LEMMA RemoveChildKeeps ==
  ASSUME HostsInv, NEW parent \in DOMAIN asked, NEW child, removeChild(parent, child)
  PROVE  HostsInv'
<1> DEFINE D == DOMAIN asked
           list == asked[parent]
<1> SUFFICES ASSUME NEW gone, gone = Descendants(asked, child) PROVE HostsInv'
  OBVIOUS
<1> SUFFICES ASSUME NEW kept, kept = D \ gone PROVE HostsInv'
  OBVIOUS
<1>1. /\ child \in ToSet(list)
      /\ children' = [t \in kept |-> IF t = parent THEN Without(children[t], child) ELSE children[t]]
      /\ asked' = [t \in kept |-> Without(asked[t], child)]
      /\ instanceCache' = IF host = "native" THEN instanceCache \ Descendants(children, child) ELSE instanceCache
      /\ host' = host /\ nextReactTag' = nextReactTag
  BY DEF removeChild
<1>2. /\ gone \subseteq D /\ child \in gone /\ Container \notin gone
      /\ \A t \in gone : ToSet(asked[t]) \subseteq gone
      /\ \A t \in kept : ToSet(asked[t]) \ {child} \subseteq kept
  BY <1>1, RemovedAre, Zenon
<1>3. child \in D /\ child # Container /\ child \in Int /\ child >= 1
  BY <1>1, ListsAre, Zenon
<1>4. \A t \in D : /\ IsList(asked[t]) /\ asked[t] \in Seq(Int) /\ Distinct(asked[t])
                   /\ Container \notin ToSet(asked[t])
  BY ListsAre, Zenon
<1>5. TagsAreNew /\ HasOnePlace(asked) /\ children = [t \in D |-> Shown(t, asked[t])] /\ ~refused
  BY Zenon DEF HostsInv, ListsAreShown
<1>6. \A t \in kept : t \in D /\ t # child /\ t \notin gone
  BY <1>2
<1>7. DOMAIN asked' = kept /\ \A t \in kept : asked'[t] = Without(asked[t], child)
  BY <1>1
<1>8. asked' = [t \in DOMAIN asked' |-> asked'[t]]
  BY <1>1
<1>9. \A t \in kept : /\ asked'[t] \in Seq(Int) /\ Distinct(asked'[t]) /\ ToSet(asked'[t]) = ToSet(asked[t]) \ {child}
                      /\ t # parent => asked'[t] = asked[t]
  <2> TAKE t \in kept
  <2>1. /\ Without(asked[t], child) \in Seq(Int) /\ Distinct(Without(asked[t], child))
        /\ ToSet(Without(asked[t], child)) = ToSet(asked[t]) \ {child}
    BY <1>4, <1>6, WithoutIs, Zenon
  <2>2. t # parent => child \notin ToSet(asked[t])
    BY <1>1, <1>5, <1>6, Zenon DEF HasOnePlace
  <2>3. t # parent => Without(asked[t], child) = asked[t]
    BY <1>4, <1>6, <2>2, WithoutIs, Zenon
  <2> QED
    BY <1>7, <2>1, <2>3, Zenon
<1>10. Container \in kept
  BY <1>2, <1>5 DEF TagsAreNew
<1>11. TagsAreNew'
  BY <1>1, <1>5, <1>6, <1>7, <1>10, Zenon DEF TagsAreNew
<1>12. HasOnePlace(asked')
  <2>1. ASSUME NEW t \in kept PROVE IsList(asked'[t]) /\ ToSet(asked'[t]) \subseteq kept \ {Container}
    <3>1. IsList(asked'[t])
      BY <1>4, <1>6, <1>9 DEF IsList
    <3>2. ToSet(asked'[t]) \subseteq kept \ {Container}
      <4>1. ToSet(asked'[t]) = ToSet(asked[t]) \ {child} /\ ToSet(asked[t]) \ {child} \subseteq kept
        BY <1>2, <1>9, Zenon
      <4>2. Container \notin ToSet(asked[t])
        BY <1>4, <1>6, Zenon
      <4> QED
        BY <4>1, <4>2
    <3> QED
      BY <3>1, <3>2
  <2>2. ASSUME NEW t \in kept, NEW u \in kept, NEW x \in ToSet(asked'[t]), x \in ToSet(asked'[u]) PROVE t = u
    <3>1. x \in ToSet(asked[t]) /\ x \in ToSet(asked[u])
      BY <1>9, <2>2
    <3> QED
      BY <1>5, <1>6, <3>1, Zenon DEF HasOnePlace
  <2> QED
    BY <1>7, <2>1, <2>2, Zenon DEF HasOnePlace
<1>13. ListsAreShown'
  <2>1. \A t \in D : children[t] = Shown(t, asked[t])
    BY <1>5
  <2>2. ASSUME NEW t \in kept PROVE Shown(t, asked[t])' = IF t = parent THEN Without(children[t], child) ELSE children[t]
    <3>0. Shown(t, asked[t])' = Shown(t, asked'[t]) /\ t \in D /\ children[t] = Shown(t, asked[t])
      BY <1>1, <1>6, <2>1, Zenon DEF Shown
    <3>1. CASE t # parent
      BY <1>9, <3>0, <3>1, Zenon
    <3>2. CASE t = parent /\ t = Container /\ host = "dom"
      <4>1. Without(Framed(asked[t]), child) = Framed(Without(asked[t], child))
        BY <1>3, <1>4, <3>0, FramedWithout, Zenon
      <4> QED
        BY <1>7, <3>0, <3>2, <4>1, Zenon DEF Shown
    <3>3. CASE t = parent /\ t = Container /\ host = "native"
      <4>1. <<>> \in Seq(Int) /\ ~ \E i \in 1 .. Len(<<>>) : (<<>>)[i] = child
        OBVIOUS
      <4>2. child \notin ToSet(<<>>)
        BY <4>1, ToSetIs, Zenon
      <4>3. Without(<<>>, child) = <<>>
        BY <4>2, Zenon DEF Without
      <4>4. host # "dom"
        BY <3>3
      <4>5. children[t] = <<>> /\ Shown(t, asked'[t]) = <<>>
        BY <3>0, <3>3, <4>4, Zenon DEF Shown
      <4> QED
        BY <3>0, <3>3, <4>3, <4>5, Zenon
    <3>4. CASE t = parent /\ ~(t = Container /\ host = "dom") /\ ~(t = Container /\ host = "native")
      BY <1>7, <3>0, <3>4, Zenon DEF Shown
    <3> QED
      BY <3>1, <3>2, <3>3, <3>4, Zenon
  <2>3. children' = [t \in kept |-> Shown(t, asked[t])']
    BY <1>1, <2>2, Zenon
  <2> QED
    BY <1>7, <2>3 DEF ListsAreShown
<1>14. ASSUME host = "native" PROVE ViewsMirror' /\ ~refused'
  <2> DEFINE p == Position(list, child)
             mid == RemoveSubview(views, parent, p - 1)
  <2>1. /\ views \in [DOMAIN views -> View]
        /\ \A t \in DOMAIN views : t \in Int /\ t < nextReactTag
        /\ \A t \in D : t \in DOMAIN views /\ views[t].children = asked[t]
        /\ \A t \in Unplaced : views[t].parent = NoParent
        /\ Len(asked[Container]) <= 1 /\ instanceCache = D \ {Container}
    BY <1>14, ViewsAre, Zenon
  <2>2. p \in 1 .. Len(list) /\ list[p] = child
    BY <1>1, <1>4, PositionIs, Zenon
  <2>3. Len(list) \in Nat /\ p \in DOMAIN list
    BY <1>4, <2>2, LenProperties
  <2>4. (IF parent = Container THEN 0 ELSE Position(children[parent], child) - 1) = p - 1
    <3>1. CASE parent = Container
      <4>1. p = 1
        BY <2>1, <2>2, <2>3, <3>1
      <4> HIDE DEF p
      <4>2. p - 1 = 0
        BY <4>1
      <4> QED
        BY <3>1, <4>2, Zenon
    <3>2. CASE parent # Container
      <4>1. children[parent] = list
        BY <1>5, <3>2 DEF Shown
      <4> QED
        BY <3>2, <4>1, Zenon
    <3> QED
      BY <3>1, <3>2, Zenon
  <2>5. ViewsBecome(manageRemove(parent, p - 1))
    <3>1. ViewsBecome(manageRemove(parent, IF parent = Container THEN 0 ELSE Position(children[parent], child) - 1))
      BY Zenon DEF removeChild
    <3> QED
      BY <2>4, <3>1, Zenon
  <2>6. IsChanged(mid, views, parent, RemoveAt(list, p), child, NoParent)
    <3> HIDE DEF p, list
    <3>1. parent \in DOMAIN views /\ views[parent].children = list /\ child \in DOMAIN views
      BY <1>3, <2>1, Zenon DEF list
    <3>2. p \in 1 .. Len(views[parent].children) /\ views[parent].children[p] \in DOMAIN views
      BY <2>2, <3>1, Zenon
    <3>3. IsChanged(RemoveSubview(views, parent, p - 1), views, parent, RemoveAt(views[parent].children, p),
                    views[parent].children[p], NoParent)
      BY <2>1, <3>1, <3>2, RemoveSubviewIs, Zenon
    <3> QED
      BY <2>2, <3>1, <3>3, Zenon
  <2>7. manageRemove(parent, p - 1) = [tree |-> [t \in DOMAIN views \ {child} |-> mid[t]], ok |-> TRUE]
    <3> HIDE DEF p
    <3>1. (p - 1) + 1 = p
      BY <2>2, <2>3
    <3>2. views[parent].children = list
      BY <2>1, Zenon
    <3> QED
      BY <2>2, <2>3, <3>1, <3>2, Zenon DEF manageRemove
  <2> HIDE DEF mid, p
  <2>8. views' = [t \in DOMAIN views \ {child} |-> mid[t]] /\ ~refused'
    <3> DEFINE v == manageRemove(parent, p - 1)
               fewer == [t \in DOMAIN views \ {child} |-> mid[t]]
    <3>1. v.tree = fewer /\ v.ok = TRUE
      <4> HIDE DEF fewer
      <4>1. v = [tree |-> fewer, ok |-> TRUE]
        BY <2>7, Zenon DEF fewer
      <4> HIDE DEF v
      <4> QED
        BY <4>1
    <3>2. views' = v.tree /\ refused' = (refused \/ ~v.ok)
      BY <1>14, <2>5, Zenon DEF ViewsBecome
    <3> HIDE DEF v, fewer
    <3>3. views' = fewer /\ ~refused'
      BY <1>5, <3>1, <3>2, Zenon
    <3> QED
      BY <3>3, Zenon DEF fewer
  <2>9. DOMAIN views' = DOMAIN views \ {child} /\ \A t \in DOMAIN views \ {child} : views'[t] = mid[t]
    BY <2>8
  <2>10. /\ mid \in [DOMAIN views -> View]
         /\ \A t \in DOMAIN views : /\ mid[t].children = IF t = parent THEN RemoveAt(list, p) ELSE views[t].children
                                    /\ mid[t].parent = IF t = child THEN NoParent ELSE views[t].parent
    BY <2>6, Zenon DEF IsChanged
  <2>11. views' \in [DOMAIN views' -> [children : Seq(Int), parent : Int \cup {NoParent}]]
    <3>1. \A t \in DOMAIN views \ {child} : mid[t] \in View
      BY <2>10
    <3>2. views' \in [DOMAIN views \ {child} -> View]
      BY <2>8, <3>1
    <3> QED
      BY <2>9, <3>2, Zenon DEF View
  <2>12. \A t \in DOMAIN views' : t \in Int /\ t < nextReactTag'
    BY <1>1, <2>1, <2>9
  <2>13. Without(list, child) = RemoveAt(list, p)
    BY <1>1, <1>4, WithoutIs, Zenon DEF p
  <2>14. \A t \in kept : t \in DOMAIN views' /\ views'[t].children = asked'[t]
    <3> TAKE t \in kept
    <3>1. t \in D /\ t # child /\ t \in DOMAIN views /\ views[t].children = asked[t]
      BY <1>6, <2>1, Zenon
    <3>2. t \in DOMAIN views' /\ views'[t] = mid[t]
      BY <2>9, <3>1
    <3>3. CASE t = parent
      <4>1. mid[t].children = RemoveAt(list, p)
        BY <2>10, <3>1, <3>3, Zenon
      <4>2. asked'[t] = RemoveAt(list, p)
        BY <1>7, <2>13, <3>3, Zenon
      <4> QED
        BY <3>2, <4>1, <4>2, Zenon
    <3>4. CASE t # parent
      BY <1>9, <2>10, <3>1, <3>2, <3>4, Zenon
    <3> QED
      BY <3>3, <3>4, Zenon
  <2>15. \A t \in Unplaced' : views'[t].parent = NoParent
    <3> SUFFICES ASSUME NEW t \in Unplaced' PROVE views'[t].parent = NoParent
      OBVIOUS
    <3>1. t \in kept /\ t # Container /\ \A u \in kept : t \notin ToSet(asked'[u])
      BY <1>7, Zenon DEF Unplaced
    <3>2. t \in D /\ t # child /\ t \notin gone
      BY <1>6, <3>1, Zenon
    <3>3. \A u \in D : t \notin ToSet(asked[u])
      <4> SUFFICES ASSUME NEW u \in D, t \in ToSet(asked[u]) PROVE FALSE
        OBVIOUS
      <4>1. u \notin gone
        BY <1>2, <3>2
      <4>2. u \in kept
        BY <4>1
      <4>3. t \in ToSet(asked'[u])
        BY <1>9, <3>2, <4>2
      <4> QED
        BY <3>1, <4>2, <4>3, Zenon
    <3>4. t \in Unplaced
      BY <3>1, <3>2, <3>3 DEF Unplaced
    <3>5. t \in DOMAIN views /\ views'[t] = mid[t]
      BY <2>1, <2>9, <3>2
    <3> QED
      BY <2>1, <2>10, <3>2, <3>4, <3>5, Zenon
  <2>16. Len(asked'[Container]) <= 1
    <3>1. Len(Without(asked[Container], child)) = Len(asked[Container]) - 1 \/ Without(asked[Container], child) = asked[Container]
      BY <1>4, <1>6, <1>10, WithoutIs, Zenon
    <3>2. asked'[Container] = Without(asked[Container], child)
      BY <1>7, <1>10, Zenon
    <3>3. Len(asked'[Container]) = Len(asked[Container]) - 1 \/ Len(asked'[Container]) = Len(asked[Container])
      BY <3>1, <3>2, Zenon
    <3>4. Len(asked[Container]) \in Nat
      BY <1>4, <1>6, <1>10, LenProperties
    <3> QED
      BY <2>1, <3>3, <3>4
  <2>17. instanceCache' = kept \ {Container}
    <3>1. Descendants(children, child) = gone
      BY <1>1, <1>14, RemovedFibersAre, Zenon
    <3> QED
      BY <1>1, <1>14, <2>1, <3>1
  <2> QED
    BY <1>7, <2>8, <2>11, <2>12, <2>14, <2>15, <2>16, <2>17, Zenon DEF ViewsMirror
<1>15. host # "native" => ~refused'
  BY <1>5, Zenon DEF removeChild, ViewsBecome
<1> QED
  BY <1>1, <1>8, <1>11, <1>12, <1>13, <1>14, <1>15, Zenon DEF HostsInv

LEMMA HostNextKeeps == HostsInv /\ HostNext => HostsInv'
<1> SUFFICES ASSUME HostsInv, HostNext PROVE HostsInv'
  OBVIOUS
<1>1. ASSUME NEW initial \in InitialChildren, createInstance(initial) PROVE HostsInv'
  BY <1>1, CreateInstanceKeeps, Zenon
<1>2. ASSUME NEW parent \in Attached, NEW child \in Unplaced \cup ToSet(asked[parent]), appendChild(parent, child) PROVE HostsInv'
  <2>1. parent \in DOMAIN asked
    BY DEF Attached, Descendants
  <2> QED
    BY <1>2, <2>1, AppendChildKeeps, Zenon
<1>3. ASSUME NEW parent \in Attached, NEW child \in Unplaced \cup ToSet(asked[parent]),
             NEW before \in ToSet(asked[parent]), insertBefore(parent, child, before)
      PROVE  HostsInv'
  <2>1. parent \in DOMAIN asked
    BY DEF Attached, Descendants
  <2> QED
    BY <1>3, <2>1, InsertBeforeKeeps, Zenon
<1>4. ASSUME NEW parent \in Attached, NEW child, removeChild(parent, child) PROVE HostsInv'
  <2>1. parent \in DOMAIN asked
    BY DEF Attached, Descendants
  <2> QED
    BY <1>4, <2>1, RemoveChildKeeps, Zenon
<1> QED
  BY <1>1, <1>2, <1>3, <1>4, Zenon DEF HostNext

LEMMA HostStutterKeeps == HostsInv /\ UNCHANGED hostVars => HostsInv'
<1> SUFFICES ASSUME HostsInv, UNCHANGED hostVars PROVE HostsInv'
  OBVIOUS
<1>1. /\ host' = host /\ nextReactTag' = nextReactTag /\ children' = children /\ views' = views
      /\ instanceCache' = instanceCache /\ refused' = refused /\ asked' = asked
  BY Zenon DEF hostVars
<1>2. Unplaced' = Unplaced
  BY <1>1, Zenon DEF Unplaced
<1>3. ListsAreShown'
  <2>1. \A t \in DOMAIN asked : Shown(t, asked[t])' = Shown(t, asked[t])
    BY <1>1, Zenon DEF Shown
  <2>2. children = [t \in DOMAIN asked |-> Shown(t, asked[t])]
    BY Zenon DEF HostsInv, ListsAreShown
  <2> QED
    BY <1>1, <2>1, <2>2 DEF ListsAreShown
<1>4. TagsAreNew' /\ HasOnePlace(asked')
  BY <1>1, Zenon DEF HostsInv, TagsAreNew, HasOnePlace
<1>5. host = "native" => ViewsMirror'
  BY <1>1, <1>2, Zenon DEF HostsInv, ViewsMirror
<1> QED
  BY <1>1, <1>3, <1>4, <1>5, Zenon DEF HostsInv

(* Every host shows the children the reconciler asked for, in their order, *)
(* whatever the order of appendChild, insertBefore and removeChild, and    *)
(* however many instances there are: React Native's indices into its views *)
(* are those of the children, no view is placed twice, and a comment among *)
(* foreign nodes keeps its place.                                          *)
THEOREM ChildrenAreShown == HostSpec => []HostShowsTree
<1>1. HostInit => HostsInv
  BY HostInitInv
<1>2. HostsInv /\ [HostNext]_hostVars => HostsInv'
  BY HostNextKeeps, HostStutterKeeps
<1>3. HostsInv => HostShowsTree
  BY HostsInvShows
<1> QED
  BY <1>1, <1>2, <1>3, PTL DEF HostSpec
=============================================================================
