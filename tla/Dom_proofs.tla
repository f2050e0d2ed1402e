----------------------------- MODULE Dom_proofs -----------------------------
(***************************************************************************)
(* Theorems about components that MC_Dom checks one at a time: legacy      *)
(* context, the events about selection and text, class components, inputs, *)
(* responders, the props of an element, and suspense in synchronous mode.  *)
(***************************************************************************)
EXTENDS LegacyContext, SelectEvents, TextEvents, ClassComponent, ControlledInputs, Responder, DomProperties,
        SyncSuspense, SequenceTheorems, FiniteSetTheorems, WellFoundedInduction, TLAPS

(* Numbers, and places of a sequence, have a first and a last one.         *)
LEMMA LeastOf ==
  ASSUME NEW S \in SUBSET Nat, S # {}
  PROVE  \E m \in S : \A k \in S : m <= k
<1>1. IsWellFoundedOn(OpToRel(<, Nat), Nat)
  BY NatLessThanWellFounded
<1>2. PICK m \in S : \A k \in S : ~(<<k, m>> \in OpToRel(<, Nat))
  BY <1>1, WFMin, Zenon
<1>3. \A k \in S : <<k, m>> \in OpToRel(<, Nat) <=> k < m
  BY Zenon DEF OpToRel
<1>4. \A k \in S : k < m \/ m <= k
  OBVIOUS
<1> QED
  BY <1>2, <1>3, <1>4

LEMMA NumbersHaveBounds ==
  ASSUME NEW n \in Nat, NEW T \in SUBSET (0 .. n), T # {}
  PROVE  /\ Max(T) \in T /\ \A k \in T : k <= Max(T)
         /\ Min(T) \in T /\ \A k \in T : Min(T) <= k
<1>1. \E m \in T : \A k \in T : m <= k
  BY LeastOf
<1>2. \E m \in T : \A k \in T : m >= k
  <2> DEFINE R == {k \in Nat : k <= n /\ \A x \in T : x <= k}
  <2>1. n \in R
    OBVIOUS
  <2>2. PICK m \in R : \A k \in R : m <= k
    BY <2>1, LeastOf
  <2>3. m \in T
    <3> SUFFICES ASSUME m \notin T PROVE FALSE
      OBVIOUS
    <3>1. \A x \in T : x \in 0 .. n /\ x <= m /\ x # m
      OBVIOUS
    <3>2. PICK x : x \in T
      OBVIOUS
    <3>3. m - 1 \in Nat /\ m - 1 <= n
      BY <3>1, <3>2
    <3>4. \A y \in T : y <= m - 1
      BY <3>1
    <3>5. m - 1 \in R
      BY <3>3, <3>4
    <3> QED
      BY <2>2, <3>5
  <2> QED
    BY <2>3
<1> QED
  BY <1>1, <1>2 DEF Max, Min

LEMMA PlacesHaveBounds ==
  ASSUME NEW n \in Nat, NEW T \in SUBSET (1 .. n), T # {}
  PROVE  /\ Max(T) \in T /\ \A k \in T : k <= Max(T)
         /\ Min(T) \in T /\ \A k \in T : Min(T) <= k
<1>1. T \in SUBSET (0 .. n)
  OBVIOUS
<1> QED
  BY <1>1, NumbersHaveBounds

-----------------------------------------------------------------------------
(* Legacy context.  A component is open if none up to it refuses updates:  *)
(* of these the invariant says what they saw and, if they are providers,   *)
(* what they merged; of a render, that those behind it have that of the    *)
(* new context, those before it still that of the old one, and that the    *)
(* two are the same where the flag on the stack says that nothing changed. *)
Links == [gives : ContextKeys \cup {NoKeyGiven}, reads : BOOLEAN, blocks : BOOLEAN, constant : BOOLEAN]
Contexts == [ContextKeys -> Int]
Entries == [context : Contexts, changed : BOOLEAN]
ContextRoots == [context : Contexts, pending : Contexts \cup {NoContext}]
Passes ==
  [level : ContextLevels, stack : Seq(Entries) \ {<<>>}, at : 1 .. Len(chain) + 2, fresh : BOOLEAN,
   before : [Places -> Contexts] \X ContextRoots, values : [Places -> Int], given : [Places -> Int],
   seen : [Places -> Contexts]]

ContextTypeOK ==
  /\ chain \in Chains
  /\ values \in [Places -> Int] /\ given \in [Places -> Int]
  /\ seen \in [Places -> Contexts] /\ merged \in [Places -> Contexts]
  /\ due \in [0 .. Len(chain) -> SUBSET ContextLevels] /\ \A k \in 0 .. Len(chain) : IsFiniteSet(due[k])
  /\ root \in ContextRoots
  /\ pass \in Passes \cup {NoPass}
  /\ tainted \in BOOLEAN

Open(links, k) == \A j \in DOMAIN links : j <= k => ~links[j].blocks

Fits(links, context, gave, saw, kept, k) ==
  Open(links, k) => /\ links[k].reads => saw[k] = ContextFrom(links, context, gave, k)
                    /\ links[k].gives # NoKeyGiven => kept[k] = ContextFrom(links, context, gave, k + 1)

NewContext == IF root.pending = NoContext THEN root.context ELSE root.pending

ContextSettled == pass = NoPass => \A k \in Places : Fits(chain, root.context, given, seen, merged, k)

PassFits ==
  pass # NoPass =>
    LET kept == pass.before[1]
        old == pass.before[2].context
    IN  /\ pass.at <= Finished => pass.before[2] = root
        /\ pass.at > Finished => root.pending = NoContext
        /\ \A k \in Places : Fits(chain, old, given, seen, kept, k)
        /\ \A k \in Places : k < pass.at => Fits(chain, NewContext, pass.given, pass.seen, merged, k)
        /\ \A k \in Places : k >= pass.at =>
             pass.given[k] = given[k] /\ pass.seen[k] = seen[k] /\ merged[k] = kept[k]
        /\ pass.at \in Places /\ Open(chain, pass.at - 1) =>
             /\ Top.context = ContextFrom(chain, NewContext, pass.given, pass.at)
             /\ ~Top.changed => Top.context = ContextFrom(chain, old, given, pass.at)

ContextInv == ContextTypeOK /\ (~tainted /\ ~chain[1].constant => ContextSettled /\ PassFits)

LEMMA ChainsAreTyped ==
  ASSUME chain \in Chains
  PROVE  /\ Len(chain) \in Nat \ {0} /\ Places = 1 .. Len(chain)
         /\ \A k \in Places : chain[k] \in Links
<1>1. chain # <<>> /\ chain \in Seq(Links)
  BY ContextAssumption DEF Links
<1>2. Len(chain) \in Nat /\ Len(chain) # 0 /\ DOMAIN chain = 1 .. Len(chain) /\ \A k \in DOMAIN chain : chain[k] \in Links
  BY <1>1
<1> QED
  BY <1>2 DEF Places

LEMMA ContextsAreTyped ==
  ASSUME chain \in Chains, NEW context \in Contexts, NEW gave \in [Places -> Int], NEW k \in Int
  PROVE  ContextFrom(chain, context, gave, k) \in Contexts
<1>1. Len(chain) \in Nat /\ Places = 1 .. Len(chain)
  BY ChainsAreTyped
<1>2. ASSUME NEW those \in SUBSET Places, those # {} PROVE Max(those) \in Places
  BY <1>1, <1>2, PlacesHaveBounds
<1>3. \A those \in SUBSET Places : those # {} => gave[Max(those)] \in Int
  BY <1>2
<1> QED
  BY <1>3 DEF ContextFrom, Contexts, Places

(* Before the first component there is the context of the root.            *)
LEMMA ContextStarts ==
  ASSUME chain \in Chains, NEW context \in Contexts, NEW gave
  PROVE  ContextFrom(chain, context, gave, 1) = context
<1>1. \A key : {j \in Places : j < 1 /\ chain[j].gives = key} = {}
  BY ChainsAreTyped
<1> QED
  BY <1>1 DEF ContextFrom, Contexts, Places

(* A provider changes its key, nothing else changes the context.           *)
LEMMA ContextGrows ==
  ASSUME chain \in Chains, NEW context \in Contexts, NEW gave \in [Places -> Int], NEW k \in Places
  PROVE  ContextFrom(chain, context, gave, k + 1) =
           IF IsContextProvider(k) THEN [ContextFrom(chain, context, gave, k) EXCEPT ![chain[k].gives] = gave[k]]
           ELSE ContextFrom(chain, context, gave, k)
<1> DEFINE one == ContextFrom(chain, context, gave, k)
           two == ContextFrom(chain, context, gave, k + 1)
           Before(key, n) == {j \in Places : j < n /\ chain[j].gives = key}
<1>1. Len(chain) \in Nat /\ Places = 1 .. Len(chain) /\ chain[k] \in Links
  BY ChainsAreTyped
<1>2. ASSUME NEW key, key # chain[k].gives PROVE Before(key, k + 1) = Before(key, k)
  BY <1>1, <1>2
<1>3. Max(Before(chain[k].gives, k + 1)) = k /\ Before(chain[k].gives, k + 1) # {}
  <2> DEFINE those == Before(chain[k].gives, k + 1)
  <2>1. k \in those /\ those \in SUBSET (1 .. Len(chain)) /\ \A j \in those : j <= k
    BY <1>1
  <2> HIDE DEF those
  <2>2. Max(those) \in those /\ k <= Max(those)
    BY <1>1, <2>1, PlacesHaveBounds
  <2>3. Max(those) \in 1 .. Len(chain) /\ Max(those) <= k
    BY <2>1, <2>2
  <2>4. Max(those) = k /\ those # {}
    BY <1>1, <2>1, <2>2, <2>3
  <2> QED
    BY <2>4 DEF those
<1>4. /\ one = [key \in ContextKeys |-> IF Before(key, k) = {} THEN context[key] ELSE gave[Max(Before(key, k))]]
      /\ two = [key \in ContextKeys |-> IF Before(key, k + 1) = {} THEN context[key] ELSE gave[Max(Before(key, k + 1))]]
  BY DEF ContextFrom, Places
<1> HIDE DEF Before, one, two
<1>5. \A key \in ContextKeys : key # chain[k].gives => two[key] = one[key]
  BY <1>2, <1>4
<1>6. chain[k].gives \in ContextKeys => two[chain[k].gives] = gave[k]
  BY <1>3, <1>4
<1>7. IsContextProvider(k) <=> chain[k].gives \in ContextKeys
  BY <1>1, ContextAssumption DEF IsContextProvider, Links
<1>8. two = IF IsContextProvider(k) THEN [one EXCEPT ![chain[k].gives] = gave[k]] ELSE one
  BY <1>4, <1>5, <1>6, <1>7
<1> QED
  BY <1>8 DEF one, two

(* Only the components before it count ...                                 *)
LEMMA ContextDepends ==
  ASSUME chain \in Chains, NEW context, NEW gave, NEW gives, NEW k \in Int,
         \A j \in Places : j < k => gave[j] = gives[j]
  PROVE  ContextFrom(chain, context, gave, k) = ContextFrom(chain, context, gives, k)
<1> DEFINE Before(key) == {j \in Places : j < k /\ chain[j].gives = key}
<1>1. ASSUME NEW key, Before(key) # {} PROVE gave[Max(Before(key))] = gives[Max(Before(key))]
  <2>1. Before(key) \in SUBSET (1 .. Len(chain)) /\ Len(chain) \in Nat
    BY ChainsAreTyped
  <2>2. Max(Before(key)) \in Before(key)
    BY <1>1, <2>1, PlacesHaveBounds
  <2> QED
    BY <2>2
<1> QED
  BY <1>1 DEF ContextFrom, Places

(* ... and from a place where two contexts are the same they stay so, if   *)
(* all behind it give the same.                                            *)
LEMMA ContextStaysTheSame ==
  ASSUME chain \in Chains, NEW context, NEW gave, NEW other, NEW gives,
         NEW k \in Int, NEW m \in Int, k <= m,
         ContextFrom(chain, context, gave, k) = ContextFrom(chain, other, gives, k),
         \A j \in Places : j >= k => gave[j] = gives[j]
  PROVE  ContextFrom(chain, context, gave, m) = ContextFrom(chain, other, gives, m)
<1> DEFINE Before(key, n) == {j \in Places : j < n /\ chain[j].gives = key}
           Of(c, g, n, key) == IF Before(key, n) = {} THEN c[key] ELSE g[Max(Before(key, n))]
<1>0. \A c, g, n : ContextFrom(chain, c, g, n) = [key \in ContextKeys |-> Of(c, g, n, key)]
  BY DEF ContextFrom, Places
<1>1. Len(chain) \in Nat /\ Places = 1 .. Len(chain)
  BY ChainsAreTyped
<1>2. ASSUME NEW key \in ContextKeys
      PROVE  Of(context, gave, m, key) = Of(other, gives, m, key)
  <2>1. Of(context, gave, k, key) = Of(other, gives, k, key)
    <3> HIDE DEF Of
    <3>1. [x \in ContextKeys |-> Of(context, gave, k, x)] = [x \in ContextKeys |-> Of(other, gives, k, x)]
      BY <1>0
    <3>2. [x \in ContextKeys |-> Of(context, gave, k, x)][key] = Of(context, gave, k, key)
      OBVIOUS
    <3>3. [x \in ContextKeys |-> Of(other, gives, k, x)][key] = Of(other, gives, k, key)
      OBVIOUS
    <3> QED
      BY <3>1, <3>2, <3>3
  <2>2. CASE \A j \in Before(key, m) : j < k
    <3>1. Before(key, m) = Before(key, k)
      BY <1>1, <2>2
    <3> HIDE DEF Before
    <3> QED
      BY <2>1, <3>1
  <2>3. CASE ~(\A j \in Before(key, m) : j < k)
    <3> PICK j \in Before(key, m) : ~(j < k)
      BY <2>3
    <3>1. Before(key, m) \in SUBSET (1 .. Len(chain)) /\ Before(key, m) # {}
      BY <1>1
    <3>2. Max(Before(key, m)) \in Before(key, m) /\ j <= Max(Before(key, m))
      BY <1>1, <3>1, PlacesHaveBounds
    <3>3. Max(Before(key, m)) \in Places /\ j \in Places
      BY <3>2
    <3>4. Max(Before(key, m)) >= k
      <4> HIDE DEF Before
      <4> QED
        BY <1>1, <3>2, <3>3
    <3> HIDE DEF Before
    <3> QED
      BY <3>1, <3>3, <3>4
  <2> QED
    BY <2>2, <2>3
<1> HIDE DEF Of
<1> QED
  BY <1>0, <1>2

LEMMA ContextInvStarts == ContextInit => ContextInv
<1> SUFFICES ASSUME ContextInit PROVE ContextInv
  OBVIOUS
<1> USE DEF ContextInit
<1>1. EmptyContext \in Contexts
  BY DEF EmptyContext, Contexts
<1>2. \A k \in 0 .. Len(chain) : due[k] = {} /\ IsFiniteSet(due[k])
  BY FS_EmptySet
<1>3. ContextTypeOK
  <2>1. root \in ContextRoots
    BY <1>1 DEF ContextRoots
  <2>2. pass \in {NoPass}
    OBVIOUS
  <2>3. values \in [Places -> Int] /\ seen \in [Places -> Contexts]
    BY <1>1
  <2> QED
    BY <1>1, <1>2, <2>1, <2>2, <2>3 DEF ContextTypeOK
<1>4. ContextSettled
  <2> SUFFICES ASSUME NEW k \in Places PROVE Fits(chain, root.context, given, seen, merged, k)
    BY DEF ContextSettled
  <2>1. \A n : ContextFrom(chain, EmptyContext, given, n) = EmptyContext
    <3> SUFFICES ASSUME NEW n PROVE ContextFrom(chain, EmptyContext, given, n) = EmptyContext
      OBVIOUS
    <3> DEFINE Before(key) == {j \in Places : j < n /\ chain[j].gives = key}
    <3>1. ASSUME NEW key, Before(key) # {} PROVE given[Max(Before(key))] = 0
      <4>1. Before(key) \in SUBSET (1 .. Len(chain)) /\ Len(chain) \in Nat
        BY ChainsAreTyped
      <4>2. Max(Before(key)) \in Before(key)
        BY <3>1, <4>1, PlacesHaveBounds
      <4> QED
        BY <4>2
    <3> QED
      BY <3>1 DEF ContextFrom, EmptyContext, Places
  <2>2. root.context = EmptyContext /\ seen[k] = EmptyContext /\ merged[k] = EmptyContext
    OBVIOUS
  <2> QED
    BY <2>1, <2>2 DEF Fits
<1>5. PassFits
  BY DEF PassFits
<1> QED
  BY <1>3, <1>4, <1>5 DEF ContextInv

(* What every step of a render needs of the types.                         *)
LEMMA PassesAreTyped ==
  ASSUME ContextTypeOK, pass # NoPass
  PROVE  /\ pass \in Passes
         /\ pass.stack \in Seq(Entries) /\ pass.stack # <<>> /\ Top \in Entries
         /\ pass.at \in 1 .. Len(chain) + 2 /\ pass.at \in Nat
         /\ pass.before[1] \in [Places -> Contexts] /\ pass.before[2] \in ContextRoots
         /\ pass.values \in [Places -> Int] /\ pass.given \in [Places -> Int] /\ pass.seen \in [Places -> Contexts]
         /\ pass.before[2].context \in Contexts /\ NewContext \in Contexts
<1>1. pass \in Passes /\ chain \in Chains /\ root \in ContextRoots
  BY DEF ContextTypeOK
<1>2. Len(chain) \in Nat
  BY <1>1, ChainsAreTyped
<1>3. /\ pass.stack \in Seq(Entries) \ {<<>>}
      /\ pass.at \in 1 .. Len(chain) + 2
      /\ pass.before \in [Places -> Contexts] \X ContextRoots
      /\ pass.values \in [Places -> Int] /\ pass.given \in [Places -> Int] /\ pass.seen \in [Places -> Contexts]
  BY <1>1 DEF Passes
<1>4. pass.stack \in Seq(Entries) /\ pass.stack # <<>>
  BY <1>3
<1>5. Top \in Entries
  BY <1>4 DEF Top, Last
<1>6. pass.before[1] \in [Places -> Contexts] /\ pass.before[2] \in ContextRoots
  BY <1>3
<1>7. pass.before[2].context \in Contexts /\ NewContext \in Contexts
  BY <1>1, <1>6 DEF ContextRoots, NewContext
<1> QED
  BY <1>1, <1>2, <1>3, <1>4, <1>5, <1>6, <1>7

LEMMA BeginFits ==
  ASSUME ContextInv, NEW level \in ContextLevels, BeginRender(level)
  PROVE  ContextInv'
<1> DEFINE changed == root.pending # NoContext /\ root.pending # root.context
           context == IF root.pending = NoContext THEN root.context ELSE root.pending
           fresh == DueAt(0, level) /\ ~chain[1].constant
           bottom == [context |-> context, changed |-> changed]
           at == IF fresh \/ DueBelow(0, level) THEN 1 ELSE Finished
           new == [level |-> level, stack |-> <<bottom>>, at |-> at, fresh |-> fresh,
                   before |-> <<merged, root>>, values |-> values, given |-> given, seen |-> seen]
<1>1. /\ pass = NoPass /\ pass' = new
      /\ DueAt(0, level) \/ DueBelow(0, level)
      /\ UNCHANGED <<chain, values, given, seen, due, merged, root, tainted, made>>
  BY DEF BeginRender
<1>2. /\ chain \in Chains /\ root \in ContextRoots
      /\ values \in [Places -> Int] /\ given \in [Places -> Int]
      /\ seen \in [Places -> Contexts] /\ merged \in [Places -> Contexts]
  BY DEF ContextInv, ContextTypeOK
<1>3. Len(chain) \in Nat \ {0} /\ Places = 1 .. Len(chain) /\ chain[1].constant \in BOOLEAN
  BY <1>2, ChainsAreTyped DEF Links
<1>4. at \in 1 .. Len(chain) + 2 /\ (~chain[1].constant => at = 1)
  BY <1>1, <1>3 DEF Finished
<1>5. context \in Contexts /\ context = NewContext /\ changed \in BOOLEAN /\ fresh \in BOOLEAN
  BY <1>2 DEF ContextRoots, NewContext
<1>6. ~changed => context = root.context
  OBVIOUS
<1> HIDE DEF changed, context, fresh, at
<1>7. bottom \in Entries
  BY <1>5 DEF Entries
<1> HIDE DEF bottom
<1>8. new \in Passes
  <2>1. <<bottom>> \in Seq(Entries) \ {<<>>}
    BY <1>7
  <2>2. <<merged, root>> \in [Places -> Contexts] \X ContextRoots
    BY <1>2
  <2> QED
    BY <1>2, <1>4, <1>5, <2>1, <2>2 DEF Passes
<1>9. ContextTypeOK'
  <2>1. pass' \in Passes
    BY <1>1, <1>8
  <2>2. Passes' = Passes
    BY <1>1 DEF Passes, Places
  <2> QED
    BY <1>1, <2>1, <2>2 DEF ContextInv, ContextTypeOK, Places
<1>10. ASSUME ~tainted, ~chain[1].constant PROVE PassFits'
  <2>1. /\ new.at = 1 /\ new.before[1] = merged /\ new.before[2] = root /\ new.given = given /\ new.seen = seen
        /\ new.stack = <<bottom>>
    BY <1>4, <1>10
  <2>2. Last(<<bottom>>) = bottom /\ bottom.context = context /\ bottom.changed = changed
    BY DEF Last, bottom
  <2>3. \A k \in Places : Fits(chain, root.context, given, seen, merged, k)
    BY <1>1, <1>10 DEF ContextInv, ContextSettled
  <2>4. \A k \in Places : ~(k < 1)
    BY <1>3
  <2>5. context = ContextFrom(chain, NewContext, given, 1) /\ root.context = ContextFrom(chain, root.context, given, 1)
    BY <1>2, <1>5, ContextStarts DEF ContextRoots
  <2>6. NewContext' = NewContext /\ Finished' = Finished /\ Places' = Places
    BY <1>1 DEF Places, NewContext, Finished
  <2>7. Top' = bottom
    BY <1>1, <2>1, <2>2 DEF Top
  <2>8. 1 <= Finished /\ Finished \in Nat
    BY <1>3 DEF Finished
  <2>9. pass'.at = 1 /\ pass'.before[1] = merged /\ pass'.before[2] = root /\ pass'.given = given /\ pass'.seen = seen
    BY <1>1, <2>1
  <2> HIDE DEF new
  <2> QED
    BY <1>1, <1>6, <2>2, <2>3, <2>4, <2>5, <2>6, <2>7, <2>8, <2>9 DEF PassFits
<1>11. new # NoPass
  <2>1. new.at # 0
    BY <1>3, <1>4
  <2>2. NoPass.at = 0
    BY DEF NoPass
  <2> QED
    BY <2>1, <2>2
<1>12. ContextSettled'
  BY <1>1, <1>11 DEF ContextSettled
<1> QED
  BY <1>1, <1>9, <1>10, <1>12 DEF ContextInv

(* The stack: what is pushed is on top, what was there is below it.        *)
LEMMA PushedOnTop ==
  ASSUME NEW stack \in Seq(Entries), NEW e \in Entries
  PROVE  /\ Append(stack, e) \in Seq(Entries) \ {<<>>}
         /\ Last(Append(stack, e)) = e
         /\ Front(Append(stack, e)) = stack
<1> DEFINE more == Append(stack, e)
           n == Len(stack)
<1>1. n \in Nat /\ more \in Seq(Entries) /\ Len(more) = n + 1 /\ more[n + 1] = e /\ \A i \in 1 .. n : more[i] = stack[i]
  OBVIOUS
<1>2. more # <<>>
  BY <1>1
<1>3. SubSeq(more, 1, n) = stack
  <2>1. SubSeq(more, 1, n) \in Seq(Entries) /\ Len(SubSeq(more, 1, n)) = n
    BY <1>1
  <2>2. \A i \in 1 .. n : SubSeq(more, 1, n)[i] = more[i]
    BY <1>1
  <2> HIDE DEF more
  <2> QED
    BY <1>1, <2>1, <2>2, SeqEqual
<1> HIDE DEF more, n
<1>4. Last(more) = e /\ Front(more) = SubSeq(more, 1, n)
  BY <1>1 DEF Last, Front
<1> QED
  BY <1>1, <1>2, <1>3, <1>4 DEF more

(* What is open before a component, open at it, and open behind it.        *)
LEMMA OpenBefore ==
  ASSUME chain \in Chains, NEW j \in Places, NEW k \in Places, j >= k, Open(chain, j)
  PROVE  Open(chain, k - 1) /\ Open(chain, k) /\ ~chain[k].blocks
  BY ChainsAreTyped DEF Open, Places

(* Where the flag says that nothing changed, the components from there on  *)
(* are as they should be, even if they are left alone.                     *)
LEMMA NothingChanges ==
  ASSUME ContextTypeOK, PassFits, pass # NoPass, pass.at \in Places, ~Top.changed
  PROVE  /\ \A j \in Places : j >= pass.at => Fits(chain, NewContext, pass.given, pass.seen, merged, j)
         /\ Open(chain, pass.at) =>
              ContextFrom(chain, NewContext, pass.given, pass.at + 1)
                = ContextFrom(chain, pass.before[2].context, given, pass.at + 1)
<1> DEFINE k == pass.at
           new == NewContext
           old == pass.before[2].context
<1>1. chain \in Chains /\ k \in Places /\ k \in Int /\ \A j \in Places : j \in Int /\ j + 1 \in Int
  BY ChainsAreTyped DEF ContextTypeOK
<1>2. /\ \A j \in Places : Fits(chain, old, given, seen, pass.before[1], j)
      /\ \A j \in Places : j >= k =>
           pass.given[j] = given[j] /\ pass.seen[j] = seen[j] /\ merged[j] = pass.before[1][j]
      /\ Open(chain, k - 1) => ContextFrom(chain, new, pass.given, k) = ContextFrom(chain, old, given, k)
  BY DEF PassFits
<1> HIDE DEF k, new, old
<1>3. ASSUME Open(chain, k - 1), NEW j \in Places, j >= k
      PROVE  /\ ContextFrom(chain, new, pass.given, j) = ContextFrom(chain, old, given, j)
             /\ ContextFrom(chain, new, pass.given, j + 1) = ContextFrom(chain, old, given, j + 1)
  <2>1. ContextFrom(chain, new, pass.given, k) = ContextFrom(chain, old, given, k)
    BY <1>2, <1>3
  <2>2. \A i \in Places : i >= k => pass.given[i] = given[i]
    BY <1>2
  <2>3. k <= j /\ k <= j + 1 /\ j \in Int /\ j + 1 \in Int
    BY <1>1, <1>3
  <2>4. ContextFrom(chain, new, pass.given, j) = ContextFrom(chain, old, given, j)
    BY <1>1, <2>1, <2>2, <2>3, ContextStaysTheSame
  <2>5. ContextFrom(chain, new, pass.given, j + 1) = ContextFrom(chain, old, given, j + 1)
    BY <1>1, <2>1, <2>2, <2>3, ContextStaysTheSame
  <2> QED
    BY <2>4, <2>5
<1>4. ASSUME NEW j \in Places, j >= k, Open(chain, j)
      PROVE  Open(chain, k - 1)
  BY <1>1, <1>4, OpenBefore
<1>5. \A j \in Places : j >= k => Fits(chain, new, pass.given, pass.seen, merged, j)
  BY <1>2, <1>3, <1>4 DEF Fits
<1>6. Open(chain, k) => ContextFrom(chain, new, pass.given, k + 1) = ContextFrom(chain, old, given, k + 1)
  BY <1>1, <1>3, <1>4
<1> QED
  BY <1>5, <1>6 DEF k, new, old

LEMMA BailoutFits ==
  ASSUME ContextInv, Bailout
  PROVE  ContextInv'
<1> DEFINE k == pass.at
           e == [context |-> merged[k], changed |-> Top.changed]
           stack == IF IsContextProvider(k) THEN Append(pass.stack, e) ELSE pass.stack
           at == IF DueBelow(k, pass.level) THEN k + 1 ELSE Finished
           new == [pass EXCEPT !.stack = stack, !.at = at]
<1>1. /\ k \in Places /\ ~Top.changed /\ pass' = new
      /\ UNCHANGED <<chain, values, given, seen, due, merged, root, tainted, made>>
  BY DEF Bailout, pushContextProvider, InheritedChange, Top
<1>2. ContextTypeOK /\ chain \in Chains /\ merged \in [Places -> Contexts]
  BY DEF ContextInv, ContextTypeOK
<1>3. Len(chain) \in Nat \ {0} /\ Places = 1 .. Len(chain) /\ Finished = Len(chain) + 1
  BY <1>2, ChainsAreTyped DEF Finished
<1>4. pass # NoPass
  BY <1>1, <1>3 DEF NoPass
<1>5. /\ pass \in Passes /\ pass.stack \in Seq(Entries) /\ pass.stack # <<>> /\ Top \in Entries
  BY <1>2, <1>4, PassesAreTyped
<1>6. at \in 1 .. Len(chain) + 2 /\ at \in k + 1 .. Finished
  BY <1>1, <1>3
<1> HIDE DEF at
<1>7. e \in Entries /\ e.context = merged[k] /\ e.changed = Top.changed
  BY <1>1, <1>2, <1>5 DEF Entries
<1> HIDE DEF e
<1>8. /\ stack \in Seq(Entries) \ {<<>>}
      /\ IsContextProvider(k) => Last(stack) = e
      /\ ~IsContextProvider(k) => Last(stack) = Top
  BY <1>5, <1>7, PushedOnTop DEF Top
<1> HIDE DEF stack
<1>9. /\ new \in Passes /\ new.stack = stack /\ new.at = at /\ new.before = pass.before
      /\ new.given = pass.given /\ new.seen = pass.seen
  BY <1>5, <1>6, <1>8 DEF Passes
<1>10. pass'.stack = stack /\ pass'.at = at /\ pass'.before = pass.before /\ pass'.given = pass.given /\ pass'.seen = pass.seen
  BY <1>1, <1>9
<1>11. ContextTypeOK'
  <2>1. pass' \in Passes /\ Passes' = Passes /\ Places' = Places
    BY <1>1, <1>9 DEF Passes, Places
  <2> QED
    BY <1>1, <1>2, <2>1 DEF ContextTypeOK
<1>12. ContextSettled'
  <2>1. pass' # NoPass
    BY <1>3, <1>6, <1>10 DEF NoPass
  <2> QED
    BY <2>1 DEF ContextSettled
<1> HIDE DEF new
<1>13. ASSUME ~tainted, ~chain[1].constant PROVE PassFits'
  <2>1. PassFits
    BY <1>13 DEF ContextInv
  <2>2. /\ pass.before[2] = root
        /\ \A j \in Places : Fits(chain, pass.before[2].context, given, seen, pass.before[1], j)
        /\ \A j \in Places : j < k => Fits(chain, NewContext, pass.given, pass.seen, merged, j)
        /\ \A j \in Places : j >= k =>
             pass.given[j] = given[j] /\ pass.seen[j] = seen[j] /\ merged[j] = pass.before[1][j]
        /\ Open(chain, k - 1) => Top.context = ContextFrom(chain, NewContext, pass.given, k)
    BY <1>1, <1>3, <1>4, <2>1 DEF PassFits
  <2>3. /\ \A j \in Places : j >= k => Fits(chain, NewContext, pass.given, pass.seen, merged, j)
        /\ Open(chain, k) => ContextFrom(chain, NewContext, pass.given, k + 1)
                               = ContextFrom(chain, pass.before[2].context, given, k + 1)
    BY <1>1, <1>2, <1>4, <2>1, NothingChanges
  <2>4. \A j \in Places : Fits(chain, NewContext, pass.given, pass.seen, merged, j)
    BY <1>1, <1>3, <2>2, <2>3
  <2>5. \A j \in Places : j >= at => j >= k
    BY <1>1, <1>3, <1>6
  <2>6. ASSUME at \in Places, Open(chain, at - 1)
        PROVE  /\ Last(stack).context = ContextFrom(chain, NewContext, pass.given, at)
               /\ Last(stack).context = ContextFrom(chain, pass.before[2].context, given, at)
    <3>1. at = k + 1 /\ Open(chain, k)
      BY <1>1, <1>3, <2>6 DEF at
    <3>2. CASE IsContextProvider(k)
      <4>1. merged[k] = ContextFrom(chain, NewContext, pass.given, k + 1)
        BY <1>1, <2>4, <3>1, <3>2 DEF Fits, IsContextProvider
      <4> QED
        BY <1>7, <1>8, <2>3, <3>1, <3>2, <4>1
    <3>3. CASE ~IsContextProvider(k)
      <4>1. Open(chain, k - 1)
        BY <1>1, <1>2, <1>3, <3>1, OpenBefore
      <4>2. ContextFrom(chain, NewContext, pass.given, k + 1) = ContextFrom(chain, NewContext, pass.given, k)
        BY <1>1, <1>2, <1>4, <3>3, ContextGrows, PassesAreTyped
      <4> QED
        BY <1>8, <2>2, <2>3, <3>1, <3>3, <4>1, <4>2
    <3> QED
      BY <3>2, <3>3
  <2>7. NewContext' = NewContext /\ Finished' = Finished /\ Places' = Places
    BY <1>1 DEF Places, NewContext, Finished
  <2>8. Top' = Last(stack)
    BY <1>10 DEF Top
  <2>9. at <= Finished /\ ~(at > Finished)
    BY <1>1, <1>3, <1>6
  <2> QED
    BY <1>1, <1>10, <2>2, <2>4, <2>5, <2>6, <2>7, <2>8, <2>9 DEF PassFits
<1> QED
  BY <1>1, <1>11, <1>12, <1>13 DEF ContextInv

LEMMA RenderFitsContext ==
  ASSUME ContextInv, Render
  PROVE  ContextInv'
<1> DEFINE k == pass.at
           stack1 == pushContextProvider(k, pass.stack)
           value == pass.values[k] + Cardinality({l \in due[k] : l <= pass.level})
           same == ~pass.fresh /\ value = pass.values[k] /\ ~Last(stack1).changed
           should == ~same /\ ~chain[k].blocks
           stack == invalidateContextProvider(k, stack1, value, should)
           gave == IF should THEN [pass.given EXCEPT ![k] = value] ELSE pass.given
           saw == IF should /\ chain[k].reads
                  THEN [pass.seen EXCEPT ![k] = getUnmaskedContext(k, stack1)] ELSE pass.seen
           kept == IF should /\ IsContextProvider(k) THEN [merged EXCEPT ![k] = Last(stack).context] ELSE merged
           fresh == should /\ k < Len(chain) /\ ~chain[k + 1].constant
           at == IF should \/ DueBelow(k, pass.level) THEN k + 1 ELSE Finished
           new == [pass EXCEPT !.stack = stack, !.values = [@ EXCEPT ![k] = value], !.seen = saw, !.given = gave,
                               !.fresh = fresh, !.at = at]
<1>2. /\ ContextTypeOK /\ chain \in Chains /\ merged \in [Places -> Contexts]
  BY DEF ContextInv, ContextTypeOK
<1>3. Len(chain) \in Nat \ {0} /\ Places = 1 .. Len(chain) /\ Finished = Len(chain) + 1
  BY <1>2, ChainsAreTyped DEF Finished
<1>1. k \in Places
  BY DEF Render
<1>4. pass # NoPass
  BY <1>1, <1>3 DEF NoPass
<1>5. /\ pass \in Passes /\ pass.stack \in Seq(Entries) /\ pass.stack # <<>> /\ Top \in Entries
      /\ pass.values \in [Places -> Int] /\ pass.given \in [Places -> Int] /\ pass.seen \in [Places -> Contexts]
      /\ NewContext \in Contexts /\ pass.before[2].context \in Contexts
  BY <1>2, <1>4, PassesAreTyped
<1>6. /\ pass' = new /\ merged' = kept
      /\ UNCHANGED <<chain, values, given, seen, due, root, tainted, made>>
  <2>1. /\ pass' = [pass EXCEPT !.stack = stack, !.values[k] = value,
                              !.seen[k] = IF should /\ chain[k].reads THEN getUnmaskedContext(k, stack1) ELSE @,
                              !.given[k] = IF should THEN value ELSE @,
                              !.fresh = fresh, !.at = at]
        /\ merged' = kept
        /\ UNCHANGED <<chain, values, given, seen, due, root, tainted, made>>
    BY DEF Render
  <2> HIDE DEF stack, value, should, fresh, at, stack1
  <2>2. saw = [pass.seen EXCEPT ![k] = IF should /\ chain[k].reads THEN getUnmaskedContext(k, stack1) ELSE @]
    BY <1>1, <1>5
  <2>3. gave = [pass.given EXCEPT ![k] = IF should THEN value ELSE @]
    BY <1>1, <1>5
  <2> HIDE DEF saw, gave, kept
  <2> QED
    BY <2>1, <2>2, <2>3 DEF Passes
<1>7. value \in Int
  <2>1. k \in 0 .. Len(chain) /\ IsFiniteSet(due[k])
    BY <1>1, <1>2, <1>3 DEF ContextTypeOK
  <2>2. Cardinality({l \in due[k] : l <= pass.level}) \in Nat
    BY <2>1, FS_Subset, FS_CardinalityType
  <2> QED
    BY <1>1, <1>5, <2>2
<1> HIDE DEF value
<1> DEFINE pushed == [context |-> merged[k], changed |-> Top.changed]
           parent == Top.context
           replaced == [context |-> IF should THEN [parent EXCEPT ![chain[k].gives] = value] ELSE merged[k],
                        changed |-> should]
<1>8. pushed \in Entries /\ pushed.changed = Top.changed /\ pushed.context = merged[k] /\ parent \in Contexts
  BY <1>1, <1>2, <1>5 DEF Entries
<1>9. stack1 = IF IsContextProvider(k) THEN Append(pass.stack, pushed) ELSE pass.stack
  BY DEF pushContextProvider, InheritedChange, Top
<1> HIDE DEF pushed, stack1
<1>10. /\ Last(stack1).changed = Top.changed
       /\ getUnmaskedContext(k, stack1) = parent
       /\ IsContextProvider(k) => Last(stack1).context = merged[k] /\ Front(stack1) = pass.stack
  BY <1>5, <1>8, <1>9, PushedOnTop DEF getUnmaskedContext, Top
<1>11. same => ~Top.changed
  BY <1>10
<1>12. should \in BOOLEAN /\ (~chain[k].blocks => (should <=> ~same))
  OBVIOUS
<1> HIDE DEF same, should
<1>13. IsContextProvider(k) => chain[k].gives \in ContextKeys
  BY <1>1, <1>2, ChainsAreTyped DEF Links, IsContextProvider
<1>14. /\ IsContextProvider(k) => stack = Append(pass.stack, replaced)
       /\ ~IsContextProvider(k) => stack = pass.stack
  BY <1>9, <1>10 DEF invalidateContextProvider, Top
<1>15. IsContextProvider(k) => replaced \in Entries
  <2>1. IsContextProvider(k) => [parent EXCEPT ![chain[k].gives] = value] \in Contexts
    BY <1>7, <1>8, <1>13 DEF Contexts
  <2> HIDE DEF parent
  <2> QED
    BY <1>1, <1>2, <1>12, <2>1 DEF Entries
<1>16. /\ replaced.changed = should
       /\ should => replaced.context = [parent EXCEPT ![chain[k].gives] = value]
       /\ ~should => replaced.context = merged[k]
  OBVIOUS
<1> HIDE DEF replaced, parent, stack
<1>17. /\ stack \in Seq(Entries) \ {<<>>}
       /\ IsContextProvider(k) => Last(stack) = replaced
       /\ ~IsContextProvider(k) => Last(stack) = Top
  BY <1>5, <1>14, <1>15, PushedOnTop DEF Top
<1>18. at \in 1 .. Len(chain) + 2 /\ at \in k + 1 .. Finished /\ fresh \in BOOLEAN /\ (should => at = k + 1)
  <2> fresh \in BOOLEAN
    <3>1. k < Len(chain) => k + 1 \in Places
      BY <1>1, <1>3
    <3>2. k + 1 \in Places => chain[k + 1].constant \in BOOLEAN
      BY <1>2, ChainsAreTyped DEF Links
    <3> QED
      BY <1>12, <3>1, <3>2
  <2> QED
    BY <1>1, <1>3
<1> HIDE DEF at, fresh
<1>19. /\ gave \in [Places -> Int] /\ \A j \in Places : j # k => gave[j] = pass.given[j]
       /\ should => gave[k] = value
       /\ ~should => gave = pass.given
  BY <1>1, <1>5, <1>7
<1>20. /\ saw \in [Places -> Contexts] /\ \A j \in Places : j # k => saw[j] = pass.seen[j]
       /\ should /\ chain[k].reads => saw[k] = parent
       /\ ~should => saw = pass.seen
  BY <1>1, <1>5, <1>8, <1>10
<1>21. /\ kept \in [Places -> Contexts] /\ \A j \in Places : j # k => kept[j] = merged[j]
       /\ should /\ IsContextProvider(k) => kept[k] = replaced.context
       /\ ~should => kept = merged
  <2>1. IsContextProvider(k) => Last(stack).context \in Contexts
    BY <1>15, <1>17 DEF Entries
  <2> QED
    BY <1>1, <1>2, <1>17, <2>1
<1> HIDE DEF gave, saw, kept
<1>22. [pass.values EXCEPT ![k] = value] \in [Places -> Int]
  BY <1>1, <1>5, <1>7
<1>23. /\ new \in Passes /\ new.stack = stack /\ new.at = at /\ new.before = pass.before
       /\ new.given = gave /\ new.seen = saw
  BY <1>5, <1>17, <1>18, <1>19, <1>20, <1>22 DEF Passes
<1>24. pass'.stack = stack /\ pass'.at = at /\ pass'.before = pass.before /\ pass'.given = gave /\ pass'.seen = saw
  BY <1>6, <1>23
<1>25. ContextTypeOK'
  <2>1. pass' \in Passes /\ Passes' = Passes /\ Places' = Places
    BY <1>6, <1>23 DEF Passes, Places
  <2> QED
    BY <1>2, <1>6, <1>21, <2>1 DEF ContextTypeOK
<1> HIDE DEF new
<1>26. ContextSettled'
  <2>1. pass' # NoPass
    BY <1>3, <1>18, <1>24 DEF NoPass
  <2> QED
    BY <2>1 DEF ContextSettled
<1>27. ASSUME ~tainted, ~chain[1].constant PROVE PassFits'
  <2>1. PassFits
    BY <1>27 DEF ContextInv
  <2>2. /\ pass.before[2] = root
        /\ \A j \in Places : Fits(chain, pass.before[2].context, given, seen, pass.before[1], j)
        /\ \A j \in Places : j < k => Fits(chain, NewContext, pass.given, pass.seen, merged, j)
        /\ \A j \in Places : j >= k =>
             pass.given[j] = given[j] /\ pass.seen[j] = seen[j] /\ merged[j] = pass.before[1][j]
        /\ Open(chain, k - 1) =>
             /\ parent = ContextFrom(chain, NewContext, pass.given, k)
             /\ ~Top.changed => parent = ContextFrom(chain, pass.before[2].context, given, k)
    BY <1>1, <1>3, <1>4, <2>1 DEF PassFits, parent
  <2>3. ~Top.changed =>
          /\ \A j \in Places : j >= k => Fits(chain, NewContext, pass.given, pass.seen, merged, j)
          /\ Open(chain, k) => ContextFrom(chain, NewContext, pass.given, k + 1)
                                 = ContextFrom(chain, pass.before[2].context, given, k + 1)
    BY <1>1, <1>2, <1>4, <2>1, NothingChanges
  <2>4. ASSUME NEW n \in Int, n <= k
        PROVE  ContextFrom(chain, NewContext, gave, n) = ContextFrom(chain, NewContext, pass.given, n)
    <3>1. \A j \in Places : j < n => gave[j] = pass.given[j]
      BY <1>1, <1>3, <1>19, <2>4
    <3> QED
      BY <1>2, <3>1, ContextDepends
  <2>5. \A j \in Places : j < k => Fits(chain, NewContext, gave, saw, kept, j)
    <3> SUFFICES ASSUME NEW j \in Places, j < k PROVE Fits(chain, NewContext, gave, saw, kept, j)
      OBVIOUS
    <3>1. j \in Int /\ j <= k /\ j + 1 \in Int /\ j + 1 <= k /\ j # k
      BY <1>1, <1>3
    <3>2. /\ ContextFrom(chain, NewContext, gave, j) = ContextFrom(chain, NewContext, pass.given, j)
          /\ ContextFrom(chain, NewContext, gave, j + 1) = ContextFrom(chain, NewContext, pass.given, j + 1)
      BY <2>4, <3>1
    <3>3. saw[j] = pass.seen[j] /\ kept[j] = merged[j]
      BY <1>20, <1>21, <3>1
    <3> QED
      BY <2>2, <3>2, <3>3 DEF Fits
  <2>6. ASSUME Open(chain, k)
        PROVE  Open(chain, k - 1) /\ ~chain[k].blocks /\ (should <=> ~same)
    BY <1>1, <1>2, <1>3, <1>12, <2>6, OpenBefore
  <2>7. ASSUME Open(chain, k), should
        PROVE  /\ parent = ContextFrom(chain, NewContext, gave, k)
               /\ IsContextProvider(k) => replaced.context = ContextFrom(chain, NewContext, gave, k + 1)
               /\ ~IsContextProvider(k) => parent = ContextFrom(chain, NewContext, gave, k + 1)
    <3>1. parent = ContextFrom(chain, NewContext, gave, k)
      BY <1>1, <1>3, <2>2, <2>4, <2>6, <2>7
    <3>2. ContextFrom(chain, NewContext, gave, k + 1) =
            IF IsContextProvider(k) THEN [ContextFrom(chain, NewContext, gave, k) EXCEPT ![chain[k].gives] = gave[k]]
            ELSE ContextFrom(chain, NewContext, gave, k)
      BY <1>1, <1>2, <1>5, <1>19, ContextGrows
    <3> QED
      BY <1>16, <1>19, <2>7, <3>1, <3>2
  <2>8. \A j \in Places : j < at => Fits(chain, NewContext, gave, saw, kept, j)
    <3> SUFFICES ASSUME NEW j \in Places, j < at, Open(chain, j), j >= k
                 PROVE  Fits(chain, NewContext, gave, saw, kept, j)
      BY <1>1, <1>3, <2>5 DEF Fits
    <3>1. Open(chain, k)
      BY <1>1, <1>2, OpenBefore
    <3>2. CASE should
      <4>1. j = k
        BY <1>1, <1>3, <1>18, <3>2
      <4> QED
        BY <1>20, <1>21, <2>7, <3>1, <3>2, <4>1 DEF Fits, IsContextProvider
    <3>3. CASE ~should
      <4>1. ~Top.changed
        BY <1>11, <2>6, <3>1, <3>3
      <4> QED
        BY <1>19, <1>20, <1>21, <2>3, <3>3, <4>1
    <3> QED
      BY <3>2, <3>3
  <2>9. \A j \in Places : j >= at => j >= k /\ j # k
    BY <1>1, <1>3, <1>18
  <2>10. ASSUME at \in Places, Open(chain, at - 1)
         PROVE  /\ Last(stack).context = ContextFrom(chain, NewContext, gave, at)
                /\ ~Last(stack).changed => Last(stack).context = ContextFrom(chain, pass.before[2].context, given, at)
    <3>1. at = k + 1 /\ Open(chain, k)
      BY <1>1, <1>3, <1>18, <2>10 DEF at
    <3>2. given \in [Places -> Int]
      BY <1>2 DEF ContextTypeOK
    <3>3. ContextFrom(chain, pass.before[2].context, given, k + 1) =
            IF IsContextProvider(k)
            THEN [ContextFrom(chain, pass.before[2].context, given, k) EXCEPT ![chain[k].gives] = given[k]]
            ELSE ContextFrom(chain, pass.before[2].context, given, k)
      BY <1>1, <1>2, <1>5, <3>2, ContextGrows
    <3>4. CASE should
      <4>1. CASE IsContextProvider(k)
        BY <1>16, <1>17, <2>7, <3>1, <3>4, <4>1
      <4>2. CASE ~IsContextProvider(k)
        BY <1>17, <2>2, <2>6, <2>7, <3>1, <3>3, <3>4, <4>2 DEF parent
      <4> QED
        BY <4>1, <4>2
    <3>5. CASE ~should
      <4>1. ~Top.changed
        BY <1>11, <2>6, <3>1, <3>5
      <4>2. CASE IsContextProvider(k)
        <5>1. merged[k] = ContextFrom(chain, NewContext, pass.given, k + 1)
          BY <1>1, <1>3, <2>3, <3>1, <4>1, <4>2 DEF Fits, IsContextProvider
        <5> QED
          BY <1>16, <1>17, <1>19, <2>3, <3>1, <3>5, <4>1, <4>2, <5>1
      <4>3. CASE ~IsContextProvider(k)
        <5>1. parent = ContextFrom(chain, pass.before[2].context, given, k)
          BY <2>2, <2>6, <3>1, <4>1
        <5> QED
          BY <1>17, <1>19, <2>3, <3>1, <3>3, <3>5, <4>1, <4>3, <5>1 DEF parent
      <4> QED
        BY <4>2, <4>3
    <3> QED
      BY <3>4, <3>5
  <2>11. \A j \in Places : j >= at =>
           gave[j] = given[j] /\ saw[j] = seen[j] /\ kept[j] = pass.before[1][j]
    BY <1>19, <1>20, <1>21, <2>2, <2>9
  <2>12. NewContext' = NewContext /\ Finished' = Finished /\ Places' = Places
    BY <1>6 DEF Places, NewContext, Finished
  <2>13. Top' = Last(stack)
    BY <1>24 DEF Top
  <2>14. at <= Finished /\ ~(at > Finished)
    BY <1>1, <1>3, <1>18
  <2> QED
    BY <1>6, <1>24, <2>2, <2>8, <2>10, <2>11, <2>12, <2>13, <2>14 DEF PassFits
<1> QED
  BY <1>6, <1>25, <1>26, <1>27 DEF ContextInv

LEMMA CompleteFits ==
  ASSUME ContextInv, CompleteRender
  PROVE  ContextInv'
<1> DEFINE at == Finished + 1
           new == [pass EXCEPT !.at = at]
<1>1. /\ pass # NoPass /\ pass.at = Finished /\ pass' = new
      /\ root' = IF root.pending = NoContext THEN root ELSE [context |-> root.pending, pending |-> NoContext]
      /\ UNCHANGED <<chain, values, given, seen, due, merged, tainted, made>>
  BY DEF CompleteRender
<1>2. ContextTypeOK /\ chain \in Chains /\ root \in ContextRoots /\ pass \in Passes
  BY <1>1, PassesAreTyped DEF ContextInv, ContextTypeOK
<1>3. Len(chain) \in Nat \ {0} /\ Places = 1 .. Len(chain) /\ Finished = Len(chain) + 1
  BY <1>2, ChainsAreTyped DEF Finished
<1>4. /\ new \in Passes /\ new.at = at /\ new.before = pass.before /\ new.given = pass.given /\ new.seen = pass.seen
  <2>1. at \in 1 .. Len(chain) + 2
    BY <1>3
  <2> HIDE DEF at
  <2> QED
    BY <1>2, <2>1 DEF Passes
<1>5. root' \in ContextRoots /\ root'.pending = NoContext /\ root'.context = NewContext
  BY <1>1, <1>2 DEF ContextRoots, NewContext
<1>6. ContextTypeOK'
  <2>1. pass' \in Passes /\ Passes' = Passes /\ Places' = Places
    BY <1>1, <1>4 DEF Passes, Places
  <2> QED
    BY <1>1, <1>2, <1>5, <2>1 DEF ContextTypeOK
<1>7. ContextSettled'
  <2>1. pass' # NoPass
    BY <1>1, <1>3, <1>4 DEF NoPass
  <2> QED
    BY <2>1 DEF ContextSettled
<1>8. ASSUME ~tainted, ~chain[1].constant PROVE PassFits'
  <2>1. /\ \A j \in Places : Fits(chain, pass.before[2].context, given, seen, pass.before[1], j)
        /\ \A j \in Places : j < Finished => Fits(chain, NewContext, pass.given, pass.seen, merged, j)
    BY <1>1, <1>8 DEF ContextInv, PassFits
  <2>2. \A j \in Places : j < Finished /\ ~(j >= at)
    BY <1>3
  <2>3. NewContext' = NewContext /\ Finished' = Finished /\ Places' = Places
    BY <1>1, <1>5 DEF Places, NewContext, Finished
  <2>4. at \notin Places /\ ~(at <= Finished)
    BY <1>3
  <2>5. pass'.at = at /\ pass'.before = pass.before /\ pass'.given = pass.given /\ pass'.seen = pass.seen
    BY <1>1, <1>4
  <2> HIDE DEF new, at
  <2> QED
    BY <1>1, <1>5, <2>1, <2>2, <2>3, <2>4, <2>5 DEF PassFits
<1> QED
  BY <1>1, <1>6, <1>7, <1>8 DEF ContextInv

LEMMA CommitFitsContext ==
  ASSUME ContextInv, CommitRender
  PROVE  ContextInv'
<1>1. /\ pass # NoPass /\ pass.at = Finished + 1
      /\ values' = pass.values /\ given' = pass.given /\ seen' = pass.seen /\ pass' = NoPass
      /\ due' = [k \in DOMAIN due |-> {l \in due[k] : l > pass.level}]
      /\ UNCHANGED <<chain, merged, root, tainted, made>>
  BY DEF CommitRender
<1>2. ContextTypeOK /\ chain \in Chains
  BY DEF ContextInv, ContextTypeOK
<1>3. Len(chain) \in Nat \ {0} /\ Places = 1 .. Len(chain) /\ Finished = Len(chain) + 1
  BY <1>2, ChainsAreTyped DEF Finished
<1>4. pass.values \in [Places -> Int] /\ pass.given \in [Places -> Int] /\ pass.seen \in [Places -> Contexts]
  BY <1>1, <1>2, PassesAreTyped
<1>5. due' \in [0 .. Len(chain) -> SUBSET ContextLevels] /\ \A k \in 0 .. Len(chain) : IsFiniteSet(due'[k])
  <2>1. due \in [0 .. Len(chain) -> SUBSET ContextLevels] /\ \A k \in 0 .. Len(chain) : IsFiniteSet(due[k])
    BY <1>2 DEF ContextTypeOK
  <2>2. \A k \in 0 .. Len(chain) : IsFiniteSet({l \in due[k] : l > pass.level})
    BY <2>1, FS_Subset
  <2> QED
    BY <1>1, <2>1, <2>2
<1>6. ContextTypeOK'
  <2>1. Places' = Places
    BY <1>1 DEF Places
  <2> QED
    BY <1>1, <1>2, <1>4, <1>5, <2>1 DEF ContextTypeOK
<1>7. PassFits'
  BY <1>1 DEF PassFits
<1>8. ASSUME ~tainted, ~chain[1].constant PROVE ContextSettled'
  <2>1. /\ pass.at > Finished => root.pending = NoContext
        /\ \A j \in Places : j < pass.at => Fits(chain, NewContext, pass.given, pass.seen, merged, j)
    BY <1>1, <1>8 DEF ContextInv, PassFits
  <2>2. \A j \in Places : j < pass.at
    BY <1>1, <1>3
  <2>3. NewContext = root.context
    BY <1>1, <1>3, <2>1 DEF NewContext
  <2>4. Places' = Places
    BY <1>1 DEF Places
  <2> QED
    BY <1>1, <2>1, <2>2, <2>3, <2>4 DEF ContextSettled
<1> QED
  BY <1>1, <1>6, <1>7, <1>8 DEF ContextInv

LEMMA GiveUpFits ==
  ASSUME ContextInv, GiveUp
  PROVE  ContextInv'
<1>1. /\ pass # NoPass /\ pass' = NoPass /\ tainted' = (tainted \/ pass.before # <<merged, root>>)
      /\ UNCHANGED <<chain, values, given, seen, due, merged, root, made>>
  BY DEF GiveUp
<1>2. Places' = Places
  BY <1>1 DEF Places
<1>3. ContextTypeOK'
  BY <1>1, <1>2 DEF ContextInv, ContextTypeOK
<1>4. PassFits'
  BY <1>1 DEF PassFits
<1>5. ASSUME ~tainted', ~chain[1].constant PROVE ContextSettled'
  <2>1. ~tainted /\ pass.before = <<merged, root>>
    BY <1>1, <1>5 DEF ContextInv, ContextTypeOK
  <2>2. pass.before[1] = merged /\ pass.before[2] = root
    BY <2>1
  <2>3. \A j \in Places : Fits(chain, root.context, given, seen, merged, j)
    BY <1>1, <1>5, <2>1, <2>2 DEF ContextInv, PassFits
  <2> QED
    BY <1>1, <1>2, <2>3 DEF ContextSettled
<1> QED
  BY <1>1, <1>3, <1>4, <1>5 DEF ContextInv

(* An update marks a component, or the root and its pending context.       *)
LEMMA UpdateFits ==
  ASSUME ContextInv, NEW k \in 0 .. Len(chain), NEW level \in ContextLevels,
         pass = NoPass, due' = [due EXCEPT ![k] = @ \cup {level}],
         root' = root \/ \E context \in Contexts : root' = [root EXCEPT !.pending = context],
         UNCHANGED <<chain, values, given, seen, merged, pass, tainted>>
  PROVE  ContextInv'
<1>1. Places' = Places
  BY DEF Places
<1>2. root' \in ContextRoots /\ root'.context = root.context
  BY DEF ContextInv, ContextTypeOK, ContextRoots
<1>3. due' \in [0 .. Len(chain) -> SUBSET ContextLevels] /\ \A j \in 0 .. Len(chain) : IsFiniteSet(due'[j])
  <2>1. due \in [0 .. Len(chain) -> SUBSET ContextLevels] /\ \A j \in 0 .. Len(chain) : IsFiniteSet(due[j])
    BY DEF ContextInv, ContextTypeOK
  <2>2. IsFiniteSet(due[k] \cup {level})
    BY <2>1, FS_AddElement
  <2> QED
    BY <2>1, <2>2
<1>4. ContextTypeOK'
  BY <1>1, <1>2, <1>3 DEF ContextInv, ContextTypeOK
<1>5. PassFits'
  BY DEF PassFits
<1>6. ASSUME ~tainted, ~chain[1].constant PROVE ContextSettled'
  <2>1. \A j \in Places : Fits(chain, root.context, given, seen, merged, j)
    BY <1>6 DEF ContextInv, ContextSettled
  <2> QED
    BY <1>1, <1>2, <2>1 DEF ContextSettled
<1> QED
  BY <1>4, <1>5, <1>6 DEF ContextInv

LEMMA ContextStepsFit == ContextInv /\ [ContextNext]_contextVars => ContextInv'
<1> SUFFICES ASSUME ContextInv, [ContextNext]_contextVars PROVE ContextInv'
  OBVIOUS
<1>0. Len(chain) \in Nat /\ Places = 1 .. Len(chain)
  BY ChainsAreTyped DEF ContextInv, ContextTypeOK
<1>1. CASE Bailout
  BY <1>1, BailoutFits
<1>2. CASE Render
  BY <1>2, RenderFitsContext
<1>3. CASE CompleteRender
  BY <1>3, CompleteFits
<1>4. CASE CommitRender
  BY <1>4, CommitFitsContext
<1>5. CASE GiveUp
  BY <1>5, GiveUpFits
<1>6. ASSUME NEW level \in ContextLevels, BeginRender(level) PROVE ContextInv'
  BY <1>6, BeginFits
<1>7. ASSUME NEW level \in ContextLevels, NEW k \in Places, SetContextState(k, level) PROVE ContextInv'
  <2>1. /\ pass = NoPass /\ due' = [due EXCEPT ![k] = @ \cup {level}] /\ k \in 0 .. Len(chain)
        /\ UNCHANGED <<chain, values, given, seen, merged, root, pass, tainted>>
    BY <1>0, <1>7 DEF SetContextState
  <2> QED
    BY <2>1, UpdateFits
<1>8. ASSUME NEW level \in ContextLevels, NEW key \in ContextKeys,
             UpdateContainerContext([EmptyContext EXCEPT ![key] = 1], level)
      PROVE  ContextInv'
  <2> DEFINE context == [EmptyContext EXCEPT ![key] = 1]
  <2>1. context \in Contexts
    BY DEF EmptyContext, Contexts
  <2>2. /\ pass = NoPass /\ due' = [due EXCEPT ![0] = @ \cup {level}] /\ 0 \in 0 .. Len(chain)
        /\ root' = [root EXCEPT !.pending = context]
        /\ UNCHANGED <<chain, values, given, seen, merged, pass, tainted>>
    BY <1>0, <1>8 DEF UpdateContainerContext
  <2> HIDE DEF context
  <2> QED
    BY <2>1, <2>2, UpdateFits
<1>9. CASE UNCHANGED contextVars
  <2>1. /\ UNCHANGED <<chain, values, given, seen, due, merged, root, pass, tainted>>
        /\ Places' = Places /\ NewContext' = NewContext /\ Finished' = Finished /\ Top' = Top /\ Passes' = Passes
    BY <1>9 DEF contextVars, Places, NewContext, Finished, Top, Passes
  <2>2. ContextTypeOK'
    BY <2>1 DEF ContextInv, ContextTypeOK
  <2>3. (ContextSettled <=> ContextSettled') /\ (PassFits <=> PassFits')
    BY <2>1 DEF ContextSettled, PassFits
  <2> QED
    BY <2>1, <2>2, <2>3 DEF ContextInv
<1> QED
  BY <1>1, <1>2, <1>3, <1>4, <1>5, <1>6, <1>7, <1>8, <1>9 DEF ContextNext

LEMMA SettledIsSeen == ContextInv => ConsumersSeeTheirContext
<1> SUFFICES ASSUME ContextInv, pass = NoPass, ~tainted, ~chain[1].constant,
                    NEW k \in Places, chain[k].reads, ~(\E j \in 1 .. k : chain[j].blocks)
             PROVE  seen[k] = ContextAt(k)
  BY DEF ConsumersSeeTheirContext
<1>1. Fits(chain, root.context, given, seen, merged, k)
  BY DEF ContextInv, ContextSettled
<1>2. Open(chain, k)
  BY ChainsAreTyped DEF Open, Places, ContextInv, ContextTypeOK
<1> QED
  BY <1>1, <1>2 DEF Fits, ContextAt

(* Consumers see the context that the providers before them last gave,     *)
(* for every chain of components and every order of updates and renders    *)
(* that are not given up after a provider has rendered.                    *)
THEOREM ContextIsSeen == ContextSpec => []ConsumersSeeTheirContext
  BY ContextInvStarts, ContextStepsFit, SettledIsSeen, PTL DEF ContextSpec
-----------------------------------------------------------------------------
(* The selection.  The plugin takes the button for released only if it is, *)
(* and the last selection, if it has one, for that listeners know of.      *)
FieldsOrNone == TextFields \cup {NoField}

SelectTypeOK ==
  /\ documentActive \in FieldsOrNone /\ activeElement \in FieldsOrNone
  /\ selection \in [TextFields -> Int]
  /\ dragging \in BOOLEAN /\ mouseDown \in BOOLEAN /\ unheard \in BOOLEAN /\ checked \in BOOLEAN

SelectInv ==
  /\ SelectTypeOK
  /\ ~dragging /\ ~unheard => ~mouseDown
  /\ documentActive \in {NoField, activeElement}
  /\ \/ lastSelection = {}
     \/ /\ lastSelection = {toldSelection.at}
        /\ toldSelection = [field |-> activeElement, at |-> toldSelection.at]
  /\ SelectionIsReported

(* Once the plugin was asked, listeners know the selection.                *)
LEMMA AskedIsReported ==
  ASSUME SelectInv, NEW down \in BOOLEAN, constructSelectEvent(down),
         documentActive' = documentActive, selection' \in [TextFields -> Int],
         dragging' \in BOOLEAN, unheard' \in BOOLEAN, ~dragging' /\ ~unheard' => ~down
  PROVE  SelectInv'
<1>1. /\ mouseDown' = down /\ checked' = TRUE /\ activeElement' = activeElement
      /\ IF ~down /\ activeElement # NoField /\ activeElement = documentActive /\ lastSelection # {selection'[activeElement]}
         THEN /\ lastSelection' = {selection'[activeElement]}
              /\ toldSelection' = [field |-> activeElement, at |-> selection'[activeElement]]
         ELSE lastSelection' = lastSelection /\ toldSelection' = toldSelection
  BY DEF constructSelectEvent, HasChanged
<1>2. SelectTypeOK'
  BY <1>1 DEF SelectInv, SelectTypeOK
<1>3. \/ lastSelection' = {}
      \/ /\ lastSelection' = {toldSelection'.at}
         /\ toldSelection' = [field |-> activeElement', at |-> toldSelection'.at]
  BY <1>1 DEF SelectInv
<1>4. SelectionIsReported'
  <2> SUFFICES ASSUME documentActive # NoField, ~dragging', ~unheard'
               PROVE  toldSelection' = [field |-> documentActive, at |-> selection'[documentActive]]
    BY DEF SelectionIsReported
  <2>1. ~down /\ activeElement = documentActive
    BY DEF SelectInv
  <2>2. CASE lastSelection # {selection'[activeElement]}
    BY <1>1, <2>1, <2>2
  <2>3. CASE lastSelection = {selection'[activeElement]}
    <3>1. toldSelection.at = selection'[activeElement] /\ toldSelection = [field |-> activeElement, at |-> toldSelection.at]
      BY <2>3 DEF SelectInv
    <3> QED
      BY <1>1, <2>1, <2>3, <3>1
  <2> QED
    BY <2>2, <2>3
<1> QED
  BY <1>1, <1>2, <1>3, <1>4 DEF SelectInv

LEMMA SelectStarts == SelectInit => SelectInv
<1> SUFFICES ASSUME SelectInit PROVE SelectInv
  OBVIOUS
<1>1. SelectTypeOK
  <2>1. selection \in [TextFields -> Int]
    BY DEF SelectInit
  <2>2. documentActive \in FieldsOrNone /\ activeElement \in FieldsOrNone
    BY DEF SelectInit, FieldsOrNone
  <2>3. dragging \in BOOLEAN /\ mouseDown \in BOOLEAN /\ unheard \in BOOLEAN /\ checked \in BOOLEAN
    BY DEF SelectInit
  <2> QED
    BY <2>1, <2>2, <2>3 DEF SelectTypeOK
<1>2. SelectionIsReported
  BY DEF SelectInit, SelectionIsReported
<1> QED
  BY <1>1, <1>2 DEF SelectInit, SelectInv

LEMMA SelectSteps == SelectInv /\ [SelectNext]_selectVars => SelectInv'
<1> SUFFICES ASSUME SelectInv, [SelectNext]_selectVars PROVE SelectInv'
  OBVIOUS
<1>0. SelectTypeOK
  BY DEF SelectInv
<1>1. ASSUME NEW f \in TextFields \cup {NoField}, FocusMoves(f) PROVE SelectInv'
  BY <1>1 DEF FocusMoves, SelectInv, SelectTypeOK, FieldsOrNone, SelectionIsReported
<1>2. CASE FieldIsRemoved
  BY <1>2 DEF FieldIsRemoved, SelectInv, SelectTypeOK, FieldsOrNone, SelectionIsReported
<1>3. CASE ButtonPressed
  BY <1>3 DEF ButtonPressed, SelectInv, SelectTypeOK, SelectionIsReported
<1>4. CASE ButtonReleased
  BY <1>0, <1>4, AskedIsReported DEF ButtonReleased, SelectTypeOK
<1>5. CASE ReleasedElsewhere
  BY <1>5 DEF ReleasedElsewhere, SelectInv, SelectTypeOK, SelectionIsReported
<1>6. CASE KeyMoves
  BY <1>0, <1>6, AskedIsReported DEF KeyMoves, SelectTypeOK, SelectInv
<1>7. ASSUME NEW n \in 0 .. MaxSelection, SelectionMoves(n) PROVE SelectInv'
  <2>1. selection' \in [TextFields -> Int] /\ n \in Int
    BY <1>0, <1>7, SelectAssumption DEF SelectionMoves, SelectTypeOK, FieldsOrNone
  <2>2. CASE hearsSelection
    BY <1>0, <1>7, <2>1, <2>2, AskedIsReported DEF SelectionMoves, SelectTypeOK, SelectInv
  <2>3. CASE ~hearsSelection
    BY <1>7, <2>1, <2>3 DEF SelectionMoves, SelectInv, SelectTypeOK, SelectionIsReported
  <2> QED
    BY <2>2, <2>3
<1>8. CASE UNCHANGED selectVars
  BY <1>8 DEF selectVars, SelectInv, SelectTypeOK, SelectionIsReported
<1> QED
  BY <1>1, <1>2, <1>3, <1>4, <1>5, <1>6, <1>7, <1>8 DEF SelectNext

(* Listeners know the selection of the field that has the focus each time  *)
(* the plugin was asked and no button is down, whatever fields there are.  *)
THEOREM SelectionIsKnown == SelectSpec => []SelectionIsReported
<1>1. SelectInv => SelectionIsReported
  BY DEF SelectInv
<1> QED
  BY <1>1, SelectStarts, SelectSteps, PTL DEF SelectSpec
-----------------------------------------------------------------------------
(* Class components.  The invariant looks at the work in progress next to  *)
(* the fiber that is shown (Due): an attempt has the effects of what it    *)
(* would show, or renders the props that are shown already, for every      *)
(* kind of component and every queue of updates.                           *)
Shown(f) == f = [props |-> f.props, state |-> f.state, base |-> f.base, queue |-> f.queue]

InWork(f) ==
  /\ f = [props |-> f.props, state |-> f.state, base |-> f.base, queue |-> f.queue, level |-> f.level,
          effects |-> f.effects, again |-> f.again, captured |-> f.captured, rendered |-> f.rendered]
  /\ f.again \in BOOLEAN /\ f.captured \in BOOLEAN /\ f.rendered \in BOOLEAN

(* What the work in progress has to be, next to the fiber that is shown.   *)
Due(old, f) ==
  /\ old = NotMounted => "Update" \in f.effects
  /\ old # NotMounted =>
       /\ "Update" \in f.effects => f.rendered /\ (component.snapshot => "Snapshot" \in f.effects)
       /\ "Update" \notin f.effects /\ ~f.again =>
            /\ f.props = old.props \/ ~f.rendered
            /\ f.rendered => f.captured /\ component.update # "always"
       /\ f.again => f.captured

IsDerived(f) == component.derives => f.state.v \in {f.props.v, ErrorContent}

ClassFits ==
  /\ shown # NotMounted => Shown(shown) /\ IsDerived(shown)
  /\ wip # NotMounted => InWork(wip) /\ IsDerived(wip) /\ Due(shown, wip)

ClassInv == ClassFits /\ CommitsAreHeard

(* A new object is none of those that are in use.                          *)
LEMMA FreshIsNew ==
  ASSUME NEW v, NEW others, IsFiniteSet(others)
  PROVE  Fresh(v, others) \notin others
<1> DEFINE n == Cardinality(others)
           object(i) == [v |-> v, id |-> i]
           free == {i \in 0 .. n : object(i) \notin others}
<1>1. n \in Nat
  BY FS_CardinalityType
<1>2. free # {}
  <2> SUFFICES ASSUME free = {} PROVE FALSE
    OBVIOUS
  <2> DEFINE ids == 0 .. n
             f == [i \in ids |-> object(i)]
  <2>1. f \in [ids -> others]
    OBVIOUS
  <2>2. IsFiniteSet(ids) /\ Cardinality(ids) = n + 1
    BY <1>1, FS_Interval
  <2>3. Cardinality(others) < Cardinality(ids)
    BY <1>1, <2>2
  <2>4. PICK i, j \in ids : i # j /\ f[i] = f[j]
    <3> HIDE DEF f, ids, n, object, free
    <3>1. IsFiniteSet(ids)
      BY <2>2
    <3>2. \E i, j \in ids : i # j /\ f[i] = f[j]
      BY <2>1, <2>3, <3>1, FS_PigeonHole
    <3> QED
      BY <3>2
  <2>5. object(i) = object(j)
    BY <2>4 DEF f
  <2>6. object(i).id = i /\ object(j).id = j
    OBVIOUS
  <2> QED
    BY <2>4, <2>5, <2>6
<1>3. PICK m \in free : \A j \in free : m <= j
  <2>1. IsWellFoundedOn(OpToRel(<, Nat), Nat)
    BY NatLessThanWellFounded
  <2>2. free \subseteq Nat
    BY <1>1
  <2> HIDE DEF free
  <2>3. PICK m \in free : \A k \in free : ~(<<k, m>> \in OpToRel(<, Nat))
    BY <1>2, <2>1, <2>2, WFMin, Zenon
  <2>4. \A k \in free : <<k, m>> \in OpToRel(<, Nat) <=> k < m
    BY <2>2, Zenon DEF OpToRel
  <2>5. \A k \in free : k < m \/ m <= k
    BY <2>2
  <2> QED
    BY <2>3, <2>4, <2>5
<1>4. \E i \in 0 .. n : object(i) \notin others /\ \A j \in 0 .. i - 1 : object(j) \in others
  <2>1. m \in 0 .. n /\ object(m) \notin others
    OBVIOUS
  <2>2. ASSUME NEW j \in 0 .. m - 1 PROVE object(j) \in others
    <3>1. j \in 0 .. n /\ ~(m <= j)
      BY <1>1, <2>1
    <3> QED
      BY <1>3, <3>1
  <2> QED
    BY <2>1, <2>2
<1> DEFINE new == CHOOSE i \in 0 .. n : object(i) \notin others /\ \A j \in 0 .. i - 1 : object(j) \in others
<1>5. object(new) \notin others
  BY <1>4
<1> QED
  BY <1>5 DEF Fresh

LEMMA FreshHasContent == ASSUME NEW v, NEW others PROVE Fresh(v, others).v = v
  BY DEF Fresh

(* The state of the work in progress is in use.                            *)
LEMMA StateIsInUse ==
  /\ IsFiniteSet(InUse)
  /\ wip # NotMounted => wip.state \in InUse
<1> DEFINE S == {shown.props, shown.state, shown.base, wip.props, wip.state, wip.base}
<1>1. IsFiniteSet(S)
  <2>1. \A x, y, z : IsFiniteSet({x, y, z})
    <3>1. ASSUME NEW x, NEW y, NEW z PROVE IsFiniteSet({x, y, z})
      <4>1. IsFiniteSet({x}) /\ IsFiniteSet({y}) /\ IsFiniteSet({z})
        BY FS_Singleton
      <4>2. IsFiniteSet({x} \cup {y})
        BY <4>1, FS_Union
      <4>3. IsFiniteSet(({x} \cup {y}) \cup {z})
        BY <4>1, <4>2, FS_Union
      <4>4. {x, y, z} = ({x} \cup {y}) \cup {z}
        OBVIOUS
      <4> QED
        BY <4>3, <4>4
    <3> QED
      BY <3>1
  <2> DEFINE A == {shown.props, shown.state, shown.base}
             B == {wip.props, wip.state, wip.base}
  <2>2. IsFiniteSet(A) /\ IsFiniteSet(B)
    BY <2>1
  <2>3. S = A \cup B
    OBVIOUS
  <2> HIDE DEF A, B, S
  <2>4. IsFiniteSet(A \cup B)
    BY <2>2, FS_Union
  <2> QED
    BY <2>3, <2>4
<1>2. InUse \in SUBSET S
  BY DEF InUse
<1> HIDE DEF S
<1>3. IsFiniteSet(InUse)
  BY <1>1, <1>2, FS_Subset
<1>4. wip # NotMounted => wip.state \in InUse
  BY DEF InUse
<1> QED
  BY <1>3, <1>4

-----------------------------------------------------------------------------
(* The state that the queue leaves is that of an error, and new, if the    *)
(* children threw.                                                         *)
LEMMA ErrorIsNew ==
  ASSUME NEW fiber, NEW level, wip # NotMounted, fiber.again
  PROVE  Process(fiber, level).state # wip.state
<1> DEFINE others == InUse \cup {Applied(fiber.base, DueUpdates(fiber.queue, level))}
<1>1. IsFiniteSet(others)
  <2>1. IsFiniteSet({Applied(fiber.base, DueUpdates(fiber.queue, level))})
    BY FS_Singleton
  <2> QED
    BY <2>1, StateIsInUse, FS_Union
<1>2. Process(fiber, level).state = Fresh(ErrorContent, others)
  BY DEF Process
<1> HIDE DEF others
<1>3. Fresh(ErrorContent, others) \notin others
  BY <1>1, FreshIsNew
<1>4. wip.state \in others
  BY StateIsInUse DEF others
<1> QED
  BY <1>2, <1>3, <1>4

(* What is derived from props follows them, unless it shows an error.      *)
LEMMA DerivedFollows ==
  ASSUME NEW p, NEW next, component.derives
  PROVE  Derived(next, p).v \in {next.v, ErrorContent}
  BY FreshHasContent DEF Derived

LEMMA applyDerivedFollows ==
  ASSUME NEW fiber, NEW level, NEW next
  PROVE  LET p == Process(fiber, level)
         IN  /\ applyDerived(p, next).state = Derived(next, p.state)
             /\ p.queue = applyDerived(p, next).queue
  BY DEF Process, applyDerived

-----------------------------------------------------------------------------
LEMMA ClassStarts == ClassInit => ClassInv
  BY DEF ClassInit, ClassInv, ClassFits, CommitsAreHeard, Silence

(* A step that hears nothing and leaves what is shown.                     *)
LEMMA StillHeard ==
  ASSUME ClassInv, heard' = Silence, UNCHANGED component,
         \/ shown' = shown
         \/ shown # NotMounted /\ \E queue : shown' = [shown EXCEPT !.queue = queue]
  PROVE  /\ CommitsAreHeard'
         /\ shown' # NotMounted => shown # NotMounted /\ (Shown(shown) /\ IsDerived(shown))' /\ shown'.props = shown.props
         /\ shown' = NotMounted => shown = NotMounted
<1>1. CASE shown' = shown
  BY <1>1 DEF ClassInv, ClassFits, CommitsAreHeard, Silence, Shown, IsDerived
<1>2. CASE shown # NotMounted /\ \E queue : shown' = [shown EXCEPT !.queue = queue]
  <2>1. PICK queue : shown' = [shown EXCEPT !.queue = queue]
    BY <1>2
  <2>2. Shown(shown) /\ IsDerived(shown)
    BY <1>2 DEF ClassInv, ClassFits
  <2>3. shown' = [props |-> shown.props, state |-> shown.state, base |-> shown.base, queue |-> queue]
    BY <2>1, <2>2 DEF Shown
  <2>4. shown' # NotMounted
    BY <2>3 DEF NotMounted
  <2>5. (Shown(shown) /\ IsDerived(shown))'
    BY <2>2, <2>3 DEF Shown, IsDerived
  <2> QED
    BY <1>2, <2>3, <2>4, <2>5 DEF CommitsAreHeard, Silence, IsDerived
<1> QED
  BY <1>1, <1>2

LEMMA MoreInQueue ==
  ASSUME NEW f, InWork(f), NEW queue
  PROVE  [f EXCEPT !.queue = queue] =
           [props |-> f.props, state |-> f.state, base |-> f.base, queue |-> queue, level |-> f.level,
            effects |-> f.effects, again |-> f.again, captured |-> f.captured, rendered |-> f.rendered]
<1> DEFINE literal == [props |-> f.props, state |-> f.state, base |-> f.base, queue |-> f.queue, level |-> f.level,
                       effects |-> f.effects, again |-> f.again, captured |-> f.captured, rendered |-> f.rendered]
<1>1. f = literal
  BY DEF InWork
<1>2. [literal EXCEPT !.queue = queue] =
           [props |-> f.props, state |-> f.state, base |-> f.base, queue |-> queue, level |-> f.level,
            effects |-> f.effects, again |-> f.again, captured |-> f.captured, rendered |-> f.rendered]
  OBVIOUS
<1> HIDE DEF literal
<1> QED
  BY <1>1, <1>2

(* An update, in a first attempt or again.                                 *)
LEMMA UpdateInstanceFits ==
  ASSUME ClassInv, shown # NotMounted, NEW fiber, InWork(fiber), IsDerived(fiber), NEW next, NEW contextChanged,
         \/ /\ ~fiber.again /\ ~fiber.rendered /\ fiber.effects = {}
            /\ fiber.props = shown.props /\ fiber.state = shown.state
         \/ fiber.again /\ fiber = wip /\ wip # NotMounted /\ next = wip.props,
         UpdateInstance(fiber, next, contextChanged), heard' = Silence, UNCHANGED component
  PROVE  ClassInv'
<1> DEFINE added == IF Wills /\ fiber.props # next THEN <<Update(fiber.level, next.v, FALSE)>> ELSE <<>>
           old == [fiber EXCEPT !.queue = @ \o added]
           p == Process(old, fiber.level)
           same == old.props = next /\ old.state = p.state /\ ~contextChanged /\ ~p.forced
           q == IF same THEN p ELSE applyDerived(p, next)
           should == ~same /\ (p.forced \/ checkShouldComponentUpdate(old.props, next, old.state, q.state))
           effects == old.effects \cup (IF should THEN Effects ELSE EffectsUnderWay(old))
           rendered == old.rendered \/ should \/ fiber.again
<1>1. /\ wip' = [old EXCEPT !.props = next, !.state = q.state, !.base = q.base, !.queue = q.queue, !.again = FALSE,
                            !.rendered = rendered, !.effects = effects]
      /\ shown' = [shown EXCEPT !.queue = @ \o added]
  BY DEF UpdateInstance
<1>2. /\ old = [props |-> fiber.props, state |-> fiber.state, base |-> fiber.base, queue |-> fiber.queue \o added,
                level |-> fiber.level, effects |-> fiber.effects, again |-> fiber.again, captured |-> fiber.captured,
                rendered |-> fiber.rendered]
  <2> HIDE DEF added
  <2>1. old = [fiber EXCEPT !.queue = fiber.queue \o added]
    OBVIOUS
  <2> QED
    BY <2>1, MoreInQueue
<1>3. /\ old.props = fiber.props /\ old.state = fiber.state /\ old.effects = fiber.effects
      /\ old.rendered = fiber.rendered /\ old.again = fiber.again /\ old.captured = fiber.captured
  <2> HIDE DEF old
  <2> QED
    BY <1>2
<1>4. p.state # wip.state \/ ~old.again \/ wip = NotMounted
  <2> HIDE DEF old
  <2> QED
    BY ErrorIsNew
<1>5. q.state = p.state \/ q.state = Derived(next, p.state)
  <2> HIDE DEF old
  <2> QED
    BY applyDerivedFollows
<1>6. ~same => q.state = Derived(next, p.state)
  <2> HIDE DEF old
  <2> QED
    BY applyDerivedFollows
<1>7. same => q.state = fiber.state /\ next = fiber.props
  <2> HIDE DEF old, p
  <2> QED
    BY <1>3
<1>8. wip' = [props |-> next, state |-> q.state, base |-> q.base, queue |-> q.queue,
              level |-> fiber.level, effects |-> effects, again |-> FALSE, captured |-> fiber.captured,
              rendered |-> rendered]
  <2> HIDE DEF q, effects, rendered, old
  <2> QED
    BY <1>1, <1>2
<1>9. effects = fiber.effects \cup (IF should THEN Effects ELSE EffectsUnderWay(old))
  BY <1>3
<1>10. rendered <=> fiber.rendered \/ should \/ fiber.again
  BY <1>3
<1>11. EffectsUnderWay(old) = IF fiber.props # shown.props \/ fiber.state # shown.state THEN Effects ELSE {}
  <2> HIDE DEF old
  <2> QED
    BY <1>3 DEF EffectsUnderWay
<1>12. rendered \in BOOLEAN
  BY <1>3 DEF InWork
<1>13. fiber.again /\ component.update = "always" => should
  <2> HIDE DEF old, p, q
  <2> QED
    BY <1>3, <1>4 DEF checkShouldComponentUpdate
<1>14. fiber.again \in BOOLEAN /\ fiber.captured \in BOOLEAN /\ fiber.rendered \in BOOLEAN
  BY DEF InWork
<1>15. shown' # NotMounted /\ (Shown(shown) /\ IsDerived(shown))' /\ CommitsAreHeard' /\ shown'.props = shown.props
  <2> HIDE DEF added
  <2>1. \E queue : shown' = [shown EXCEPT !.queue = queue]
    BY <1>1
  <2> QED
    BY <2>1, StillHeard
<1>16. component.derives => q.state.v \in {next.v, ErrorContent}
  <2> HIDE DEF q, p, same
  <2> QED
    BY <1>6, <1>7, DerivedFollows DEF IsDerived
<1> HIDE DEF old, added, p, q, same, should, effects, rendered
<1>17. wip' # NotMounted /\ InWork(wip)'
  BY <1>8, <1>12, <1>14 DEF NotMounted, InWork
<1>18. IsDerived(wip)'
  BY <1>8, <1>16 DEF IsDerived
<1>19. Due(shown, wip)'
  <2>1. /\ wip'.effects = effects /\ wip'.rendered = rendered /\ wip'.captured = fiber.captured
        /\ wip'.again = FALSE /\ wip'.props = next
    BY <1>8
  <2>2. ASSUME "Update" \in effects PROVE rendered /\ (component.snapshot => "Snapshot" \in effects)
    BY <2>2, <1>9, <1>10, <1>11, <1>14 DEF Effects, ClassInv, ClassFits, Due
  <2>3. ASSUME "Update" \notin effects
        PROVE  (next = shown.props \/ ~rendered) /\ (rendered => fiber.captured /\ component.update # "always")
    BY <2>3, <1>9, <1>10, <1>11, <1>13, <1>14 DEF Effects, ClassInv, ClassFits, Due
  <2> QED
    BY <1>15, <2>1, <2>2, <2>3 DEF Due
<1> QED
  BY <1>15, <1>17, <1>18, <1>19 DEF ClassInv, ClassFits

LEMMA BeginUpdateFits ==
  ASSUME ClassInv, NEW level, NEW next, NEW contextChanged, BeginUpdate(level, next, contextChanged)
  PROVE  ClassInv'
<1> DEFINE fiber == [props |-> shown.props, state |-> shown.state, base |-> shown.base, queue |-> shown.queue,
                     level |-> level, effects |-> {}, again |-> FALSE, captured |-> FALSE, rendered |-> FALSE]
<1>1. /\ shown # NotMounted /\ UpdateInstance(fiber, next, contextChanged)
      /\ heard' = Silence /\ UNCHANGED component
  BY DEF BeginUpdate
<1>2. InWork(fiber)
  BY DEF InWork
<1>3. /\ ~fiber.again /\ ~fiber.rendered /\ fiber.effects = {}
      /\ fiber.props = shown.props /\ fiber.state = shown.state
  OBVIOUS
<1> HIDE DEF fiber
<1>4. IsDerived(fiber)
  BY <1>1, <1>3 DEF ClassInv, ClassFits, IsDerived
<1> QED
  BY <1>1, <1>2, <1>3, <1>4, UpdateInstanceFits

LEMMA UpdateAgainFits == ASSUME ClassInv, UpdateAgain PROVE ClassInv'
<1>1. /\ shown # NotMounted /\ wip # NotMounted /\ wip.again /\ UpdateInstance(wip, wip.props, FALSE)
      /\ heard' = Silence /\ UNCHANGED component
  BY DEF UpdateAgain
<1>2. InWork(wip) /\ IsDerived(wip)
  BY <1>1 DEF ClassInv, ClassFits
<1> QED
  BY <1>1, <1>2, UpdateInstanceFits

(* The first render, which becomes the instance.                           *)
LEMMA BeginMountFits == ASSUME ClassInv, NEW level, BeginMount(level) PROVE ClassInv'
<1> DEFINE next == [v |-> 1, id |-> 0]
           initial == [v |-> 0, id |-> 0]
           fiber == [props |-> next, state |-> initial, base |-> initial, queue |-> <<>>, level |-> level,
                     effects |-> {"Update"}, again |-> FALSE, captured |-> FALSE, rendered |-> TRUE]
           p == applyDerived([state |-> initial, base |-> initial, queue |-> <<>>], next)
           q == IF Wills THEN Process([fiber EXCEPT !.queue = <<Update(level, next.v, FALSE)>>], level) ELSE p
<1>1. /\ shown = NotMounted /\ shown' = shown /\ heard' = Silence /\ UNCHANGED component
      /\ wip' = [fiber EXCEPT !.state = q.state, !.base = q.base]
  BY DEF BeginMount
<1>2. component.derives => q.state = Derived(next, initial)
  BY DEF Wills, applyDerived
<1> HIDE DEF q
<1>3. wip' = [props |-> next, state |-> q.state, base |-> q.base, queue |-> <<>>, level |-> level,
              effects |-> {"Update"}, again |-> FALSE, captured |-> FALSE, rendered |-> TRUE]
  BY <1>1
<1> HIDE DEF initial, next
<1>4. IsDerived(wip)'
  BY <1>1, <1>2, <1>3, DerivedFollows DEF IsDerived
<1>5. InWork(wip)' /\ Due(shown, wip)'
  BY <1>1, <1>3 DEF InWork, Due
<1>6. CommitsAreHeard'
  BY <1>1, StillHeard
<1> QED
  BY <1>1, <1>4, <1>5, <1>6 DEF ClassInv, ClassFits

LEMMA ResumeMountFits == ASSUME ClassInv, ResumeMount PROVE ClassInv'
<1> DEFINE p == Process(wip, wip.level)
           same == wip.state = p.state /\ ~p.forced
           q == IF same THEN p ELSE applyDerived(p, wip.props)
           should == ~same /\ (p.forced \/ checkShouldComponentUpdate(wip.props, wip.props, wip.state, q.state))
           queue == q.queue \o (IF Wills /\ should THEN <<Update(wip.level, wip.props.v, FALSE)>> ELSE <<>>)
<1>1. /\ shown = NotMounted /\ wip # NotMounted /\ shown' = shown /\ heard' = Silence /\ UNCHANGED component
      /\ wip' = [wip EXCEPT !.state = q.state, !.base = q.base, !.queue = queue, !.again = FALSE, !.rendered = TRUE,
                            !.effects = @ \cup {"Update"}]
  BY DEF ResumeMount
<1>2. InWork(wip) /\ IsDerived(wip)
  BY <1>1 DEF ClassInv, ClassFits
<1>3. q.state = wip.state \/ q.state = Derived(wip.props, p.state)
  BY applyDerivedFollows
<1> HIDE DEF q, p, should, queue
<1>4. wip' = [props |-> wip.props, state |-> q.state, base |-> q.base, queue |-> queue, level |-> wip.level,
              effects |-> wip.effects \cup {"Update"}, again |-> FALSE, captured |-> wip.captured, rendered |-> TRUE]
  <2> DEFINE old == [props |-> wip.props, state |-> wip.state, base |-> wip.base, queue |-> wip.queue,
                     level |-> wip.level, effects |-> wip.effects, again |-> wip.again, captured |-> wip.captured,
                     rendered |-> wip.rendered]
  <2>1. wip = old
    BY <1>2 DEF InWork
  <2>2. wip' = [old EXCEPT !.state = q.state, !.base = q.base, !.queue = queue, !.again = FALSE, !.rendered = TRUE,
                           !.effects = wip.effects \cup {"Update"}]
    BY <1>1, <2>1
  <2> QED
    BY <2>2
<1>5. IsDerived(wip)'
  BY <1>1, <1>2, <1>3, <1>4, DerivedFollows DEF IsDerived
<1>6. InWork(wip)' /\ Due(shown, wip)'
  BY <1>1, <1>2, <1>4 DEF InWork, Due
<1>7. CommitsAreHeard'
  BY <1>1, StillHeard
<1> QED
  BY <1>1, <1>5, <1>6, <1>7 DEF ClassInv, ClassFits

LEMMA BeginChildrenFits == ASSUME ClassInv, NEW level, BeginChildren(level) PROVE ClassInv'
<1>1. /\ shown # NotMounted /\ shown' = shown /\ heard' = Silence /\ UNCHANGED component
      /\ wip' = [props |-> shown.props, state |-> shown.state, base |-> shown.base, queue |-> shown.queue,
                 level |-> level, effects |-> {}, again |-> TRUE, captured |-> TRUE, rendered |-> FALSE]
  BY DEF BeginChildren
<1>2. IsDerived(shown) /\ Shown(shown)
  BY <1>1 DEF ClassInv, ClassFits
<1>3. InWork(wip)' /\ Due(shown, wip)' /\ IsDerived(wip)'
  BY <1>1, <1>2 DEF InWork, Due, IsDerived
<1>4. CommitsAreHeard'
  BY <1>1, StillHeard
<1> QED
  BY <1>1, <1>2, <1>3, <1>4 DEF ClassInv, ClassFits, Shown, IsDerived

LEMMA ChildThrowsFits == ASSUME ClassInv, ChildThrows PROVE ClassInv'
<1>1. /\ wip # NotMounted /\ shown' = shown /\ heard' = Silence /\ UNCHANGED component
      /\ wip' = [wip EXCEPT !.again = TRUE, !.captured = TRUE]
  BY DEF ChildThrows
<1>2. InWork(wip) /\ IsDerived(wip) /\ Due(shown, wip)
  BY <1>1 DEF ClassInv, ClassFits
<1>3. wip' = [props |-> wip.props, state |-> wip.state, base |-> wip.base, queue |-> wip.queue, level |-> wip.level,
              effects |-> wip.effects, again |-> TRUE, captured |-> TRUE, rendered |-> wip.rendered]
  <2> DEFINE old == [props |-> wip.props, state |-> wip.state, base |-> wip.base, queue |-> wip.queue,
                     level |-> wip.level, effects |-> wip.effects, again |-> wip.again, captured |-> wip.captured,
                     rendered |-> wip.rendered]
  <2>1. wip = old
    BY <1>2 DEF InWork
  <2>2. wip' = [old EXCEPT !.again = TRUE, !.captured = TRUE]
    BY <1>1, <2>1
  <2> QED
    BY <2>2
<1>4. InWork(wip)' /\ Due(shown, wip)' /\ IsDerived(wip)'
  BY <1>1, <1>2, <1>3 DEF InWork, Due, IsDerived
<1>5. CommitsAreHeard'
  BY <1>1, StillHeard
<1> QED
  BY <1>1, <1>4, <1>5 DEF ClassInv, ClassFits, Shown, IsDerived

LEMMA InterruptFits == ASSUME ClassInv, Interrupt PROVE ClassInv'
<1>1. wip' = NotMounted /\ shown' = shown /\ heard' = Silence /\ UNCHANGED component
  BY DEF Interrupt
<1>2. CommitsAreHeard'
  BY <1>1, StillHeard
<1> QED
  BY <1>1, <1>2 DEF ClassInv, ClassFits, Shown, IsDerived

LEMMA EnqueueFits == ASSUME ClassInv, NEW u, EnqueueSetState(u) PROVE ClassInv'
<1>1. /\ shown # NotMounted /\ heard' = Silence /\ UNCHANGED component
      /\ shown' = [shown EXCEPT !.queue = Append(shown.queue, u)]
      /\ wip' = IF wip = NotMounted THEN wip ELSE [wip EXCEPT !.queue = Append(wip.queue, u)]
  BY DEF EnqueueSetState
<1>2. shown' # NotMounted /\ (Shown(shown) /\ IsDerived(shown))' /\ CommitsAreHeard' /\ shown'.props = shown.props
  BY <1>1, StillHeard
<1>3. ASSUME wip' # NotMounted PROVE InWork(wip)' /\ Due(shown, wip)' /\ IsDerived(wip)'
  <2>1. wip # NotMounted /\ InWork(wip) /\ IsDerived(wip) /\ Due(shown, wip)
    BY <1>1, <1>3 DEF ClassInv, ClassFits
  <2>2. wip' = [props |-> wip.props, state |-> wip.state, base |-> wip.base, queue |-> Append(wip.queue, u),
                level |-> wip.level, effects |-> wip.effects, again |-> wip.again, captured |-> wip.captured,
                rendered |-> wip.rendered]
    BY <1>1, <2>1, MoreInQueue
  <2> QED
    BY <1>1, <1>2, <2>1, <2>2 DEF InWork, Due, IsDerived
<1> QED
  BY <1>2, <1>3 DEF ClassInv, ClassFits

(* What was due is what the commit calls.                                  *)
LEMMA CommitClassFits == ASSUME ClassInv, CommitClass PROVE ClassInv'
<1> DEFINE was == IF shown = NotMounted THEN <<>> ELSE <<shown.props, shown.state>>
           snapshot == IF "Snapshot" \in wip.effects /\ shown # NotMounted THEN was ELSE instance.snapshot
           called == IF "Update" \notin wip.effects THEN "none" ELSE IF shown = NotMounted THEN "didMount" ELSE "didUpdate"
<1>1. /\ wip # NotMounted /\ ~wip.again /\ wip' = NotMounted /\ UNCHANGED component
      /\ shown' = [props |-> wip.props, state |-> wip.state, base |-> wip.base, queue |-> wip.queue]
      /\ heard' = [called |-> called, was |-> was, snapshot |-> snapshot, changed |-> was # <<>> /\ wip.props # was[1],
                   rendered |-> wip.rendered, captured |-> wip.captured]
  BY DEF CommitClass
<1>2. InWork(wip) /\ IsDerived(wip) /\ Due(shown, wip)
  BY <1>1 DEF ClassInv, ClassFits
<1>3. shown' # NotMounted /\ Shown(shown)' /\ IsDerived(shown)'
  BY <1>1, <1>2 DEF Shown, IsDerived, NotMounted
<1>4. was = <<>> <=> shown = NotMounted
  OBVIOUS
<1>5. shown # NotMounted => was[1] = shown.props
  OBVIOUS
<1>6. /\ called = "didMount" <=> was = <<>>
      /\ called = "none" => wip.props = was[1] \/ ~wip.rendered
      /\ called = "none" /\ wip.rendered => wip.captured /\ component.update # "always"
      /\ called = "didUpdate" => wip.rendered /\ (component.snapshot => snapshot = was)
  <2> HIDE DEF was
  <2> QED
    BY <1>1, <1>2, <1>4, <1>5 DEF Due
<1> HIDE DEF was, snapshot, called
<1>7. /\ heard'.called = called /\ heard'.was = was /\ heard'.snapshot = snapshot
      /\ heard'.changed <=> was # <<>> /\ wip.props # was[1]
      /\ heard'.rendered = wip.rendered /\ heard'.captured = wip.captured
  BY <1>1
<1>8. CommitsAreHeard'
  BY <1>1, <1>3, <1>6, <1>7 DEF CommitsAreHeard, IsDerived
<1> QED
  BY <1>1, <1>3, <1>8 DEF ClassInv, ClassFits

LEMMA ClassSteps == ClassInv /\ [ClassNext]_classVars => ClassInv'
<1> SUFFICES ASSUME ClassInv, [ClassNext]_classVars PROVE ClassInv'
  OBVIOUS
<1>1. CASE UNCHANGED classVars
  BY <1>1 DEF classVars, ClassInv, ClassFits, CommitsAreHeard, Shown, InWork, IsDerived, Due
<1>2. ASSUME NEW level \in ClassLevels,
             \/ BeginMount(level) \/ BeginChildren(level) \/ BeginUpdate(level, shown.props, TRUE)
             \/ \E next \in {shown.props} \cup {Fresh(v, {shown.props}) : v \in Contents} :
                  BeginUpdate(level, next, FALSE)
      PROVE  ClassInv'
  BY <1>2, BeginMountFits, BeginChildrenFits, BeginUpdateFits
<1>3. CASE ResumeMount \/ UpdateAgain \/ ChildThrows \/ Interrupt \/ CommitClass
  BY <1>3, ResumeMountFits, UpdateAgainFits, ChildThrowsFits, InterruptFits, CommitClassFits
<1>4. ASSUME NEW u, EnqueueSetState(u) PROVE ClassInv'
  BY <1>4, EnqueueFits
<1> QED
  BY <1>1, <1>2, <1>3, <1>4 DEF ClassNext

(* However renders of a class component are interrupted, repeated after an *)
(* error in its children, and committed, and for every kind of component:  *)
(* componentDidMount is called by the first commit, componentDidUpdate by  *)
(* those that show a new render, with the snapshot of the same commit, and *)
(* the state that is shown is derived from the props that are shown.       *)
THEOREM ClassCommitsAreHeard == ClassSpec => []CommitsAreHeard
<1>1. ClassInv => CommitsAreHeard
  BY DEF ClassInv
<1> QED
  BY <1>1, ClassStarts, ClassSteps, PTL DEF ClassSpec

-----------------------------------------------------------------------------
(* Controlled inputs.  Values of all the fields: of a group at most one    *)
(* radio button is checked.                                                *)
Checked(v) == v = TRUE
Off(v) == v = FALSE

InputValues == BOOLEAN \cup TextValues \cup {Min(TextValues)}

IsOfFields(d) == d \in [Fields -> InputValues]

FieldsAgree(d) ==
  /\ IsOfFields(d)
  /\ \A f \in Radios : Checked(d[f]) \/ Off(d[f])
  /\ \A f, g \in Radios : Checked(d[f]) /\ Checked(d[g]) => f = g

NodeFits(n) ==
  /\ n = [dom |-> n.dom, tracker |-> n.tracker]
  /\ FieldsAgree(n.dom) /\ IsOfFields(n.tracker)

IsControlled == mode.controlled

(* A field shows what it is given, and its tracker knows.                  *)
ShowsField(n, f, ps) ==
  /\ n.tracker[f] = n.dom[f]
  /\ IsControlled => n.dom[f] = ps[f]

(* What an update leaves: of the text field, that its tracker may be late. *)
Renders(n, f, ps) ==
  /\ n.dom[f] = ps[f]
  /\ f # TextField => n.tracker[f] = n.dom[f]

TextOf(n, m, ps) ==
  \/ m.dom[TextField] = n.dom[TextField] /\ m.tracker[TextField] = n.tracker[TextField]
  \/ m.dom[TextField] = ps[TextField] /\ m.tracker[TextField] = ps[TextField]

(* Updates of some fields lose nothing of the other ones.                  *)
Follows(n, m, ps) ==
  /\ NodeFits(m)
  /\ \A g \in Fields : ShowsField(n, g, ps) => ShowsField(m, g, ps)
  /\ IsControlled => \A g \in Fields : Renders(n, g, ps) => Renders(m, g, ps)
  /\ TextOf(n, m, ps)

LEMMA FollowsItself == ASSUME NEW n, NodeFits(n), NEW ps PROVE Follows(n, n, ps)
  BY DEF Follows, TextOf

LEMMA FollowsOn ==
  ASSUME NEW n, NEW m, NEW l, NEW ps, Follows(n, m, ps), Follows(m, l, ps)
  PROVE  Follows(n, l, ps)
<1>1. TextOf(n, l, ps)
  BY DEF Follows, TextOf
<1> QED
  BY <1>1 DEF Follows

LEMMA BooleansDiffer == \A v : ~(Checked(v) /\ Off(v))
  BY Zenon DEF Checked, Off

LEMMA AssignedFits ==
  ASSUME NEW d, FieldsAgree(d), NEW f \in Fields, NEW v \in InputValues, f \in Radios => Checked(v) \/ Off(v)
  PROVE  LET e == Assigned(d, f, v)
         IN  /\ FieldsAgree(e) /\ e[f] = v
             /\ \A g \in Fields : \/ g = f
                                  \/ e[g] = d[g]
                                  \/ f \in Radios /\ g \in Radios /\ Checked(v) /\ Off(e[g])
<1> DEFINE e == Assigned(d, f, v)
<1>1. e = [g \in Fields |-> IF g = f THEN v ELSE IF f \in Radios /\ g \in Radios /\ Checked(v) THEN FALSE ELSE d[g]]
  BY DEF Assigned, Checked
<1> HIDE DEF e
<1>2. e[f] = v
  BY <1>1
<1>3. ASSUME NEW g \in Fields, g # f
      PROVE  \/ e[g] = d[g] /\ ~(f \in Radios /\ g \in Radios /\ Checked(v))
             \/ f \in Radios /\ g \in Radios /\ Checked(v) /\ Off(e[g])
  <2>1. CASE f \in Radios /\ g \in Radios /\ Checked(v)
    <3>1. e[g] = FALSE
      BY <1>1, <1>3, <2>1, Zenon
    <3> QED
      BY <2>1, <3>1, Zenon DEF Off
  <2>2. CASE ~(f \in Radios /\ g \in Radios /\ Checked(v))
    <3>1. e[g] = d[g]
      BY <1>1, <1>3, <2>2, Zenon
    <3> QED
      BY <2>2, <3>1, Zenon
  <2> QED
    BY <2>1, <2>2, Zenon
<1>4. IsOfFields(e)
  <2>1. FALSE \in InputValues /\ d \in [Fields -> InputValues]
    BY DEF InputValues, FieldsAgree, IsOfFields
  <2>2. \A g \in Fields :
          (IF g = f THEN v ELSE IF f \in Radios /\ g \in Radios /\ Checked(v) THEN FALSE ELSE d[g]) \in InputValues
    BY <2>1, Zenon
  <2> QED
    BY <1>1, <2>2, Zenon DEF IsOfFields
<1>5. \A g \in Radios : g \in Fields
  BY DEF Fields
<1>6. \A g \in Radios : Checked(e[g]) \/ Off(e[g])
  BY <1>2, <1>3, <1>5, Zenon DEF FieldsAgree
<1>7. ASSUME NEW g \in Radios, NEW h \in Radios, Checked(e[g]), Checked(e[h]) PROVE g = h
  <2>1. CASE f \notin Radios
    <3>1. e[g] = d[g] /\ e[h] = d[h]
      BY <1>3, <1>5, <2>1
    <3> QED
      BY <1>7, <3>1 DEF FieldsAgree
  <2>2. CASE f \in Radios /\ Checked(v)
    <3>1. \A k \in Radios : k # f => Off(e[k])
      BY <1>3, <1>5, <2>2
    <3> QED
      BY <1>7, <3>1, BooleansDiffer
  <2>3. CASE f \in Radios /\ ~Checked(v)
    <3>1. \A k \in Radios : k # f => e[k] = d[k]
      BY <1>3, <1>5, <2>3
    <3>2. g # f /\ h # f
      BY <1>2, <1>7, <2>3
    <3> QED
      BY <1>7, <3>1, <3>2 DEF FieldsAgree
  <2> QED
    BY <2>1, <2>2, <2>3
<1> QED
  BY <1>2, <1>3, <1>4, <1>6, <1>7 DEF FieldsAgree, e

LEMMA NodeIsSet ==
  ASSUME NEW n, NodeFits(n), NEW f \in Fields, NEW ps, FieldsAgree(ps), IsControlled
  PROVE  LET m == SetNode(n, f, ps[f])
         IN  Follows(n, m, ps) /\ Renders(m, f, ps)
<1> DEFINE m == SetNode(n, f, ps[f])
           d == Assigned(n.dom, f, ps[f])
           t == [n.tracker EXCEPT ![f] = ps[f]]
<1>1. m.dom = d /\ m.tracker = t /\ m = [dom |-> d, tracker |-> t]
  BY DEF SetNode
<1>2. /\ FieldsAgree(d) /\ d[f] = ps[f]
      /\ \A g \in Fields : \/ g = f
                           \/ d[g] = n.dom[g]
                           \/ f \in Radios /\ g \in Radios /\ Checked(ps[f]) /\ Off(d[g])
  <2>1. FieldsAgree(n.dom) /\ (f \in Radios => Checked(ps[f]) \/ Off(ps[f]))
    BY DEF NodeFits, FieldsAgree
  <2>2. ps[f] \in InputValues
    BY DEF FieldsAgree, IsOfFields
  <2> QED
    BY <2>1, <2>2, AssignedFits
<1>3. IsOfFields(t) /\ t[f] = ps[f] /\ \A g \in Fields : g # f => t[g] = n.tracker[g]
  <2>1. n.tracker \in [Fields -> InputValues] /\ ps[f] \in InputValues
    BY DEF NodeFits, FieldsAgree, IsOfFields
  <2> QED
    BY <2>1 DEF IsOfFields
<1> HIDE DEF m, d, t
<1>4. TextField \in Fields /\ TextField \notin Radios
  BY InputsAssumption DEF Fields
<1>5. NodeFits(m)
  BY <1>1, <1>2, <1>3 DEF NodeFits
<1>6. ShowsField(m, f, ps) /\ Renders(m, f, ps)
  BY <1>1, <1>2, <1>3 DEF ShowsField, Renders
<1>7. ASSUME NEW g \in Fields, g # f
      PROVE  \/ m.dom[g] = n.dom[g] /\ m.tracker[g] = n.tracker[g]
             \/ g \in Radios /\ m.dom[g] = ps[g] /\ m.tracker[g] = n.tracker[g]
  <2>1. CASE d[g] = n.dom[g]
    BY <1>1, <1>3, <1>7, <2>1
  <2>2. CASE f \in Radios /\ g \in Radios /\ Checked(ps[f]) /\ Off(d[g])
    <3>1. ~Checked(ps[g])
      BY <1>7, <2>2 DEF FieldsAgree
    <3>2. Off(ps[g])
      BY <2>2, <3>1 DEF FieldsAgree
    <3>3. d[g] = ps[g]
      BY <2>2, <3>2, Zenon DEF Off
    <3> QED
      BY <1>1, <1>3, <1>7, <2>2, <3>3
  <2> QED
    BY <1>2, <1>7, <2>1, <2>2
<1>8. ASSUME NEW g \in Fields, ShowsField(n, g, ps) PROVE ShowsField(m, g, ps)
  BY <1>6, <1>7, <1>8 DEF ShowsField
<1>9. ASSUME NEW g \in Fields, Renders(n, g, ps) PROVE Renders(m, g, ps)
  BY <1>6, <1>7, <1>9 DEF Renders
<1>10. TextOf(n, m, ps)
  <2>1. CASE f = TextField
    BY <1>1, <1>2, <1>3, <2>1 DEF TextOf
  <2>2. CASE f # TextField
    BY <1>4, <1>7, <2>2 DEF TextOf
  <2> QED
    BY <2>1, <2>2
<1> QED
  BY <1>5, <1>6, <1>8, <1>9, <1>10 DEF Follows, m

LEMMA WrapperFits ==
  ASSUME NEW n, NodeFits(n), NEW f \in Fields, NEW ps, FieldsAgree(ps)
  PROVE  LET m == updateWrapper(n, f, ps)
         IN  /\ Follows(n, m, ps)
             /\ IsControlled => Renders(m, f, ps)
             /\ ~IsControlled => m = n
<1> DEFINE m == updateWrapper(n, f, ps)
<1>1. CASE ~IsControlled
  <2>1. m = n
    BY <1>1 DEF updateWrapper, IsControlled
  <2> QED
    BY <1>1, <2>1, FollowsItself
<1>2. CASE IsControlled /\ f = TextField /\ n.dom[f] = ps[f]
  <2>1. m = n
    BY <1>2 DEF updateWrapper
  <2>2. Renders(n, f, ps)
    BY <1>2 DEF Renders
  <2> QED
    BY <1>2, <2>1, <2>2, FollowsItself
<1>3. CASE IsControlled /\ ~(f = TextField /\ n.dom[f] = ps[f])
  <2>1. m = SetNode(n, f, ps[f])
    BY <1>3 DEF updateWrapper, IsControlled
  <2> HIDE DEF m
  <2>2. Follows(n, m, ps) /\ Renders(m, f, ps)
    BY <1>3, <2>1, NodeIsSet
  <2> QED
    BY <1>3, <2>2 DEF m
<1> QED
  BY <1>1, <1>2, <1>3

LEMMA NoticeFits ==
  ASSUME NEW n, NodeFits(n), NEW f \in Fields, NEW ps
  PROVE  LET m == updateValueIfChanged(n, f)
         IN  /\ NodeFits(m) /\ m.dom = n.dom
             /\ \A g \in Fields : m.tracker[g] = IF g = f THEN n.dom[f] ELSE n.tracker[g]
             /\ f # TextField => Follows(n, m, ps)
<1> DEFINE m == updateValueIfChanged(n, f)
           t == [n.tracker EXCEPT ![f] = n.dom[f]]
<1>1. m.dom = n.dom /\ m.tracker = t /\ m = [dom |-> n.dom, tracker |-> t]
  <2>1. n = [dom |-> n.dom, tracker |-> n.tracker]
    BY DEF NodeFits
  <2> QED
    BY <2>1 DEF updateValueIfChanged
<1>2. IsOfFields(t) /\ \A g \in Fields : t[g] = IF g = f THEN n.dom[f] ELSE n.tracker[g]
  <2>1. n.tracker \in [Fields -> InputValues] /\ n.dom[f] \in InputValues
    BY DEF NodeFits, FieldsAgree, IsOfFields
  <2> QED
    BY <2>1 DEF IsOfFields
<1>3. TextField \in Fields
  BY DEF Fields
<1> HIDE DEF m, t
<1>4. NodeFits(m)
  BY <1>1, <1>2 DEF NodeFits
<1>5. \A g \in Fields : ShowsField(n, g, ps) => ShowsField(m, g, ps)
  BY <1>1, <1>2 DEF ShowsField
<1>6. \A g \in Fields : Renders(n, g, ps) => Renders(m, g, ps)
  BY <1>1, <1>2 DEF Renders
<1>7. f # TextField => TextOf(n, m, ps)
  BY <1>1, <1>2, <1>3 DEF TextOf
<1> QED
  BY <1>1, <1>2, <1>4, <1>5, <1>6, <1>7 DEF m, Follows

LEMMA UpdatedFieldFits ==
  ASSUME NEW n, NodeFits(n), NEW f \in Fields, NEW ps, FieldsAgree(ps),
         NEW noticed \in BOOLEAN, noticed => f # TextField
  PROVE  LET m == UpdatedField(n, f, noticed, ps)
         IN  /\ Follows(n, m, ps)
             /\ noticed => ShowsField(m, f, ps)
             /\ IsControlled => Renders(m, f, ps)
             /\ ~IsControlled /\ ~noticed => m = n
<1> DEFINE l == updateValueIfChanged(n, f)
           m == UpdatedField(n, f, noticed, ps)
<1>1. CASE ~noticed
  <2>1. m = updateWrapper(n, f, ps)
    BY <1>1 DEF UpdatedField
  <2> HIDE DEF m
  <2>2. Follows(n, m, ps) /\ (IsControlled => Renders(m, f, ps)) /\ (~IsControlled => m = n)
    BY <2>1, WrapperFits
  <2> QED
    BY <1>1, <2>2 DEF m
<1>2. CASE noticed
  <2>1. m = updateWrapper(l, f, ps)
    BY <1>2 DEF UpdatedField
  <2>2. NodeFits(l) /\ Follows(n, l, ps) /\ l.dom = n.dom /\ l.tracker[f] = n.dom[f]
    BY <1>2, NoticeFits
  <2> HIDE DEF m, l
  <2>3. Follows(l, m, ps) /\ (IsControlled => Renders(m, f, ps)) /\ (~IsControlled => m = l)
    BY <2>1, <2>2, WrapperFits
  <2>4. Follows(n, m, ps)
    BY <2>2, <2>3, FollowsOn
  <2>5. ShowsField(m, f, ps)
    BY <1>2, <2>2, <2>3 DEF ShowsField, Renders
  <2> QED
    BY <1>2, <2>3, <2>4, <2>5 DEF m
<1> QED
  BY <1>1, <1>2

-----------------------------------------------------------------------------
(* Fields in turn.                                                         *)
IsTurns(g, n, fs, noticed, ps) ==
  g = [k \in 0 .. Len(fs) |-> IF k = 0 THEN n ELSE UpdatedField(g[k - 1], fs[k], noticed, ps)]

LEMMA TurnsExist ==
  ASSUME NEW n, NEW fs, NEW noticed, NEW ps, Len(fs) \in Nat
  PROVE  \E g : IsTurns(g, n, fs, noticed, ps)
<1> DEFINE Upto(g, m) == /\ g = [k \in 0 .. m |-> g[k]]
                         /\ \A k \in 0 .. m : g[k] = IF k = 0 THEN n ELSE UpdatedField(g[k - 1], fs[k], noticed, ps)
           Missing == {m \in Nat : ~\E g : Upto(g, m)}
<1>1. Missing = {}
  <2> SUFFICES ASSUME Missing # {} PROVE FALSE
    OBVIOUS
  <2>1. PICK m \in Missing : \A k \in Missing : m <= k
    <3>1. Missing \in SUBSET Nat
      OBVIOUS
    <3> HIDE DEF Missing
    <3> QED
      BY <3>1, LeastOf
  <2>2. m # 0
    <3> DEFINE g == [k \in 0 .. 0 |-> n]
    <3>1. Upto(g, 0)
      OBVIOUS
    <3> QED
      BY <3>1
  <2>3. m \in Nat /\ m - 1 \in Nat /\ m - 1 \notin Missing
    BY <2>1, <2>2
  <2>4. PICK h : Upto(h, m - 1)
    BY <2>3
  <2> DEFINE g == [k \in 0 .. m |-> IF k = m THEN UpdatedField(h[m - 1], fs[m], noticed, ps) ELSE h[k]]
  <2>5. ASSUME NEW k \in 0 .. m
        PROVE  g[k] = IF k = 0 THEN n ELSE UpdatedField(g[k - 1], fs[k], noticed, ps)
    <3>1. CASE k = m
      <4>1. g[m - 1] = h[m - 1] /\ g[m] = UpdatedField(h[m - 1], fs[m], noticed, ps)
        BY <2>2, <2>3
      <4> HIDE DEF g
      <4> QED
        BY <2>2, <3>1, <4>1
    <3>2. CASE k # m
      <4>1. k \in 0 .. m - 1
        BY <2>3, <3>2
      <4>2. h[k] = IF k = 0 THEN n ELSE UpdatedField(h[k - 1], fs[k], noticed, ps)
        BY <2>4, <4>1
      <4>3. g[k] = h[k] /\ (k # 0 => g[k - 1] = h[k - 1])
        BY <2>3, <3>2, <4>1
      <4> HIDE DEF g
      <4> QED
        BY <4>2, <4>3
    <3> QED
      BY <3>1, <3>2
  <2>6. g = [k \in 0 .. m |-> g[k]]
    OBVIOUS
  <2> HIDE DEF g
  <2>7. Upto(g, m)
    BY <2>5, <2>6
  <2> QED
    BY <2>1, <2>7
<1>2. PICK g : Upto(g, Len(fs))
  BY <1>1
<1> QED
  BY <1>2, Zenon DEF IsTurns

LEMMA UpdatedInTurnFits ==
  ASSUME NEW n, NodeFits(n), NEW fs \in Seq(Fields), NEW ps, FieldsAgree(ps),
         NEW noticed \in BOOLEAN, noticed => \A j \in DOMAIN fs : fs[j] # TextField
  PROVE  LET m == UpdatedInTurn(n, fs, noticed, ps)
         IN  /\ Follows(n, m, ps)
             /\ \A j \in DOMAIN fs : /\ noticed => ShowsField(m, fs[j], ps)
                                     /\ IsControlled => Renders(m, fs[j], ps)
             /\ ~IsControlled /\ ~noticed => m = n
<1> DEFINE after == CHOOSE g : IsTurns(g, n, fs, noticed, ps)
           Sofar(m, k) == /\ Follows(n, m, ps)
                          /\ \A j \in 1 .. k : /\ noticed => ShowsField(m, fs[j], ps)
                                               /\ IsControlled => Renders(m, fs[j], ps)
                          /\ ~IsControlled /\ ~noticed => m = n
           Bad == {k \in 0 .. Len(fs) : ~Sofar(after[k], k)}
<1>1. Len(fs) \in Nat /\ DOMAIN fs = 1 .. Len(fs) /\ \A j \in 1 .. Len(fs) : fs[j] \in Fields
  BY LenProperties
<1>2. UpdatedInTurn(n, fs, noticed, ps) = after[Len(fs)]
  BY DEF UpdatedInTurn, IsTurns
<1>3. IsTurns(after, n, fs, noticed, ps)
  BY <1>1, TurnsExist
<1> HIDE DEF after
<1>4. ASSUME NEW k \in 0 .. Len(fs)
      PROVE  after[k] = IF k = 0 THEN n ELSE UpdatedField(after[k - 1], fs[k], noticed, ps)
  BY <1>3, Zenon DEF IsTurns
<1>5. Sofar(after[0], 0)
  <2>1. after[0] = n
    BY <1>1, <1>4
  <2> QED
    BY <2>1, FollowsItself
<1>6. ASSUME NEW k \in 1 .. Len(fs), Sofar(after[k - 1], k - 1) PROVE Sofar(after[k], k)
  <2> DEFINE m == after[k - 1]
             l == after[k]
  <2>1. l = UpdatedField(m, fs[k], noticed, ps) /\ fs[k] \in Fields /\ (noticed => fs[k] # TextField)
    BY <1>1, <1>4
  <2>2. NodeFits(m) /\ Follows(n, m, ps)
    BY <1>6 DEF Follows
  <2> HIDE DEF m, l
  <2>3. /\ Follows(m, l, ps)
        /\ noticed => ShowsField(l, fs[k], ps)
        /\ IsControlled => Renders(l, fs[k], ps)
        /\ ~IsControlled /\ ~noticed => l = m
    BY <2>1, <2>2, UpdatedFieldFits
  <2>4. Follows(n, l, ps)
    BY <2>2, <2>3, FollowsOn
  <2>5. ASSUME NEW j \in 1 .. k, j # k
        PROVE  (noticed => ShowsField(l, fs[j], ps)) /\ (IsControlled => Renders(l, fs[j], ps))
    <3>1. j \in 1 .. k - 1 /\ fs[j] \in Fields
      BY <1>1, <2>5
    <3>2. (noticed => ShowsField(m, fs[j], ps)) /\ (IsControlled => Renders(m, fs[j], ps))
      BY <1>6, <3>1 DEF m
    <3> QED
      BY <2>3, <3>1, <3>2 DEF Follows
  <2>6. ~IsControlled /\ ~noticed => l = n
    BY <1>6, <2>3 DEF m
  <2> QED
    BY <2>3, <2>4, <2>5, <2>6 DEF l
<1>7. Bad = {}
  <2> SUFFICES ASSUME Bad # {} PROVE FALSE
    OBVIOUS
  <2>1. PICK k \in Bad : \A j \in Bad : k <= j
    <3>1. Bad \in SUBSET Nat
      OBVIOUS
    <3> HIDE DEF Bad
    <3> QED
      BY <3>1, LeastOf
  <2> HIDE DEF Sofar
  <2>2. k # 0 /\ k \in 0 .. Len(fs)
    BY <1>5, <2>1
  <2>3. k - 1 \in 0 .. Len(fs) /\ k - 1 \notin Bad /\ k \in 1 .. Len(fs)
    BY <1>1, <2>1, <2>2
  <2>4. Sofar(after[k], k)
    BY <1>6, <2>3
  <2> QED
    BY <2>1, <2>4
<1>8. Sofar(after[Len(fs)], Len(fs))
  <2> HIDE DEF Sofar
  <2> QED
    BY <1>1, <1>7
<1> QED
  BY <1>1, <1>2, <1>8

-----------------------------------------------------------------------------
(* A finite set in some order.                                             *)
LEMMA SetIsInSequence ==
  ASSUME NEW S, IsFiniteSet(S)
  PROVE  /\ SetToSeq(S) \in Seq(S)
         /\ \A x \in S : \E j \in DOMAIN SetToSeq(S) : SetToSeq(S)[j] = x
<1> DEFINE c == Cardinality(S)
           q == SetToSeq(S)
<1>1. c \in Nat /\ ExistsBijection(1 .. c, S)
  BY FS_CardinalityType
<1>2. \E g \in [1 .. c -> S] : IsInjective(g)
  <2>1. PICK g \in Bijection(1 .. c, S) : TRUE
    BY <1>1 DEF ExistsBijection
  <2> QED
    BY <2>1 DEF Bijection, Injection, IsInjective
<1>3. q \in [1 .. c -> S] /\ IsInjective(q)
  BY <1>2 DEF SetToSeq
<1> HIDE DEF c, q
<1>4. ASSUME NEW x \in S PROVE \E j \in 1 .. c : q[j] = x
  <2> SUFFICES ASSUME \A j \in 1 .. c : q[j] # x PROVE FALSE
    OBVIOUS
  <2>1. q \in [1 .. c -> S \ {x}]
    BY <1>3
  <2>2. IsFiniteSet(S \ {x}) /\ Cardinality(S \ {x}) = c - 1
    BY FS_RemoveElement DEF c
  <2>3. IsFiniteSet(1 .. c) /\ Cardinality(1 .. c) = c
    BY <1>1, FS_Interval
  <2>4. Cardinality(S \ {x}) < Cardinality(1 .. c)
    BY <1>1, <2>2, <2>3
  <2>5. \E i, j \in 1 .. c : i # j /\ q[i] = q[j]
    <3> DEFINE D == 1 .. c
               T == S \ {x}
    <3>1. IsFiniteSet(D) /\ IsFiniteSet(T) /\ Cardinality(T) < Cardinality(D) /\ q \in [D -> T]
      BY <2>1, <2>2, <2>3, <2>4
    <3> HIDE DEF D, T
    <3>2. \E i, j \in D : i # j /\ q[i] = q[j]
      BY <3>1, FS_PigeonHole
    <3> QED
      BY <3>2 DEF D
  <2> QED
    BY <1>3, <2>5 DEF IsInjective
<1>5. q \in Seq(S) /\ DOMAIN q = 1 .. c
  BY <1>1, <1>3
<1> QED
  BY <1>4, <1>5 DEF q

-----------------------------------------------------------------------------
(* The restore of one field: all of its group with it.                     *)
TextIsTracked(n) == n.tracker[TextField] = n.dom[TextField]

LEMMA TextStaysTracked ==
  ASSUME NEW n, NEW m, NEW ps, TextOf(n, m, ps), TextIsTracked(n)
  PROVE  TextIsTracked(m)
  BY DEF TextOf, TextIsTracked

Restores(m, f, ps) ==
  /\ ShowsField(m, f, ps)
  /\ f \in Radios => \A g \in Radios : ShowsField(m, g, ps)

LEMMA FieldRestored ==
  ASSUME NEW n, NodeFits(n), TextIsTracked(n), NEW f \in Fields, NEW ps, FieldsAgree(ps),
         ~IsControlled => ShowsField(n, f, ps)
  PROVE  LET m == restoreControlledState(n, f, ps)
         IN  Follows(n, m, ps) /\ Restores(m, f, ps)
<1> DEFINE l == updateWrapper(n, f, ps)
           m == restoreControlledState(n, f, ps)
           others == SetToSeq(Radios \ {f})
<1>1. Follows(n, l, ps) /\ (IsControlled => Renders(l, f, ps)) /\ (~IsControlled => l = n)
  BY WrapperFits
<1>2. TextIsTracked(l)
  BY <1>1, TextStaysTracked DEF Follows
<1>3. ShowsField(l, f, ps)
  BY <1>1, <1>2 DEF ShowsField, Renders, TextIsTracked
<1>4. CASE f = TextField
  <2>1. m = l
    BY <1>4 DEF restoreControlledState
  <2>2. f \notin Radios
    BY <1>4, InputsAssumption
  <2> HIDE DEF l, m
  <2>3. Follows(n, m, ps) /\ Restores(m, f, ps)
    BY <1>1, <1>3, <2>1, <2>2 DEF Restores
  <2> QED
    BY <2>3 DEF m
<1>5. CASE f # TextField
  <2>1. m = UpdatedInTurn(l, others, TRUE, ps)
    BY <1>5 DEF restoreControlledState
  <2>2. /\ others \in Seq(Radios \ {f})
        /\ \A x \in Radios \ {f} : \E j \in DOMAIN others : others[j] = x
    <3>1. IsFiniteSet(Radios \ {f})
      BY InputsAssumption, FS_Subset
    <3> QED
      BY <3>1, SetIsInSequence
  <2>3. others \in Seq(Fields) /\ \A j \in DOMAIN others : others[j] # TextField
    <3> HIDE DEF others
    <3>1. \A j \in DOMAIN others : others[j] \in Radios
      BY <2>2, LenProperties
    <3>2. \A j \in DOMAIN others : others[j] # TextField
      BY <3>1, InputsAssumption
    <3>3. others \in Seq(Fields)
      BY <2>2 DEF Fields
    <3> QED
      BY <3>2, <3>3
  <2>4. NodeFits(l)
    BY <1>1 DEF Follows
  <2> HIDE DEF l, m, others
  <2>5. Follows(l, m, ps) /\ \A j \in DOMAIN others : ShowsField(m, others[j], ps)
    BY <2>1, <2>3, <2>4, UpdatedInTurnFits
  <2>6. ShowsField(m, f, ps)
    BY <1>3, <2>5 DEF Follows
  <2>7. \A g \in Radios : ShowsField(m, g, ps)
    BY <2>2, <2>5, <2>6
  <2>8. Follows(n, m, ps) /\ Restores(m, f, ps)
    BY <1>1, <2>5, <2>6, <2>7, FollowsOn DEF Restores
  <2> QED
    BY <2>8 DEF m
<1> QED
  BY <1>4, <1>5

(* The restore of all that changed.                                        *)
IsRestore(g, n, ps) ==
  g = [k \in 0 .. Len(restoreQueue) |-> IF k = 0 THEN n ELSE restoreControlledState(g[k - 1], restoreQueue[k], ps)]

LEMMA RestoreExists ==
  ASSUME NEW n, NEW ps, Len(restoreQueue) \in Nat
  PROVE  \E g : IsRestore(g, n, ps)
<1> DEFINE Upto(g, m) == /\ g = [k \in 0 .. m |-> g[k]]
                         /\ \A k \in 0 .. m :
                              g[k] = IF k = 0 THEN n ELSE restoreControlledState(g[k - 1], restoreQueue[k], ps)
           Missing == {m \in Nat : ~\E g : Upto(g, m)}
<1>1. Missing = {}
  <2> SUFFICES ASSUME Missing # {} PROVE FALSE
    OBVIOUS
  <2>1. PICK m \in Missing : \A k \in Missing : m <= k
    <3>1. Missing \in SUBSET Nat
      OBVIOUS
    <3> HIDE DEF Missing
    <3> QED
      BY <3>1, LeastOf
  <2>2. m # 0
    <3> DEFINE g == [k \in 0 .. 0 |-> n]
    <3>1. Upto(g, 0)
      OBVIOUS
    <3> QED
      BY <3>1
  <2>3. m \in Nat /\ m - 1 \in Nat /\ m - 1 \notin Missing
    BY <2>1, <2>2
  <2>4. PICK h : Upto(h, m - 1)
    BY <2>3
  <2> DEFINE g == [k \in 0 .. m |->
                     IF k = m THEN restoreControlledState(h[m - 1], restoreQueue[m], ps) ELSE h[k]]
  <2>5. ASSUME NEW k \in 0 .. m
        PROVE  g[k] = IF k = 0 THEN n ELSE restoreControlledState(g[k - 1], restoreQueue[k], ps)
    <3>1. CASE k = m
      <4>1. g[m - 1] = h[m - 1] /\ g[m] = restoreControlledState(h[m - 1], restoreQueue[m], ps)
        BY <2>2, <2>3
      <4> HIDE DEF g
      <4> QED
        BY <2>2, <3>1, <4>1
    <3>2. CASE k # m
      <4>1. k \in 0 .. m - 1
        BY <2>3, <3>2
      <4>2. h[k] = IF k = 0 THEN n ELSE restoreControlledState(h[k - 1], restoreQueue[k], ps)
        BY <2>4, <4>1
      <4>3. g[k] = h[k] /\ (k # 0 => g[k - 1] = h[k - 1])
        BY <2>3, <3>2, <4>1
      <4> HIDE DEF g
      <4> QED
        BY <4>2, <4>3
    <3> QED
      BY <3>1, <3>2
  <2>6. g = [k \in 0 .. m |-> g[k]]
    OBVIOUS
  <2> HIDE DEF g
  <2>7. Upto(g, m)
    BY <2>5, <2>6
  <2> QED
    BY <2>1, <2>7
<1>2. PICK g : Upto(g, Len(restoreQueue))
  BY <1>1
<1> QED
  BY <1>2, Zenon DEF IsRestore

LEMMA FieldsRestored ==
  ASSUME NEW n, NodeFits(n), TextIsTracked(n), NEW ps, FieldsAgree(ps), restoreQueue \in Seq(Fields),
         ~IsControlled => \A j \in DOMAIN restoreQueue : ShowsField(n, restoreQueue[j], ps)
  PROVE  LET m == restoreStateIfNeeded(n, ps)
         IN  Follows(n, m, ps) /\ \A j \in DOMAIN restoreQueue : Restores(m, restoreQueue[j], ps)
<1> DEFINE last == Len(restoreQueue)
           after == CHOOSE g : IsRestore(g, n, ps)
           Sofar(m, k) == Follows(n, m, ps) /\ \A j \in 1 .. k : Restores(m, restoreQueue[j], ps)
           Bad == {k \in 0 .. last : ~Sofar(after[k], k)}
<1>1. last \in Nat /\ DOMAIN restoreQueue = 1 .. last /\ \A j \in 1 .. last : restoreQueue[j] \in Fields
  BY LenProperties
<1>2. restoreStateIfNeeded(n, ps) = after[last]
  BY DEF restoreStateIfNeeded, IsRestore
<1>3. IsRestore(after, n, ps)
  BY <1>1, RestoreExists
<1> HIDE DEF after
<1>4. ASSUME NEW k \in 0 .. last
      PROVE  after[k] = IF k = 0 THEN n ELSE restoreControlledState(after[k - 1], restoreQueue[k], ps)
  BY <1>3, Zenon DEF IsRestore
<1>5. Sofar(after[0], 0)
  <2>1. after[0] = n
    BY <1>1, <1>4
  <2> QED
    BY <2>1, FollowsItself
<1>6. ASSUME NEW k \in 1 .. last, Sofar(after[k - 1], k - 1) PROVE Sofar(after[k], k)
  <2> DEFINE m == after[k - 1]
             l == after[k]
  <2>1. l = restoreControlledState(m, restoreQueue[k], ps) /\ restoreQueue[k] \in Fields
    BY <1>1, <1>4
  <2>2. NodeFits(m) /\ Follows(n, m, ps)
    BY <1>6 DEF Follows
  <2>3. TextIsTracked(m)
    BY <2>2, TextStaysTracked DEF Follows
  <2>4. ~IsControlled => ShowsField(m, restoreQueue[k], ps)
    BY <1>1, <2>1, <2>2 DEF Follows
  <2> HIDE DEF m, l
  <2>5. Follows(m, l, ps) /\ Restores(l, restoreQueue[k], ps)
    BY <2>1, <2>2, <2>3, <2>4, FieldRestored
  <2>6. Follows(n, l, ps)
    BY <2>2, <2>5, FollowsOn
  <2>7. ASSUME NEW j \in 1 .. k, j # k PROVE Restores(l, restoreQueue[j], ps)
    <3>1. j \in 1 .. k - 1 /\ restoreQueue[j] \in Fields
      BY <1>1, <2>7
    <3>2. Restores(m, restoreQueue[j], ps)
      BY <1>6, <3>1 DEF m
    <3>3. \A g \in Radios : g \in Fields
      BY DEF Fields
    <3> QED
      BY <2>5, <3>1, <3>2, <3>3 DEF Follows, Restores
  <2> QED
    BY <2>5, <2>6, <2>7 DEF l
<1>7. Bad = {}
  <2> SUFFICES ASSUME Bad # {} PROVE FALSE
    OBVIOUS
  <2>1. PICK k \in Bad : \A j \in Bad : k <= j
    <3>1. Bad \in SUBSET Nat
      OBVIOUS
    <3> HIDE DEF Bad
    <3> QED
      BY <3>1, LeastOf
  <2> HIDE DEF Sofar
  <2>2. k # 0 /\ k \in 0 .. last
    BY <1>5, <2>1
  <2>3. k - 1 \in 0 .. last /\ k - 1 \notin Bad /\ k \in 1 .. last
    BY <1>1, <2>1, <2>2
  <2>4. Sofar(after[k], k)
    BY <1>6, <2>3
  <2> QED
    BY <2>1, <2>4
<1>8. Sofar(after[last], last)
  <2> HIDE DEF Sofar
  <2> QED
    BY <1>1, <1>7
<1> QED
  BY <1>1, <1>2, <1>8

-----------------------------------------------------------------------------
(* A flush leaves the fields alone or, if they are controlled, renders all *)
(* of them.                                                                *)
UpdatesOfFields == [values : {v \in [Fields -> InputValues] : FieldsAgree(v)}, interactive : BOOLEAN]

IsFlush(r) == r = [node |-> r.node, props |-> r.props, waiting |-> r.waiting]

FlushFits(n, ps, r) ==
  /\ IsFlush(r)
  /\ NodeFits(r.node) /\ FieldsAgree(r.props) /\ r.waiting \in Seq(UpdatesOfFields)
  /\ \/ r.node = n /\ (IsControlled => r.props = ps)
     \/ /\ IsControlled /\ TextOf(n, r.node, r.props)
        /\ \A f \in Fields : Renders(r.node, f, r.props)

LEMMA CommitFits ==
  ASSUME NEW n, NodeFits(n), NEW ps, FieldsAgree(ps)
  PROVE  LET m == CommitInputs(n, ps)
         IN  /\ Follows(n, m, ps)
             /\ IsControlled => \A f \in Fields : Renders(m, f, ps)
             /\ ~IsControlled => m = n
<1> DEFINE radios == SetToSeq(Radios)
           all == Append(radios, TextField)
           m == CommitInputs(n, ps)
<1>1. radios \in Seq(Radios) /\ \A g \in Radios : \E j \in DOMAIN radios : radios[j] = g
  BY InputsAssumption, SetIsInSequence
<1> HIDE DEF radios
<1>2. radios \in Seq(Fields) /\ TextField \in Fields
  BY <1>1 DEF Fields
<1>3. all \in Seq(Fields) /\ Len(all) = Len(radios) + 1 /\ all[Len(radios) + 1] = TextField
        /\ \A j \in 1 .. Len(radios) : all[j] = radios[j]
  BY <1>2, AppendProperties
<1>4. DOMAIN all = 1 .. Len(radios) + 1 /\ DOMAIN radios = 1 .. Len(radios) /\ Len(radios) \in Nat
  <2> HIDE DEF all
  <2> QED
    BY <1>2, <1>3, LenProperties
<1> HIDE DEF all
<1>5. ASSUME NEW f \in Fields PROVE \E j \in DOMAIN all : all[j] = f
  <2>1. CASE f = TextField
    BY <1>3, <1>4, <2>1
  <2>2. CASE f \in Radios
    <3>1. PICK j \in 1 .. Len(radios) : radios[j] = f
      BY <1>1, <1>4, <2>2
    <3> QED
      BY <1>3, <1>4, <3>1
  <2> QED
    BY <2>1, <2>2 DEF Fields
<1>6. m = UpdatedInTurn(n, all, FALSE, ps)
  BY DEF CommitInputs, all, radios
<1> HIDE DEF m
<1>7. /\ Follows(n, m, ps)
      /\ \A j \in DOMAIN all : IsControlled => Renders(m, all[j], ps)
      /\ ~IsControlled => m = n
  BY <1>3, <1>6, UpdatedInTurnFits
<1> QED
  BY <1>5, <1>7 DEF m

LEMMA Flushed ==
  ASSUME NEW n, NodeFits(n), NEW ps, FieldsAgree(ps), NEW us \in Seq(UpdatesOfFields), NEW all \in BOOLEAN
  PROVE  FlushFits(n, ps, FlushUpdates(n, ps, us, all))
<1> DEFINE T == {0} \cup {i \in DOMAIN us : us[i].interactive}
           last == IF all THEN Len(us) ELSE Max(T)
           done == SubSeq(us, 1, last)
           p == Rendered(ps, done)
           left == SubSeq(us, last + 1, Len(us))
           m == IF done = <<>> THEN n ELSE CommitInputs(n, p)
           r == FlushUpdates(n, ps, us, all)
<1>1. r = [node |-> m, props |-> p, waiting |-> left]
  BY DEF FlushUpdates
<1>2. Len(us) \in Nat /\ DOMAIN us = 1 .. Len(us) /\ \A i \in 1 .. Len(us) : us[i] \in UpdatesOfFields
  BY LenProperties
<1>3. last \in 0 .. Len(us)
  <2>1. T \in SUBSET (0 .. Len(us)) /\ T # {}
    BY <1>2
  <2> HIDE DEF T
  <2>2. Max(T) \in T
    BY <1>2, <2>1, NumbersHaveBounds
  <2>3. Max(T) \in 0 .. Len(us)
    BY <2>1, <2>2
  <2>4. Len(us) \in 0 .. Len(us)
    BY <1>2
  <2> QED
    BY <2>3, <2>4, Zenon
<1> HIDE DEF last
<1>4. done \in Seq(UpdatesOfFields) /\ Len(done) = last
  <2>1. \A i \in 1 .. last : us[i] \in UpdatesOfFields
    BY <1>2, <1>3
  <2>2. last \in Int /\ (1 <= last => last - 1 + 1 = last) /\ (~(1 <= last) => last = 0)
    BY <1>2, <1>3
  <2> QED
    BY <2>1, <2>2, SubSeqProperties
<1>5. left \in Seq(UpdatesOfFields)
  <2>1. \A i \in last + 1 .. Len(us) : us[i] \in UpdatesOfFields
    BY <1>2, <1>3
  <2>2. last + 1 \in Int /\ Len(us) \in Int
    BY <1>2, <1>3
  <2> QED
    BY <2>1, <2>2, SubSeqProperties
<1> HIDE DEF done, left
<1>6. CASE done = <<>>
  <2>1. m = n /\ p = ps
    BY <1>6 DEF Rendered
  <2> HIDE DEF m, p
  <2> QED
    BY <1>1, <1>5, <2>1 DEF FlushFits, IsFlush, r
<1>7. CASE done # <<>>
  <2>1. done[Len(done)] \in UpdatesOfFields
    BY <1>4, <1>7
  <2>2. p = done[Len(done)].values
    BY <1>7 DEF Rendered, Last
  <2>3. FieldsAgree(p)
    BY <2>1, <2>2 DEF UpdatesOfFields
  <2>4. m = CommitInputs(n, p)
    BY <1>7
  <2> HIDE DEF m, p
  <2>5. /\ Follows(n, m, p)
        /\ IsControlled => \A f \in Fields : Renders(m, f, p)
        /\ ~IsControlled => m = n
    BY <2>3, <2>4, CommitFits
  <2>6. r.node = m /\ r.props = p /\ r.waiting = left /\ IsFlush(r)
    BY <1>1 DEF IsFlush
  <2> HIDE DEF r
  <2>7. NodeFits(m) /\ TextOf(n, m, p)
    BY <2>5 DEF Follows
  <2>8. FlushFits(n, ps, r)
    BY <1>5, <2>3, <2>5, <2>6, <2>7 DEF FlushFits
  <2> QED
    BY <2>8 DEF r
<1> QED
  BY <1>6, <1>7

-----------------------------------------------------------------------------
(* The invariant.  While an event is handled, the fields that wait for     *)
(* their restore, and their group, may show anything.                      *)
EventsHandled == [field : Fields, handled : BOOLEAN, interactive : BOOLEAN]

IsTouched(f) ==
  \E j \in DOMAIN restoreQueue : restoreQueue[j] = f \/ (f \in Radios /\ restoreQueue[j] \in Radios)

InputsInv ==
  /\ NodeFits(InputNode) /\ TextIsTracked(InputNode) /\ FieldsAgree(props)
  /\ waiting \in Seq(UpdatesOfFields) /\ batch \in Seq(EventsHandled) /\ restoreQueue \in Seq(Fields)
  /\ \A j \in DOMAIN restoreQueue : tracker[restoreQueue[j]] = dom[restoreQueue[j]]
  /\ \A f \in Fields : IsTouched(f) \/ ShowsField(InputNode, f, props)
  /\ batch = <<>> => restoreQueue = <<>>
  /\ calls \in Nat /\ overtaken \in Nat /\ changes = calls + overtaken

LEMMA ShownStays ==
  ASSUME NEW n, TextIsTracked(n), NEW ps, NEW r, FlushFits(n, ps, r)
  PROVE  /\ TextIsTracked(r.node)
         /\ \A f \in Fields : ShowsField(n, f, ps) => ShowsField(r.node, f, r.props)
         /\ \A f \in Fields : n.tracker[f] = n.dom[f] => r.node.tracker[f] = r.node.dom[f]
<1>1. CASE r.node = n /\ (IsControlled => r.props = ps)
  BY <1>1 DEF ShowsField
<1>2. CASE /\ IsControlled /\ TextOf(n, r.node, r.props)
           /\ \A f \in Fields : Renders(r.node, f, r.props)
  <2>1. TextIsTracked(r.node)
    BY <1>2, TextStaysTracked
  <2>2. \A f \in Fields : r.node.dom[f] = r.props[f] /\ r.node.tracker[f] = r.node.dom[f]
    BY <1>2, <2>1 DEF Renders, TextIsTracked
  <2> QED
    BY <2>1, <2>2 DEF ShowsField
<1> QED
  BY <1>1, <1>2 DEF FlushFits

(* Nothing of the fields changes.                                          *)
LEMMA FieldsStay ==
  ASSUME InputsInv, UNCHANGED <<mode, dom, tracker, props, restoreQueue, changes, calls, overtaken>>,
         waiting' \in Seq(UpdatesOfFields), batch' \in Seq(EventsHandled), batch' = <<>> => restoreQueue = <<>>
  PROVE  InputsInv'
<1>1. InputNode' = InputNode
  BY DEF InputNode
<1>2. NodeFits(InputNode)' /\ TextIsTracked(InputNode)' /\ FieldsAgree(props)'
  BY <1>1 DEF InputsInv, NodeFits, TextIsTracked, FieldsAgree, IsOfFields
<1>3. \A f \in Fields : (IsTouched(f) \/ ShowsField(InputNode, f, props))'
  BY <1>1 DEF InputsInv, IsTouched, ShowsField, IsControlled
<1> QED
  BY <1>2, <1>3 DEF InputsInv

(* All is shown.                                                           *)
LEMMA FieldsShown ==
  ASSUME NEW n, NodeFits(n), TextIsTracked(n), NEW ps, FieldsAgree(ps), NEW us \in Seq(UpdatesOfFields),
         \A f \in Fields : ShowsField(n, f, ps),
         InputsInv, dom' = n.dom, tracker' = n.tracker, props' = ps, waiting' = us, restoreQueue' = <<>>,
         batch' \in Seq(EventsHandled), UNCHANGED <<mode, changes, calls, overtaken>>
  PROVE  InputsInv'
<1>1. InputNode' = n
  BY DEF InputNode, NodeFits
<1>2. NodeFits(InputNode)' /\ TextIsTracked(InputNode)' /\ FieldsAgree(props)'
  BY <1>1 DEF NodeFits, TextIsTracked, FieldsAgree, IsOfFields
<1>3. \A f \in Fields : ShowsField(InputNode, f, props)'
  BY <1>1 DEF ShowsField, IsControlled
<1>4. restoreQueue' \in Seq(Fields) /\ DOMAIN restoreQueue' = {}
  OBVIOUS
<1> QED
  BY <1>2, <1>3, <1>4 DEF InputsInv

LEMMA AllAreShown ==
  ASSUME InputsInv, restoreQueue = <<>>
  PROVE  \A f \in Fields : ShowsField(InputNode, f, props)
<1>1. \A f \in Fields : ~IsTouched(f)
  BY DEF IsTouched
<1> QED
  BY <1>1 DEF InputsInv

LEMMA InputsStart == InputsInit => InputsInv
<1> SUFFICES ASSUME InputsInit PROVE InputsInv
  OBVIOUS
<1>1. props = [f \in Fields |-> IF f = TextField THEN Min(TextValues) ELSE FALSE]
  BY DEF InputsInit
<1>2. IsOfFields(props) /\ \A f \in Radios : f \in Fields /\ props[f] = FALSE
  BY <1>1, InputsAssumption DEF IsOfFields, InputValues, Fields
<1>3. \A f \in Radios : Off(props[f]) /\ ~Checked(props[f])
  BY <1>2, Zenon DEF Off, Checked
<1>4. FieldsAgree(props)
  BY <1>2, <1>3 DEF FieldsAgree
<1>5. dom = props /\ tracker = props /\ restoreQueue = <<>> /\ waiting = <<>> /\ batch = <<>>
        /\ changes = 0 /\ calls = 0 /\ overtaken = 0
  BY DEF InputsInit
<1>6. NodeFits(InputNode) /\ TextIsTracked(InputNode)
  BY <1>2, <1>4, <1>5 DEF NodeFits, TextIsTracked, InputNode, FieldsAgree
<1>7. \A f \in Fields : ShowsField(InputNode, f, props)
  BY <1>5 DEF ShowsField, InputNode
<1>8. waiting \in Seq(UpdatesOfFields) /\ batch \in Seq(EventsHandled) /\ restoreQueue \in Seq(Fields)
        /\ DOMAIN restoreQueue = {}
  BY <1>5
<1> QED
  BY <1>4, <1>5, <1>6, <1>7, <1>8 DEF InputsInv

(* The flush before the event renders a field, or the change is noticed.   *)
LEMMA UserChangesFits ==
  ASSUME InputsInv, NEW f \in Fields, NEW v \in InputValues, f \in Radios => Checked(v), UserChanges(f, v)
  PROVE  InputsInv'
<1> DEFINE n == [dom |-> Assigned(dom, f, v), tracker |-> tracker]
           r == IF batch = <<>> THEN FlushUpdates(n, props, waiting, FALSE)
                ELSE [node |-> n, props |-> props, waiting |-> waiting]
           m == updateValueIfChanged(r.node, f)
           changed == r.node.dom[f] # r.node.tracker[f]
<1>1. /\ dom[f] # v
      /\ batch # <<>> => (f = TextField \/ ToSet(restoreQueue) \cap Radios = {})
      /\ changes' = changes + 1 /\ mode' = mode
      /\ ExtractedChange(r, f, TRUE)
      /\ overtaken' = IF r.node.dom[f] # v \/ r.node.tracker[f] # tracker[f] THEN overtaken + 1 ELSE overtaken
  BY DEF UserChanges
<1>2. /\ FieldsAgree(dom) /\ FieldsAgree(props) /\ IsOfFields(tracker) /\ tracker[TextField] = dom[TextField]
      /\ waiting \in Seq(UpdatesOfFields) /\ batch \in Seq(EventsHandled) /\ restoreQueue \in Seq(Fields)
  BY DEF InputsInv, NodeFits, TextIsTracked, InputNode
<1>3. TextField \in Fields /\ TextField \notin Radios /\ \A g \in Fields : g = TextField \/ g \in Radios
  BY InputsAssumption DEF Fields
<1>4. /\ n.tracker = tracker /\ NodeFits(n) /\ n.dom[f] = v
      /\ \A g \in Fields : g # f => n.dom[g] = dom[g] \/ (f \in Radios /\ g \in Radios)
  <2>1. LET e == Assigned(dom, f, v)
        IN  /\ FieldsAgree(e) /\ e[f] = v
            /\ \A g \in Fields : \/ g = f
                                 \/ e[g] = dom[g]
                                 \/ f \in Radios /\ g \in Radios /\ Checked(v) /\ Off(e[g])
    BY <1>2, AssignedFits
  <2> QED
    BY <1>2, <2>1 DEF NodeFits
<1> HIDE DEF n
<1>5. FlushFits(n, props, r)
  <2>1. CASE batch = <<>>
    <3>1. FlushFits(n, props, FlushUpdates(n, props, waiting, FALSE))
      BY <1>2, <1>4, Flushed
    <3> QED
      BY <2>1, <3>1
  <2>2. CASE batch # <<>>
    <3>1. r = [node |-> n, props |-> props, waiting |-> waiting]
      BY <2>2
    <3> HIDE DEF r
    <3>2. r.node = n /\ r.props = props /\ r.waiting = waiting /\ IsFlush(r)
      BY <3>1 DEF IsFlush
    <3> QED
      BY <1>2, <1>4, <3>2 DEF FlushFits
  <2> QED
    BY <2>1, <2>2
<1>6. /\ ExtractedChange(r, f, TRUE)
      /\ overtaken' = IF r.node.dom[f] # v \/ r.node.tracker[f] # tracker[f] THEN overtaken + 1 ELSE overtaken
  BY <1>1
<1> HIDE DEF r
<1>7. NodeFits(r.node) /\ FieldsAgree(r.props) /\ r.waiting \in Seq(UpdatesOfFields) /\ IsFlush(r)
  BY <1>5 DEF FlushFits
<1>8. /\ NodeFits(m) /\ m.dom = r.node.dom
      /\ \A g \in Fields : m.tracker[g] = IF g = f THEN r.node.dom[f] ELSE r.node.tracker[g]
  BY <1>7, NoticeFits
<1>9. dom' = m.dom /\ tracker' = m.tracker /\ props' = r.props /\ waiting' = r.waiting
  <2>1. [r EXCEPT !.node = m] = [node |-> m, props |-> r.props, waiting |-> r.waiting]
    BY <1>7 DEF IsFlush
  <2>2. InputsBecome([r EXCEPT !.node = m])
    BY <1>6 DEF ExtractedChange
  <2> HIDE DEF m
  <2> QED
    BY <2>1, <2>2 DEF InputsBecome
<1>10. /\ batch' = Append(batch, [field |-> f, handled |-> ~changed, interactive |-> TRUE])
       /\ restoreQueue' = IF changed THEN Append(restoreQueue, f) ELSE restoreQueue
       /\ calls' = IF changed THEN calls + 1 ELSE calls
  BY <1>6 DEF ExtractedChange, enqueueStateRestore
<1> HIDE DEF m, changed
<1>11. ASSUME NEW j \in DOMAIN restoreQueue PROVE f \in Radios => restoreQueue[j] \notin Radios
  <2>1. batch = <<>> => FALSE
    <3>1. batch = <<>> => restoreQueue = <<>>
      BY DEF InputsInv
    <3> QED
      BY <1>11, <3>1
  <2>2. restoreQueue[j] \in ToSet(restoreQueue)
    BY DEF ToSet
  <2> QED
    BY <1>1, <1>3, <2>1, <2>2
<1>12. tracker[f] = dom[f] /\ v # tracker[f]
  <2>1. CASE f = TextField
    BY <1>1, <1>2, <2>1
  <2>2. CASE f \in Radios
    <3>1. ~IsTouched(f)
      BY <1>11, <2>2 DEF IsTouched
    <3>2. ShowsField(InputNode, f, props)
      BY <3>1 DEF InputsInv
    <3> QED
      BY <1>1, <3>2 DEF ShowsField, InputNode
  <2> QED
    BY <1>3, <2>1, <2>2
<1>13. /\ \/ r.node.dom[f] = v /\ r.node.tracker[f] = tracker[f]
          \/ r.node.dom[f] = r.node.tracker[f]
       /\ \A g \in Fields : \/ ShowsField(m, g, r.props)
                            \/ /\ r.node = n /\ (IsControlled => r.props = props)
                               /\ ~(m.dom[g] = dom[g] /\ m.tracker[g] = tracker[g] /\ ShowsField(InputNode, g, props))
  <2>1. CASE r.node = n /\ (IsControlled => r.props = props)
    BY <1>4, <2>1 DEF ShowsField, InputNode
  <2>2. CASE /\ IsControlled /\ TextOf(n, r.node, r.props)
             /\ \A g \in Fields : Renders(r.node, g, r.props)
    <3>1. ASSUME NEW g \in Fields, g # TextField
          PROVE  ShowsField(m, g, r.props) /\ r.node.dom[g] = r.node.tracker[g]
      BY <1>8, <2>2, <3>1 DEF Renders, ShowsField
    <3>2. f # TextField => TextIsTracked(n)
      BY <1>2, <1>3, <1>4 DEF TextIsTracked
    <3>3. f # TextField => TextIsTracked(r.node)
      BY <2>2, <3>2, TextStaysTracked
    <3>4. ShowsField(m, TextField, r.props)
      BY <1>3, <1>8, <2>2, <3>3 DEF Renders, ShowsField, TextIsTracked
    <3>5. f = TextField => \/ r.node.dom[f] = v /\ r.node.tracker[f] = tracker[f]
                           \/ r.node.dom[f] = r.node.tracker[f]
      BY <1>4, <2>2 DEF TextOf
    <3> QED
      BY <3>1, <3>4, <3>5
  <2> QED
    BY <1>5, <2>1, <2>2 DEF FlushFits
<1>14. calls' \in Nat /\ overtaken' \in Nat /\ changes' = calls' + overtaken'
  <2>1. changed => overtaken' = overtaken /\ calls' = calls + 1
    BY <1>6, <1>10, <1>13 DEF changed
  <2>2. ~changed => overtaken' = overtaken + 1 /\ calls' = calls
    BY <1>6, <1>10, <1>12, <1>13 DEF changed
  <2> QED
    BY <1>1, <2>1, <2>2 DEF InputsInv
<1>15. InputNode' = m
  BY <1>8, <1>9 DEF InputNode, NodeFits
<1>16. r.node = n => changed
  BY <1>4, <1>12 DEF changed
<1>17. batch' \in Seq(EventsHandled) /\ batch' # <<>>
  <2>1. [field |-> f, handled |-> ~changed, interactive |-> TRUE] \in EventsHandled
    BY DEF EventsHandled
  <2> QED
    BY <1>2, <1>10, <2>1, AppendProperties
<1>18. /\ restoreQueue' \in Seq(Fields)
       /\ \A j \in DOMAIN restoreQueue' : restoreQueue'[j] = f \/ (j \in DOMAIN restoreQueue /\ restoreQueue'[j] = restoreQueue[j])
       /\ \A j \in DOMAIN restoreQueue : j \in DOMAIN restoreQueue' /\ restoreQueue'[j] = restoreQueue[j]
       /\ changed => \E j \in DOMAIN restoreQueue' : restoreQueue'[j] = f
  <2>1. CASE ~changed
    BY <1>2, <1>10, <2>1
  <2>2. CASE changed
    <3>1. restoreQueue' = Append(restoreQueue, f)
      BY <1>10, <2>2
    <3> QED
      BY <1>2, <3>1
  <2> QED
    BY <2>1, <2>2
<1>19. TextIsTracked(m)
  <2>1. CASE f = TextField
    BY <1>3, <1>8, <2>1 DEF TextIsTracked
  <2>2. CASE f # TextField
    <3>1. TextIsTracked(n)
      BY <1>2, <1>3, <1>4, <2>2 DEF TextIsTracked
    <3>2. TextIsTracked(r.node)
      BY <1>5, <3>1, ShownStays
    <3> QED
      BY <1>3, <1>8, <2>2, <3>2 DEF TextIsTracked
  <2> QED
    BY <2>1, <2>2
<1>20. ASSUME NEW g \in Fields, g # f, r.node = n, ~(f \in Radios /\ g \in Radios)
       PROVE  m.dom[g] = dom[g] /\ m.tracker[g] = tracker[g]
  BY <1>4, <1>8, <1>20
<1>21. ASSUME NEW g \in Fields PROVE IsTouched(g)' \/ ShowsField(m, g, r.props)
  <2> SUFFICES ASSUME ~ShowsField(m, g, r.props) PROVE IsTouched(g)'
    OBVIOUS
  <2>1. r.node = n /\ ~(m.dom[g] = dom[g] /\ m.tracker[g] = tracker[g] /\ ShowsField(InputNode, g, props))
    BY <1>13
  <2>2. PICK j \in DOMAIN restoreQueue' : restoreQueue'[j] = f
    BY <1>16, <1>18, <2>1
  <2>3. CASE g = f \/ (f \in Radios /\ g \in Radios)
    <3>1. restoreQueue'[j] = g \/ (g \in Radios /\ restoreQueue'[j] \in Radios)
      BY <2>2, <2>3, Zenon
    <3> QED
      BY <2>2, <3>1, Zenon DEF IsTouched
  <2>4. CASE ~(g = f \/ (f \in Radios /\ g \in Radios))
    <3>1. ~ShowsField(InputNode, g, props)
      BY <1>20, <2>1, <2>4
    <3>2. IsTouched(g)
      BY <3>1 DEF InputsInv
    <3> QED
      BY <1>18, <3>2 DEF IsTouched
  <2> QED
    BY <2>3, <2>4
<1>22. ASSUME NEW j \in DOMAIN restoreQueue' PROVE m.tracker[restoreQueue'[j]] = m.dom[restoreQueue'[j]]
  <2> DEFINE h == restoreQueue'[j]
  <2>1. h \in Fields
    BY <1>18
  <2>2. CASE h = f
    BY <1>8, <2>2
  <2>3. CASE h # f /\ ShowsField(m, h, r.props)
    BY <2>3 DEF ShowsField
  <2>4. CASE h # f /\ ~ShowsField(m, h, r.props)
    <3>1. j \in DOMAIN restoreQueue /\ h = restoreQueue[j]
      BY <1>18, <2>4
    <3>2. r.node = n
      BY <1>13, <2>1, <2>4
    <3>3. m.dom[h] = dom[h] /\ m.tracker[h] = tracker[h]
      BY <1>11, <1>20, <2>1, <2>4, <3>1, <3>2
    <3> QED
      BY <3>1, <3>3 DEF InputsInv
  <2> QED
    BY <2>2, <2>3, <2>4
<1>23. NodeFits(InputNode)' /\ TextIsTracked(InputNode)' /\ FieldsAgree(props)'
  BY <1>7, <1>8, <1>9, <1>15, <1>19 DEF NodeFits, TextIsTracked, FieldsAgree, IsOfFields
<1>24. \A g \in Fields : (IsTouched(g) \/ ShowsField(InputNode, g, props))'
  <2>1. ASSUME NEW g \in Fields PROVE ShowsField(m, g, r.props) => ShowsField(InputNode, g, props)'
    BY <1>1, <1>9, <1>15 DEF ShowsField, IsControlled
  <2> QED
    BY <1>21, <2>1
<1> QED
  BY <1>7, <1>9, <1>14, <1>17, <1>18, <1>22, <1>23, <1>24 DEF InputsInv

(* The change event that follows is never taken for another change.        *)
LEMMA ChangeEventFits == ASSUME InputsInv, ChangeEvent PROVE InputsInv'
<1> DEFINE r == [node |-> InputNode, props |-> props, waiting |-> waiting]
           m == updateValueIfChanged(InputNode, TextField)
<1>1. batch = <<>> /\ ExtractedChange(r, TextField, FALSE) /\ UNCHANGED <<mode, changes, overtaken>>
  BY DEF ChangeEvent
<1>2. NodeFits(InputNode) /\ TextIsTracked(InputNode) /\ TextField \in Fields
  BY DEF InputsInv, Fields
<1>3. m = InputNode
  <2>1. tracker \in [Fields -> InputValues] /\ tracker[TextField] = dom[TextField]
    BY <1>2 DEF NodeFits, IsOfFields, TextIsTracked, InputNode
  <2>2. [tracker EXCEPT ![TextField] = dom[TextField]] = tracker
    BY <1>2, <2>1
  <2> QED
    BY <2>2 DEF updateValueIfChanged, InputNode
<1>4. r.node = InputNode /\ [r EXCEPT !.node = m] = r
  BY <1>3
<1>5. r.node.dom[TextField] = r.node.tracker[TextField]
  BY <1>2, <1>4 DEF TextIsTracked
<1>6. /\ InputsBecome(r)
      /\ batch' = Append(batch, [field |-> TextField, handled |-> TRUE, interactive |-> FALSE])
      /\ UNCHANGED <<restoreQueue, calls>>
  BY <1>1, <1>4, <1>5 DEF ExtractedChange
<1>7. UNCHANGED <<dom, tracker, props, waiting>>
  BY <1>6 DEF InputsBecome, InputNode
<1>8. batch' \in Seq(EventsHandled) /\ batch' # <<>>
  <2>1. [field |-> TextField, handled |-> TRUE, interactive |-> FALSE] \in EventsHandled /\ batch \in Seq(EventsHandled)
    BY <1>2 DEF EventsHandled, InputsInv
  <2> QED
    BY <1>6, <2>1, AppendProperties
<1> QED
  BY <1>1, <1>6, <1>7, <1>8, FieldsStay DEF InputsInv

LEMMA HandlerFits ==
  ASSUME InputsInv, NEW asked, FieldsAgree(asked), HandlerSetsState(asked)
  PROVE  InputsInv'
<1>1. batch # <<>> /\ batch \in Seq(EventsHandled) /\ waiting \in Seq(UpdatesOfFields)
  BY DEF HandlerSetsState, InputsInv
<1>2. Len(batch) \in 1 .. Len(batch) /\ batch[Len(batch)] \in EventsHandled
  BY <1>1
<1>3. batch' \in Seq(EventsHandled) /\ batch' # <<>>
  <2> DEFINE e == [batch[Len(batch)] EXCEPT !.handled = TRUE]
  <2>1. e \in EventsHandled
    BY <1>2 DEF EventsHandled
  <2>2. batch' = [batch EXCEPT ![Len(batch)] = e]
    BY DEF HandlerSetsState
  <2> HIDE DEF e
  <2> QED
    BY <1>1, <1>2, <2>1, <2>2
<1>4. waiting' \in Seq(UpdatesOfFields)
  <2>1. [values |-> asked, interactive |-> Last(batch).interactive] \in UpdatesOfFields
    BY <1>2 DEF UpdatesOfFields, EventsHandled, Last, FieldsAgree, IsOfFields
  <2> QED
    BY <1>1, <2>1, AppendProperties DEF HandlerSetsState
<1> QED
  BY <1>3, <1>4, FieldsStay DEF HandlerSetsState

LEMMA FrontFits ==
  ASSUME NEW S, NEW s \in Seq(S), s # <<>>
  PROVE  Front(s) \in Seq(S) /\ Len(Front(s)) = Len(s) - 1
<1>1. Len(s) \in Nat \ {0} /\ \A i \in 1 .. Len(s) : s[i] \in S
  OBVIOUS
<1>2. \A i \in 1 .. Len(s) - 1 : s[i] \in S
  BY <1>1
<1>3. Len(s) - 1 \in Int /\ (1 <= Len(s) - 1 => Len(s) - 1 - 1 + 1 = Len(s) - 1)
  BY <1>1
<1>4. ~(1 <= Len(s) - 1) => Len(s) - 1 = 0
  BY <1>1
<1> QED
  BY <1>2, <1>3, <1>4, SubSeqProperties DEF Front

LEMMA EventEndFits == ASSUME InputsInv, EventEnd PROVE InputsInv'
<1> DEFINE outermost == Len(batch) = 1
           r0 == [node |-> InputNode, props |-> props, waiting |-> waiting]
           r1 == IF outermost /\ ~mode.concurrent THEN FlushUpdates(InputNode, props, waiting, TRUE) ELSE r0
           r2 == IF outermost /\ restoreQueue # <<>> THEN FlushUpdates(r1.node, r1.props, r1.waiting, FALSE) ELSE r1
           m == restoreStateIfNeeded(r2.node, r2.props)
<1>1. /\ batch # <<>> /\ batch' = Front(batch)
      /\ InputsBecome(IF outermost THEN [r2 EXCEPT !.node = m] ELSE r2)
      /\ restoreQueue' = IF outermost THEN <<>> ELSE restoreQueue
      /\ UNCHANGED <<mode, changes, calls, overtaken>>
  BY DEF EventEnd
<1>2. /\ NodeFits(InputNode) /\ TextIsTracked(InputNode) /\ FieldsAgree(props)
      /\ waiting \in Seq(UpdatesOfFields) /\ batch \in Seq(EventsHandled) /\ restoreQueue \in Seq(Fields)
  BY DEF InputsInv
<1>3. Len(batch) \in Nat /\ Len(batch) # 0 /\ \A i \in 1 .. Len(batch) : batch[i] \in EventsHandled
  BY <1>1, <1>2, LenProperties
<1>4. batch' \in Seq(EventsHandled) /\ Len(batch') = Len(batch) - 1
  BY <1>1, <1>2, FrontFits
<1>5. CASE ~outermost
  <2>1. InputsBecome(r0) /\ restoreQueue' = restoreQueue
    BY <1>1, <1>5
  <2>2. UNCHANGED <<dom, tracker, props, waiting>>
    BY <2>1 DEF InputsBecome, InputNode
  <2>3. batch' # <<>>
    BY <1>3, <1>4, <1>5
  <2> QED
    BY <1>1, <1>2, <1>4, <2>1, <2>2, <2>3, FieldsStay
<1>6. CASE outermost
  <2> DEFINE Kept(r) ==
        /\ TextIsTracked(r.node)
        /\ \A f \in Fields : ShowsField(InputNode, f, props) => ShowsField(r.node, f, r.props)
        /\ \A f \in Fields : InputNode.tracker[f] = InputNode.dom[f] => r.node.tracker[f] = r.node.dom[f]
  <2>1. FlushFits(InputNode, props, r1)
    <3>1. FlushFits(InputNode, props, FlushUpdates(InputNode, props, waiting, TRUE))
      BY <1>2, Flushed
    <3>2. FlushFits(InputNode, props, r0)
      BY <1>2 DEF FlushFits, IsFlush
    <3> QED
      BY <3>1, <3>2
  <2>2. r2 = IF restoreQueue # <<>> THEN FlushUpdates(r1.node, r1.props, r1.waiting, FALSE) ELSE r1
    BY <1>6
  <2>3. InputsBecome([r2 EXCEPT !.node = m]) /\ restoreQueue' = <<>>
    BY <1>1, <1>6
  <2> HIDE DEF r1
  <2>4. Kept(r1)
    BY <1>2, <2>1, ShownStays
  <2>5. FlushFits(r1.node, r1.props, r2)
    <3>1. NodeFits(r1.node) /\ FieldsAgree(r1.props) /\ r1.waiting \in Seq(UpdatesOfFields) /\ IsFlush(r1)
      BY <2>1 DEF FlushFits
    <3>2. FlushFits(r1.node, r1.props, FlushUpdates(r1.node, r1.props, r1.waiting, FALSE))
      BY <3>1, Flushed
    <3>3. FlushFits(r1.node, r1.props, r1)
      BY <3>1 DEF FlushFits
    <3> HIDE DEF r2
    <3> QED
      BY <2>2, <3>2, <3>3
  <2> HIDE DEF r2
  <2>6. Kept(r2)
    <3>1. /\ TextIsTracked(r2.node)
          /\ \A f \in Fields : ShowsField(r1.node, f, r1.props) => ShowsField(r2.node, f, r2.props)
          /\ \A f \in Fields : r1.node.tracker[f] = r1.node.dom[f] => r2.node.tracker[f] = r2.node.dom[f]
      BY <2>4, <2>5, ShownStays
    <3> QED
      BY <2>4, <3>1
  <2>7. NodeFits(r2.node) /\ FieldsAgree(r2.props) /\ r2.waiting \in Seq(UpdatesOfFields) /\ IsFlush(r2)
    BY <2>5 DEF FlushFits
  <2>8. ASSUME NEW j \in DOMAIN restoreQueue, ~IsControlled PROVE ShowsField(r2.node, restoreQueue[j], r2.props)
    <3>1. restoreQueue[j] \in Fields
      BY <1>2, LenProperties
    <3>2. InputNode.tracker[restoreQueue[j]] = InputNode.dom[restoreQueue[j]]
      BY DEF InputsInv, InputNode
    <3> QED
      BY <2>6, <2>8, <3>1, <3>2 DEF ShowsField
  <2>9. /\ Follows(r2.node, m, r2.props)
        /\ \A j \in DOMAIN restoreQueue : Restores(m, restoreQueue[j], r2.props)
    BY <1>2, <2>6, <2>7, <2>8, FieldsRestored
  <2> HIDE DEF m
  <2>10. NodeFits(m) /\ TextIsTracked(m)
    BY <2>6, <2>9, TextStaysTracked DEF Follows
  <2>11. ASSUME NEW f \in Fields PROVE ShowsField(m, f, r2.props)
    <3>1. CASE IsTouched(f)
      BY <2>9, <3>1 DEF IsTouched, Restores
    <3>2. CASE ~IsTouched(f)
      <4>1. ShowsField(InputNode, f, props)
        BY <3>2 DEF InputsInv
      <4> QED
        BY <2>6, <2>9, <4>1 DEF Follows
    <3> QED
      BY <3>1, <3>2
  <2>12. dom' = m.dom /\ tracker' = m.tracker /\ props' = r2.props /\ waiting' = r2.waiting
    <3>1. [r2 EXCEPT !.node = m] = [node |-> m, props |-> r2.props, waiting |-> r2.waiting]
      BY <2>7 DEF IsFlush
    <3> QED
      BY <2>3, <3>1 DEF InputsBecome
  <2> QED
    BY <1>1, <1>4, <2>3, <2>7, <2>10, <2>11, <2>12, FieldsShown
<1> QED
  BY <1>5, <1>6

LEMMA ResetAgrees == ASSUME NEW g \in Radios PROVE FieldsAgree(Reset(g))
<1>1. TextField \notin Radios /\ \A f \in Fields : f = TextField \/ f \in Radios
  BY InputsAssumption DEF Fields
<1>2. ASSUME NEW f \in Radios PROVE f \in Fields /\ Reset(g)[f] = (f = g)
  BY <1>1 DEF Reset, Fields
<1>3. \A f \in Radios : IF f = g THEN Checked(Reset(g)[f]) ELSE Off(Reset(g)[f])
  <2>1. ASSUME NEW f \in Radios, f = g PROVE Checked(Reset(g)[f])
    <3>1. Reset(g)[f] = TRUE
      BY <1>2, <2>1
    <3> QED
      BY <3>1, Zenon DEF Checked
  <2>2. ASSUME NEW f \in Radios, f # g PROVE Off(Reset(g)[f])
    <3>1. Reset(g)[f] = FALSE
      BY <1>2, <2>2
    <3> QED
      BY <3>1, Zenon DEF Off
  <2> QED
    BY <2>1, <2>2, Zenon
<1>4. IsOfFields(Reset(g))
  <2>1. ASSUME NEW f \in Fields
        PROVE  (IF f = TextField THEN Min(TextValues) ELSE f = g) \in InputValues
    BY DEF InputValues
  <2> QED
    BY <2>1 DEF IsOfFields, Reset
<1> QED
  BY <1>3, <1>4, BooleansDiffer DEF FieldsAgree

LEMMA UpdateElsewhereFits ==
  ASSUME InputsInv, NEW g \in Radios, NEW interactive \in BOOLEAN, UpdateElsewhere(Reset(g), interactive)
  PROVE  InputsInv'
<1>1. FieldsAgree(Reset(g))
  BY ResetAgrees
<1>2. [values |-> Reset(g), interactive |-> interactive] \in UpdatesOfFields
  BY <1>1 DEF UpdatesOfFields, FieldsAgree, IsOfFields
<1>3. waiting' \in Seq(UpdatesOfFields)
  BY <1>2 DEF UpdateElsewhere
<1> QED
  BY <1>3, FieldsStay DEF UpdateElsewhere, InputsInv

LEMMA HostCallbackFits == ASSUME InputsInv, HostCallbackFlushes PROVE InputsInv'
<1> DEFINE r == FlushUpdates(InputNode, props, waiting, TRUE)
<1>1. batch = <<>> /\ InputsBecome(r) /\ UNCHANGED <<mode, batch, restoreQueue, changes, calls, overtaken>>
  BY DEF HostCallbackFlushes
<1>2. restoreQueue = <<>> /\ batch \in Seq(EventsHandled)
        /\ NodeFits(InputNode) /\ TextIsTracked(InputNode) /\ FieldsAgree(props) /\ waiting \in Seq(UpdatesOfFields)
  BY <1>1 DEF InputsInv
<1>3. FlushFits(InputNode, props, r)
  BY <1>2, Flushed
<1> HIDE DEF r
<1>4. \A f \in Fields : ShowsField(InputNode, f, props)
  BY <1>2, AllAreShown
<1>5. TextIsTracked(r.node) /\ \A f \in Fields : ShowsField(r.node, f, r.props)
  BY <1>2, <1>3, <1>4, ShownStays
<1>6. NodeFits(r.node) /\ FieldsAgree(r.props) /\ r.waiting \in Seq(UpdatesOfFields)
  BY <1>3 DEF FlushFits
<1> QED
  BY <1>1, <1>2, <1>5, <1>6, FieldsShown DEF InputsBecome

LEMMA InputsSteps == InputsInv /\ [InputsNext]_inputVars => InputsInv'
<1> SUFFICES ASSUME InputsInv, [InputsNext]_inputVars PROVE InputsInv'
  OBVIOUS
<1>1. FieldsAgree(dom) /\ FieldsAgree(props)
  BY DEF InputsInv, NodeFits, InputNode
<1>2. ASSUME NEW f \in Radios, UserChanges(f, TRUE) PROVE InputsInv'
  <2>1. f \in Fields /\ TRUE \in InputValues /\ Checked(TRUE)
    BY DEF Fields, InputValues, Checked
  <2> QED
    BY <1>2, <2>1, UserChangesFits
<1>3. ASSUME NEW v \in TextValues, UserChanges(TextField, v) PROVE InputsInv'
  <2>1. TextField \in Fields /\ v \in InputValues /\ TextField \notin Radios
    BY InputsAssumption DEF Fields, InputValues
  <2> QED
    BY <1>3, <2>1, UserChangesFits
<1>4. ASSUME HandlerSetsState(Accepted) PROVE InputsInv'
  <2>1. Accepted = dom
    BY <1>1 DEF Accepted, FieldsAgree, IsOfFields
  <2>2. FieldsAgree(Accepted)
    BY <1>1, <2>1
  <2> QED
    BY <1>4, <2>2, HandlerFits
<1>5. ASSUME HandlerSetsState(Corrected) PROVE InputsInv'
  <2>1. IsOfFields(Corrected)
    BY <1>1 DEF Corrected, FieldsAgree, IsOfFields, InputValues
  <2>2. \A f \in Radios : Corrected[f] = props[f]
    BY InputsAssumption DEF Corrected, Fields
  <2>3. FieldsAgree(Corrected)
    BY <1>1, <2>1, <2>2 DEF FieldsAgree
  <2> QED
    BY <1>5, <2>3, HandlerFits
<1>6. CASE UNCHANGED inputVars
  BY <1>6, FieldsStay DEF inputVars, InputsInv
<1> QED
  BY <1>2, <1>3, <1>4, <1>5, <1>6, ChangeEventFits, EventEndFits, HostCallbackFits, UpdateElsewhereFits
  DEF InputsNext

LEMMA FieldsShowWhatIsRendered == InputsInv => FieldsShowState
<1> SUFFICES ASSUME InputsInv, batch = <<>> PROVE FieldsShowState
  BY DEF FieldsShowState
<1>1. restoreQueue = <<>> /\ changes = calls + overtaken
  BY DEF InputsInv
<1>2. \A f \in Fields : ShowsField(InputNode, f, props)
  BY <1>1, AllAreShown
<1>3. /\ dom \in [Fields -> InputValues] /\ tracker \in [Fields -> InputValues]
      /\ props \in [Fields -> InputValues]
  BY DEF InputsInv, NodeFits, InputNode, FieldsAgree, IsOfFields
<1>4. tracker = dom /\ (IsControlled => dom = props)
  BY <1>2, <1>3 DEF ShowsField, InputNode
<1> QED
  BY <1>1, <1>4 DEF FieldsShowState, IsControlled

(* Controlled inputs: once an event is over every field shows what was     *)
(* rendered last, its tracked value is its own, and every change of the    *)
(* user was told or rendered over before its event (FieldsShowState), for  *)
(* any group of radio buttons and any depth of nested events.              *)
THEOREM ControlledFieldsShowState == InputsSpec => []FieldsShowState
<1>1. InputsSpec => []InputsInv
  BY InputsStart, InputsSteps, PTL DEF InputsSpec
<1> QED
  BY <1>1, FieldsShowWhatIsRendered, PTL

-----------------------------------------------------------------------------
(* Responders.  A line is what lies between a view and its root: each      *)
(* instance is followed by its parent.                                     *)
IsLine(p, i, side) ==
  /\ p \in Seq(Instances) /\ Len(p) # 0 /\ p[1] = i
  /\ \A k \in 1 .. Len(p) - 1 : getParent(p[k], side) = p[k + 1]
  /\ getParent(p[Len(p)], side) = Null

LEMMA ParentsAreInstances ==
  ASSUME NEW i \in Instances, NEW side \in Sides
  PROVE  /\ i # Null /\ i[1] \in Nodes
         /\ getParent(i, side) = IF Parent[i[1]] = NoNode THEN Null ELSE <<Parent[i[1]], side>>
         /\ getParent(i, side) \in Instances \cup {Null}
<1>1. i[1] \in Nodes /\ i = <<i[1], i[2]>>
  BY DEF Instances
<1>2. i # Null
  BY <1>1, HostTreeAssumption DEF Null
<1>3. getParent(i, side) = IF Parent[i[1]] = NoNode THEN Null ELSE <<Parent[i[1]], side>>
  BY DEF getParent
<1>4. Parent[i[1]] \in Nodes \/ Parent[i[1]] = NoNode
  BY <1>1, HostTreeAssumption
<1>5. Parent[i[1]] # NoNode => <<Parent[i[1]], side>> \in Instances
  BY <1>4 DEF Instances
<1> QED
  BY <1>1, <1>2, <1>3, <1>5

LEMMA LinesAreEqual ==
  ASSUME NEW i \in Instances, NEW side \in Sides, NEW p, NEW q, IsLine(p, i, side), IsLine(q, i, side)
  PROVE  p = q
<1>1. /\ Len(p) \in Nat \ {0} /\ Len(q) \in Nat \ {0} /\ p \in Seq(Instances) /\ q \in Seq(Instances)
      /\ \A k \in 1 .. Len(p) : p[k] \in Instances
      /\ \A k \in 1 .. Len(q) : q[k] \in Instances
  BY DEF IsLine
<1> DEFINE Bad == {k \in Nat : k \in 1 .. Len(p) /\ (k > Len(q) \/ p[k] # q[k])}
           Worse == {k \in Nat : k \in 1 .. Len(q) /\ (k > Len(p) \/ p[k] # q[k])}
<1>2. Bad = {}
  <2> SUFFICES ASSUME Bad # {} PROVE FALSE
    OBVIOUS
  <2>1. PICK m \in Bad : \A k \in Bad : m <= k
    <3>1. Bad \in SUBSET Nat
      OBVIOUS
    <3> HIDE DEF Bad
    <3> QED
      BY <3>1, LeastOf
  <2>2. m \in 1 .. Len(p) /\ (m > Len(q) \/ p[m] # q[m])
    BY <2>1
  <2>3. m # 1
    BY <1>1, <2>2 DEF IsLine
  <2>4. m - 1 \in Nat /\ m - 1 \in 1 .. Len(p) - 1 /\ m - 1 \notin Bad
    BY <1>1, <2>1, <2>2, <2>3
  <2>5. m - 1 <= Len(q) /\ p[m - 1] = q[m - 1]
    BY <1>1, <2>4
  <2>6. getParent(p[m - 1], side) = p[m] /\ p[m] # Null
    <3>1. getParent(p[m - 1], side) = p[(m - 1) + 1] /\ (m - 1) + 1 = m
      BY <1>1, <2>2, <2>4 DEF IsLine
    <3> QED
      BY <1>1, <2>2, <3>1, ParentsAreInstances
  <2>7. CASE m - 1 = Len(q)
    BY <2>5, <2>6, <2>7 DEF IsLine
  <2>8. CASE m - 1 # Len(q)
    <3>1. m - 1 \in 1 .. Len(q) - 1 /\ (m - 1) + 1 = m /\ ~(m > Len(q))
      BY <1>1, <2>2, <2>4, <2>5, <2>8
    <3>2. getParent(q[m - 1], side) = q[m]
      BY <3>1 DEF IsLine
    <3> QED
      BY <2>2, <2>5, <2>6, <3>1, <3>2
  <2> QED
    BY <2>7, <2>8
<1>3. Len(p) <= Len(q) /\ \A k \in 1 .. Len(p) : p[k] = q[k]
  <2>1. \A k \in 1 .. Len(p) : k <= Len(q) /\ p[k] = q[k]
    BY <1>1, <1>2
  <2> QED
    BY <1>1, <2>1
<1>4. Len(p) = Len(q)
  <2> SUFFICES ASSUME Len(p) # Len(q) PROVE FALSE
    OBVIOUS
  <2>1. Len(p) \in 1 .. Len(q) - 1 /\ Len(p) + 1 \in 1 .. Len(q) /\ Len(p) \in 1 .. Len(p)
    BY <1>1, <1>3
  <2>2. getParent(p[Len(p)], side) = q[Len(p) + 1]
    BY <1>3, <2>1 DEF IsLine
  <2> QED
    BY <1>1, <2>1, <2>2, ParentsAreInstances DEF IsLine
<1> QED
  BY <1>1, <1>3, <1>4, SeqEqual

LEMMA LinesExist ==
  ASSUME NEW i \in Instances, NEW side \in Sides
  PROVE  \E p : IsLine(p, i, side)
<1> DEFINE Without == {n \in Nodes : \E s : <<n, s>> \in Instances /\ ~\E p : IsLine(p, <<n, s>>, side)}
<1>1. Without = {}
  <2> SUFFICES ASSUME Without # {} PROVE FALSE
    OBVIOUS
  <2>1. PICK n \in Without : Parent[n] \notin Without
    <3>1. Without \in SUBSET Nodes
      OBVIOUS
    <3> HIDE DEF Without
    <3> QED
      BY <3>1, HostTreeAssumption
  <2>2. PICK s : <<n, s>> \in Instances /\ ~\E p : IsLine(p, <<n, s>>, side)
    BY <2>1
  <2> DEFINE j == <<n, s>>
  <2>3. j \in Instances /\ j[1] = n
    BY <2>2
  <2> HIDE DEF j, Without
  <2>4. CASE Parent[n] = NoNode
    <3>1. getParent(j, side) = Null
      BY <2>3, <2>4 DEF getParent
    <3> DEFINE p == <<j>>
    <3>2. p \in Seq(Instances) /\ Len(p) = 1 /\ p[1] = j
      BY <2>3
    <3> HIDE DEF p
    <3>3. IsLine(p, j, side)
      BY <3>1, <3>2 DEF IsLine
    <3> QED
      BY <2>2, <3>3 DEF j
  <2>5. CASE Parent[n] # NoNode
    <3> DEFINE above == <<Parent[n], side>>
    <3>1. Parent[n] \in Nodes /\ above \in Instances /\ getParent(j, side) = above
      <4>1. n \in Nodes
        BY <2>1 DEF Without
      <4>2. Parent[n] \in Nodes
        BY <2>5, <4>1, HostTreeAssumption
      <4> QED
        BY <2>3, <2>5, <4>2 DEF getParent, Instances
    <3>2. \E q : IsLine(q, above, side)
      BY <2>1, <3>1 DEF Without
    <3> HIDE DEF above
    <3>3. PICK q : IsLine(q, above, side)
      BY <3>2
    <3> DEFINE p == <<j>> \o q
    <3>4. q \in Seq(Instances) /\ Len(q) \in Nat \ {0} /\ q[1] = above
      BY <3>3 DEF IsLine
    <3>5. /\ p \in Seq(Instances) /\ Len(p) = Len(q) + 1 /\ p[1] = j
          /\ \A k \in 1 .. Len(q) : p[k + 1] = q[k]
      BY <2>3, <3>4
    <3> HIDE DEF p
    <3>6. ASSUME NEW k \in 1 .. Len(p) - 1 PROVE getParent(p[k], side) = p[k + 1]
      <4>1. CASE k = 1
        BY <3>1, <3>4, <3>5, <4>1
      <4>2. CASE k # 1
        <5>1. k - 1 \in 1 .. Len(q) - 1 /\ k - 1 \in 1 .. Len(q) /\ k \in 1 .. Len(q) /\ (k - 1) + 1 = k
          BY <3>4, <3>5, <4>2
        <5>2. getParent(q[k - 1], side) = q[k]
          BY <3>3, <5>1 DEF IsLine
        <5> QED
          BY <3>5, <5>1, <5>2
      <4> QED
        BY <4>1, <4>2
    <3>7. getParent(p[Len(p)], side) = Null
      <4>1. p[Len(p)] = q[Len(q)]
        BY <3>4, <3>5
      <4> QED
        BY <3>3, <4>1 DEF IsLine
    <3>8. IsLine(p, j, side)
      BY <3>4, <3>5, <3>6, <3>7 DEF IsLine
    <3> QED
      BY <2>2, <3>8 DEF j
  <2> QED
    BY <2>4, <2>5
<1>2. i = <<i[1], i[2]>> /\ i[1] \in Nodes
  BY DEF Instances
<1> QED
  BY <1>1, <1>2

(* The paths are these lines.                                              *)
IsPaths(up, side) ==
  up = [i \in Instances \cup {Null} |-> IF i = Null THEN <<>> ELSE <<i>> \o up[getParent(i, side)]]

LEMMA PathsExist == ASSUME NEW side \in Sides PROVE \E up : IsPaths(up, side)
<1> DEFINE up == [i \in Instances \cup {Null} |-> IF i = Null THEN <<>> ELSE CHOOSE p : IsLine(p, i, side)]
<1>1. up[Null] = <<>> /\ up = [i \in Instances \cup {Null} |-> up[i]]
  OBVIOUS
<1>2. ASSUME NEW i \in Instances PROVE IsLine(up[i], i, side)
  <2>1. up[i] = CHOOSE p : IsLine(p, i, side)
    BY ParentsAreInstances
  <2> QED
    BY <2>1, LinesExist
<1> HIDE DEF up
<1>3. ASSUME NEW i \in Instances PROVE up[i] = <<i>> \o up[getParent(i, side)]
  <2> DEFINE above == getParent(i, side)
             p == up[i]
             q == <<i>> \o up[above]
  <2>1. above \in Instances \cup {Null}
    BY ParentsAreInstances
  <2>2. CASE above = Null
    <3>1. q = <<i>>
      <4>1. up[above] = <<>>
        BY <1>1, <2>2
      <4>2. <<i>> \o <<>> = <<i>>
        OBVIOUS
      <4> QED
        BY <4>1, <4>2, Zenon
    <3> HIDE DEF q
    <3>2. q \in Seq(Instances) /\ Len(q) = 1 /\ q[1] = i
      BY <3>1
    <3>3. IsLine(q, i, side)
      BY <2>2, <3>2 DEF IsLine
    <3>4. p = q
      BY <1>2, <3>3, LinesAreEqual
    <3> QED
      BY <3>4 DEF q
  <2>3. CASE above # Null
    <3>1. IsLine(up[above], above, side)
      BY <1>2, <2>1, <2>3
    <3> DEFINE r == up[above]
    <3>2. r \in Seq(Instances) /\ Len(r) \in Nat \ {0} /\ r[1] = above
      BY <3>1 DEF IsLine
    <3>3. q = <<i>> \o r
      OBVIOUS
    <3> HIDE DEF r, q
    <3>4. /\ q \in Seq(Instances) /\ Len(q) = Len(r) + 1 /\ q[1] = i
          /\ \A k \in 1 .. Len(r) : q[k + 1] = r[k]
      BY <3>2, <3>3
    <3>5. ASSUME NEW k \in 1 .. Len(q) - 1 PROVE getParent(q[k], side) = q[k + 1]
      <4>1. CASE k = 1
        <5>1. q[2] = above
          BY <3>2, <3>4
        <5> QED
          BY <3>4, <4>1, <5>1
      <4>2. CASE k # 1
        <5>1. k - 1 \in 1 .. Len(r) - 1 /\ k - 1 \in 1 .. Len(r) /\ k \in 1 .. Len(r) /\ (k - 1) + 1 = k
          BY <3>2, <3>4, <4>2
        <5>2. getParent(r[k - 1], side) = r[k]
          BY <3>1, <5>1 DEF IsLine, r
        <5> QED
          BY <3>4, <5>1, <5>2
      <4> QED
        BY <4>1, <4>2
    <3>6. getParent(q[Len(q)], side) = Null
      <4>1. q[Len(q)] = r[Len(r)]
        BY <3>2, <3>4
      <4> QED
        BY <3>1, <4>1 DEF IsLine, r
    <3>7. IsLine(q, i, side)
      BY <3>2, <3>4, <3>5, <3>6 DEF IsLine
    <3>8. p = q
      BY <1>2, <3>7, LinesAreEqual
    <3> QED
      BY <3>8 DEF q
  <2> QED
    BY <2>1, <2>2, <2>3
<1>4. ASSUME NEW i \in Instances \cup {Null}
      PROVE  up[i] = IF i = Null THEN <<>> ELSE <<i>> \o up[getParent(i, side)]
  BY <1>1, <1>3, <1>4
<1>5. IsPaths(up, side)
  BY <1>1, <1>4, Zenon DEF IsPaths
<1> QED
  BY <1>5

LEMMA PathsAreLines ==
  ASSUME NEW n \in Nodes, NEW side \in Sides
  PROVE  IsLine(PathOf(n, side), Known(n, side), side)
<1> DEFINE up == CHOOSE u : IsPaths(u, side)
           Without == {m \in Nodes : \E s : <<m, s>> \in Instances /\ ~IsLine(up[<<m, s>>], <<m, s>>, side)}
<1>1. Paths[side] = up
  BY DEF Paths, IsPaths
<1>2. IsPaths(up, side)
  BY PathsExist
<1> HIDE DEF up
<1>3. \A i \in Instances \cup {Null} : up[i] = IF i = Null THEN <<>> ELSE <<i>> \o up[getParent(i, side)]
  BY <1>2, Zenon DEF IsPaths
<1>4. up[Null] = <<>>
  BY <1>3
<1>5. \A i \in Instances : up[i] = <<i>> \o up[getParent(i, side)]
  BY <1>3, ParentsAreInstances
<1>6. Without = {}
  <2> SUFFICES ASSUME Without # {} PROVE FALSE
    OBVIOUS
  <2>1. PICK m \in Without : Parent[m] \notin Without
    <3>1. Without \in SUBSET Nodes
      OBVIOUS
    <3> HIDE DEF Without
    <3> QED
      BY <3>1, HostTreeAssumption
  <2>2. PICK s : <<m, s>> \in Instances /\ ~IsLine(up[<<m, s>>], <<m, s>>, side)
    BY <2>1
  <2> DEFINE j == <<m, s>>
             p == up[j]
             above == getParent(j, side)
  <2>3. j \in Instances /\ j[1] = m /\ p = <<j>> \o up[above]
    BY <1>5, <2>2
  <2>4. above = Null \/ (above \in Instances /\ above = <<Parent[m], side>> /\ Parent[m] \in Nodes)
    <3>1. above = (IF Parent[m] = NoNode THEN Null ELSE <<Parent[m], side>>) /\ m \in Nodes
      BY <2>3, ParentsAreInstances
    <3>2. Parent[m] = NoNode \/ Parent[m] \in Nodes
      BY <3>1, HostTreeAssumption
    <3> HIDE DEF above
    <3> QED
      BY <3>1, <3>2 DEF Instances
  <2>5. CASE above = Null
    <3>1. p = <<j>>
      <4>1. up[above] = <<>>
        BY <1>4, <2>5
      <4>2. <<j>> \o <<>> = <<j>>
        OBVIOUS
      <4> HIDE DEF p
      <4> QED
        BY <2>3, <4>1, <4>2, Zenon
    <3> HIDE DEF j, p
    <3>2. p \in Seq(Instances) /\ Len(p) = 1 /\ p[1] = j
      <4>1. j \in Instances
        BY <2>2 DEF j
      <4> QED
        BY <3>1, <4>1
    <3>3. IsLine(p, j, side)
      BY <2>5, <3>2 DEF IsLine
    <3> QED
      BY <2>2, <3>3 DEF p, j
  <2>6. CASE above # Null
    <3> DEFINE q == up[above]
    <3>1. IsLine(q, above, side)
      <4>1. Parent[m] \in Nodes /\ <<Parent[m], side>> \in Instances /\ Parent[m] \notin Without
        BY <2>1, <2>4, <2>6
      <4> QED
        BY <2>4, <2>6, <4>1
    <3>2. q \in Seq(Instances) /\ Len(q) \in Nat \ {0} /\ q[1] = above
      BY <3>1 DEF IsLine
    <3>3. p = <<j>> \o q
      BY <2>3
    <3> HIDE DEF j, p, q, Without
    <3>4. /\ p \in Seq(Instances) /\ Len(p) = Len(q) + 1 /\ p[1] = j
          /\ \A k \in 1 .. Len(q) : p[k + 1] = q[k]
      <4>1. j \in Instances
        BY <2>2 DEF j
      <4> QED
        BY <3>2, <3>3, <4>1
    <3>5. ASSUME NEW k \in 1 .. Len(p) - 1 PROVE getParent(p[k], side) = p[k + 1]
      <4>1. CASE k = 1
        <5>1. p[2] = q[1]
          BY <3>2, <3>4
        <5> QED
          BY <3>2, <3>4, <4>1, <5>1
      <4>2. CASE k # 1
        <5>1. k - 1 \in 1 .. Len(q) - 1 /\ k - 1 \in 1 .. Len(q) /\ k \in 1 .. Len(q) /\ (k - 1) + 1 = k
          BY <3>2, <3>4, <4>2
        <5>2. getParent(q[k - 1], side) = q[k]
          BY <3>1, <5>1 DEF IsLine
        <5> QED
          BY <3>4, <5>1, <5>2
      <4> QED
        BY <4>1, <4>2
    <3>6. getParent(p[Len(p)], side) = Null
      <4>1. p[Len(p)] = q[Len(q)]
        BY <3>2, <3>4
      <4> QED
        BY <3>1, <4>1 DEF IsLine
    <3>7. IsLine(p, j, side)
      BY <3>2, <3>4, <3>5, <3>6 DEF IsLine
    <3> QED
      BY <2>2, <3>7 DEF p, j
  <2> QED
    BY <2>5, <2>6
<1>7. Known(n, side) \in Instances /\ Known(n, side) = <<n, (n + side) % 2>>
  <2>1. n # NoNode /\ (n + side) % 2 \in {0, 1}
    BY HostTreeAssumption DEF Sides
  <2> QED
    BY <2>1 DEF Known, Instances, Sides
<1>8. IsLine(up[Known(n, side)], Known(n, side), side)
  BY <1>6, <1>7
<1> QED
  BY <1>1, <1>8 DEF PathOf

LEMMA NoPath == ASSUME NEW side \in Sides PROVE PathOf(NoNode, side) = <<>>
<1> DEFINE up == CHOOSE u : IsPaths(u, side)
<1>1. Paths[side] = up
  BY DEF Paths, IsPaths
<1>2. IsPaths(up, side)
  BY PathsExist
<1> HIDE DEF up
<1>3. \A i \in Instances \cup {Null} : up[i] = IF i = Null THEN <<>> ELSE <<i>> \o up[getParent(i, side)]
  BY <1>2, Zenon DEF IsPaths
<1>4. up[Null] = <<>>
  BY <1>3
<1> QED
  BY <1>1, <1>4 DEF PathOf, Known

(* What lies around a view lies around each one in it.                     *)
LEMMA LinesMeet ==
  ASSUME NEW side \in Sides, NEW i, NEW j, NEW p, NEW q, IsLine(p, i, side), IsLine(q, j, side),
         NEW k \in 1 .. Len(p), p[k][1] = j[1]
  PROVE  \A l \in 1 .. Len(q) : k + l - 1 \in 1 .. Len(p) /\ q[l][1] = p[k + l - 1][1]
<1>1. /\ Len(p) \in Nat \ {0} /\ Len(q) \in Nat \ {0} /\ k \in Nat
      /\ \A l \in 1 .. Len(p) : p[l] \in Instances
      /\ \A l \in 1 .. Len(q) : q[l] \in Instances
  BY DEF IsLine
<1> DEFINE Bad == {l \in Nat : l \in 1 .. Len(q) /\ ~(k + l - 1 \in 1 .. Len(p) /\ q[l][1] = p[k + l - 1][1])}
<1>2. Bad = {}
  <2> SUFFICES ASSUME Bad # {} PROVE FALSE
    OBVIOUS
  <2>1. PICK m \in Bad : \A l \in Bad : m <= l
    <3>1. Bad \in SUBSET Nat
      OBVIOUS
    <3> HIDE DEF Bad
    <3> QED
      BY <3>1, LeastOf
  <2>2. m # 1
    <3>1. q[1][1] = p[k][1] /\ k + 1 - 1 = k
      BY <1>1 DEF IsLine
    <3> QED
      BY <2>1, <3>1
  <2>3. m \in 1 .. Len(q) /\ m - 1 \in 1 .. Len(q) - 1 /\ m - 1 \in Nat /\ m - 1 \notin Bad
    <3>1. m \in Nat /\ m \in 1 .. Len(q)
      BY <2>1
    <3>2. m - 1 \in 1 .. Len(q) - 1 /\ m - 1 \in Nat /\ ~(m <= m - 1)
      BY <1>1, <2>2, <3>1
    <3> HIDE DEF Bad
    <3> QED
      BY <2>1, <3>1, <3>2
  <2> DEFINE h == k + (m - 1) - 1
  <2>4. h \in 1 .. Len(p) /\ q[m - 1][1] = p[h][1]
    BY <1>1, <2>3
  <2>5. k + m - 1 = h + 1 /\ (m - 1) + 1 = m
    BY <1>1, <2>3
  <2> HIDE DEF h
  <2>6. getParent(q[m - 1], side) = q[m]
    <3>1. getParent(q[m - 1], side) = q[(m - 1) + 1]
      BY <2>3 DEF IsLine
    <3> QED
      BY <2>5, <3>1
  <2>7. getParent(q[m - 1], side) = getParent(p[h], side)
    BY <2>4 DEF getParent
  <2>8. CASE h = Len(p)
    <3>1. q[m] = Null
      BY <2>6, <2>7, <2>8 DEF IsLine
    <3> QED
      BY <1>1, <2>3, <3>1, ParentsAreInstances
  <2>9. CASE h # Len(p)
    <3>1. h \in 1 .. Len(p) - 1 /\ h + 1 \in 1 .. Len(p)
      BY <1>1, <2>4, <2>9
    <3>2. q[m] = p[h + 1]
      BY <2>6, <2>7, <3>1 DEF IsLine
    <3> QED
      BY <2>1, <2>5, <3>1, <3>2
  <2> QED
    BY <2>8, <2>9
<1>3. ASSUME NEW l \in 1 .. Len(q), ~(k + l - 1 \in 1 .. Len(p) /\ q[l][1] = p[k + l - 1][1]) PROVE FALSE
  <2>1. l \in Nat
    BY <1>1
  <2>2. l \in Bad
    BY <1>3, <2>1, Zenon
  <2> HIDE DEF Bad
  <2> QED
    BY <1>2, <2>2
<1> QED
  BY <1>3

LEMMA NothingIsInItself ==
  ASSUME NEW side \in Sides, NEW i, NEW p, IsLine(p, i, side), NEW k \in 1 .. Len(p), k # 1
  PROVE  p[k][1] # i[1]
<1> SUFFICES ASSUME p[k][1] = i[1] PROVE FALSE
  OBVIOUS
<1>1. Len(p) \in Nat \ {0} /\ k \in Nat /\ (\A l \in 1 .. Len(p) : p[l] \in Instances) /\ p[1] = i
  BY DEF IsLine
<1> DEFINE Round == {p[l][1] : l \in 1 .. k - 1}
<1>2. \A l \in 1 .. Len(p) : p[l][1] \in Nodes
  BY <1>1, ParentsAreInstances
<1>3. Round \in SUBSET Nodes /\ p[1][1] \in Round
  BY <1>1, <1>2
<1>4. ASSUME NEW l \in 1 .. k - 1 PROVE Parent[p[l][1]] = p[l + 1][1]
  <2>1. l \in 1 .. Len(p) - 1 /\ l \in 1 .. Len(p) /\ l + 1 \in 1 .. Len(p)
    BY <1>1
  <2>2. getParent(p[l], side) = p[l + 1]
    BY <2>1 DEF IsLine
  <2>3. p[l + 1] \in Instances /\ p[l] \in Instances
    BY <1>1, <2>1
  <2>4. p[l + 1] # Null
    BY <2>3, ParentsAreInstances
  <2> QED
    BY <2>2, <2>3, <2>4, ParentsAreInstances
<1>5. ASSUME NEW l \in 1 .. k - 1 PROVE p[l + 1][1] \in Round
  <2>1. CASE l + 1 = k
    BY <1>1, <1>3, <2>1
  <2>2. CASE l + 1 # k
    <3>1. l + 1 \in 1 .. k - 1
      BY <1>1, <2>2
    <3> QED
      BY <3>1
  <2> QED
    BY <2>1, <2>2
<1>6. \A n \in Round : Parent[n] \in Round
  BY <1>4, <1>5
<1> HIDE DEF Round
<1>7. \E n \in Round : Parent[n] \notin Round
  BY <1>3, HostTreeAssumption
<1> QED
  BY <1>6, <1>7

(* Those who are asked are around the responder.                           *)
ViewsOn(path) == {i[1] : i \in ToSet(path)}

LEMMA ViewsOnLine ==
  ASSUME NEW path \in Seq(Instances), NEW w
  PROVE  w \in ViewsOn(path) <=> \E k \in 1 .. Len(path) : path[k][1] = w
  BY DEF ViewsOn, ToSet

LEMMA AncestorIsOnPath ==
  ASSUME NEW a \in Seq(Instances), NEW b \in Seq(Instances)
  PROVE  LET c == getLowestCommonAncestor(a, b) IN c = Null \/ \E k \in 1 .. Len(a) : c = a[k]
<1> DEFINE depth == Min({Len(a), Len(b)})
           common == {k \in 1 .. depth : IsSame(a[Len(a) - depth + k], b[Len(b) - depth + k])}
           c == getLowestCommonAncestor(a, b)
<1>1. c = IF common = {} THEN Null ELSE a[Len(a) - depth + Min(common)]
  BY DEF getLowestCommonAncestor
<1>2. depth \in Nat /\ depth <= Len(a)
  <2>1. Len(a) \in Nat /\ Len(b) \in Nat
    OBVIOUS
  <2>2. \E x \in {Len(a), Len(b)} : \A y \in {Len(a), Len(b)} : x <= y
    BY <2>1
  <2>3. depth \in {Len(a), Len(b)} /\ \A y \in {Len(a), Len(b)} : depth <= y
    BY <2>2 DEF Min
  <2> HIDE DEF depth
  <2> QED
    BY <2>1, <2>3
<1>3. common # {} => Min(common) \in common
  <2>1. common \in SUBSET Nat
    OBVIOUS
  <2> HIDE DEF common
  <2>2. common # {} => \E m \in common : \A k \in common : m <= k
    BY <2>1, LeastOf
  <2> QED
    BY <2>2 DEF Min
<1> HIDE DEF depth, c
<1>4. CASE common = {}
  BY <1>1, <1>4 DEF c
<1>5. CASE common # {}
  <2>1. Min(common) \in 1 .. depth
    BY <1>3, <1>5
  <2>2. Len(a) - depth + Min(common) \in 1 .. Len(a)
    <3> HIDE DEF common
    <3> QED
      BY <1>2, <2>1
  <2> HIDE DEF common
  <2> QED
    BY <1>1, <1>5, <2>2 DEF c
<1> QED
  BY <1>4, <1>5

LEMMA AskedAreAround ==
  ASSUME responderInst \in Nodes, NEW side \in Sides, NEW target \in Nodes, NEW w \in Asked(target, side)
  PROVE  w # responderInst /\ w \in ViewsOn(PathOf(responderInst, side))
<1> DEFINE a == PathOf(responderInst, side)
           b == PathOf(target, side)
           from == BubbleShouldSetFrom(target, side)
           q == PathOf(from, side)
<1>1. IsLine(a, Known(responderInst, side), side) /\ IsLine(b, Known(target, side), side)
  BY PathsAreLines
<1>2. \A n \in Nodes : Known(n, side)[1] = n
  BY HostTreeAssumption DEF Known
<1>3. from = getLowestCommonAncestor(a, b)[1]
  BY HostTreeAssumption DEF BubbleShouldSetFrom
<1>4. a \in Seq(Instances) /\ b \in Seq(Instances) /\ Len(a) \in Nat
  BY <1>1 DEF IsLine
<1>5. w \in ViewsOn(IF from = responderInst /\ q # <<>> THEN Tail(q) ELSE q)
  BY DEF Asked, ViewsOn
<1> HIDE DEF a, b, from, q
<1>6. from = NoNode \/ \E k \in 1 .. Len(a) : from = a[k][1]
  <2>1. Null[1] = NoNode
    BY DEF Null
  <2> QED
    BY <1>3, <1>4, <2>1, AncestorIsOnPath
<1>7. CASE from = NoNode
  <2>1. q = <<>>
    BY <1>7, NoPath DEF q
  <2>2. w \in ViewsOn(<<>>)
    BY <1>5, <2>1
  <2> QED
    BY <2>2 DEF ViewsOn, ToSet
<1>8. ASSUME NEW k \in 1 .. Len(a), from = a[k][1] PROVE w # responderInst /\ w \in ViewsOn(a)
  <2>1. from \in Nodes
    BY <1>4, <1>8 DEF Instances
  <2>2. IsLine(q, Known(from, side), side)
    BY <2>1, PathsAreLines DEF q
  <2>3. q \in Seq(Instances) /\ Len(q) \in Nat \ {0}
    BY <2>2 DEF IsLine
  <2>4. \A l \in 1 .. Len(q) : k + l - 1 \in 1 .. Len(a) /\ q[l][1] = a[k + l - 1][1]
    BY <1>1, <1>2, <1>8, <2>1, <2>2, LinesMeet
  <2>5. a[1][1] = responderInst
    BY <1>1, <1>2 DEF IsLine
  <2>6. PICK l \in 1 .. Len(q) : q[l][1] = w /\ (from = responderInst => l # 1)
    <3>1. CASE from = responderInst
      <4>1. Tail(q) \in Seq(Instances) /\ Len(Tail(q)) = Len(q) - 1 /\ \A l \in 1 .. Len(q) - 1 : Tail(q)[l] = q[l + 1]
        BY <2>3
      <4>2. q # <<>>
        BY <2>3
      <4>3. PICK l \in 1 .. Len(Tail(q)) : Tail(q)[l][1] = w
        BY <1>5, <3>1, <4>1, <4>2, ViewsOnLine
      <4>4. l + 1 \in 1 .. Len(q) /\ q[l + 1][1] = w /\ l + 1 # 1
        BY <2>3, <4>1, <4>3
      <4> QED
        BY <4>4
    <3>2. CASE from # responderInst
      BY <1>5, <2>3, <3>2, ViewsOnLine
    <3> QED
      BY <3>1, <3>2
  <2> DEFINE h == k + l - 1
  <2>7. h \in 1 .. Len(a) /\ w = a[h][1]
    BY <2>4, <2>6
  <2>8. h # 1
    <3>1. from # responderInst => k # 1
      BY <1>8, <2>5
    <3> QED
      BY <1>4, <2>3, <2>6, <3>1
  <2> HIDE DEF h
  <2>9. w # responderInst
    BY <1>1, <1>2, <2>7, <2>8, NothingIsInItself
  <2> QED
    BY <1>4, <2>7, <2>9, ViewsOnLine
<1> QED
  BY <1>6, <1>7, <1>8 DEF a

(* How the calls that a responder hears follow each other.                 *)
LEMMA FollowNone ==
  ASSUME NEW h
  PROVE  Follow(h, NoCall).told = h.told /\ (Follow(h, NoCall).wrong <=> h.wrong)
<1>1. NoCall[1] = "none" /\ InTurn(h, NoCall)
  BY DEF NoCall, InTurn
<1> QED
  BY <1>1 DEF Follow

LEMMA FollowGrant ==
  ASSUME NEW h, NEW n, ~h.wrong, n \notin h.told
  PROVE  Follow(h, <<"grant", n>>).told = h.told \cup {n} /\ ~Follow(h, <<"grant", n>>).wrong
BY DEF Follow, InTurn

LEMMA FollowEnd ==
  ASSUME NEW h, NEW n, ~h.wrong, n \in h.told, NEW name \in {"reject", "terminate", "release"}
  PROVE  Follow(h, <<name, n>>).told = h.told \ {n} /\ ~Follow(h, <<name, n>>).wrong
BY DEF Follow, InTurn

LEMMA FollowGesture ==
  ASSUME NEW h, NEW n, ~h.wrong, n \in h.told, NEW name \in {"start", "move", "end", "cancel"}
  PROVE  Follow(h, <<name, n>>).told = h.told /\ ~Follow(h, <<name, n>>).wrong
BY DEF Follow, InTurn

(* The history says that a node, or nobody, has the touches.               *)
Holds(h, r) == h.told = {r} \ {NoNode} /\ ~h.wrong

LEMMA TransfersFit ==
  ASSUME NEW h, Holds(h, responderInst), NEW wants, NEW switches \in BOOLEAN,
         wants # NoNode => wants # responderInst
  PROVE  LET t == Transfer(wants, switches)
         IN  /\ Holds(Follow(Follow(h, t.grant), t.answer), t.responder)
             /\ t.responder \in {responderInst, wants}
             /\ wants = NoNode => t.responder = responderInst
<1> DEFINE t == Transfer(wants, switches)
           g == Follow(h, <<"grant", wants>>)
<1>1. CASE wants = NoNode
  <2>1. t = [grant |-> NoCall, answer |-> NoCall, responder |-> responderInst]
    BY <1>1 DEF Transfer
  <2> HIDE DEF t
  <2> QED
    BY <1>1, <2>1, FollowNone DEF t, Holds
<1>2. CASE wants # NoNode
  <2>1. ~h.wrong /\ wants \notin h.told /\ h.told = {responderInst} \ {NoNode}
    BY <1>2 DEF Holds
  <2>2. g.told = h.told \cup {wants} /\ ~g.wrong
    BY <2>1, FollowGrant
  <2> HIDE DEF g
  <2>3. CASE responderInst = NoNode
    <3>1. t = [grant |-> <<"grant", wants>>, answer |-> NoCall, responder |-> wants]
      BY <1>2, <2>3 DEF Transfer
    <3> HIDE DEF t
    <3>2. Follow(Follow(h, t.grant), t.answer) = Follow(g, NoCall)
      BY <3>1 DEF g
    <3>3. g.told = {wants} \ {NoNode}
      BY <1>2, <2>1, <2>2, <2>3
    <3>4. Holds(Follow(g, NoCall), wants)
      BY <2>2, <3>3, FollowNone DEF Holds
    <3> QED
      BY <1>2, <3>1, <3>2, <3>4 DEF t
  <2>4. CASE responderInst # NoNode /\ switches
    <3>1. t = [grant |-> <<"grant", wants>>, answer |-> <<"terminate", responderInst>>, responder |-> wants]
      BY <1>2, <2>4 DEF Transfer
    <3> DEFINE f == Follow(g, <<"terminate", responderInst>>)
    <3> HIDE DEF t
    <3>2. Follow(Follow(h, t.grant), t.answer) = f
      BY <3>1 DEF g
    <3>3. f.told = g.told \ {responderInst} /\ ~f.wrong
      <4>1. responderInst \in g.told
        BY <2>1, <2>2, <2>4
      <4> QED
        BY <2>2, <4>1, FollowEnd
    <3> HIDE DEF f
    <3>4. f.told = {wants} \ {NoNode}
      BY <1>2, <2>1, <2>2, <3>3
    <3> QED
      BY <1>2, <3>1, <3>2, <3>3, <3>4 DEF Holds, t
  <2>5. CASE responderInst # NoNode /\ ~switches
    <3>1. t = [grant |-> <<"grant", wants>>, answer |-> <<"reject", wants>>, responder |-> responderInst]
      BY <1>2, <2>5 DEF Transfer
    <3> DEFINE f == Follow(g, <<"reject", wants>>)
    <3> HIDE DEF t
    <3>2. Follow(Follow(h, t.grant), t.answer) = f
      BY <3>1 DEF g
    <3>3. f.told = g.told \ {wants} /\ ~f.wrong
      BY <2>2, FollowEnd
    <3> HIDE DEF f
    <3>4. f.told = {responderInst} \ {NoNode}
      BY <2>1, <2>2, <2>5, <3>3
    <3> QED
      BY <1>2, <3>1, <3>2, <3>3, <3>4 DEF Holds, t
  <2> QED
    BY <2>3, <2>4, <2>5
<1> QED
  BY <1>1, <1>2

(* What a dispatch leaves behind.                                          *)
DispatchFits(type) ==
  /\ responderInst' \in Nodes \cup {NoNode}
  /\ told' = {responderInst'} \ {NoNode} /\ ~wrong'
  /\ trackedTouchCount' = trackedTouchCount + (IF isStartish(type) THEN 1 ELSE IF isEndish(type) THEN -1 ELSE 0)
  /\ DOMAIN touches = {} => /\ isEndish(type) => responderInst' = NoNode
                            /\ responderInst' = NoNode \/ grabbed'

LEMMA ExtractedTouchFits ==
  ASSUME told = {responderInst} \ {NoNode}, ~wrong, responderInst \in Nodes \cup {NoNode},
         NEW type \in {"start", "move", "end", "cancel", "scroll", "selection"},
         NEW target \in Nodes \cup {NoNode}, NEW side \in Sides, NEW wants \in Nodes \cup {NoNode},
         NEW switches \in BOOLEAN, ~(isEndish(type) /\ trackedTouchCount < 0),
         ExtractedTouch(type, target, side, wants, switches)
  PROVE  DispatchFits(type)
<1> DEFINE count == trackedTouchCount + (IF isStartish(type) THEN 1 ELSE IF isEndish(type) THEN -1 ELSE 0)
           t == Transfer(wants, switches)
           r == t.responder
           gesture == IF r # NoNode /\ (isStartish(type) \/ isMoveish(type) \/ isEndish(type)) THEN <<type, r>> ELSE NoCall
           terminates == r # NoNode /\ type = "cancel"
           releases == r # NoNode /\ type = "end" /\ noResponderTouches(r, side)
           final == IF terminates THEN <<"terminate", r>> ELSE IF releases THEN <<"release", r>> ELSE NoCall
           history == [told |-> told, wrong |-> wrong]
           transferred == Follow(Follow(history, t.grant), t.answer)
           gestured == Follow(transferred, gesture)
           finished == Follow(gestured, final)
<1>1. /\ wants = NoNode \/ (canTriggerTransfer(type, target, count) /\ wants \in Asked(target, side))
      /\ trackedTouchCount' = count
      /\ responderInst' = IF final = NoCall THEN r ELSE NoNode
      /\ told' = finished.told
      /\ wrong' = (finished.wrong \/ (responderInst # NoNode /\ r \notin ViewsOn(PathOf(responderInst, side))))
      /\ grabbed' = (responderInst' # NoNode /\ (grabbed \/ DOMAIN touches = {}))
  BY DEF ExtractedTouch, ViewsOn
<1>2. ASSUME wants # NoNode, responderInst # NoNode
      PROVE  wants # responderInst /\ wants \in ViewsOn(PathOf(responderInst, side))
  <2>1. target \in Nodes /\ wants \in Asked(target, side)
    BY <1>1, <1>2 DEF canTriggerTransfer
  <2> QED
    BY <1>2, <2>1, AskedAreAround
<1>3. /\ Holds(transferred, r) /\ r \in {responderInst, wants}
      /\ wants = NoNode => r = responderInst
  <2>1. Holds(history, responderInst)
    BY DEF Holds
  <2>2. wants # NoNode => wants # responderInst
    BY <1>2
  <2> HIDE DEF history
  <2> QED
    BY <2>1, <2>2, TransfersFit
<1>4. responderInst # NoNode => r \in ViewsOn(PathOf(responderInst, side))
  <2> SUFFICES ASSUME responderInst # NoNode PROVE r \in ViewsOn(PathOf(responderInst, side))
    OBVIOUS
  <2> HIDE DEF r
  <2>1. CASE r = responderInst
    <3>1. IsLine(PathOf(responderInst, side), Known(responderInst, side), side)
      BY PathsAreLines
    <3>2. Known(responderInst, side)[1] = responderInst
      BY DEF Known
    <3>3. /\ PathOf(responderInst, side) \in Seq(Instances) /\ 1 \in 1 .. Len(PathOf(responderInst, side))
          /\ PathOf(responderInst, side)[1][1] = responderInst
      BY <3>1, <3>2 DEF IsLine
    <3> QED
      BY <2>1, <3>3, ViewsOnLine
  <2>2. CASE r # responderInst
    BY <1>2, <1>3, <2>2
  <2> QED
    BY <2>1, <2>2
<1> HIDE DEF t, history, transferred
<1>5. Holds(gestured, r)
  <2>1. CASE gesture = NoCall
    <3>1. gestured = Follow(transferred, NoCall)
      BY <2>1
    <3> HIDE DEF gestured, gesture
    <3> QED
      BY <1>3, <3>1, FollowNone DEF Holds
  <2>2. CASE gesture # NoCall
    <3>1. r # NoNode /\ type \in {"start", "move", "end", "cancel"} /\ gesture = <<type, r>>
      BY <2>2 DEF isStartish, isMoveish, isEndish
    <3> HIDE DEF gesture
    <3>2. gestured = Follow(transferred, <<type, r>>)
      BY <3>1
    <3> HIDE DEF gestured
    <3>3. r \in transferred.told /\ ~transferred.wrong
      BY <1>3, <3>1 DEF Holds
    <3>4. type \in {"start", "move", "end", "cancel"}
      BY <3>1
    <3>5. Follow(transferred, <<type, r>>).told = transferred.told /\ ~Follow(transferred, <<type, r>>).wrong
      BY <3>3, <3>4, FollowGesture
    <3> QED
      BY <1>3, <3>2, <3>5 DEF Holds
  <2> QED
    BY <2>1, <2>2
<1> HIDE DEF gestured, gesture
<1>6. /\ finished.told = {responderInst'} \ {NoNode} /\ ~finished.wrong
      /\ responderInst' \in {r, NoNode} /\ (responderInst' # NoNode => final = NoCall)
  <2>1. CASE final = NoCall
    <3>1. finished = Follow(gestured, NoCall) /\ responderInst' = r
      BY <1>1, <2>1
    <3> HIDE DEF finished, final
    <3> QED
      BY <1>5, <2>1, <3>1, FollowNone DEF Holds
  <2>2. CASE final # NoCall
    <3>1. PICK name \in {"terminate", "release"} : final = <<name, r>> /\ r # NoNode
      BY <2>2
    <3>2. finished = Follow(gestured, <<name, r>>) /\ responderInst' = NoNode
      BY <1>1, <2>2, <3>1
    <3> HIDE DEF finished, final
    <3>3. r \in gestured.told /\ ~gestured.wrong
      BY <1>5, <3>1 DEF Holds
    <3>4. name \in {"reject", "terminate", "release"}
      BY <3>1
    <3>5. Follow(gestured, <<name, r>>).told = gestured.told \ {r} /\ ~Follow(gestured, <<name, r>>).wrong
      <4> HIDE DEF r
      <4> QED
        BY <3>3, <3>4, FollowEnd, Zenon
    <3>6. finished.told = gestured.told \ {r} /\ ~finished.wrong
      BY <3>2, <3>5
    <3> QED
      BY <1>5, <3>2, <3>6 DEF Holds
  <2> QED
    BY <2>1, <2>2
<1>7. ASSUME DOMAIN touches = {}, isEndish(type), responderInst' # NoNode PROVE FALSE
  <2>1. r # NoNode /\ noResponderTouches(r, side)
    BY <1>6, <1>7 DEF noResponderTouches
  <2>2. final # NoCall
    BY <1>7, <2>1 DEF isEndish, NoCall
  <2> QED
    BY <1>6, <1>7, <2>2
<1> HIDE DEF finished, final, r, count
<1>8. ~wrong'
  BY <1>1, <1>4, <1>6
<1>9. responderInst' \in Nodes \cup {NoNode}
  BY <1>3, <1>6
<1> QED
  BY <1>1, <1>6, <1>7, <1>8, <1>9 DEF count, DispatchFits

(* The invariant.  Fingers: those on the screen.  Between the dispatches   *)
(* of a group, the count of the plugin is behind (start) or ahead (end) by *)
(* what is left of the group; and the touch history is right about the     *)
(* touches that are not of the group, which it learns with the first       *)
(* dispatch.                                                               *)
Fingers == DOMAIN touches
Active == {t \in DOMAIN touchBank : touchBank[t]}
Left == Len(received.next)
Pending == IF isStartish(received.type) THEN 0 - Left ELSE IF isEndish(received.type) THEN Left ELSE 0
Learned == received.next = <<>> \/ isMoveish(received.type)

ReceivedOK ==
  /\ received = [type |-> received.type, changed |-> received.changed, next |-> received.next]
  /\ received.type \in {"start", "move", "end", "cancel"}
  /\ received.changed \subseteq Identifiers /\ received.next \in Seq(Nodes)
  /\ IF isEndish(received.type) THEN received.changed \cap Fingers = {} ELSE received.changed \subseteq Fingers
  /\ received.next # <<>> => received.changed # {}

HistoryOK ==
  /\ touchBank \in [DOMAIN touchBank -> BOOLEAN]
  /\ Active \ received.changed = Fingers \ received.changed
  /\ Learned =>
       /\ Active = Fingers /\ numberActiveTouches = Cardinality(Fingers)
       /\ Cardinality(Fingers) = 1 => indexOfSingleActiveTouch \in Fingers

ResponderInv ==
  /\ touches \in [Fingers -> Nodes] /\ Fingers \subseteq Identifiers
  /\ mounted \subseteq Views /\ ReceivedOK /\ HistoryOK
  /\ responderInst \in Nodes \cup {NoNode} /\ told = {responderInst} \ {NoNode} /\ ~wrong
  /\ trackedTouchCount = Cardinality(Fingers) + Pending
  /\ (received.next = <<>> \/ ~isEndish(received.type)) /\ Fingers = {} => responderInst = NoNode \/ grabbed

LEMMA NothingPends == received.next = <<>> => Pending = 0
<1>1. received.next = <<>> => Left = 0
  BY EmptySeq DEF Left
<1>2. Left = 0 => Pending = 0
  BY DEF Pending
<1> QED
  BY <1>1, <1>2

LEMMA FingersAreCounted == ASSUME ResponderInv PROVE IsFiniteSet(Fingers) /\ Cardinality(Fingers) \in Nat
<1>1. IsFiniteSet(Fingers)
  BY ResponderAssumption, FS_Subset DEF ResponderInv
<1> QED
  BY <1>1, FS_CardinalityType

LEMMA ResponderInvHolds == ResponderInv => RespondersAreBookended
<1> SUFFICES ASSUME ResponderInv PROVE RespondersAreBookended
  OBVIOUS
<1>1. touches = <<>> => Fingers = {}
  BY DEF Fingers
<1>2. received.next = <<>> => Pending = 0 /\ Learned
  BY NothingPends DEF Learned
<1>3. Cardinality(Fingers) \in Nat
  BY FingersAreCounted
<1>4. received.next = <<>> =>
        /\ trackedTouchCount = Cardinality(Fingers)
        /\ numberActiveTouches = Cardinality(Fingers)
        /\ numberActiveTouches = 1 => indexOfSingleActiveTouch \in Fingers
  BY <1>2, <1>3 DEF ResponderInv, HistoryOK
<1> QED
  BY <1>1, <1>4 DEF ResponderInv, RespondersAreBookended, Fingers

LEMMA ResponderInvInit == ResponderInit => ResponderInv
<1> SUFFICES ASSUME ResponderInit PROVE ResponderInv
  OBVIOUS
<1>1. /\ Fingers = {} /\ touches \in [Fingers -> Nodes]
      /\ DOMAIN touchBank = {} /\ touchBank \in [DOMAIN touchBank -> BOOLEAN] /\ Active = {}
  BY DEF ResponderInit, Fingers, Active
<1>2. Cardinality(Fingers) = 0
  BY <1>1, FS_EmptySet
<1>3. received.type = "start" /\ received.changed = {} /\ received.next = <<>>
  BY DEF ResponderInit
<1>4. Pending = 0
  BY <1>3, NothingPends
<1>5. ReceivedOK
  BY <1>1, <1>3 DEF ReceivedOK, ResponderInit, isEndish
<1>6. HistoryOK
  BY <1>1, <1>2, <1>3 DEF HistoryOK, ResponderInit
<1> QED
  BY <1>1, <1>2, <1>3, <1>4, <1>5, <1>6 DEF ResponderInv, ResponderInit

LEMMA ReceivesKeepInv ==
  ASSUME ResponderInv, NEW type \in {"start", "move", "end", "cancel"}, NEW changed \in SUBSET Identifiers,
         NEW n \in mounted, receiveTouches(type, changed, n)
  PROVE  ResponderInv'
<1> DEFINE fingers == IF isEndish(type) THEN Fingers \ changed ELSE Fingers \cup changed
           next == [k \in 1 .. Cardinality(changed) |->
                      LET t == CHOOSE t \in changed : Cardinality({u \in changed : u <= t}) = k
                      IN  IF t \in DOMAIN touches THEN touches[t] ELSE n]
<1>1. n \in Nodes
  BY ResponderAssumption DEF ResponderInv
<1>2. /\ received.next = <<>> /\ changed # {}
      /\ IF isStartish(type) THEN changed \cap Fingers = {} ELSE changed \subseteq Fingers
      /\ touches' = [t \in fingers |-> IF t \in Fingers THEN touches[t] ELSE n]
      /\ received' = [type |-> type, changed |-> changed, next |-> next]
      /\ UNCHANGED <<mounted, responderInst, trackedTouchCount, touchBank, numberActiveTouches,
                     indexOfSingleActiveTouch, told, wrong, grabbed>>
  BY DEF receiveTouches, Fingers
<1>3. IsFiniteSet(changed) /\ Cardinality(changed) \in Nat /\ Cardinality(changed) # 0
  <2>1. IsFiniteSet(changed)
    BY ResponderAssumption, FS_Subset
  <2> QED
    BY <1>2, <2>1, FS_CardinalityType, FS_EmptySet
<1>4. touches \in [Fingers -> Nodes] /\ Fingers \subseteq Identifiers
  BY DEF ResponderInv
<1>5. next \in Seq(Nodes) /\ Len(next) = Cardinality(changed)
  <2> DEFINE at(k) == CHOOSE t \in changed : Cardinality({u \in changed : u <= t}) = k
             target(k) == IF at(k) \in DOMAIN touches THEN touches[at(k)] ELSE n
             size == Cardinality(changed)
  <2>1. \A k \in 1 .. size : target(k) \in Nodes
    <3> HIDE DEF at
    <3> QED
      BY <1>1, <1>4 DEF Fingers
  <2>2. next = [k \in 1 .. size |-> target(k)]
    OBVIOUS
  <2> HIDE DEF next, target, size
  <2> QED
    BY <1>3, <2>1, <2>2 DEF size
<1> HIDE DEF next
<1>6. Fingers' = fingers /\ touches' \in [Fingers' -> Nodes] /\ Fingers' \subseteq Identifiers
  <2>1. Fingers' = fingers
    BY <1>2 DEF Fingers
  <2>2. fingers \subseteq Identifiers
    BY <1>4
  <2> HIDE DEF fingers
  <2> QED
    BY <1>1, <1>2, <1>4, <2>1, <2>2
<1>7. /\ received'.type = type /\ received'.changed = changed /\ received'.next = next
      /\ next # <<>> /\ Left' = Cardinality(changed)
  BY <1>2, <1>3, <1>5 DEF Left
<1>8. ReceivedOK'
  <2>1. IF isEndish(type) THEN changed \cap fingers = {} ELSE changed \subseteq fingers
    OBVIOUS
  <2> HIDE DEF fingers
  <2> QED
    BY <1>2, <1>5, <1>6, <1>7, <2>1 DEF ReceivedOK, isEndish
<1>9. Active = Fingers /\ numberActiveTouches = Cardinality(Fingers)
      /\ (Cardinality(Fingers) = 1 => indexOfSingleActiveTouch \in Fingers)
  BY <1>2 DEF ResponderInv, HistoryOK, Learned
<1>10. Active' = Active /\ touchBank' \in [DOMAIN touchBank' -> BOOLEAN]
  BY <1>2 DEF Active, ResponderInv, HistoryOK
<1>11. HistoryOK'
  <2>1. Active' \ changed = fingers \ changed
    BY <1>9, <1>10
  <2>2. CASE Learned'
    <3>1. isMoveish(type)
      BY <1>7, <2>2 DEF Learned, isMoveish
    <3>2. fingers = Fingers
      BY <1>2, <3>1 DEF isMoveish, isEndish, isStartish
    <3> HIDE DEF fingers
    <3> QED
      BY <1>2, <1>6, <1>7, <1>9, <1>10, <2>1, <3>2 DEF HistoryOK
  <2>3. CASE ~Learned'
    <3> HIDE DEF fingers
    <3> QED
      BY <1>6, <1>7, <1>10, <2>1, <2>3 DEF HistoryOK
  <2> QED
    BY <2>2, <2>3
<1>12. trackedTouchCount = Cardinality(Fingers) /\ Cardinality(Fingers) \in Nat /\ IsFiniteSet(Fingers)
  <2>1. Cardinality(Fingers) \in Nat /\ IsFiniteSet(Fingers) /\ Pending = 0
    BY <1>2, FingersAreCounted, NothingPends
  <2> QED
    BY <2>1 DEF ResponderInv
<1>13. trackedTouchCount' = Cardinality(Fingers') + Pending'
  <2>1. CASE isStartish(type)
    <3>1. Fingers' = Fingers \cup changed /\ Fingers \cap changed = {}
      BY <1>2, <1>6, <2>1 DEF isStartish, isEndish
    <3>2. Cardinality(Fingers') = Cardinality(Fingers) + Cardinality(changed)
      <4>1. Cardinality(Fingers \cap changed) = 0
        BY <3>1, FS_EmptySet
      <4>2. Cardinality(Fingers \cup changed) = Cardinality(Fingers) + Cardinality(changed) - Cardinality(Fingers \cap changed)
        BY <1>3, <1>12, FS_Union
      <4> QED
        BY <1>3, <1>12, <3>1, <4>1, <4>2
    <3>3. Pending' = 0 - Cardinality(changed)
      BY <1>7, <2>1 DEF Pending, isStartish
    <3> QED
      BY <1>2, <1>3, <1>12, <3>2, <3>3
  <2>2. CASE isEndish(type)
    <3>1. Fingers' = Fingers \ changed /\ Fingers \cap changed = changed
      BY <1>2, <1>6, <2>2 DEF isStartish, isEndish
    <3>2. Cardinality(Fingers') = Cardinality(Fingers) - Cardinality(changed)
      <4>1. Cardinality(Fingers \ changed) = Cardinality(Fingers) - Cardinality(Fingers \cap changed)
        BY <1>3, <1>12, FS_Difference
      <4> QED
        BY <3>1, <4>1
    <3>3. Pending' = Cardinality(changed)
      BY <1>7, <2>2 DEF Pending, isStartish, isEndish
    <3> QED
      BY <1>2, <1>3, <1>12, <3>2, <3>3
  <2>3. CASE ~isStartish(type) /\ ~isEndish(type)
    <3>1. Fingers' = Fingers
      BY <1>2, <1>6, <2>3
    <3>2. Pending' = 0
      BY <1>7, <2>3 DEF Pending, isStartish, isEndish
    <3>3. Cardinality(Fingers') = Cardinality(Fingers)
      BY <3>1
    <3> QED
      BY <1>2, <1>12, <3>2, <3>3
  <2> QED
    BY <2>1, <2>2, <2>3
<1>14. (received'.next = <<>> \/ ~isEndish(received'.type)) => Fingers' # {}
  BY <1>2, <1>6, <1>7
<1> HIDE DEF fingers
<1>15. /\ mounted' \subseteq Views /\ responderInst' \in Nodes \cup {NoNode}
       /\ told' = {responderInst'} \ {NoNode} /\ ~wrong'
  BY <1>2 DEF ResponderInv
<1>16. ~((received.next = <<>> \/ ~isEndish(received.type)) /\ Fingers = {})'
  BY <1>14 DEF isEndish
<1> QED
  BY <1>6, <1>8, <1>11, <1>13, <1>15, <1>16 DEF ResponderInv

LEMMA DispatchedTouchesKeepInv ==
  ASSUME ResponderInv, NEW side \in Sides, NEW wants \in Views \cup {NoNode}, NEW switches \in BOOLEAN,
         DispatchTouch(side, wants, switches)
  PROVE  ResponderInv'
<1> DEFINE type == received.type
           changed == received.changed
           target == Instance(Head(received.next))
<1>1. /\ received.next # <<>>
      /\ Recorded(type, changed)
      /\ ExtractedTouch(type, target, side, wants, switches)
      /\ received' = [received EXCEPT !.next = Tail(@)]
      /\ UNCHANGED <<touches, mounted>>
  BY DEF DispatchTouch
<1>2. /\ type \in {"start", "move", "end", "cancel"} /\ changed \subseteq Identifiers /\ changed # {}
      /\ received.next \in Seq(Nodes)
      /\ IF isEndish(type) THEN changed \cap Fingers = {} ELSE changed \subseteq Fingers
  BY <1>1 DEF ResponderInv, ReceivedOK
<1>3. target \in Nodes \cup {NoNode} /\ wants \in Nodes \cup {NoNode}
  BY ResponderAssumption DEF Instance, ResponderInv
<1>4. /\ received'.type = type /\ received'.changed = changed /\ received'.next = Tail(received.next)
      /\ received' = [type |-> received'.type, changed |-> received'.changed, next |-> received'.next]
  <2>1. received = [type |-> type, changed |-> changed, next |-> received.next]
    BY DEF ResponderInv, ReceivedOK
  <2>2. received' = [type |-> type, changed |-> changed, next |-> Tail(received.next)]
    BY <1>1, <2>1
  <2> HIDE DEF type, changed
  <2> QED
    BY <2>2
<1>5. Fingers' = Fingers /\ touches' = touches /\ mounted' = mounted /\ Cardinality(Fingers') = Cardinality(Fingers)
  BY <1>1 DEF Fingers
<1>6. /\ Left \in Nat /\ Left' = Left - 1 /\ Left' \in Nat
      /\ Tail(received.next) \in Seq(Nodes)
  BY <1>1, <1>2, <1>4 DEF Left
<1>7. Cardinality(Fingers) \in Nat /\ IsFiniteSet(Fingers)
  BY FingersAreCounted
<1>8. ~(isEndish(type) /\ trackedTouchCount < 0)
  <2>1. isEndish(type) => trackedTouchCount = Cardinality(Fingers) + Left
    BY DEF ResponderInv, Pending, isEndish, isStartish
  <2> QED
    BY <1>6, <1>7, <2>1
<1>9. /\ responderInst' \in Nodes \cup {NoNode}
      /\ told' = {responderInst'} \ {NoNode} /\ ~wrong'
      /\ trackedTouchCount' = trackedTouchCount + (IF isStartish(type) THEN 1 ELSE IF isEndish(type) THEN -1 ELSE 0)
      /\ Fingers = {} => /\ isEndish(type) => responderInst' = NoNode
                         /\ responderInst' = NoNode \/ grabbed'
  <2>1. told = {responderInst} \ {NoNode} /\ ~wrong /\ responderInst \in Nodes \cup {NoNode}
    BY DEF ResponderInv
  <2>2. type \in {"start", "move", "end", "cancel", "scroll", "selection"}
    BY <1>2
  <2>3. ExtractedTouch(type, target, side, wants, switches)
    BY <1>1
  <2> HIDE DEF type, target
  <2>4. DispatchFits(type)
    BY <1>3, <1>8, <2>1, <2>2, <2>3, ExtractedTouchFits, Zenon
  <2> QED
    BY <2>4 DEF DispatchFits, Fingers
<1>10. ReceivedOK'
  BY <1>2, <1>4, <1>5, <1>6 DEF ReceivedOK, isEndish
<1>11. trackedTouchCount' = Cardinality(Fingers') + Pending'
  <2>1. trackedTouchCount = Cardinality(Fingers) + Pending
    BY DEF ResponderInv
  <2>2. CASE isStartish(type)
    <3>1. Pending = 0 - Left /\ Pending' = 0 - Left' /\ trackedTouchCount' = trackedTouchCount + 1
      BY <1>4, <1>9, <2>2 DEF Pending, isStartish
    <3> QED
      BY <1>5, <1>6, <1>7, <2>1, <3>1
  <2>3. CASE isEndish(type)
    <3>1. Pending = Left /\ Pending' = Left' /\ trackedTouchCount' = trackedTouchCount + -1
      BY <1>4, <1>9, <2>3 DEF Pending, isStartish, isEndish
    <3> QED
      BY <1>5, <1>6, <1>7, <2>1, <3>1
  <2>4. CASE ~isStartish(type) /\ ~isEndish(type)
    <3>1. Pending = 0 /\ Pending' = 0 /\ trackedTouchCount' = trackedTouchCount + 0
      BY <1>4, <1>9, <2>4 DEF Pending, isStartish, isEndish
    <3> QED
      BY <1>5, <1>6, <1>7, <2>1, <3>1
  <2> QED
    BY <2>2, <2>3, <2>4
<1>12. /\ touchBank \in [DOMAIN touchBank -> BOOLEAN] /\ Active \ changed = Fingers \ changed
  BY DEF ResponderInv, HistoryOK
<1>13. touchBank' = TouchRecords(type, changed) /\ touchBank' \in [DOMAIN touchBank' -> BOOLEAN]
  <2>1. touchBank' = TouchRecords(type, changed)
    BY <1>1 DEF Recorded
  <2> HIDE DEF type, changed
  <2> QED
    BY <1>12, <2>1 DEF TouchRecords
<1>14. isMoveish(type) => Active = Fingers
  BY DEF ResponderInv, HistoryOK, Learned
<1>15. Active' = Fingers
  <2>1. Active' = {t \in DOMAIN touchBank \cup (IF isStartish(type) THEN changed ELSE {}) :
                     IF t \in changed THEN ~isEndish(type) ELSE touchBank[t]}
    <3> HIDE DEF type, changed
    <3> QED
      BY <1>13 DEF Active, TouchRecords
  <2>2. isMoveish(type) => changed \subseteq DOMAIN touchBank
    BY <1>2, <1>14 DEF Active, isMoveish, isEndish
  <2>3. isStartish(type) \/ isMoveish(type) \/ isEndish(type)
    BY <1>2 DEF isStartish, isMoveish, isEndish
  <2>4. ~(isEndish(type) /\ (isStartish(type) \/ isMoveish(type)))
    BY DEF isStartish, isMoveish, isEndish
  <2>5. \A t : t \in Active <=> t \in DOMAIN touchBank /\ touchBank[t]
    BY DEF Active
  <2> HIDE DEF type, changed
  <2>6. ASSUME NEW t PROVE t \in Active' <=> t \in Fingers
    <3>1. CASE t \in changed
      BY <1>2, <2>1, <2>2, <2>3, <2>4, <3>1
    <3>2. CASE t \notin changed
      BY <1>12, <2>1, <2>5, <3>2
    <3> QED
      BY <3>1, <3>2
  <2> QED
    BY <2>6
<1>16. /\ numberActiveTouches' = Cardinality(Fingers)
       /\ Cardinality(Fingers) = 1 => indexOfSingleActiveTouch' \in Fingers
  <2>1. CASE isStartish(type) \/ isEndish(type)
    <3>1. /\ numberActiveTouches' = Cardinality(Fingers)
          /\ indexOfSingleActiveTouch' =
               IF Cardinality(Fingers) # 1 THEN indexOfSingleActiveTouch
               ELSE IF isStartish(type) THEN CHOOSE t \in Fingers : TRUE
               ELSE Min(Active')
      BY <1>1, <2>1 DEF Recorded, Fingers, Active
    <3>2. ASSUME Cardinality(Fingers) = 1
          PROVE  (CHOOSE t \in Fingers : TRUE) \in Fingers /\ Min(Fingers) \in Fingers
      <4>1. PICK x : Fingers = {x}
        BY <1>7, <3>2, FS_Singleton
      <4>2. x \in Int
        BY <4>1, ResponderAssumption DEF ResponderInv
      <4> QED
        BY <4>1, <4>2 DEF Min
    <3> QED
      BY <1>15, <3>1, <3>2
  <2>2. CASE ~(isStartish(type) \/ isEndish(type))
    <3>1. isMoveish(type)
      BY <1>2, <2>2 DEF isStartish, isMoveish, isEndish
    <3>2. Learned
      BY <3>1 DEF Learned
    <3>3. numberActiveTouches' = numberActiveTouches /\ indexOfSingleActiveTouch' = indexOfSingleActiveTouch
      BY <1>1, <2>2 DEF Recorded
    <3> QED
      BY <3>2, <3>3 DEF ResponderInv, HistoryOK
  <2> QED
    BY <2>1, <2>2
<1>17. HistoryOK'
  BY <1>4, <1>5, <1>13, <1>15, <1>16 DEF HistoryOK
<1>18. (received'.next = <<>> \/ ~isEndish(type)) /\ Fingers = {} => responderInst' = NoNode \/ grabbed'
  BY <1>9
<1>19. ((received.next = <<>> \/ ~isEndish(received.type)) /\ Fingers = {} => responderInst = NoNode \/ grabbed)'
  BY <1>4, <1>5, <1>18 DEF isEndish
<1>20. touches' \in [Fingers' -> Nodes] /\ Fingers' \subseteq Identifiers /\ mounted' \subseteq Views
  BY <1>5 DEF ResponderInv
<1> QED
  BY <1>9, <1>10, <1>11, <1>17, <1>19, <1>20 DEF ResponderInv

LEMMA OtherDispatchesKeepInv ==
  ASSUME ResponderInv, NEW side \in Sides, NEW wants \in Views \cup {NoNode}, NEW switches \in BOOLEAN,
         NEW type \in {"scroll", "selection"}, NEW target \in mounted,
         DispatchOther(type, target, side, wants, switches)
  PROVE  ResponderInv'
<1>1. /\ received.next = <<>> /\ ExtractedTouch(type, target, side, wants, switches)
      /\ UNCHANGED <<touches, mounted, received, touchBank, numberActiveTouches, indexOfSingleActiveTouch>>
  BY DEF DispatchOther
<1>2. target \in Nodes \cup {NoNode} /\ wants \in Nodes \cup {NoNode}
  BY ResponderAssumption DEF ResponderInv
<1>3. ~isEndish(type) /\ ~isStartish(type)
  BY DEF isEndish, isStartish
<1>4. /\ responderInst' \in Nodes \cup {NoNode}
      /\ told' = {responderInst'} \ {NoNode} /\ ~wrong'
      /\ trackedTouchCount' = trackedTouchCount + (IF isStartish(type) THEN 1 ELSE IF isEndish(type) THEN -1 ELSE 0)
      /\ Fingers = {} => /\ isEndish(type) => responderInst' = NoNode
                         /\ responderInst' = NoNode \/ grabbed'
  <2>1. told = {responderInst} \ {NoNode} /\ ~wrong /\ responderInst \in Nodes \cup {NoNode}
    BY DEF ResponderInv
  <2>2. type \in {"start", "move", "end", "cancel", "scroll", "selection"}
    OBVIOUS
  <2>3. ~(isEndish(type) /\ trackedTouchCount < 0)
    BY <1>3, Zenon
  <2>4. DispatchFits(type)
    BY <1>1, <1>2, <2>1, <2>2, <2>3, ExtractedTouchFits, Zenon
  <2> QED
    BY <2>4, Zenon DEF Fingers, DispatchFits
<1>5. Fingers' = Fingers /\ Cardinality(Fingers') = Cardinality(Fingers) /\ Active' = Active /\ Pending' = Pending
      /\ (ReceivedOK <=> ReceivedOK') /\ (HistoryOK <=> HistoryOK')
  BY <1>1 DEF Fingers, Active, Pending, Left, ReceivedOK, HistoryOK, Learned, isStartish, isEndish, isMoveish
<1>6. trackedTouchCount' = trackedTouchCount
  <2>1. trackedTouchCount = Cardinality(Fingers) + 0 /\ Cardinality(Fingers) \in Nat
    BY <1>1, FingersAreCounted, NothingPends DEF ResponderInv
  <2> QED
    BY <1>3, <1>4, <2>1
<1>7. ((received.next = <<>> \/ ~isEndish(received.type)) /\ Fingers = {} => responderInst = NoNode \/ grabbed)'
  BY <1>1, <1>4, <1>5
<1>8. touches' = touches /\ mounted' = mounted
  BY <1>1
<1> QED
  BY <1>4, <1>5, <1>6, <1>7, <1>8 DEF ResponderInv

LEMMA RemovalsKeepInv == ASSUME ResponderInv, NEW n \in mounted, RemoveView(n) PROVE ResponderInv'
<1>1. /\ mounted' \subseteq mounted
      /\ UNCHANGED <<touches, received, responderInst, trackedTouchCount, touchBank, numberActiveTouches,
                     indexOfSingleActiveTouch, told, wrong, grabbed>>
  BY DEF RemoveView
<1>2. Fingers' = Fingers /\ Cardinality(Fingers') = Cardinality(Fingers) /\ Active' = Active /\ Pending' = Pending
      /\ (ReceivedOK <=> ReceivedOK') /\ (HistoryOK <=> HistoryOK')
  BY <1>1 DEF Fingers, Active, Pending, Left, ReceivedOK, HistoryOK, Learned, isStartish, isEndish, isMoveish
<1> QED
  BY <1>1, <1>2 DEF ResponderInv, isEndish

LEMMA ResponderInvNext == ResponderInv /\ [ResponderNext]_responderVars => ResponderInv'
<1> SUFFICES ASSUME ResponderInv, [ResponderNext]_responderVars PROVE ResponderInv'
  OBVIOUS
<1>1. ASSUME NEW type \in {"start", "move", "end", "cancel"}, NEW changed \in SUBSET Identifiers,
             NEW n \in mounted, receiveTouches(type, changed, n)
      PROVE  ResponderInv'
  BY <1>1, ReceivesKeepInv
<1>2. ASSUME NEW side \in Sides, NEW wants \in Views \cup {NoNode}, NEW switches \in BOOLEAN,
             DispatchTouch(side, wants, switches)
      PROVE  ResponderInv'
  BY <1>2, DispatchedTouchesKeepInv
<1>3. ASSUME NEW side \in Sides, NEW wants \in Views \cup {NoNode}, NEW switches \in BOOLEAN,
             NEW type \in {"scroll", "selection"}, NEW target \in mounted,
             DispatchOther(type, target, side, wants, switches)
      PROVE  ResponderInv'
  BY <1>3, OtherDispatchesKeepInv
<1>4. ASSUME NEW n \in mounted, RemoveView(n) PROVE ResponderInv'
  BY <1>4, RemovalsKeepInv
<1>5. CASE UNCHANGED responderVars
  <2>1. UNCHANGED <<touches, mounted, received, responderInst, trackedTouchCount, touchBank,
                    numberActiveTouches, indexOfSingleActiveTouch, told, wrong, grabbed>>
    BY <1>5 DEF responderVars
  <2>2. Fingers' = Fingers /\ Cardinality(Fingers') = Cardinality(Fingers) /\ Active' = Active /\ Pending' = Pending
        /\ (ReceivedOK <=> ReceivedOK') /\ (HistoryOK <=> HistoryOK')
    BY <2>1 DEF Fingers, Active, Pending, Left, ReceivedOK, HistoryOK, Learned, isStartish, isEndish, isMoveish
  <2> QED
    BY <2>1, <2>2 DEF ResponderInv, isEndish
<1> QED
  BY <1>1, <1>2, <1>3, <1>4, <1>5 DEF ResponderNext

(* The handlers of touches are called in their turn, and the counts of the *)
(* touches are right once a group is dispatched (ResponderEventPlugin).    *)
THEOREM TouchesAreBookended == ResponderSpec => []RespondersAreBookended
<1>1. ResponderInit => ResponderInv
  BY ResponderInvInit
<1>2. ResponderInv /\ [ResponderNext]_responderVars => ResponderInv'
  BY ResponderInvNext
<1>3. ResponderInv => RespondersAreBookended
  BY ResponderInvHolds
<1> QED
  BY <1>1, <1>2, <1>3, PTL DEF ResponderSpec

-----------------------------------------------------------------------------
(* Elements.  What a set of props alone makes of an element, part by part. *)
Hidden == Reserved \cup {"autoFocus"}
ShownNames(ps) ==
  {n \in DOMAIN ps.named \ Hidden : ~isProperty(n) /\ ~shouldIgnoreAttribute(n) /\ ~shouldRemoveAttribute(n, ps.named[n])}
AttributesOf(ps) ==
  [a \in {attributeName(n) : n \in ShownNames(ps)} |-> attributeValue(propName(a), ps.named[propName(a)])]
PropertiesOf(ps) ==
  [n \in mustUseProperty |->
     IF n \notin DOMAIN ps.named \/ ~isProperty(n) THEN "FALSE"
     ELSE IF shouldRemoveAttribute(n, ps.named[n]) THEN "FALSE" ELSE ps.named[n]]
StylesOf(ps) ==
  [k \in {k \in DOMAIN ps.style : dangerousStyleValue(ps.style[k]) # ""} |-> dangerousStyleValue(ps.style[k])]
ContentOf(ps, c) ==
  IF Value(ps, "html") # "null" THEN TextNodes(Value(ps, "html"))
  ELSE IF IsText(Value(ps, "children")) THEN TextNodes(Value(ps, "children"))
  ELSE IF c THEN {"child"} ELSE {}

LEMMA NullIsRemoved == \A n : shouldRemoveAttribute(n, "null")
BY DEF shouldRemoveAttribute

LEMMA NamesFit == ASSUME NEW n, n # "class" PROVE propName(attributeName(n)) = n
BY DEF propName, attributeName

LEMMA NamesDiffer == ASSUME NEW n, n # "class", NEW m, m # "class", attributeName(n) = attributeName(m) PROVE n = m
<1>1. propName(attributeName(n)) = n /\ propName(attributeName(m)) = m
  BY NamesFit
<1> QED
  BY <1>1

(* Setting what has changed from one set of props to the next.             *)
Changes(plain, last, next) ==
  /\ plain = [n \in DOMAIN plain |-> Value(next, n)]
  /\ DOMAIN plain = {n \in (DOMAIN last.named \cup DOMAIN next.named) \ Hidden :
                       IF n \in DOMAIN next.named THEN next.named[n] # Value(last, n) ELSE last.named[n] # "null"}

LEMMA ChangedAttributes ==
  ASSUME NEW last, NEW next, NEW plain, Changes(plain, last, next),
         "class" \notin DOMAIN last.named, "class" \notin DOMAIN next.named
  PROVE  attributesWith(AttributesOf(last), plain) = AttributesOf(next)
<1> DEFINE touched == {n \in DOMAIN plain : ~isProperty(n) /\ ~shouldIgnoreAttribute(n)}
           set == {n \in touched : ~shouldRemoveAttribute(n, plain[n])}
           old == AttributesOf(last)
           new == AttributesOf(next)
           kept == (DOMAIN old \ {attributeName(n) : n \in touched}) \cup {attributeName(n) : n \in set}
           value(a) == IF a \in {attributeName(n) : n \in set} THEN attributeValue(propName(a), plain[propName(a)]) ELSE old[a]
<1>1. attributesWith(old, plain) = [a \in kept |-> value(a)]
  BY Zenon DEF attributesWith
<1>2. /\ DOMAIN old = {attributeName(n) : n \in ShownNames(last)}
      /\ DOMAIN new = {attributeName(n) : n \in ShownNames(next)}
      /\ \A a \in DOMAIN old : old[a] = attributeValue(propName(a), last.named[propName(a)])
      /\ \A a \in DOMAIN new : new[a] = attributeValue(propName(a), next.named[propName(a)])
  BY DEF AttributesOf
<1>3. \A n \in DOMAIN plain : n # "class" /\ plain[n] = Value(next, n)
  BY DEF Changes
<1>4. \A n \in ShownNames(last) \cup ShownNames(next) : n # "class"
  BY DEF ShownNames
<1>5. new = [a \in DOMAIN new |-> new[a]]
  BY DEF AttributesOf
<1>6. ASSUME NEW n PROVE n \in set <=> n \in DOMAIN plain /\ n \in ShownNames(next)
  <2>1. n \in set <=> /\ n \in DOMAIN plain /\ ~isProperty(n) /\ ~shouldIgnoreAttribute(n)
                      /\ ~shouldRemoveAttribute(n, Value(next, n))
    BY <1>3
  <2>2. n \in DOMAIN plain => n \notin Hidden
    BY DEF Changes
  <2> HIDE DEF set
  <2> QED
    BY <2>1, <2>2, NullIsRemoved DEF ShownNames, Value
<1>7. ASSUME NEW n, n \notin DOMAIN plain
      PROVE  /\ n \in ShownNames(last) <=> n \in ShownNames(next)
             /\ n \in ShownNames(last) => last.named[n] = next.named[n]
  <2>1. CASE n \in Hidden
    BY <2>1 DEF ShownNames
  <2>2. CASE n \notin Hidden /\ n \in DOMAIN next.named
    BY <1>7, <2>2, NullIsRemoved DEF ShownNames, Value, Changes
  <2>3. CASE n \notin Hidden /\ n \notin DOMAIN next.named
    BY <1>7, <2>3, NullIsRemoved DEF ShownNames, Value, Changes
  <2> QED
    BY <2>1, <2>2, <2>3
<1> HIDE DEF old, new, set, touched
<1>8. ASSUME NEW a PROVE a \in kept <=> a \in DOMAIN new
  <2>1. ASSUME NEW n \in set, a = attributeName(n) PROVE a \in DOMAIN new
    BY <1>2, <1>6, <2>1
  <2>2. ASSUME a \in DOMAIN old, a \notin {attributeName(n) : n \in touched} PROVE a \in DOMAIN new
    <3>1. PICK n \in ShownNames(last) : a = attributeName(n)
      BY <1>2, <2>2
    <3>2. n \notin DOMAIN plain
      BY <2>2, <3>1 DEF touched, ShownNames
    <3> QED
      BY <1>2, <1>7, <3>1, <3>2
  <2>3. ASSUME NEW n \in ShownNames(next), a = attributeName(n) PROVE a \in kept
    <3>1. CASE n \in DOMAIN plain
      BY <1>6, <2>3, <3>1
    <3>2. CASE n \notin DOMAIN plain
      <4>1. n \in ShownNames(last) /\ a \in DOMAIN old
        BY <1>2, <1>7, <2>3, <3>2
      <4>2. a \notin {attributeName(m) : m \in touched}
        <5> SUFFICES ASSUME NEW m \in touched, a = attributeName(m) PROVE FALSE
          OBVIOUS
        <5>1. m \in DOMAIN plain
          BY DEF touched
        <5> QED
          BY <1>3, <1>4, <2>3, <3>2, <5>1, NamesDiffer
      <4> QED
        BY <4>1, <4>2
    <3> QED
      BY <3>1, <3>2
  <2> QED
    BY <1>2, <2>1, <2>2, <2>3
<1>9. kept = DOMAIN new
  BY <1>8
<1>10. ASSUME NEW a \in DOMAIN new PROVE value(a) = new[a]
  <2>1. CASE a \in {attributeName(n) : n \in set}
    <3>1. PICK n \in set : a = attributeName(n)
      BY <2>1
    <3>2. n \in DOMAIN plain /\ n \in ShownNames(next) /\ propName(a) = n
      BY <1>4, <1>6, <3>1, NamesFit
    <3>3. plain[n] = next.named[n]
      BY <1>3, <3>2 DEF ShownNames, Value
    <3> QED
      BY <1>2, <2>1, <3>2, <3>3
  <2>2. CASE a \notin {attributeName(n) : n \in set}
    <3>1. PICK n \in ShownNames(next) : a = attributeName(n)
      BY <1>2
    <3>2. n \notin DOMAIN plain /\ propName(a) = n
      BY <1>4, <1>6, <2>2, <3>1, NamesFit
    <3>3. last.named[n] = next.named[n] /\ a \in DOMAIN old
      BY <1>2, <1>7, <3>1, <3>2
    <3> QED
      BY <1>2, <2>2, <3>2, <3>3
  <2> QED
    BY <2>1, <2>2
<1> HIDE DEF kept, value
<1>11. [a \in kept |-> value(a)] = [a \in DOMAIN new |-> new[a]]
  BY <1>9, <1>10
<1> QED
  BY <1>1, <1>5, <1>11 DEF old, new

LEMMA ChangedProperties ==
  ASSUME NEW last, NEW next, NEW plain, Changes(plain, last, next)
  PROVE  propertiesWith(PropertiesOf(last), plain) = PropertiesOf(next)
<1> DEFINE old == PropertiesOf(last)
           new == PropertiesOf(next)
           with == propertiesWith(old, plain)
<1>1. /\ DOMAIN old = mustUseProperty /\ DOMAIN new = mustUseProperty /\ DOMAIN with = mustUseProperty
      /\ new = [n \in mustUseProperty |-> new[n]] /\ with = [n \in mustUseProperty |-> with[n]]
  BY DEF PropertiesOf, propertiesWith
<1>2. ASSUME NEW n \in mustUseProperty PROVE with[n] = new[n]
  <2>1. n \notin Hidden
    BY DEF mustUseProperty, Hidden, Reserved
  <2>2. with[n] = IF n \notin DOMAIN plain \/ ~isProperty(n) THEN old[n]
                  ELSE IF shouldRemoveAttribute(n, plain[n]) THEN "FALSE" ELSE plain[n]
    BY <1>1 DEF propertiesWith
  <2>3. n \in DOMAIN plain => plain[n] = Value(next, n)
    BY DEF Changes
  <2>4. n \in DOMAIN plain <=> /\ n \in DOMAIN last.named \cup DOMAIN next.named
                               /\ IF n \in DOMAIN next.named THEN next.named[n] # Value(last, n) ELSE last.named[n] # "null"
    BY <2>1 DEF Changes
  <2> HIDE DEF with
  <2> QED
    BY <2>2, <2>3, <2>4, NullIsRemoved DEF PropertiesOf, Value
<1> HIDE DEF with, new
<1> QED
  BY <1>1, <1>2 DEF with, new

LEMMA ChangedStyles ==
  ASSUME NEW last, NEW next
  PROVE  stylesWith(StylesOf(last), styleUpdates(last, next)) = StylesOf(next)
<1> DEFINE old == StylesOf(last)
           new == StylesOf(next)
           updates == styleUpdates(last, next)
           value(k) == IF k \in DOMAIN updates THEN dangerousStyleValue(updates[k]) ELSE old[k]
           set == {k \in DOMAIN updates \cup DOMAIN old : value(k) # ""}
<1>1. stylesWith(old, updates) = [k \in set |-> value(k)]
  BY DEF stylesWith
<1>2. /\ DOMAIN updates = {k \in DOMAIN last.style \cup DOMAIN next.style :
                             \/ k \notin DOMAIN next.style \/ k \notin DOMAIN last.style
                             \/ last.style[k] # next.style[k]}
      /\ \A k \in DOMAIN updates : updates[k] = IF k \in DOMAIN next.style THEN next.style[k] ELSE ""
  BY DEF styleUpdates
<1>3. /\ DOMAIN old = {k \in DOMAIN last.style : dangerousStyleValue(last.style[k]) # ""}
      /\ \A k \in DOMAIN old : old[k] = dangerousStyleValue(last.style[k])
      /\ DOMAIN new = {k \in DOMAIN next.style : dangerousStyleValue(next.style[k]) # ""}
      /\ \A k \in DOMAIN new : new[k] = dangerousStyleValue(next.style[k])
      /\ new = [k \in DOMAIN new |-> new[k]]
  BY DEF StylesOf
<1>4. dangerousStyleValue("") = ""
  BY DEF dangerousStyleValue
<1> HIDE DEF old, new, updates
<1>5. ASSUME NEW k PROVE k \in set <=> k \in DOMAIN new
  BY <1>2, <1>3, <1>4
<1>6. \A k \in DOMAIN new : value(k) = new[k]
  BY <1>2, <1>3
<1>7. set = DOMAIN new
  BY <1>5
<1> HIDE DEF set, value
<1>8. [k \in set |-> value(k)] = [k \in DOMAIN new |-> new[k]]
  BY <1>6, <1>7
<1> QED
  BY <1>1, <1>3, <1>8 DEF old, new, updates

(* autoFocus apart: what is set without it, and that it fits afterwards.   *)
LEMMA FocusHasItsName == \A n : (attributeName(n) = "autoFocus" <=> n = "autoFocus") /\ propName("autoFocus") = "autoFocus"
BY DEF attributeName, propName

LEMMA FocusIsApart ==
  ASSUME NEW attributes, NEW written, "class" \notin DOMAIN written
  PROVE  WithoutAutoFocus(attributesWith(attributes, written))
           = attributesWith(WithoutAutoFocus(attributes), WithoutAutoFocus(written))
<1> DEFINE few == WithoutAutoFocus(written)
           rest == WithoutAutoFocus(attributes)
           touched == {n \in DOMAIN written : ~isProperty(n) /\ ~shouldIgnoreAttribute(n)}
           set == {n \in touched : ~shouldRemoveAttribute(n, written[n])}
           touchedFew == {n \in DOMAIN few : ~isProperty(n) /\ ~shouldIgnoreAttribute(n)}
           setFew == {n \in touchedFew : ~shouldRemoveAttribute(n, few[n])}
           cleared == {attributeName(n) : n \in touched}
           names == {attributeName(n) : n \in set}
           clearedFew == {attributeName(n) : n \in touchedFew}
           namesFew == {attributeName(n) : n \in setFew}
           all == (DOMAIN attributes \ cleared) \cup names
           kept == (DOMAIN rest \ clearedFew) \cup namesFew
           value(a) == IF a \in names THEN attributeValue(propName(a), written[propName(a)]) ELSE attributes[a]
           valueFew(a) == IF a \in namesFew THEN attributeValue(propName(a), few[propName(a)]) ELSE rest[a]
<1>1. attributesWith(attributes, written) = [a \in all |-> value(a)]
  BY Zenon DEF attributesWith
<1>2. attributesWith(rest, few) = [a \in kept |-> valueFew(a)]
  BY Zenon DEF attributesWith
<1>3. /\ DOMAIN few = DOMAIN written \ {"autoFocus"} /\ \A n \in DOMAIN few : few[n] = written[n]
      /\ DOMAIN rest = DOMAIN attributes \ {"autoFocus"} /\ \A a \in DOMAIN rest : rest[a] = attributes[a]
  BY DEF WithoutAutoFocus
<1> HIDE DEF few, rest
<1>4. touchedFew = touched \ {"autoFocus"} /\ setFew = set \ {"autoFocus"}
  BY <1>3
<1>5. \A n \in set : n \in DOMAIN written /\ n # "class"
  OBVIOUS
<1> HIDE DEF touched, set, touchedFew, setFew
<1>6. clearedFew = cleared \ {"autoFocus"} /\ namesFew = names \ {"autoFocus"}
  BY <1>4, FocusHasItsName
<1>7. \A a \in namesFew : propName(a) \in DOMAIN few
  <2> SUFFICES ASSUME NEW n \in setFew PROVE propName(attributeName(n)) \in DOMAIN few
    OBVIOUS
  <2> QED
    BY <1>3, <1>4, <1>5, NamesFit
<1> HIDE DEF cleared, names, clearedFew, namesFew
<1>8. kept = all \ {"autoFocus"}
  BY <1>3, <1>6
<1>9. ASSUME NEW a \in kept PROVE valueFew(a) = value(a)
  <2>1. CASE a \in namesFew
    BY <1>3, <1>6, <1>7, <2>1
  <2>2. CASE a \notin namesFew
    <3>1. a # "autoFocus" /\ a \in DOMAIN rest /\ a \notin names
      BY <1>6, <1>8, <2>2
    <3> QED
      BY <1>3, <2>2, <3>1
  <2> QED
    BY <2>1, <2>2
<1> HIDE DEF all, kept, value, valueFew
<1>10. WithoutAutoFocus([a \in all |-> value(a)]) = [a \in kept |-> value(a)]
  BY <1>8 DEF WithoutAutoFocus
<1>11. [a \in kept |-> value(a)] = [a \in kept |-> valueFew(a)]
  BY <1>9
<1> QED
  BY <1>1, <1>2, <1>10, <1>11 DEF few, rest

(* The payload of a render.                                                *)
Payload(plain, last, next) ==
  /\ Changes(WithoutAutoFocus(plain), last, next)
  /\ \A n \in DOMAIN plain : plain[n] = Value(next, n)
  /\ "autoFocus" \in DOMAIN plain <=>
       "autoFocus" \in DOMAIN next.named /\ next.named["autoFocus"] # Value(last, "autoFocus")

LEMMA FocusIsWritten ==
  ASSUME NEW attributes, NEW plain, NEW last, NEW next, Payload(plain, last, next), AutoFocusFits(attributes, last)
  PROVE  AutoFocusFits(attributesWith(attributes, plain), next)
<1> DEFINE result == attributesWith(attributes, plain)
           v == Value(next, "autoFocus")
           touched == {n \in DOMAIN plain : ~isProperty(n) /\ ~shouldIgnoreAttribute(n)}
           set == {n \in touched : ~shouldRemoveAttribute(n, plain[n])}
           names == {attributeName(n) : n \in set}
           cleared == {attributeName(n) : n \in touched}
           value(a) == IF a \in names THEN attributeValue(propName(a), plain[propName(a)]) ELSE attributes[a]
<1>1. result = [a \in (DOMAIN attributes \ cleared) \cup names |-> value(a)]
  BY Zenon DEF attributesWith
<1>2. ~isProperty("autoFocus") /\ ~shouldIgnoreAttribute("autoFocus")
  BY DEF isProperty, mustUseProperty, shouldIgnoreAttribute
<1>3. "autoFocus" \in touched <=> "autoFocus" \in DOMAIN plain
  BY <1>2
<1>4. "autoFocus" \in set <=> "autoFocus" \in touched /\ ~shouldRemoveAttribute("autoFocus", plain["autoFocus"])
  OBVIOUS
<1> HIDE DEF touched, set
<1>5. ("autoFocus" \in names <=> "autoFocus" \in set) /\ ("autoFocus" \in cleared <=> "autoFocus" \in touched)
  BY FocusHasItsName
<1> HIDE DEF names, cleared
<1> SUFFICES ASSUME "autoFocus" \in DOMAIN result, v # "null"
             PROVE  ~shouldRemoveAttribute("autoFocus", v) /\ result["autoFocus"] = attributeValue("autoFocus", v)
  BY DEF AutoFocusFits
<1>6. /\ "autoFocus" \in (DOMAIN attributes \ cleared) \cup names
      /\ result["autoFocus"] = value("autoFocus")
  BY <1>1
<1> HIDE DEF result
<1>7. CASE "autoFocus" \in DOMAIN plain
  <2>1. plain["autoFocus"] = v
    BY <1>7 DEF Payload
  <2>2. "autoFocus" \in names /\ ~shouldRemoveAttribute("autoFocus", v)
    BY <1>3, <1>4, <1>5, <1>6, <1>7, <2>1
  <2> QED
    BY <1>6, <2>1, <2>2, FocusHasItsName
<1>8. CASE "autoFocus" \notin DOMAIN plain
  <2>1. v = Value(last, "autoFocus")
    BY <1>8 DEF Payload, Value
  <2>2. "autoFocus" \in DOMAIN attributes /\ result["autoFocus"] = attributes["autoFocus"]
    BY <1>3, <1>4, <1>5, <1>6, <1>8
  <2> QED
    BY <2>1, <2>2 DEF AutoFocusFits
<1> QED
  BY <1>7, <1>8

AttributesFit(a, ps) == a = [n \in DOMAIN a |-> a[n]] /\ WithoutAutoFocus(a) = AttributesOf(ps) /\ AutoFocusFits(a, ps)

LEMMA ChangedAttributesFit ==
  ASSUME NEW attributes, NEW plain, NEW last, NEW next, Payload(plain, last, next), AttributesFit(attributes, last),
         "class" \notin DOMAIN last.named, "class" \notin DOMAIN next.named
  PROVE  AttributesFit(attributesWith(attributes, plain), next)
<1> DEFINE result == attributesWith(attributes, plain)
<1>1. result = [n \in DOMAIN result |-> result[n]]
  BY DEF attributesWith
<1>2. "class" \notin DOMAIN plain
  BY DEF Payload, Changes, WithoutAutoFocus
<1>3. WithoutAutoFocus(result) = attributesWith(AttributesOf(last), WithoutAutoFocus(plain))
  BY <1>2, FocusIsApart DEF AttributesFit
<1>4. WithoutAutoFocus(result) = AttributesOf(next)
  BY <1>3, ChangedAttributes DEF Payload
<1> QED
  BY <1>1, <1>4, FocusIsWritten DEF AttributesFit

LEMMA ChangedPropertiesFit ==
  ASSUME NEW plain, NEW last, NEW next, Payload(plain, last, next)
  PROVE  propertiesWith(PropertiesOf(last), plain) = PropertiesOf(next)
<1>1. /\ DOMAIN WithoutAutoFocus(plain) = DOMAIN plain \ {"autoFocus"}
      /\ \A n \in DOMAIN WithoutAutoFocus(plain) : WithoutAutoFocus(plain)[n] = plain[n]
      /\ "autoFocus" \notin mustUseProperty
  BY DEF mustUseProperty, WithoutAutoFocus
<1>2. DOMAIN PropertiesOf(last) = mustUseProperty
  BY DEF PropertiesOf
<1>3. propertiesWith(PropertiesOf(last), plain) = propertiesWith(PropertiesOf(last), WithoutAutoFocus(plain))
  <2> DEFINE old == PropertiesOf(last)
             few == WithoutAutoFocus(plain)
             with(n, vs) == IF n \notin DOMAIN vs \/ ~isProperty(n) THEN old[n]
                                 ELSE IF shouldRemoveAttribute(n, vs[n]) THEN "FALSE" ELSE vs[n]
  <2>1. /\ propertiesWith(old, plain) = [n \in mustUseProperty |-> with(n, plain)]
        /\ propertiesWith(old, few) = [n \in mustUseProperty |-> with(n, few)]
    BY <1>2 DEF propertiesWith
  <2> HIDE DEF old, few
  <2>2. \A n \in mustUseProperty : with(n, plain) = with(n, few)
    <3> SUFFICES ASSUME NEW n \in mustUseProperty PROVE with(n, plain) = with(n, few)
      OBVIOUS
    <3>1. (n \in DOMAIN plain <=> n \in DOMAIN few) /\ (n \in DOMAIN few => few[n] = plain[n])
      BY <1>1 DEF few
    <3>2. CASE n \in DOMAIN plain
      BY <3>1, <3>2
    <3>3. CASE n \notin DOMAIN plain
      BY <3>1, <3>3
    <3> QED
      BY <3>2, <3>3
  <2> HIDE DEF with
  <2> QED
    BY <2>1, <2>2 DEF old, few
<1> QED
  BY <1>3, ChangedProperties DEF Payload

LEMMA FreshAttributesFit == ASSUME NEW ps PROVE AttributesFit(AttributesOf(ps), ps)
<1>1. "autoFocus" \notin DOMAIN AttributesOf(ps)
  <2> SUFFICES ASSUME NEW n \in ShownNames(ps), attributeName(n) = "autoFocus" PROVE FALSE
    BY DEF AttributesOf
  <2> QED
    BY FocusHasItsName DEF ShownNames, Hidden
<1>2. AttributesOf(ps) = [n \in DOMAIN AttributesOf(ps) |-> AttributesOf(ps)[n]]
  BY DEF AttributesOf
<1>3. DOMAIN AttributesOf(ps) \ {"autoFocus"} = DOMAIN AttributesOf(ps)
  BY <1>1
<1> QED
  BY <1>1, <1>2, <1>3, Zenon DEF AttributesFit, AutoFocusFits, WithoutAutoFocus

(* Each step writes its part of an element.                                *)
Element(a, p, s, c) == [attributes |-> a, properties |-> p, style |-> s, content |-> c]

LEMMA AllIsSet ==
  ASSUME NEW a, NEW p, NEW s, NEW c, NEW v
  PROVE  SetAll(Element(a, p, s, c), v) = Element(attributesWith(a, v), propertiesWith(p, v), s, c)
<1> DEFINE e == Element(a, p, s, c)
<1>1. SetAll(e, v) = [e EXCEPT !.attributes = attributesWith(a, v), !.properties = propertiesWith(p, v)]
  BY DEF SetAll, Element
<1>2. [e EXCEPT !.attributes = attributesWith(a, v)] = Element(attributesWith(a, v), p, s, c)
  BY DEF Element
<1>3. [Element(attributesWith(a, v), p, s, c) EXCEPT !.properties = propertiesWith(p, v)]
        = Element(attributesWith(a, v), propertiesWith(p, v), s, c)
  BY DEF Element
<1>4. [e EXCEPT !.attributes = attributesWith(a, v), !.properties = propertiesWith(p, v)]
        = [[e EXCEPT !.attributes = attributesWith(a, v)] EXCEPT !.properties = propertiesWith(p, v)]
  OBVIOUS
<1> QED
  BY <1>1, <1>2, <1>3, <1>4, Zenon

LEMMA StylesAreSet ==
  ASSUME NEW a, NEW p, NEW s, NEW c, NEW v
  PROVE  setValueForStyles(Element(a, p, s, c), v) = Element(a, p, stylesWith(s, v), c)
BY DEF setValueForStyles, Element

LEMMA TextIsSet ==
  ASSUME NEW a, NEW p, NEW s, NEW c, NEW v
  PROVE  setTextContent(Element(a, p, s, c), v) = Element(a, p, s, TextNodes(v))
BY DEF setTextContent, Element

LEMMA ChildIsSet ==
  ASSUME NEW a, NEW p, NEW s, NEW c
  PROVE  withChild(Element(a, p, s, c)) = Element(a, p, s, c \cup {"child"})
BY DEF withChild, Element

LEMMA ChildIsTaken ==
  ASSUME NEW a, NEW p, NEW s, NEW c
  PROVE  withoutChild(Element(a, p, s, c)) = Element(a, p, s, c \ {"child"})
BY DEF withoutChild, Element

ShowsWith(e, ps, c) == e = Element(AttributesOf(ps), PropertiesOf(ps), StylesOf(ps), ContentOf(ps, c))

LEMMA CreatedFits == ASSUME NEW ps \in PropSets PROVE ShowsWith(Created(ps), ps, ChildOf(ps))
<1> DEFINE plain == {n \in DOMAIN ps.named \ (Reserved \cup {"autoFocus"}) : ps.named[n] # "null"}
           shownValues == [n \in plain |-> ps.named[n]]
           nothing == [named |-> NoStyles, style |-> NoStyles]
           styled == setValueForStyles(SetAll(Blank, shownValues), ps.style)
           e == setInitialDOMProperties(Blank, ps)
<1>1. /\ AttributesOf(nothing) = NoStyles
      /\ PropertiesOf(nothing) = [n \in mustUseProperty |-> "FALSE"]
  <2>1. nothing.named = NoStyles /\ DOMAIN nothing.named = {}
    BY DEF NoStyles
  <2> HIDE DEF nothing
  <2>2. ShownNames(nothing) = {}
    BY <2>1 DEF ShownNames
  <2>3. {attributeName(n) : n \in ShownNames(nothing)} = {}
    BY <2>2
  <2>4. AttributesOf(nothing) = NoStyles
    BY <2>3 DEF AttributesOf, NoStyles
  <2> QED
    BY <2>1, <2>4 DEF PropertiesOf
<1>2. Changes(shownValues, nothing, ps)
  <2>1. \A n : Value(nothing, n) = "null"
    BY DEF Value, NoStyles
  <2>2. DOMAIN nothing.named = {}
    BY DEF NoStyles
  <2> HIDE DEF nothing
  <2> QED
    BY <2>1, <2>2 DEF Changes, Value, Hidden
<1>3. "class" \notin DOMAIN nothing.named /\ "class" \notin DOMAIN ps.named
  BY PropsAssumption DEF NoStyles
<1> HIDE DEF shownValues, nothing
<1>4. attributesWith(NoStyles, shownValues) = AttributesOf(ps)
  BY <1>1, <1>2, <1>3, ChangedAttributes
<1>5. propertiesWith([n \in mustUseProperty |-> "FALSE"], shownValues) = PropertiesOf(ps)
  BY <1>1, <1>2, ChangedProperties
<1>6. stylesWith(NoStyles, ps.style) = StylesOf(ps)
  BY DEF stylesWith, StylesOf, NoStyles
<1>7. Blank = Element(NoStyles, [n \in mustUseProperty |-> "FALSE"], NoStyles, {})
  BY DEF Blank, Element
<1>8. styled = Element(AttributesOf(ps), PropertiesOf(ps), StylesOf(ps), {})
  BY <1>4, <1>5, <1>6, <1>7, AllIsSet, StylesAreSet
<1>9. e = IF Value(ps, "html") # "null" THEN setInnerHTML(styled, Value(ps, "html"))
          ELSE IF IsText(Value(ps, "children")) THEN setTextContent(styled, Value(ps, "children"))
          ELSE styled
  BY DEF setInitialDOMProperties, shownValues
<1>10. Created(ps) = IF ChildOf(ps) THEN withChild(e) ELSE e
  BY DEF Created
<1> HIDE DEF styled, e
<1>11. CASE Value(ps, "html") # "null"
  <2>1. e = Element(AttributesOf(ps), PropertiesOf(ps), StylesOf(ps), TextNodes(Value(ps, "html")))
    BY <1>8, <1>9, <1>11, TextIsSet DEF setInnerHTML
  <2>2. ~ChildOf(ps)
    BY <1>11 DEF ChildOf, shouldSetTextContent
  <2> QED
    BY <1>10, <1>11, <2>1, <2>2 DEF ShowsWith, ContentOf
<1>12. CASE Value(ps, "html") = "null" /\ IsText(Value(ps, "children"))
  <2>1. e = Element(AttributesOf(ps), PropertiesOf(ps), StylesOf(ps), TextNodes(Value(ps, "children")))
    BY <1>8, <1>9, <1>12, TextIsSet
  <2>2. ~ChildOf(ps)
    BY <1>12 DEF ChildOf, shouldSetTextContent
  <2> QED
    BY <1>10, <1>12, <2>1, <2>2 DEF ShowsWith, ContentOf
<1>13. CASE Value(ps, "html") = "null" /\ ~IsText(Value(ps, "children"))
  <2>1. e = Element(AttributesOf(ps), PropertiesOf(ps), StylesOf(ps), {})
    BY <1>8, <1>9, <1>13
  <2>2. withChild(e) = Element(AttributesOf(ps), PropertiesOf(ps), StylesOf(ps), {} \cup {"child"})
    BY <2>1, ChildIsSet
  <2>3. {} \cup {"child"} = {"child"}
    OBVIOUS
  <2> QED
    BY <1>10, <1>13, <2>1, <2>2, <2>3 DEF ShowsWith, ContentOf
<1> QED
  BY <1>11, <1>12, <1>13

(* The invariant.  The element has what its props make of it, autoFocus    *)
(* apart, and as long as nothing was overwritten the content that the      *)
(* child it has makes of it; the child is the one asked for, but for an    *)
(* element offscreen.                                                      *)
Wears(e, ps) ==
  /\ e = Element(e.attributes, PropertiesOf(ps), StylesOf(ps), e.content)
  /\ AttributesFit(e.attributes, ps)

ElementInv ==
  /\ memoizedProps \in PropSets /\ child \in BOOLEAN /\ lost \in BOOLEAN
  /\ Wears(node, memoizedProps)
  /\ ~lost => node.content = ContentOf(memoizedProps, child)
  /\ child /\ shouldSetTextContent(memoizedProps) => lost
  /\ lost => offscreen
  /\ ~offscreen => child = ChildOf(memoizedProps)
  /\ Value(fiberProps, "onClick") = Value(memoizedProps, "onClick")
  /\ Listens(memoizedProps) \subseteq listensTo

LEMMA ElementInvHolds == ElementInv => ElementShowsProps
<1> SUFFICES ASSUME ElementInv PROVE ElementShowsProps
  OBVIOUS
<1> DEFINE ps == memoizedProps
           a == node.attributes
           p == PropertiesOf(ps)
           s == StylesOf(ps)
           c == node.content
<1>1. node = Element(a, p, s, c) /\ WithoutAutoFocus(a) = AttributesOf(ps) /\ AutoFocusFits(a, ps)
  BY DEF ElementInv, Wears, AttributesFit
<1>2. ASSUME ~lost, child = ChildOf(ps) PROVE [node EXCEPT !.attributes = WithoutAutoFocus(@)] = Created(ps)
  <2>1. Created(ps) = Element(AttributesOf(ps), p, s, c)
    BY <1>2, CreatedFits DEF ElementInv, ShowsWith
  <2>2. \A x, y, z, w, v : /\ Element(x, y, z, w).attributes = x
                           /\ [Element(x, y, z, w) EXCEPT !.attributes = v] = Element(v, y, z, w)
    BY DEF Element
  <2> HIDE DEF a, p, s, c
  <2>3. [node EXCEPT !.attributes = WithoutAutoFocus(@)] = [Element(a, p, s, c) EXCEPT !.attributes = AttributesOf(ps)]
    BY <1>1, <2>2
  <2> QED
    BY <2>1, <2>2, <2>3
<1> QED
  BY <1>1, <1>2 DEF ElementInv, ElementShowsProps

LEMMA ChildrenAreBooleans == \A ps : ChildOf(ps) \in BOOLEAN
BY DEF ChildOf

LEMMA ElementInvInit == ElementInit => ElementInv
<1> SUFFICES ASSUME ElementInit PROVE ElementInv
  OBVIOUS
<1>1. node = Element(AttributesOf(memoizedProps), PropertiesOf(memoizedProps), StylesOf(memoizedProps),
                     ContentOf(memoizedProps, child))
  BY CreatedFits DEF ElementInit, ShowsWith
<1>2. node.attributes = AttributesOf(memoizedProps) /\ node.content = ContentOf(memoizedProps, child)
  BY <1>1 DEF Element
<1>3. Wears(node, memoizedProps)
  BY <1>1, <1>2, FreshAttributesFit DEF Wears
<1> QED
  BY <1>2, <1>3, ChildrenAreBooleans DEF ElementInit, ElementInv, ChildOf

(* The content after a render, by what there was before it.                *)
LEMMA UpdatesKeepInv == ASSUME ElementInv, NEW next \in PropSets, UpdateElement(next) PROVE ElementInv'
<1> DEFINE last == memoizedProps
           payload == diffProperties(last, next)
           resets == ContentReset(last, next)
           keeps == offscreen \/ child = ChildOf(next)
           n1 == IF ~keeps /\ child THEN withoutChild(node) ELSE node
           placed == ~keeps /\ ~child
           n2 == IF placed THEN commitPlacement(n1, resets) ELSE n1
           n3 == IF resets /\ ~placed THEN setTextContent(n2, "") ELSE n2
           n4 == IF payload.some THEN updateProperties(n3, payload, next) ELSE n3
           A == node.attributes
           B == IF payload.some THEN attributesWith(A, payload.plain) ELSE A
           P == PropertiesOf(last)
           S == StylesOf(last)
           c0 == node.content
           c1 == IF ~keeps /\ child THEN c0 \ {"child"} ELSE c0
           c2 == IF placed THEN (IF resets THEN TextNodes("") ELSE c1) \cup {"child"} ELSE c1
           c3 == IF resets /\ ~placed THEN TextNodes("") ELSE c2
           c4 == IF payload.children THEN TextNodes(Value(next, "children"))
                 ELSE IF payload.html THEN TextNodes(Value(next, "html")) ELSE c3
<1>1. /\ child' = IF offscreen THEN child ELSE ChildOf(next)
      /\ node' = n4
      /\ lost' = (lost \/ (child' /\ "child" \notin node'.content))
      /\ fiberProps' = IF payload.some THEN next ELSE fiberProps
      /\ listensTo' = listensTo \cup Listens(next)
      /\ memoizedProps' = next
      /\ UNCHANGED <<custom, offscreen>>
  BY DEF UpdateElement
<1>2. /\ payload.style = styleUpdates(last, next)
      /\ (payload.html <=> (Value(next, "html") \notin {"null", Value(last, "html")}))
      /\ (payload.children <=> (IsText(Value(next, "children")) /\ Value(next, "children") # Value(last, "children")))
  BY DEF diffProperties
<1>2a. ~payload.some => /\ DOMAIN payload.plain = {} /\ payload.style = NoStyles /\ ~payload.html /\ ~payload.children
                        /\ Value(last, "onClick") = Value(next, "onClick")
  BY DEF diffProperties
<1>3. Payload(payload.plain, last, next)
  <2>1. /\ DOMAIN payload.plain =
             {n \in DOMAIN last.named \ (DOMAIN next.named \cup Reserved \cup {"autoFocus"}) : last.named[n] # "null"}
               \cup {n \in DOMAIN next.named \ Reserved : next.named[n] # Value(last, n)}
        /\ \A n \in DOMAIN payload.plain : payload.plain[n] = Value(next, n)
    BY DEF diffProperties
  <2> HIDE DEF payload, last
  <2>2. DOMAIN WithoutAutoFocus(payload.plain) = DOMAIN payload.plain \ {"autoFocus"}
    BY DEF WithoutAutoFocus
  <2>3. WithoutAutoFocus(payload.plain) = [n \in DOMAIN WithoutAutoFocus(payload.plain) |-> Value(next, n)]
    BY <2>1 DEF WithoutAutoFocus
  <2>4. "autoFocus" \in DOMAIN payload.plain <=>
          "autoFocus" \in DOMAIN next.named /\ next.named["autoFocus"] # Value(last, "autoFocus")
    BY <2>1 DEF Reserved
  <2>5. \A n : n \in DOMAIN WithoutAutoFocus(payload.plain) <=>
                /\ n \in (DOMAIN last.named \cup DOMAIN next.named) \ Hidden
                /\ IF n \in DOMAIN next.named THEN next.named[n] # Value(last, n) ELSE last.named[n] # "null"
    BY <2>1, <2>2 DEF Hidden
  <2>6. Changes(WithoutAutoFocus(payload.plain), last, next)
    BY <2>3, <2>5 DEF Changes
  <2> QED
    BY <2>1, <2>4, <2>6 DEF Payload
<1> HIDE DEF payload
<1>3a. node = Element(A, P, S, c0) /\ AttributesFit(A, last)
  BY DEF ElementInv, Wears
<1>4. /\ AttributesFit(attributesWith(A, payload.plain), next)
      /\ propertiesWith(P, payload.plain) = PropertiesOf(next)
      /\ stylesWith(S, payload.style) = StylesOf(next)
  <2>1. "class" \notin DOMAIN last.named /\ "class" \notin DOMAIN next.named
    BY PropsAssumption DEF ElementInv
  <2> QED
    BY <1>2, <1>3, <1>3a, <2>1, ChangedAttributesFit, ChangedPropertiesFit, ChangedStyles
<1>5. ~payload.some => (AttributesFit(A, next) /\ P = PropertiesOf(next) /\ S = StylesOf(next))
  <2> SUFFICES ASSUME ~payload.some PROVE AttributesFit(A, next) /\ P = PropertiesOf(next) /\ S = StylesOf(next)
    OBVIOUS
  <2>1. DOMAIN payload.plain = {} /\ payload.style = NoStyles
    BY <1>2a
  <2>2. attributesWith(A, payload.plain) = A
    <3>1. A = [n \in DOMAIN A |-> A[n]]
      BY <1>3a DEF AttributesFit
    <3> HIDE DEF A
    <3> QED
      BY <2>1, <3>1 DEF attributesWith
  <2>3. propertiesWith(P, payload.plain) = P
    BY <2>1 DEF propertiesWith, PropertiesOf
  <2>4. stylesWith(S, payload.style) = S
    <3>1. DOMAIN payload.style = {}
      BY <2>1 DEF NoStyles
    <3>2. S = [k \in DOMAIN S |-> S[k]] /\ \A k \in DOMAIN S : S[k] # ""
      BY DEF StylesOf
    <3> HIDE DEF S
    <3> QED
      BY <3>1, <3>2 DEF stylesWith
  <2> QED
    BY <1>4, <2>2, <2>3, <2>4
<1> HIDE DEF A, P, S, last, resets, keeps
<1>5a. AttributesFit(B, next)
  BY <1>4, <1>5
<1>6. n4 = Element(B, PropertiesOf(next), StylesOf(next), c4)
  <2>1. node = Element(A, P, S, c0)
    BY <1>3a
  <2> HIDE DEF c0
  <2>2. n1 = Element(A, P, S, c1)
    BY <2>1, ChildIsTaken
  <2> HIDE DEF n1, c1
  <2>3. n2 = Element(A, P, S, c2)
    <3>1. CASE ~placed
      BY <2>2, <3>1
    <3>2. CASE placed /\ resets
      <4>1. n2 = withChild(setTextContent(n1, ""))
        BY <3>2 DEF commitPlacement
      <4>2. setTextContent(n1, "") = Element(A, P, S, TextNodes(""))
        BY <2>2, TextIsSet
      <4>3. withChild(Element(A, P, S, TextNodes(""))) = Element(A, P, S, TextNodes("") \cup {"child"})
        BY ChildIsSet
      <4>4. c2 = TextNodes("") \cup {"child"}
        BY <3>2
      <4> QED
        BY <4>1, <4>2, <4>3, <4>4
    <3>3. CASE placed /\ ~resets
      <4>1. n2 = withChild(n1)
        BY <3>3 DEF commitPlacement
      <4> QED
        BY <2>2, <3>3, <4>1, ChildIsSet
    <3> QED
      BY <3>1, <3>2, <3>3
  <2> HIDE DEF n2, c2, placed
  <2>4. n3 = Element(A, P, S, c3)
    BY <2>3, TextIsSet
  <2> HIDE DEF n3, c3
  <2>5. CASE ~payload.some
    <3>1. B = A /\ n4 = n3 /\ c4 = c3
      BY <1>2a, <2>5
    <3> HIDE DEF B, n4, c4
    <3> QED
      BY <1>5, <2>4, <2>5, <3>1
  <2>6. CASE payload.some
    <3> DEFINE e1 == setValueForStyles(SetAll(n3, payload.plain), payload.style)
               e2 == IF payload.html THEN setInnerHTML(e1, Value(next, "html")) ELSE e1
               d2 == IF payload.html THEN TextNodes(Value(next, "html")) ELSE c3
    <3>1. n4 = IF payload.children THEN setTextContent(e2, Value(next, "children")) ELSE e2
      BY <2>6 DEF updateProperties
    <3>2. e1 = Element(B, PropertiesOf(next), StylesOf(next), c3)
      BY <1>4, <2>4, <2>6, AllIsSet, StylesAreSet
    <3> HIDE DEF e1, B
    <3>3. e2 = Element(B, PropertiesOf(next), StylesOf(next), d2)
      BY <3>2, TextIsSet DEF setInnerHTML
    <3> HIDE DEF e2
    <3>4. c4 = IF payload.children THEN TextNodes(Value(next, "children")) ELSE d2
      OBVIOUS
    <3> HIDE DEF d2, c4, n4
    <3> QED
      BY <3>1, <3>3, <3>4, TextIsSet
  <2> QED
    BY <2>5, <2>6
<1>7. ASSUME ~lost
      PROVE  /\ c4 = ContentOf(next, child') \/ (child' /\ "child" \notin c4 /\ offscreen)
             /\ child' /\ shouldSetTextContent(next) => "child" \notin c4
             /\ child' /\ "child" \notin c4 => offscreen
  <2>1. /\ Value(next, "html") # "null" => Value(next, "html") # "child" /\ Value(next, "children") = "null"
        /\ Value(last, "html") # "null" => Value(last, "html") # "child" /\ Value(last, "children") = "null"
    BY PropsAssumption DEF ElementInv, last
  <2>2. TextNodes("") = {} /\ \A v : v # "child" => "child" \notin TextNodes(v)
    BY DEF TextNodes
  <2>3. /\ child => ~shouldSetTextContent(last)
        /\ ~offscreen => child = ChildOf(last)
    BY <1>7 DEF ElementInv, last
  <2>4. c0 = IF Value(last, "html") # "null" THEN TextNodes(Value(last, "html"))
             ELSE IF IsText(Value(last, "children")) THEN TextNodes(Value(last, "children"))
             ELSE IF child THEN {"child"} ELSE {}
    BY <1>7 DEF ElementInv, ContentOf, last
  <2>5. resets <=> ~shouldSetTextContent(next) /\ shouldSetTextContent(last)
    BY DEF resets, ContentReset
  <2>6. keeps <=> offscreen \/ child = ChildOf(next)
    BY DEF keeps
  <2> DEFINE cc == child'
  <2>7. cc = IF offscreen THEN child ELSE ChildOf(next)
    BY <1>1
  <2>8. child \in BOOLEAN /\ ChildOf(next) \in BOOLEAN
    BY ChildrenAreBooleans DEF ElementInv
  <2> HIDE DEF cc, c0
  <2>9. CASE shouldSetTextContent(next)
    <3>1. ~ChildOf(next) /\ ~resets /\ ~placed
      BY <2>5, <2>6, <2>8, <2>9 DEF ChildOf
    <3>2. c4 = ContentOf(next, cc) /\ "child" \notin c4
      <4>1. CASE Value(next, "html") # "null"
        <5>1. ~payload.children /\ ContentOf(next, cc) = TextNodes(Value(next, "html"))
          BY <1>2, <2>1, <4>1 DEF ContentOf, IsText
        <5>2. CASE payload.html
          BY <2>1, <2>2, <4>1, <5>1, <5>2
        <5>3. CASE ~payload.html
          <6>1. Value(next, "html") = Value(last, "html")
            BY <1>2, <4>1, <5>3
          <6>2. ~child /\ c0 = TextNodes(Value(next, "html"))
            BY <2>3, <2>4, <4>1, <6>1 DEF shouldSetTextContent
          <6> QED
            BY <2>1, <2>2, <3>1, <4>1, <5>1, <5>3, <6>2
        <5> QED
          BY <5>2, <5>3
      <4>2. CASE Value(next, "html") = "null"
        <5>1. /\ IsText(Value(next, "children")) /\ ~payload.html
              /\ ContentOf(next, cc) = TextNodes(Value(next, "children"))
          BY <1>2, <2>9, <4>2 DEF ContentOf, shouldSetTextContent
        <5>2. "child" \notin TextNodes(Value(next, "children"))
          BY <2>2, <5>1 DEF IsText
        <5>3. CASE payload.children
          BY <5>1, <5>2, <5>3
        <5>4. CASE ~payload.children
          <6>1. Value(next, "children") = Value(last, "children")
            BY <1>2, <5>1, <5>4
          <6>2. Value(last, "html") = "null"
            BY <2>1, <5>1, <6>1 DEF IsText
          <6>3. ~child /\ c0 = TextNodes(Value(next, "children"))
            BY <2>3, <2>4, <5>1, <6>1, <6>2 DEF shouldSetTextContent
          <6> QED
            BY <3>1, <5>1, <5>2, <5>4, <6>3
        <5> QED
          BY <5>3, <5>4
      <4> QED
        BY <4>1, <4>2
    <3>3. cc => offscreen
      BY <2>7, <3>1
    <3> HIDE DEF c4
    <3> QED
      BY <3>2, <3>3 DEF cc
  <2>10. CASE ~shouldSetTextContent(next)
    <3>1. /\ Value(next, "html") = "null" /\ ~IsText(Value(next, "children"))
          /\ ~payload.html /\ ~payload.children
          /\ ContentOf(next, cc) = IF cc THEN {"child"} ELSE {}
      BY <1>2, <2>10 DEF shouldSetTextContent, ContentOf
    <3>2. c4 = c3
      BY <3>1
    <3>3. shouldSetTextContent(last) => ~child
      BY <2>3
    <3>4. ~shouldSetTextContent(last) => c0 = IF child THEN {"child"} ELSE {}
      BY <2>4 DEF shouldSetTextContent
    <3>5. resets <=> shouldSetTextContent(last)
      BY <2>5, <2>10
    <3>6. c3 = IF cc THEN {"child"} ELSE {}
      <4>1. CASE offscreen
        BY <2>2, <2>6, <2>7, <3>3, <3>4, <3>5, <4>1
      <4>2. CASE ~offscreen /\ child = ChildOf(next)
        BY <2>2, <2>6, <2>7, <3>3, <3>4, <3>5, <4>2
      <4>3. CASE ~offscreen /\ child /\ ~ChildOf(next)
        BY <2>2, <2>6, <2>7, <3>3, <3>4, <3>5, <4>3
      <4>4. CASE ~offscreen /\ ~child /\ ChildOf(next)
        BY <2>2, <2>6, <2>7, <3>3, <3>4, <3>5, <4>4
      <4> QED
        BY <2>8, <4>1, <4>2, <4>3, <4>4
    <3> HIDE DEF c4, c3
    <3> QED
      BY <2>10, <3>1, <3>2, <3>6 DEF cc
  <2> QED
    BY <2>9, <2>10
<1> HIDE DEF n4, c4, keeps, B
<1>8. node'.content = c4 /\ node'.attributes = B
  BY <1>1, <1>6 DEF Element
<1>9. lost' \in BOOLEAN /\ child' \in BOOLEAN
  BY <1>1, ChildrenAreBooleans DEF ElementInv
<1>10. ~lost' => ~lost /\ ~(child' /\ "child" \notin c4)
  BY <1>1, <1>8
<1>11. Wears(node, memoizedProps)' /\ (~lost' => node'.content = ContentOf(memoizedProps, child)')
  <2>1. ~lost' => node'.content = ContentOf(next, child')
    BY <1>7, <1>8, <1>10
  <2>2. node' = Element(node'.attributes, PropertiesOf(next), StylesOf(next), node'.content)
    BY <1>1, <1>6, <1>8
  <2>3. AttributesFit(node'.attributes, next)
    BY <1>5a, <1>8
  <2>4. /\ AttributesFit(node.attributes, memoizedProps)' <=> AttributesFit(node'.attributes, next)
        /\ PropertiesOf(memoizedProps)' = PropertiesOf(next)
        /\ StylesOf(memoizedProps)' = StylesOf(next)
        /\ ContentOf(memoizedProps, child)' = ContentOf(next, child')
    BY <1>1 DEF AttributesFit, AutoFocusFits, WithoutAutoFocus, PropertiesOf, StylesOf, ContentOf, Value, AttributesOf,
                ShownNames, attributeName, attributeValue, propName, isProperty, shouldIgnoreAttribute,
                shouldRemoveAttribute, acceptsBooleans
  <2> QED
    BY <2>1, <2>2, <2>3, <2>4 DEF Wears
<1>12. child' /\ shouldSetTextContent(memoizedProps') => lost'
  BY <1>1, <1>7, <1>8
<1>13. lost' => offscreen'
  BY <1>1, <1>7, <1>8 DEF ElementInv
<1>14. ~offscreen' => child' = ChildOf(memoizedProps')
  BY <1>1
<1>15. Value(fiberProps', "onClick") = Value(memoizedProps', "onClick")
  BY <1>1, <1>2a DEF ElementInv, last
<1>16. Listens(memoizedProps') \subseteq listensTo' /\ memoizedProps' \in PropSets
  BY <1>1
<1> QED
  BY <1>9, <1>11, <1>12, <1>13, <1>14, <1>15, <1>16 DEF ElementInv, shouldSetTextContent, ChildOf, Value, Listens

LEMMA OffscreenKeepsInv == ASSUME ElementInv, RenderOffscreen PROVE ElementInv'
<1> DEFINE ps == memoizedProps
           a == node.attributes
           p == PropertiesOf(ps)
           t == StylesOf(ps)
           c == node.content
           c1 == IF child THEN c \ {"child"} ELSE c \cup {"child"}
<1>1. /\ offscreen /\ child # ChildOf(ps) /\ child' = ~child
      /\ node' = IF child THEN withoutChild(node) ELSE commitPlacement(node, FALSE)
      /\ UNCHANGED <<custom, offscreen, memoizedProps, fiberProps, listensTo, lost>>
  BY DEF RenderOffscreen
<1>2. child \in BOOLEAN /\ ChildOf(ps) \in BOOLEAN /\ child' \in BOOLEAN
  BY <1>1, ChildrenAreBooleans DEF ElementInv
<1>3. ~child => ChildOf(ps)
  BY <1>1, <1>2
<1>4. child' /\ shouldSetTextContent(ps) => lost
  BY <1>1, <1>3 DEF ChildOf
<1>5. node = Element(a, p, t, c) /\ AttributesFit(a, ps)
  BY DEF ElementInv, Wears
<1>6. node' = Element(a, p, t, c1)
  <2> HIDE DEF a, p, t, c
  <2>1. CASE child
    <3>1. node' = withoutChild(Element(a, p, t, c)) /\ c1 = c \ {"child"}
      BY <1>1, <1>5, <2>1
    <3>2. withoutChild(Element(a, p, t, c)) = Element(a, p, t, c \ {"child"})
      BY ChildIsTaken, Zenon
    <3> QED
      BY <3>1, <3>2, Zenon
  <2>2. CASE ~child
    <3>1. node' = withChild(Element(a, p, t, c)) /\ c1 = c \cup {"child"}
      BY <1>1, <1>5, <2>2 DEF commitPlacement
    <3>2. withChild(Element(a, p, t, c)) = Element(a, p, t, c \cup {"child"})
      BY ChildIsSet, Zenon
    <3> QED
      BY <3>1, <3>2, Zenon
  <2> QED
    BY <2>1, <2>2
<1>7. ~lost => c1 = ContentOf(ps, child')
  <2> SUFFICES ASSUME ~lost PROVE c1 = ContentOf(ps, child')
    OBVIOUS
  <2>1. ~shouldSetTextContent(ps)
    BY <1>3 DEF ElementInv, ChildOf
  <2>2. c = IF child THEN {"child"} ELSE {}
    BY <2>1 DEF ElementInv, ContentOf, shouldSetTextContent
  <2> HIDE DEF c
  <2> QED
    BY <1>1, <2>1, <2>2 DEF ContentOf, shouldSetTextContent
<1>8. node'.attributes = a /\ node'.content = c1
  BY <1>6 DEF Element
<1> HIDE DEF a, p, t, c1
<1>9. Wears(node, memoizedProps)'
  <2>1. node' = Element(node'.attributes, p, t, node'.content) /\ AttributesFit(node'.attributes, ps)
    BY <1>5, <1>6, <1>8
  <2>2. /\ AttributesFit(node.attributes, memoizedProps)' <=> AttributesFit(node'.attributes, ps)
        /\ PropertiesOf(memoizedProps)' = p
        /\ StylesOf(memoizedProps)' = t
    BY <1>1 DEF p, t, AttributesFit, AutoFocusFits, WithoutAutoFocus, PropertiesOf, StylesOf, Value, AttributesOf,
                ShownNames, attributeName, attributeValue, propName, isProperty, shouldIgnoreAttribute,
                shouldRemoveAttribute, acceptsBooleans
  <2> QED
    BY <2>1, <2>2 DEF Wears
<1>10. ~lost => (node.content = ContentOf(memoizedProps, child))'
  BY <1>1, <1>7, <1>8 DEF ContentOf
<1> QED
  BY <1>1, <1>2, <1>4, <1>9, <1>10 DEF ElementInv, shouldSetTextContent, Value, Listens

(* However its props came to be what they are, an element is as if it had  *)
(* been created with them, autoFocus apart, which is right where it is     *)
(* given and written (ElementShowsProps).                                  *)
THEOREM ElementsShowTheirProps == ElementSpec => []ElementShowsProps
<1>1. ASSUME ElementInv, [ElementNext]_elementVars PROVE ElementInv'
  <2>1. CASE ElementNext
    BY <1>1, <2>1, UpdatesKeepInv, OffscreenKeepsInv DEF ElementNext
  <2>2. CASE UNCHANGED elementVars
    <3>1. UNCHANGED <<custom, offscreen, memoizedProps, fiberProps, node, child, listensTo, lost>>
      BY <2>2 DEF elementVars
    <3>2. Wears(node, memoizedProps)' <=> Wears(node, memoizedProps)
      BY <3>1 DEF Wears, AttributesFit, AutoFocusFits, WithoutAutoFocus, PropertiesOf, StylesOf, Value, AttributesOf,
                  ShownNames, attributeName, attributeValue, propName, isProperty, shouldIgnoreAttribute,
                  shouldRemoveAttribute, acceptsBooleans
    <3>3. ContentOf(memoizedProps, child)' = ContentOf(memoizedProps, child)
      BY <3>1 DEF ContentOf
    <3> QED
      BY <1>1, <3>1, <3>2, <3>3 DEF ElementInv, ChildOf, shouldSetTextContent, Value, Listens
  <2> QED
    BY <1>1, <2>1, <2>2
<1> QED
  BY <1>1, ElementInvInit, ElementInvHolds, PTL DEF ElementSpec

-----------------------------------------------------------------------------
(* What is typed.  The text has n more characters after place at.          *)
Grown(from, to, at, n) ==
  /\ Len(to) = Len(from) + n
  /\ \A i \in 1 .. at : to[i] = from[i]
  /\ \A i \in at + 1 .. Len(from) : to[i + n] = from[i]

ExplainsText(chars, text) == \E at \in 0 .. Len(text) - Len(chars) : SubSeq(text, at + 1, at + Len(chars)) = chars

LEMMA PartsAreThere ==
  ASSUME NEW V, NEW s \in Seq(V), NEW m \in Nat, NEW n \in Nat, m + n <= Len(s)
  PROVE  /\ SubSeq(s, m + 1, m + n) \in Seq(V) /\ Len(SubSeq(s, m + 1, m + n)) = n
         /\ \A i \in 1 .. n : SubSeq(s, m + 1, m + n)[i] = s[m + i]
<1>1. m + 1 \in 1 .. Len(s) + 1 /\ m + n \in m .. Len(s) /\ m + n - (m + 1) + 1 = n
  OBVIOUS
<1>2. /\ SubSeq(s, m + 1, m + n) \in Seq(V)
      /\ Len(SubSeq(s, m + 1, m + n)) = IF m + 1 <= m + n THEN m + n - (m + 1) + 1 ELSE 0
      /\ \A i \in 1 .. m + n - (m + 1) + 1 : SubSeq(s, m + 1, m + n)[i] = s[m + 1 + i - 1]
  <2> DEFINE from == m + 1
             upTo == m + n
  <2>1. from \in Int /\ upTo \in Int /\ \A i \in from .. upTo : s[i] \in V
    BY <1>1
  <2> HIDE DEF from, upTo
  <2>2. /\ SubSeq(s, from, upTo) \in Seq(V)
        /\ Len(SubSeq(s, from, upTo)) = IF from <= upTo THEN upTo - from + 1 ELSE 0
        /\ \A i \in 1 .. upTo - from + 1 : SubSeq(s, from, upTo)[i] = s[from + i - 1]
    BY <2>1, SubSeqProperties
  <2> QED
    BY <2>2 DEF from, upTo
<1>3. Len(SubSeq(s, m + 1, m + n)) = n
  BY <1>2
<1>4. ASSUME NEW i \in 1 .. n PROVE SubSeq(s, m + 1, m + n)[i] = s[m + i]
  <2>1. i \in 1 .. m + n - (m + 1) + 1 /\ m + 1 + i - 1 = m + i
    OBVIOUS
  <2> QED
    BY <1>2, <2>1
<1> QED
  BY <1>2, <1>3, <1>4

(* What the head and the tail of both texts leave is as long as what was   *)
(* inserted, though it may be found at another place.                      *)
LEMMA DataAreFound ==
  ASSUME NEW V, NEW from \in Seq(V), NEW to \in Seq(V), NEW n \in Nat, NEW at \in 0 .. Len(from), Grown(from, to, at, n)
  PROVE  /\ getData(from, to) \in Seq(V) /\ Len(getData(from, to)) = n
         /\ ExplainsText(getData(from, to), to)
<1> DEFINE H == {k \in 0 .. Len(from) : k <= Len(to) /\ SubSeq(from, 1, k) = SubSeq(to, 1, k)}
           start == Max(H)
           SameTail(k) == k <= Len(to) /\ SubSeq(from, Len(from) - k + 1, Len(from)) = SubSeq(to, Len(to) - k + 1, Len(to))
           E == {k \in 0 .. Len(from) - start : SameTail(k)}
           end == Max(E)
           data == SubSeq(to, start + 1, Len(to) - end)
<1>1. getData(from, to) = data
  BY DEF getData
<1>2. Len(from) \in Nat /\ Len(to) = Len(from) + n /\ at \in Nat /\ at <= Len(from)
  BY DEF Grown
<1>3. at \in H
  <2>1. SubSeq(from, 0 + 1, 0 + at) = SubSeq(to, 0 + 1, 0 + at)
    <3>1. /\ SubSeq(from, 0 + 1, 0 + at) \in Seq(V) /\ Len(SubSeq(from, 0 + 1, 0 + at)) = at
          /\ \A i \in 1 .. at : SubSeq(from, 0 + 1, 0 + at)[i] = from[0 + i]
      BY <1>2, PartsAreThere
    <3>2. /\ SubSeq(to, 0 + 1, 0 + at) \in Seq(V) /\ Len(SubSeq(to, 0 + 1, 0 + at)) = at
          /\ \A i \in 1 .. at : SubSeq(to, 0 + 1, 0 + at)[i] = to[0 + i]
      BY <1>2, PartsAreThere
    <3>3. \A i \in 1 .. at : from[0 + i] = to[0 + i]
      BY DEF Grown
    <3> QED
      BY <3>1, <3>2, <3>3, SeqEqual
  <2>2. 0 + 1 = 1 /\ 0 + at = at
    BY <1>2
  <2> QED
    BY <1>2, <2>1, <2>2
<1>4. start \in H /\ at <= start
  <2>1. H \in SUBSET (0 .. Len(from)) /\ H # {}
    BY <1>3
  <2> HIDE DEF H
  <2> QED
    BY <1>2, <1>3, <2>1, NumbersHaveBounds
<1>5. start \in Nat /\ start <= Len(from)
  BY <1>4
<1> HIDE DEF H, start
<1> DEFINE rest == Len(from) - start
<1>6. /\ rest \in Nat /\ Len(from) - start = rest /\ start + rest = Len(from)
      /\ start + n + rest = Len(to) /\ start + n \in Nat
  BY <1>2, <1>5
<1> HIDE DEF rest
<1>7. rest \in E
  <2>1. SubSeq(from, start + 1, start + rest) = SubSeq(to, start + n + 1, start + n + rest)
    <3>1. /\ SubSeq(from, start + 1, start + rest) \in Seq(V) /\ Len(SubSeq(from, start + 1, start + rest)) = rest
          /\ \A i \in 1 .. rest : SubSeq(from, start + 1, start + rest)[i] = from[start + i]
      BY <1>2, <1>5, <1>6, PartsAreThere
    <3>2. /\ SubSeq(to, start + n + 1, start + n + rest) \in Seq(V) /\ Len(SubSeq(to, start + n + 1, start + n + rest)) = rest
          /\ \A i \in 1 .. rest : SubSeq(to, start + n + 1, start + n + rest)[i] = to[start + n + i]
      <4> DEFINE m == start + n
      <4>1. m \in Nat /\ m + rest <= Len(to) /\ rest \in Nat
        BY <1>2, <1>6
      <4> HIDE DEF m
      <4>2. /\ SubSeq(to, m + 1, m + rest) \in Seq(V) /\ Len(SubSeq(to, m + 1, m + rest)) = rest
            /\ \A i \in 1 .. rest : SubSeq(to, m + 1, m + rest)[i] = to[m + i]
        BY <4>1, PartsAreThere
      <4> QED
        BY <4>2 DEF m
    <3>3. ASSUME NEW i \in 1 .. rest PROVE from[start + i] = to[start + n + i]
      <4>1. start + i \in at + 1 .. Len(from) /\ (start + i) + n = start + n + i
        BY <1>2, <1>4, <1>5, <1>6
      <4> QED
        BY <4>1 DEF Grown
    <3> QED
      BY <3>1, <3>2, <3>3, SeqEqual
  <2>2. Len(from) - rest + 1 = start + 1 /\ Len(to) - rest + 1 = start + n + 1 /\ rest <= Len(to)
    BY <1>2, <1>5, <1>6
  <2>3. SameTail(rest)
    BY <1>6, <2>1, <2>2
  <2> QED
    BY <1>6, <2>3
<1>8. end = rest
  <2>1. E \in SUBSET (0 .. rest) /\ E # {}
    BY <1>6, <1>7
  <2>2. \A k \in E : k \in Nat /\ k <= rest
    BY <1>6
  <2> HIDE DEF E
  <2>3. Max(E) \in E /\ \A k \in E : k <= Max(E)
    BY <1>6, <2>1, NumbersHaveBounds
  <2>4. Max(E) \in Nat /\ Max(E) <= rest /\ rest <= Max(E)
    BY <1>7, <2>2, <2>3
  <2> QED
    BY <1>6, <2>4
<1> HIDE DEF E, end
<1>9. data = SubSeq(to, start + 1, start + n)
  BY <1>2, <1>5, <1>6, <1>8
<1>10. SubSeq(to, start + 1, start + n) \in Seq(V) /\ Len(SubSeq(to, start + 1, start + n)) = n
  BY <1>2, <1>5, PartsAreThere
<1>11. start \in 0 .. Len(to) - n
  BY <1>2, <1>5
<1> QED
  BY <1>1, <1>9, <1>10, <1>11 DEF ExplainsText

Characters == Letters \cup {Space}

LEMMA ConcatParts ==
  ASSUME NEW V, NEW s \in Seq(V), NEW t \in Seq(V)
  PROVE  /\ (s \o t) \in Seq(V) /\ Len(s \o t) = Len(s) + Len(t)
         /\ \A i \in 1 .. Len(s) : (s \o t)[i] = s[i]
         /\ \A i \in 1 .. Len(t) : (s \o t)[Len(s) + i] = t[i]
OBVIOUS

LEMMA TextGrows ==
  ASSUME NEW chars \in Seq(Characters), fieldText \in Seq(Characters), NEW at \in 0 .. Len(fieldText)
  PROVE  /\ WithText(chars, at) \in Seq(Characters) /\ Grown(fieldText, WithText(chars, at), at, Len(chars))
         /\ ExplainsText(chars, WithText(chars, at))
<1> DEFINE n == Len(chars)
           left == SubSeq(fieldText, 0 + 1, 0 + at)
           size == Len(fieldText) - at
           right == SubSeq(fieldText, at + 1, at + size)
           now == WithText(chars, at)
<1>1. n \in Nat /\ at \in Nat /\ size \in Nat /\ at + size = Len(fieldText) /\ Len(fieldText) \in Nat
  OBVIOUS
<1>1a. right = SubSeq(fieldText, at + 1, Len(fieldText))
  BY <1>1
<1> HIDE DEF n, size
<1>2. left \in Seq(Characters) /\ Len(left) = at /\ \A i \in 1 .. at : left[i] = fieldText[0 + i]
  <2>1. 0 \in Nat /\ at \in Nat /\ 0 + at <= Len(fieldText)
    BY <1>1
  <2> QED
    BY <2>1, PartsAreThere
<1>3. right \in Seq(Characters) /\ Len(right) = size /\ \A i \in 1 .. size : right[i] = fieldText[at + i]
  BY <1>1, PartsAreThere
<1>4. now = left \o chars \o right
  <2>1. 0 + at = at /\ 0 + 1 = 1
    BY <1>1
  <2> QED
    BY <1>1, <1>1a, <2>1 DEF WithText
<1> HIDE DEF left, right, now, size, n
<1>5. /\ (left \o chars) \in Seq(Characters) /\ Len(left \o chars) = at + n
      /\ \A i \in 1 .. at : (left \o chars)[i] = left[i]
      /\ \A i \in 1 .. n : (left \o chars)[at + i] = chars[i]
  <2>1. /\ (left \o chars) \in Seq(Characters) /\ Len(left \o chars) = Len(left) + Len(chars)
        /\ \A i \in 1 .. Len(left) : (left \o chars)[i] = left[i]
        /\ \A i \in 1 .. Len(chars) : (left \o chars)[Len(left) + i] = chars[i]
    <3>1. left \in Seq(Characters)
      BY <1>2
    <3> QED
      BY <3>1, ConcatParts
  <2> QED
    BY <1>2, <2>1 DEF n
<1>6. /\ now \in Seq(Characters) /\ Len(now) = at + n + size
      /\ \A i \in 1 .. at + n : now[i] = (left \o chars)[i]
      /\ \A i \in 1 .. size : now[at + n + i] = right[i]
  <2> DEFINE l == left \o chars
  <2>1. l \in Seq(Characters) /\ Len(l) = at + n /\ now = l \o right
    BY <1>4, <1>5
  <2> HIDE DEF l
  <2>2. /\ (l \o right) \in Seq(Characters) /\ Len(l \o right) = Len(l) + Len(right)
        /\ \A i \in 1 .. Len(l) : (l \o right)[i] = l[i]
        /\ \A i \in 1 .. Len(right) : (l \o right)[Len(l) + i] = right[i]
    <3>1. right \in Seq(Characters) /\ l \in Seq(Characters)
      BY <1>3, <2>1
    <3> QED
      BY <3>1, ConcatParts
  <2>3. /\ now \in Seq(Characters) /\ Len(now) = at + n + size
        /\ \A i \in 1 .. at + n : now[i] = l[i]
        /\ \A i \in 1 .. size : now[at + n + i] = right[i]
    BY <1>3, <2>1, <2>2
  <2> QED
    BY <2>3 DEF l
<1>7. Grown(fieldText, now, at, n)
  <2>1. Len(now) = Len(fieldText) + n
    BY <1>1, <1>6
  <2>2. ASSUME NEW i \in 1 .. at PROVE now[i] = fieldText[i]
    <3>1. i \in 1 .. at + n /\ 0 + i = i
      BY <1>1
    <3> QED
      BY <1>2, <1>5, <1>6, <3>1
  <2>3. ASSUME NEW i \in at + 1 .. Len(fieldText) PROVE now[i + n] = fieldText[i]
    <3>1. i - at \in 1 .. size /\ at + n + (i - at) = i + n /\ at + (i - at) = i
      BY <1>1
    <3> QED
      BY <1>3, <1>6, <3>1
  <2> QED
    BY <2>1, <2>2, <2>3 DEF Grown
<1>8. SubSeq(now, at + 1, at + n) = chars
  <2>1. /\ SubSeq(now, at + 1, at + n) \in Seq(Characters) /\ Len(SubSeq(now, at + 1, at + n)) = n
        /\ \A i \in 1 .. n : SubSeq(now, at + 1, at + n)[i] = now[at + i]
    <3>1. at + n <= Len(now)
      BY <1>1, <1>6
    <3> QED
      BY <1>1, <1>6, <3>1, PartsAreThere
  <2>2. ASSUME NEW i \in 1 .. n PROVE now[at + i] = chars[i]
    <3>1. at + i \in 1 .. at + n
      BY <1>1
    <3> QED
      BY <1>5, <1>6, <3>1
  <2> QED
    BY <2>1, <2>2, SeqEqual DEF n
<1>9. at \in 0 .. Len(now) - n
  BY <1>1, <1>6
<1> QED
  BY <1>6, <1>7, <1>8, <1>9 DEF now, n, ExplainsText

(* What the plugin makes of an event, part by part.                        *)
PluginState(composing, start, space, chars, events) ==
  [composing |-> composing, start |-> start, space |-> space, chars |-> chars, events |-> events]

EventType(c, e) ==
  IF browser.composition THEN IF e.type \in {"compositionstart", "compositionupdate", "compositionend"} THEN e.type ELSE ""
  ELSE IF ~c /\ isFallbackCompositionStart(e) THEN "compositionstart"
  ELSE IF c /\ isFallbackCompositionEnd(e) THEN "compositionend" ELSE ""
Begins(c, e) == EventType(c, e) = "compositionstart" /\ browser.fallback /\ ~c
Composing(c, e) == c \/ Begins(c, e)
StartOf(c, st, e) == IF Begins(c, e) THEN e.text ELSE st
Stops(c, e) ==
  /\ ~browser.textInput /\ Composing(c, e)
  /\ e.type = "compositionend" \/ (~browser.composition /\ isFallbackCompositionEnd(e))
CharsOf(c, st, sp, e) ==
  IF browser.textInput
  THEN IF e.type = "keypress" /\ e.key = Space THEN <<Space>>
       ELSE IF e.type = "textInput" /\ ~(e.data = <<Space>> /\ sp) THEN e.data ELSE <<>>
  ELSE IF Composing(c, e) THEN IF Stops(c, e) THEN getData(StartOf(c, st, e), e.text) ELSE <<>>
  ELSE IF (e.type = "keypress" /\ e.key # "command") \/ (e.type = "compositionend" /\ ~browser.fallback) THEN e.data
  ELSE <<>>
SpaceAfter(sp, e) == sp \/ (browser.textInput /\ e.type = "keypress" /\ e.key = Space)
StartAfter(c, st, e) == IF Stops(c, e) THEN <<>> ELSE StartOf(c, st, e)
ComposingAfter(c, e) == Composing(c, e) /\ ~Stops(c, e)
EventsOf(c, e) == IF EventType(c, e) = "" THEN <<>> ELSE <<EventType(c, e)>>

LEMMA StateIsSet ==
  ASSUME NEW c, NEW st, NEW sp, NEW ch, NEW ev, NEW x
  PROVE  /\ [PluginState(c, st, sp, ch, ev) EXCEPT !.composing = x] = PluginState(x, st, sp, ch, ev)
         /\ [PluginState(c, st, sp, ch, ev) EXCEPT !.start = x] = PluginState(c, x, sp, ch, ev)
         /\ [PluginState(c, st, sp, ch, ev) EXCEPT !.space = x] = PluginState(c, st, x, ch, ev)
         /\ [PluginState(c, st, sp, ch, ev) EXCEPT !.chars = x] = PluginState(c, st, sp, x, ev)
         /\ [PluginState(c, st, sp, ch, ev) EXCEPT !.events = x] = PluginState(c, st, sp, ch, x)
BY DEF PluginState

LEMMA EventsAreExtracted ==
  ASSUME NEW c \in BOOLEAN, NEW st, NEW sp \in BOOLEAN, NEW ch, NEW ev, NEW e
  PROVE  extractEvents(PluginState(c, st, sp, ch, ev), e)
           = PluginState(ComposingAfter(c, e), StartAfter(c, st, e), SpaceAfter(sp, e), CharsOf(c, st, sp, e), EventsOf(c, e))
<1> DEFINE s0 == PluginState(c, st, sp, <<>>, <<>>)
           type == EventType(c, e)
           s1 == PluginState(Composing(c, e), StartOf(c, st, e), sp, <<>>, EventsOf(c, e))
           s2 == PluginState(ComposingAfter(c, e), StartAfter(c, st, e), SpaceAfter(sp, e), CharsOf(c, st, sp, e), EventsOf(c, e))
<1>1. [PluginState(c, st, sp, ch, ev) EXCEPT !.chars = NoChars, !.events = <<>>] = s0
  <2> DEFINE r == PluginState(c, st, sp, ch, ev)
  <2>1. [r EXCEPT !.chars = <<>>] = PluginState(c, st, sp, <<>>, ev)
    BY DEF PluginState
  <2>2. [PluginState(c, st, sp, <<>>, ev) EXCEPT !.events = <<>>] = s0
    BY DEF PluginState
  <2>3. [r EXCEPT !.chars = <<>>, !.events = <<>>] = [[r EXCEPT !.chars = <<>>] EXCEPT !.events = <<>>]
    OBVIOUS
  <2> QED
    BY <2>1, <2>2, <2>3, Zenon DEF NoChars
<1>2. CompositionEvent(s0, e) = type
  BY DEF CompositionEvent, EventType, PluginState
<1>3. s0.composing = c /\ s0.events = <<>>
  BY DEF PluginState
<1>4. extractCompositionEvent(s0, e) = s1
  <2> DEFINE t == IF type = "" THEN s0 ELSE [s0 EXCEPT !.events = Append(@, type)]
  <2>1. extractCompositionEvent(s0, e) = IF Begins(c, e) THEN [t EXCEPT !.composing = TRUE, !.start = e.text] ELSE t
    BY <1>2, <1>3, Zenon DEF extractCompositionEvent, Begins
  <2>2. t = PluginState(c, st, sp, <<>>, EventsOf(c, e))
    <3>1. Append(<<>>, type) = <<type>>
      OBVIOUS
    <3> HIDE DEF type
    <3>2. [s0 EXCEPT !.events = Append(@, type)] = PluginState(c, st, sp, <<>>, <<type>>)
      BY <3>1 DEF PluginState
    <3> QED
      BY <3>2 DEF EventsOf, type
  <2> HIDE DEF t
  <2>3. CASE Begins(c, e)
    <3>1. [PluginState(c, st, sp, <<>>, EventsOf(c, e)) EXCEPT !.composing = TRUE, !.start = e.text]
            = PluginState(TRUE, e.text, sp, <<>>, EventsOf(c, e))
      <4> DEFINE r == PluginState(c, st, sp, <<>>, EventsOf(c, e))
      <4> DEFINE yes == TRUE
      <4> HIDE DEF yes
      <4>0. /\ [r EXCEPT !.composing = yes] = PluginState(yes, st, sp, <<>>, EventsOf(c, e))
            /\ [PluginState(yes, st, sp, <<>>, EventsOf(c, e)) EXCEPT !.start = e.text]
                 = PluginState(yes, e.text, sp, <<>>, EventsOf(c, e))
        BY DEF PluginState
      <4>1. [r EXCEPT !.composing = TRUE] = PluginState(TRUE, st, sp, <<>>, EventsOf(c, e))
        BY <4>0, Zenon DEF yes
      <4>2. [PluginState(TRUE, st, sp, <<>>, EventsOf(c, e)) EXCEPT !.start = e.text]
              = PluginState(TRUE, e.text, sp, <<>>, EventsOf(c, e))
        BY <4>0, Zenon DEF yes
      <4>3. [r EXCEPT !.composing = TRUE, !.start = e.text] = [[r EXCEPT !.composing = TRUE] EXCEPT !.start = e.text]
        OBVIOUS
      <4> QED
        BY <4>1, <4>2, <4>3, Zenon
    <3> QED
      BY <2>1, <2>2, <2>3, <3>1 DEF Composing, StartOf
  <2>4. CASE ~Begins(c, e)
    BY <2>1, <2>2, <2>4 DEF Composing, StartOf
  <2> QED
    BY <2>3, <2>4
<1>5. BeforeInputChars(s1, e) = s2
  <2> DEFINE c1 == Composing(c, e)
             st1 == StartOf(c, st, e)
             ev1 == EventsOf(c, e)
  <2>1. c1 \in BOOLEAN
    BY DEF Composing, Begins
  <2>2. CASE browser.textInput
    <3>1. BeforeInputChars(s1, e) = getNativeBeforeInputChars(s1, e) /\ ~Stops(c, e)
      BY <2>2 DEF BeforeInputChars, Stops
    <3>2. ComposingAfter(c, e) = c1 /\ StartAfter(c, st, e) = st1
      BY <2>1, <3>1 DEF ComposingAfter, StartAfter
    <3> HIDE DEF c1, st1, ev1
    <3>3. s1 = PluginState(c1, st1, sp, <<>>, ev1)
      BY DEF c1, st1, ev1
    <3> HIDE DEF s1
    <3>4. CASE e.type = "keypress" /\ e.key = Space
      <4>1. getNativeBeforeInputChars(s1, e) = PluginState(c1, st1, TRUE, <<Space>>, ev1)
        BY <3>3, <3>4 DEF getNativeBeforeInputChars, PluginState
      <4> QED
        BY <2>2, <3>1, <3>2, <3>4, <4>1 DEF CharsOf, SpaceAfter, ev1
    <3>5. CASE ~(e.type = "keypress" /\ e.key = Space)
      <4>1. SpaceAfter(sp, e) = sp
        BY <3>5 DEF SpaceAfter
      <4>2. CASE e.type = "textInput" /\ ~(e.data = <<Space>> /\ sp)
        <5>1. getNativeBeforeInputChars(s1, e) = PluginState(c1, st1, sp, e.data, ev1)
          BY <3>3, <3>5, <4>2 DEF getNativeBeforeInputChars, PluginState
        <5> QED
          BY <2>2, <3>1, <3>2, <3>5, <4>1, <4>2, <5>1 DEF CharsOf, ev1
      <4>3. CASE ~(e.type = "textInput" /\ ~(e.data = <<Space>> /\ sp))
        <5>1. s1.space = sp
          BY <3>3 DEF PluginState
        <5>2. getNativeBeforeInputChars(s1, e) = s1
          BY <3>5, <4>3, <5>1 DEF getNativeBeforeInputChars
        <5> QED
          BY <2>2, <3>1, <3>2, <3>3, <3>5, <4>1, <4>3, <5>2 DEF CharsOf, ev1
      <4> QED
        BY <4>2, <4>3
    <3> QED
      BY <3>4, <3>5
  <2>3. CASE ~browser.textInput
    <3>1. BeforeInputChars(s1, e) = getFallbackBeforeInputChars(s1, e)
      BY <2>3 DEF BeforeInputChars
    <3>2. SpaceAfter(sp, e) = sp
      BY <2>3 DEF SpaceAfter
    <3> HIDE DEF c1, st1, ev1
    <3>3. s1 = PluginState(c1, st1, sp, <<>>, ev1)
      BY DEF c1, st1, ev1
    <3> HIDE DEF s1
    <3>4. s1.composing = c1 /\ s1.start = st1
      BY <3>3 DEF PluginState
    <3>5. CASE Stops(c, e)
      <4>1. c1 /\ (e.type = "compositionend" \/ (~browser.composition /\ isFallbackCompositionEnd(e)))
        BY <3>5 DEF Stops, c1
      <4>2. getFallbackBeforeInputChars(s1, e)
              = [s1 EXCEPT !.chars = getData(st1, e.text), !.composing = FALSE, !.start = <<>>]
        BY <3>4, <4>1 DEF getFallbackBeforeInputChars
      <4>3. [s1 EXCEPT !.chars = getData(st1, e.text), !.composing = FALSE, !.start = <<>>]
              = PluginState(FALSE, <<>>, sp, getData(st1, e.text), ev1)
        <5> DEFINE x == getData(st1, e.text)
        <5> HIDE DEF x
        <5> DEFINE no == FALSE
        <5> HIDE DEF no
        <5>0. /\ [PluginState(c1, st1, sp, x, ev1) EXCEPT !.composing = no] = PluginState(no, st1, sp, x, ev1)
              /\ [PluginState(no, st1, sp, x, ev1) EXCEPT !.start = <<>>] = PluginState(no, <<>>, sp, x, ev1)
          BY DEF PluginState
        <5>1. [s1 EXCEPT !.chars = x] = PluginState(c1, st1, sp, x, ev1)
          BY <3>3 DEF PluginState
        <5>2. [PluginState(c1, st1, sp, x, ev1) EXCEPT !.composing = FALSE] = PluginState(FALSE, st1, sp, x, ev1)
          BY <5>0, Zenon DEF no
        <5>3. [PluginState(FALSE, st1, sp, x, ev1) EXCEPT !.start = <<>>] = PluginState(FALSE, <<>>, sp, x, ev1)
          BY <5>0, Zenon DEF no
        <5>4. [s1 EXCEPT !.chars = x, !.composing = FALSE, !.start = <<>>]
                = [[[s1 EXCEPT !.chars = x] EXCEPT !.composing = FALSE] EXCEPT !.start = <<>>]
          OBVIOUS
        <5>5. [s1 EXCEPT !.chars = x, !.composing = FALSE, !.start = <<>>] = PluginState(FALSE, <<>>, sp, x, ev1)
          BY <5>1, <5>2, <5>3, <5>4, Zenon
        <5> QED
          BY <5>5 DEF x
      <4>4. ComposingAfter(c, e) = FALSE /\ StartAfter(c, st, e) = <<>> /\ CharsOf(c, st, sp, e) = getData(st1, e.text)
        BY <2>3, <3>5, <4>1 DEF ComposingAfter, StartAfter, CharsOf, c1, st1
      <4> QED
        BY <3>1, <3>2, <4>2, <4>3, <4>4 DEF ev1
    <3>6. CASE ~Stops(c, e)
      <4>1. ComposingAfter(c, e) = c1 /\ StartAfter(c, st, e) = st1
        BY <2>1, <3>6 DEF ComposingAfter, StartAfter, c1, st1
      <4>2. c1 => ~(e.type = "compositionend" \/ (~browser.composition /\ isFallbackCompositionEnd(e)))
        BY <2>3, <3>6 DEF Stops, c1
      <4>3. CASE ~c1 /\ ((e.type = "keypress" /\ e.key # "command") \/ (e.type = "compositionend" /\ ~browser.fallback))
        <5>1. getFallbackBeforeInputChars(s1, e) = [s1 EXCEPT !.chars = e.data]
          BY <3>4, <4>3 DEF getFallbackBeforeInputChars
        <5>2. [s1 EXCEPT !.chars = e.data] = PluginState(c1, st1, sp, e.data, ev1)
          BY <3>3 DEF PluginState
        <5>3. CharsOf(c, st, sp, e) = e.data
          BY <2>3, <4>3 DEF CharsOf, c1
        <5> QED
          BY <3>1, <3>2, <4>1, <5>1, <5>2, <5>3 DEF ev1
      <4>4. CASE ~(~c1 /\ ((e.type = "keypress" /\ e.key # "command") \/ (e.type = "compositionend" /\ ~browser.fallback)))
        <5>1. getFallbackBeforeInputChars(s1, e) = s1
          BY <2>1, <3>4, <4>2, <4>4 DEF getFallbackBeforeInputChars
        <5>2. CharsOf(c, st, sp, e) = <<>>
          BY <2>1, <2>3, <3>6, <4>4 DEF CharsOf, c1
        <5> QED
          BY <3>1, <3>2, <3>3, <4>1, <5>1, <5>2 DEF ev1
      <4> QED
        BY <4>3, <4>4
    <3> QED
      BY <3>5, <3>6
  <2> QED
    BY <2>2, <2>3
<1> HIDE DEF s0, s1, s2
<1> QED
  BY <1>1, <1>4, <1>5 DEF extractEvents, s2

(* The root around asks the plugin about the same event: to no effect.     *)
LEMMA AskedTwice ==
  ASSUME NEW c \in BOOLEAN, NEW st, NEW sp \in BOOLEAN, NEW e
  PROVE  /\ ComposingAfter(c, e) \in BOOLEAN /\ SpaceAfter(sp, e) \in BOOLEAN
         /\ ComposingAfter(ComposingAfter(c, e), e) = ComposingAfter(c, e)
         /\ StartAfter(ComposingAfter(c, e), StartAfter(c, st, e), e) = StartAfter(c, st, e)
         /\ SpaceAfter(SpaceAfter(sp, e), e) = SpaceAfter(sp, e)
<1>1. ComposingAfter(c, e) \in BOOLEAN /\ SpaceAfter(sp, e) \in BOOLEAN
  BY DEF ComposingAfter, Composing, Begins, SpaceAfter
<1>2. SpaceAfter(SpaceAfter(sp, e), e) = SpaceAfter(sp, e)
  BY DEF SpaceAfter
<1>3. CASE Begins(c, e)
  <2>1. c = FALSE /\ EventType(c, e) = "compositionstart" /\ ~Stops(c, e)
    BY <1>3 DEF Begins, Stops, EventType, isFallbackCompositionStart, isFallbackCompositionEnd
  <2>2. ComposingAfter(c, e) = TRUE /\ StartAfter(c, st, e) = e.text
    BY <1>3, <2>1 DEF ComposingAfter, Composing, StartAfter, StartOf
  <2>3. ~Begins(TRUE, e) /\ ~Stops(TRUE, e)
    BY <1>3, <2>1 DEF Begins, Stops, EventType, isFallbackCompositionStart, isFallbackCompositionEnd
  <2>4. ComposingAfter(TRUE, e) = TRUE /\ StartAfter(TRUE, e.text, e) = e.text
    BY <2>3 DEF ComposingAfter, Composing, StartAfter, StartOf
  <2> QED
    BY <1>1, <1>2, <2>2, <2>4
<1>4. CASE ~Begins(c, e) /\ ~Stops(c, e)
  <2>1. ComposingAfter(c, e) = c /\ StartAfter(c, st, e) = st
    BY <1>4 DEF ComposingAfter, Composing, StartAfter, StartOf
  <2> QED
    BY <1>1, <1>2, <2>1
<1>5. CASE ~Begins(c, e) /\ Stops(c, e)
  <2>1. ComposingAfter(c, e) = FALSE /\ StartAfter(c, st, e) = <<>>
    BY <1>5 DEF ComposingAfter, StartAfter
  <2>2. ~Begins(FALSE, e) /\ ~Stops(FALSE, e)
    BY <1>5 DEF Begins, Stops, Composing, EventType, isFallbackCompositionStart, isFallbackCompositionEnd
  <2>3. ComposingAfter(FALSE, e) = FALSE /\ StartAfter(FALSE, <<>>, e) = <<>>
    BY <2>2 DEF ComposingAfter, Composing, StartAfter, StartOf
  <2> QED
    BY <1>1, <1>2, <2>1, <2>3
<1> QED
  BY <1>3, <1>4, <1>5

NativeTypes == {"keydown", "keypress", "keyup", "textInput", "paste", "compositionstart", "compositionupdate",
                "compositionend", "mousedown", "blur"}
Keys == {"", "letter", "method", "end", "command"} \cup Characters
Natives == [type : NativeTypes, key : Keys, data : Seq(Characters), text : Seq(Characters)]

TextTypes ==
  /\ browser \in Browsers /\ nested \in BOOLEAN /\ isComposing \in BOOLEAN /\ hasSpaceKeypress \in BOOLEAN
  /\ fieldText \in Seq(Characters) /\ nativeEvents \in Seq(Natives)
  /\ inserted.chars \in Seq(Characters) /\ inserted.silent \in BOOLEAN

(* The text there is once all native events have been dispatched.          *)
FinalText == IF nativeEvents = <<>> THEN fieldText ELSE nativeEvents[Len(nativeEvents)].text

LEMMA DispatchesFit ==
  ASSUME TextTypes, DispatchNative, NEW e, e = nativeEvents[1]
  PROVE  /\ nativeEvents # <<>> /\ nativeEvents' = Tail(nativeEvents) /\ fieldText' = e.text
         /\ isComposing' = ComposingAfter(isComposing, e)
         /\ startText' = StartAfter(isComposing, startText, e)
         /\ hasSpaceKeypress' = SpaceAfter(hasSpaceKeypress, e)
         /\ reported' = IF CharsOf(isComposing, startText, hasSpaceKeypress, e) = <<>> THEN reported
                        ELSE Append(reported, CharsOf(isComposing, startText, hasSpaceKeypress, e))
         /\ compositions' = compositions \o EventsOf(isComposing, e)
         /\ UNCHANGED <<browser, nested, inserted>>
         /\ FinalText' = FinalText
         /\ nativeEvents' \in Seq(Natives) /\ Len(nativeEvents') = Len(nativeEvents) - 1
         /\ \A i \in 1 .. Len(nativeEvents) - 1 : nativeEvents'[i] = nativeEvents[i + 1]
<1> DEFINE c == isComposing
           st == startText
           sp == hasSpaceKeypress
           before == [composing |-> c, start |-> st, space |-> sp, chars |-> NoChars, events |-> <<>>]
           inner == extractEvents(before, e)
           after == IF nested THEN extractEvents(inner, e) ELSE inner
           c1 == ComposingAfter(c, e)
           st1 == StartAfter(c, st, e)
           sp1 == SpaceAfter(sp, e)
           ch1 == CharsOf(c, st, sp, e)
           ev1 == EventsOf(c, e)
<1>1. c \in BOOLEAN /\ sp \in BOOLEAN /\ nativeEvents \in Seq(Natives)
  BY DEF TextTypes
<1>2. /\ nativeEvents # <<>> /\ nativeEvents' = Tail(nativeEvents) /\ Head(nativeEvents) = e
      /\ fieldText' = e.text
      /\ isComposing' = after.composing /\ startText' = after.start /\ hasSpaceKeypress' = after.space
      /\ reported' = IF inner.chars = NoChars THEN reported ELSE Append(reported, inner.chars)
      /\ compositions' = compositions \o inner.events
      /\ UNCHANGED <<browser, nested, inserted>>
  <2>1. nativeEvents # <<>> => Head(nativeEvents) = e
    BY <1>1
  <2> QED
    BY <2>1 DEF DispatchNative
<1>3. inner = PluginState(c1, st1, sp1, ch1, ev1)
  <2>1. before = PluginState(c, st, sp, NoChars, <<>>)
    BY DEF PluginState
  <2> QED
    BY <1>1, <2>1, EventsAreExtracted
<1>4. /\ c1 \in BOOLEAN /\ sp1 \in BOOLEAN /\ ComposingAfter(c1, e) = c1 /\ StartAfter(c1, st1, e) = st1
      /\ SpaceAfter(sp1, e) = sp1
  BY <1>1, AskedTwice
<1> HIDE DEF before, inner, c1, st1, sp1, ch1, ev1
<1>5. after.composing = c1 /\ after.start = st1 /\ after.space = sp1
  <2>1. CASE ~nested
    BY <1>3, <2>1 DEF PluginState
  <2>2. CASE nested
    <3>1. extractEvents(PluginState(c1, st1, sp1, ch1, ev1), e)
            = PluginState(ComposingAfter(c1, e), StartAfter(c1, st1, e), SpaceAfter(sp1, e), CharsOf(c1, st1, sp1, e), EventsOf(c1, e))
      BY <1>4, EventsAreExtracted
    <3>2. after = extractEvents(PluginState(c1, st1, sp1, ch1, ev1), e)
      BY <1>3, <2>2
    <3> HIDE DEF after
    <3> QED
      BY <1>4, <3>1, <3>2 DEF PluginState
  <2> QED
    BY <2>1, <2>2
<1>6. inner.chars = ch1 /\ inner.events = ev1
  BY <1>3 DEF PluginState
<1> HIDE DEF after
<1>7. /\ nativeEvents' \in Seq(Natives) /\ Len(nativeEvents') = Len(nativeEvents) - 1
      /\ \A i \in 1 .. Len(nativeEvents) - 1 : nativeEvents'[i] = nativeEvents[i + 1]
  BY <1>1, <1>2
<1>8. FinalText' = FinalText
  <2> DEFINE q == nativeEvents
             n == Len(nativeEvents)
             p == nativeEvents'
  <2>1. n \in Nat /\ n # 0
    BY <1>1, <1>2
  <2>2. CASE n = 1
    <3>1. p = <<>>
      BY <1>7, <2>2
    <3> QED
      BY <1>2, <2>2, <3>1 DEF FinalText
  <2>3. CASE n # 1
    <3>1. n - 1 \in 1 .. n - 1 /\ n - 1 + 1 = n
      <4> HIDE DEF n
      <4> QED
        BY <2>1, <2>3
    <3>2. p # <<>> /\ Len(p) = n - 1 /\ p[n - 1] = q[n]
      BY <1>7, <2>1, <2>3, <3>1
    <3> QED
      BY <1>2, <3>2 DEF FinalText
  <2> QED
    BY <2>2, <2>3
<1> QED
  BY <1>2, <1>5, <1>6, <1>7, <1>8 DEF c1, st1, sp1, ch1, ev1, NoChars

-----------------------------------------------------------------------------
(* What the queue of native events is still to do.  Told: nothing is left  *)
(* to be reported of what the user did.                                    *)
Compositions == {<<>>, <<"compositionstart", "compositionend">>, <<"compositionstart", "compositionupdate", "compositionend">>}

Explained(now) == \E data \in Seq(Characters) :
  reported = <<data>> /\ Len(data) = Len(inserted.chars) /\ ExplainsText(data, now)

Told ==
  /\ ~isComposing /\ compositions \in Compositions
  /\ (inserted.silent \/ inserted.chars = <<>>) => reported = <<>>
  /\ ~(inserted.silent \/ inserted.chars = <<>>) => Explained(FinalText)

(* Without a composition, nothing comes of it.                             *)
IsQuiet(e, sp) ==
  \/ e.type \in {"keyup", "mousedown", "blur", "paste"}
  \/ e.type = "keydown" /\ (browser.composition \/ e.key # "method")
  \/ e.type = "keypress" /\ (e.key = "command" \/ (browser.textInput /\ e.key # Space))
  \/ e.type = "textInput" /\ browser.textInput /\ (e.data = <<>> \/ (e.data = <<Space>> /\ sp))

Tells(e, sp) ==
  \/ e.type = "keypress" /\ e.key # "command" /\ ~browser.textInput
  \/ e.type = "keypress" /\ e.key = Space /\ e.data = <<Space>> /\ browser.textInput
  \/ e.type = "textInput" /\ browser.textInput /\ ~(e.data = <<Space>> /\ sp)

Repeats(e, f) ==
  e.type = "keypress" /\ e.key = Space /\ browser.textInput /\ f.type = "textInput" /\ f.data = <<Space>>

Untold == ~isComposing /\ reported = <<>> /\ compositions = <<>> /\ ~inserted.silent

Rests == Told /\ \A i \in 1 .. Len(nativeEvents) : IsQuiet(nativeEvents[i], hasSpaceKeypress)

TellsAt(k) ==
  /\ Tells(nativeEvents[k], hasSpaceKeypress) /\ nativeEvents[k].data = inserted.chars
  /\ \A i \in 1 .. k - 1 : IsQuiet(nativeEvents[i], hasSpaceKeypress)
  /\ \A i \in k + 1 .. Len(nativeEvents) :
       IsQuiet(nativeEvents[i], hasSpaceKeypress) \/ Repeats(nativeEvents[k], nativeEvents[i])

TypingIsDue ==
  /\ Untold /\ inserted.chars # <<>> /\ ExplainsText(inserted.chars, FinalText)
  /\ \E k \in 1 .. Len(nativeEvents) : TellsAt(k)

LEMMA QuietIsIdle ==
  ASSUME NEW e, NEW sp \in BOOLEAN, IsQuiet(e, sp), NEW st
  PROVE  /\ ComposingAfter(FALSE, e) = FALSE /\ StartAfter(FALSE, st, e) = st /\ SpaceAfter(sp, e) = sp
         /\ CharsOf(FALSE, st, sp, e) = <<>> /\ EventsOf(FALSE, e) = <<>>
<1>1. EventType(FALSE, e) = ""
  BY DEF IsQuiet, EventType, isFallbackCompositionStart
<1>2. ~Begins(FALSE, e) /\ ~Composing(FALSE, e) /\ ~Stops(FALSE, e)
  BY <1>1 DEF Begins, Composing, Stops
<1>3. CharsOf(FALSE, st, sp, e) = <<>>
  BY <1>2, TextAssumption DEF CharsOf, IsQuiet
<1>4. SpaceAfter(sp, e) = sp
  BY TextAssumption DEF SpaceAfter, IsQuiet
<1> QED
  BY <1>1, <1>2, <1>3, <1>4 DEF ComposingAfter, StartAfter, StartOf, EventsOf

LEMMA TellingReports ==
  ASSUME NEW e, NEW sp \in BOOLEAN, Tells(e, sp), NEW st
  PROVE  /\ ComposingAfter(FALSE, e) = FALSE /\ SpaceAfter(sp, e) \in BOOLEAN
         /\ CharsOf(FALSE, st, sp, e) = e.data /\ EventsOf(FALSE, e) = <<>>
         /\ \A f : IsQuiet(f, sp) \/ Repeats(e, f) => IsQuiet(f, SpaceAfter(sp, e))
<1>1. EventType(FALSE, e) = ""
  BY DEF Tells, EventType, isFallbackCompositionStart
<1>2. ~Begins(FALSE, e) /\ ~Composing(FALSE, e) /\ ~Stops(FALSE, e)
  BY <1>1 DEF Begins, Composing, Stops
<1>3. CharsOf(FALSE, st, sp, e) = e.data
  BY <1>2 DEF CharsOf, Tells
<1>4. \A f : IsQuiet(f, sp) \/ Repeats(e, f) => IsQuiet(f, SpaceAfter(sp, e))
  BY DEF SpaceAfter, IsQuiet, Repeats
<1>5. SpaceAfter(sp, e) \in BOOLEAN
  BY DEF SpaceAfter
<1> QED
  BY <1>1, <1>2, <1>3, <1>4, <1>5 DEF ComposingAfter, EventsOf

LEMMA RestIsKept == ASSUME TextTypes, Rests, DispatchNative PROVE Rests'
<1> DEFINE e == nativeEvents[1]
           st == startText
           sp == hasSpaceKeypress
           n == Len(nativeEvents)
<1>1. /\ nativeEvents # <<>> /\ nativeEvents' = Tail(nativeEvents)
      /\ isComposing' = ComposingAfter(isComposing, e)
      /\ hasSpaceKeypress' = SpaceAfter(sp, e)
      /\ reported' = IF CharsOf(isComposing, st, sp, e) = <<>> THEN reported
                     ELSE Append(reported, CharsOf(isComposing, st, sp, e))
      /\ compositions' = compositions \o EventsOf(isComposing, e)
      /\ UNCHANGED <<browser, nested, inserted>>
      /\ FinalText' = FinalText
      /\ Len(nativeEvents') = n - 1
      /\ \A i \in 1 .. n - 1 : nativeEvents'[i] = nativeEvents[i + 1]
  BY DispatchesFit
<1>2. n \in Nat /\ n # 0 /\ sp \in BOOLEAN
  BY <1>1 DEF TextTypes
<1>3. isComposing = FALSE
  BY DEF TextTypes, Rests, Told
<1>4. IsQuiet(e, sp)
  BY <1>2 DEF Rests
<1> HIDE DEF e, n
<1>5. /\ ComposingAfter(FALSE, e) = FALSE /\ SpaceAfter(sp, e) = sp
      /\ CharsOf(FALSE, st, sp, e) = <<>> /\ EventsOf(FALSE, e) = <<>>
  BY <1>2, <1>4, QuietIsIdle
<1>6. isComposing' = FALSE /\ hasSpaceKeypress' = sp /\ reported' = reported /\ compositions' = compositions \o <<>>
  BY <1>1, <1>3, <1>5
<1>7. compositions \o <<>> = compositions
  BY DEF Rests, Told, Compositions
<1>8. Told'
  BY <1>1, <1>6, <1>7 DEF Rests, Told, Explained
<1>9. ASSUME NEW i \in 1 .. n - 1 PROVE IsQuiet(nativeEvents[i + 1], sp)
  <2>1. i + 1 \in 1 .. n
    BY <1>2
  <2> QED
    BY <2>1 DEF Rests, n
<1> QED
  BY <1>1, <1>6, <1>8, <1>9 DEF Rests, IsQuiet

LEMMA TypingIsTold == ASSUME TextTypes, TypingIsDue, DispatchNative PROVE TypingIsDue' \/ Rests'
<1> DEFINE e == nativeEvents[1]
           st == startText
           sp == hasSpaceKeypress
           n == Len(nativeEvents)
           chars == inserted.chars
<1>1. /\ nativeEvents # <<>> /\ nativeEvents' = Tail(nativeEvents)
      /\ isComposing' = ComposingAfter(isComposing, e)
      /\ hasSpaceKeypress' = SpaceAfter(sp, e)
      /\ reported' = IF CharsOf(isComposing, st, sp, e) = <<>> THEN reported
                     ELSE Append(reported, CharsOf(isComposing, st, sp, e))
      /\ compositions' = compositions \o EventsOf(isComposing, e)
      /\ UNCHANGED <<browser, nested, inserted>>
      /\ FinalText' = FinalText
      /\ Len(nativeEvents') = n - 1
      /\ \A i \in 1 .. n - 1 : nativeEvents'[i] = nativeEvents[i + 1]
  BY DispatchesFit
<1>2. n \in Nat /\ n # 0 /\ sp \in BOOLEAN /\ chars \in Seq(Characters)
  BY <1>1 DEF TextTypes
<1>3. /\ isComposing = FALSE /\ reported = <<>> /\ compositions = <<>> /\ ~inserted.silent
      /\ chars # <<>> /\ ExplainsText(chars, FinalText)
  BY DEF TextTypes, TypingIsDue, Untold
<1>4. PICK k \in 1 .. n : TellsAt(k)
  BY DEF TypingIsDue
<1>5. /\ Tells(nativeEvents[k], sp) /\ nativeEvents[k].data = chars
      /\ \A i \in 1 .. k - 1 : IsQuiet(nativeEvents[i], sp)
      /\ \A i \in k + 1 .. n : IsQuiet(nativeEvents[i], sp) \/ Repeats(nativeEvents[k], nativeEvents[i])
  BY <1>4 DEF TellsAt
<1> HIDE DEF e, n, chars
<1>6. CASE k = 1
  <2>1. e = nativeEvents[k]
    BY <1>6 DEF e
  <2>2. /\ ComposingAfter(FALSE, e) = FALSE /\ SpaceAfter(sp, e) \in BOOLEAN
        /\ CharsOf(FALSE, st, sp, e) = e.data /\ EventsOf(FALSE, e) = <<>>
        /\ \A f : IsQuiet(f, sp) \/ Repeats(e, f) => IsQuiet(f, SpaceAfter(sp, e))
    BY <1>2, <1>5, <2>1, TellingReports
  <2>3. isComposing' = FALSE /\ reported' = <<chars>> /\ compositions' = <<>>
    <3>1. Append(<<>>, chars) = <<chars>> /\ <<>> \o <<>> = <<>>
      OBVIOUS
    <3>2. /\ isComposing' = ComposingAfter(FALSE, e) /\ compositions' = <<>> \o EventsOf(FALSE, e)
          /\ reported' = IF CharsOf(FALSE, st, sp, e) = <<>> THEN <<>> ELSE Append(<<>>, CharsOf(FALSE, st, sp, e))
      BY <1>1, <1>3
    <3> QED
      BY <1>3, <1>5, <2>1, <2>2, <3>1, <3>2
  <2>4. Explained(FinalText)'
    <3>1. chars \in Seq(Characters) /\ Len(chars) = Len(inserted'.chars) /\ ExplainsText(chars, FinalText')
      BY <1>1, <1>2, <1>3 DEF chars
    <3> QED
      BY <2>3, <3>1 DEF Explained
  <2>5. Told'
    BY <1>1, <1>3, <2>3, <2>4 DEF Told, Compositions, chars
  <2>6. ASSUME NEW i \in 1 .. n - 1 PROVE IsQuiet(nativeEvents[i + 1], SpaceAfter(sp, e))
    <3>1. i + 1 \in k + 1 .. n
      BY <1>2, <1>6
    <3> QED
      BY <1>5, <2>1, <2>2, <3>1
  <2> QED
    <3>1. ASSUME NEW i \in 1 .. Len(nativeEvents') PROVE IsQuiet(nativeEvents'[i], hasSpaceKeypress')
      BY <1>1, <2>6
    <3>2. browser' = browser
      BY <1>1
    <3>3. \A i \in 1 .. Len(nativeEvents') : IsQuiet(nativeEvents[i], hasSpaceKeypress)'
      BY <3>1, <3>2 DEF IsQuiet
    <3> QED
      BY <2>5, <3>3 DEF Rests
<1>7. CASE k # 1
  <2>1. 1 \in 1 .. k - 1 /\ k - 1 \in 1 .. n - 1 /\ k - 1 + 1 = k
    BY <1>2, <1>7
  <2>2. IsQuiet(e, sp)
    BY <1>5, <2>1 DEF e
  <2>3. /\ ComposingAfter(FALSE, e) = FALSE /\ SpaceAfter(sp, e) = sp
        /\ CharsOf(FALSE, st, sp, e) = <<>> /\ EventsOf(FALSE, e) = <<>>
    BY <1>2, <2>2, QuietIsIdle
  <2>4. isComposing' = FALSE /\ hasSpaceKeypress' = sp /\ reported' = <<>> /\ compositions' = <<>>
    <3>1. <<>> \o <<>> = <<>>
      OBVIOUS
    <3>2. /\ isComposing' = ComposingAfter(FALSE, e) /\ compositions' = <<>> \o EventsOf(FALSE, e)
          /\ reported' = IF CharsOf(FALSE, st, sp, e) = <<>> THEN <<>> ELSE Append(<<>>, CharsOf(FALSE, st, sp, e))
      BY <1>1, <1>3
    <3> QED
      BY <1>1, <1>3, <2>3, <3>1, <3>2
  <2>5. nativeEvents'[k - 1] = nativeEvents[k]
    BY <1>1, <2>1
  <2>6. ASSUME NEW i \in 1 .. k - 1 - 1 PROVE IsQuiet(nativeEvents'[i], sp)
    <3>1. i \in 1 .. n - 1 /\ i + 1 \in 1 .. k - 1
      BY <1>2
    <3> QED
      BY <1>1, <1>5, <3>1
  <2>7. ASSUME NEW i \in k - 1 + 1 .. n - 1
        PROVE  IsQuiet(nativeEvents'[i], sp) \/ Repeats(nativeEvents'[k - 1], nativeEvents'[i])
    <3>1. i \in 1 .. n - 1 /\ i + 1 \in k + 1 .. n
      BY <1>2, <2>1
    <3> QED
      BY <1>1, <1>5, <2>5, <3>1
  <2>8. TellsAt(k - 1)'
    <3> DEFINE j == k - 1
    <3> HIDE DEF j
    <3>1. browser' = browser /\ inserted' = inserted /\ Len(nativeEvents') = n - 1
      BY <1>1
    <3>2. Tells(nativeEvents'[j], sp) /\ nativeEvents'[j].data = chars
      BY <1>5, <2>5 DEF j
    <3>3. /\ \A i \in 1 .. j - 1 : IsQuiet(nativeEvents'[i], sp)
          /\ \A i \in j + 1 .. n - 1 : IsQuiet(nativeEvents'[i], sp) \/ Repeats(nativeEvents'[j], nativeEvents'[i])
      BY <2>6, <2>7 DEF j
    <3> HIDE DEF sp
    <3>4. Tells(nativeEvents[j], hasSpaceKeypress)' /\ (nativeEvents[j].data = inserted.chars)'
      BY <2>4, <3>1, <3>2 DEF Tells, chars, sp
    <3>5. \A i \in 1 .. j - 1 : IsQuiet(nativeEvents[i], hasSpaceKeypress)'
      BY <2>4, <3>1, <3>3 DEF IsQuiet, sp
    <3>6. \A i \in j + 1 .. n - 1 :
            IsQuiet(nativeEvents[i], hasSpaceKeypress)' \/ Repeats(nativeEvents[j], nativeEvents[i])'
      BY <2>4, <3>1, <3>3 DEF IsQuiet, Repeats, sp
    <3>7. TellsAt(j)'
      BY <3>1, <3>4, <3>5, <3>6 DEF TellsAt
    <3> QED
      BY <3>7 DEF j
  <2>9. Untold'
    BY <1>1, <1>3, <2>4 DEF Untold
  <2>10. k - 1 \in 1 .. Len(nativeEvents')
    BY <1>1, <2>1
  <2> QED
    BY <1>1, <1>3, <2>8, <2>9, <2>10 DEF TypingIsDue, chars
<1> QED
  BY <1>6, <1>7

-----------------------------------------------------------------------------
(* A composition, by what the browser has for it: where it is, and what    *)
(* the plugin knows then.                                                  *)
Composed(base, now) ==
  /\ base \in Seq(Characters) /\ now \in Seq(Characters) /\ inserted.chars \in Seq(Letters) /\ ~inserted.silent
  /\ \E at \in 0 .. Len(base) : Grown(base, now, at, Len(inserted.chars))
  /\ ExplainsText(inserted.chars, now)

Ends == {"keyup", "keydown", "mousedown", "blur"}
LastKey(ends) == IF ends = "keyup" THEN "end" ELSE "letter"

Is(e, type, key, data, now) == e = Native(type, key, data, now)

(* Nothing has been told, and this is what is to come.                     *)
Awaits(n, c, said) == Len(nativeEvents) = n /\ isComposing = c /\ compositions = said /\ reported = <<>>

StartComes(k, base) == Is(nativeEvents[k], "compositionstart", "", <<>>, base)
UpdateComes(k, now) == Is(nativeEvents[k], "compositionupdate", "", inserted.chars, now)
InputComes(k, now) == Is(nativeEvents[k], "textInput", "", inserted.chars, now)
EndComes(k, now) == Is(nativeEvents[k], "compositionend", "", inserted.chars, now)
LastComes(k, now) == \E ends \in Ends : Is(nativeEvents[k], ends, LastKey(ends), <<>>, now)
KeyComes(k, base) == Is(nativeEvents[k], "keydown", "method", <<>>, base)

SaysBegun == <<"compositionstart">>
SaysUpdated == <<"compositionstart", "compositionupdate">>

InputComposes(base, now) ==
  /\ browser.textInput /\ browser.composition /\ ~browser.fallback
  /\ \/ /\ Awaits(6, FALSE, <<>>) /\ KeyComes(1, base) /\ StartComes(2, base) /\ UpdateComes(3, now)
        /\ InputComes(4, now) /\ EndComes(5, now) /\ LastComes(6, now)
     \/ /\ Awaits(5, FALSE, <<>>) /\ StartComes(1, base) /\ UpdateComes(2, now)
        /\ InputComes(3, now) /\ EndComes(4, now) /\ LastComes(5, now)
     \/ /\ Awaits(4, FALSE, SaysBegun) /\ UpdateComes(1, now)
        /\ InputComes(2, now) /\ EndComes(3, now) /\ LastComes(4, now)
     \/ Awaits(3, FALSE, SaysUpdated) /\ InputComes(1, now) /\ EndComes(2, now) /\ LastComes(3, now)
     \/ /\ Len(nativeEvents) = 2 /\ ~isComposing /\ compositions = SaysUpdated
        /\ reported = (IF inserted.chars = <<>> THEN <<>> ELSE <<inserted.chars>>)
        /\ EndComes(1, now) /\ LastComes(2, now)

EventsCompose(base, now) ==
  /\ ~browser.textInput /\ browser.composition
  /\ \/ /\ Awaits(5, FALSE, <<>>) /\ KeyComes(1, base) /\ StartComes(2, base) /\ UpdateComes(3, now)
        /\ EndComes(4, now) /\ LastComes(5, now)
     \/ /\ Awaits(4, FALSE, <<>>) /\ StartComes(1, base) /\ UpdateComes(2, now)
        /\ EndComes(3, now) /\ LastComes(4, now)
     \/ /\ Awaits(3, browser.fallback, SaysBegun) /\ (browser.fallback => startText = base)
        /\ UpdateComes(1, now) /\ EndComes(2, now) /\ LastComes(3, now)
     \/ /\ Awaits(2, browser.fallback, SaysUpdated) /\ (browser.fallback => startText = base)
        /\ EndComes(1, now) /\ LastComes(2, now)

KeysCompose(base, now) ==
  /\ ~browser.textInput /\ ~browser.composition /\ browser.fallback
  /\ \/ /\ Awaits(4, FALSE, <<>>) /\ KeyComes(1, base) /\ Is(nativeEvents[2], "keyup", "method", <<>>, now)
        /\ KeyComes(3, now) /\ LastComes(4, now)
     \/ /\ Awaits(3, TRUE, SaysBegun) /\ startText = base /\ Is(nativeEvents[1], "keyup", "method", <<>>, now)
        /\ KeyComes(2, now) /\ LastComes(3, now)
     \/ Awaits(2, TRUE, SaysBegun) /\ startText = base /\ KeyComes(1, now) /\ LastComes(2, now)
     \/ Awaits(1, TRUE, SaysBegun) /\ startText = base /\ LastComes(1, now)

InComposition ==
  \E base, now : /\ Composed(base, now)
                 /\ InputComposes(base, now) \/ EventsCompose(base, now) \/ KeysCompose(base, now)

LEMMA WordsAreJoined ==
  ASSUME NEW a, NEW b, NEW c
  PROVE  <<a>> \o <<b>> = <<a, b>> /\ <<a, b>> \o <<c>> = <<a, b, c>>
<1> DEFINE V == {a, b, c}
<1>1. <<a>> \in Seq(V) /\ <<b>> \in Seq(V) /\ <<a, b>> \in Seq(V) /\ <<c>> \in Seq(V)
  OBVIOUS
<1> HIDE DEF V
<1>2. <<a>> \o <<b>> = <<a, b>>
  <2> DEFINE s == <<a>>
             t == <<b>>
             u == <<a, b>>
  <2>1. s \in Seq(V) /\ t \in Seq(V) /\ Len(s) = 1 /\ Len(t) = 1 /\ s[1] = a /\ t[1] = b
    BY <1>1
  <2>2. u \in Seq(V) /\ Len(u) = 2 /\ u[1] = a /\ u[2] = b
    BY <1>1
  <2> HIDE DEF s, t, u
  <2>2a. /\ (s \o t) \in Seq(V) /\ Len(s \o t) = Len(s) + Len(t)
         /\ \A i \in 1 .. Len(s) : (s \o t)[i] = s[i]
         /\ \A i \in 1 .. Len(t) : (s \o t)[Len(s) + i] = t[i]
    <3>1. s \in Seq(V) /\ t \in Seq(V)
      BY <2>1
    <3> QED
      BY <3>1, ConcatParts
  <2>3. (s \o t) \in Seq(V) /\ Len(s \o t) = 2 /\ (s \o t)[1] = a /\ (s \o t)[2] = b
    <3>1. 1 \in 1 .. Len(s) /\ 1 \in 1 .. Len(t) /\ Len(s) + 1 = 2
      BY <2>1
    <3> QED
      BY <2>1, <2>2a, <3>1
  <2>4. \A i \in 1 .. 2 : (s \o t)[i] = u[i]
    BY <2>2, <2>3
  <2>5. s \o t = u
    BY <2>2, <2>3, <2>4, SeqEqual
  <2> QED
    BY <2>5 DEF s, t, u
<1>3. <<a, b>> \o <<c>> = <<a, b, c>>
  <2> DEFINE s == <<a, b>>
             t == <<c>>
             u == <<a, b, c>>
  <2>1. s \in Seq(V) /\ t \in Seq(V) /\ Len(s) = 2 /\ Len(t) = 1 /\ s[1] = a /\ s[2] = b /\ t[1] = c
    BY <1>1
  <2>2. u \in Seq(V) /\ Len(u) = 3 /\ u[1] = a /\ u[2] = b /\ u[3] = c
    BY <1>1 DEF V
  <2> HIDE DEF s, t, u
  <2>2a. /\ (s \o t) \in Seq(V) /\ Len(s \o t) = Len(s) + Len(t)
         /\ \A i \in 1 .. Len(s) : (s \o t)[i] = s[i]
         /\ \A i \in 1 .. Len(t) : (s \o t)[Len(s) + i] = t[i]
    <3>1. s \in Seq(V) /\ t \in Seq(V)
      BY <2>1
    <3> QED
      BY <3>1, ConcatParts
  <2>3. (s \o t) \in Seq(V) /\ Len(s \o t) = 3 /\ (s \o t)[1] = a /\ (s \o t)[2] = b /\ (s \o t)[3] = c
    <3>1. 1 \in 1 .. Len(s) /\ 2 \in 1 .. Len(s) /\ 1 \in 1 .. Len(t) /\ Len(s) + 1 = 3
      BY <2>1
    <3> QED
      BY <2>1, <2>2a, <3>1
  <2>4. \A i \in 1 .. 3 : (s \o t)[i] = u[i]
    BY <2>2, <2>3
  <2>5. s \o t = u
    BY <2>2, <2>3, <2>4, SeqEqual
  <2> QED
    BY <2>5 DEF s, t, u
<1> QED
  BY <1>2, <1>3

LEMMA NativeParts ==
  ASSUME NEW e, NEW type, NEW key, NEW data, NEW now, Is(e, type, key, data, now)
  PROVE  e.type = type /\ e.key = key /\ e.data = data /\ e.text = now
BY DEF Is, Native

LEMMA LetterTexts == ASSUME NEW chars \in Seq(Letters) PROVE chars \in Seq(Characters) /\ chars # <<Space>>
<1>1. chars \in Seq(Characters)
  BY DEF Characters
<1>2. SUFFICES ASSUME chars = <<Space>> PROVE FALSE
  BY <1>1
<1>3. 1 \in 1 .. Len(chars) /\ chars[1] = Space
  BY <1>2
<1>4. chars[1] \in Letters
  BY <1>3
<1> QED
  BY <1>3, <1>4, TextAssumption

CompositionTypes == {"compositionstart", "compositionupdate", "compositionend"}

LEMMA InputDoes ==
  ASSUME browser.textInput, browser.composition, ~browser.fallback, NEW e, NEW st, NEW sp \in BOOLEAN,
         e.type # "keypress", e.data # <<Space>>
  PROVE  /\ ComposingAfter(FALSE, e) = FALSE /\ SpaceAfter(sp, e) = sp
         /\ CharsOf(FALSE, st, sp, e) = (IF e.type = "textInput" THEN e.data ELSE <<>>)
         /\ EventsOf(FALSE, e) = (IF e.type \in CompositionTypes THEN <<e.type>> ELSE <<>>)
<1>1. ~Begins(FALSE, e) /\ ~Composing(FALSE, e)
  BY DEF Begins, Composing
<1>2. ComposingAfter(FALSE, e) = FALSE /\ SpaceAfter(sp, e) = sp
  BY <1>1 DEF ComposingAfter, SpaceAfter
<1>3. CharsOf(FALSE, st, sp, e) = (IF e.type = "textInput" THEN e.data ELSE <<>>)
  BY DEF CharsOf
<1>4. EventsOf(FALSE, e) = (IF e.type \in CompositionTypes THEN <<e.type>> ELSE <<>>)
  BY DEF EventsOf, EventType, CompositionTypes
<1> QED
  BY <1>2, <1>3, <1>4

(* The next event of a composition, and what is left of the queue.         *)
LEMMA NextIsDispatched ==
  ASSUME TextTypes, DispatchNative
  PROVE  /\ isComposing' = ComposingAfter(isComposing, nativeEvents[1])
         /\ startText' = StartAfter(isComposing, startText, nativeEvents[1])
         /\ hasSpaceKeypress' = SpaceAfter(hasSpaceKeypress, nativeEvents[1])
         /\ reported' = (IF CharsOf(isComposing, startText, hasSpaceKeypress, nativeEvents[1]) = <<>> THEN reported
                         ELSE Append(reported, CharsOf(isComposing, startText, hasSpaceKeypress, nativeEvents[1])))
         /\ compositions' = compositions \o EventsOf(isComposing, nativeEvents[1])
         /\ browser' = browser /\ nested' = nested /\ inserted' = inserted
         /\ FinalText' = FinalText /\ Len(nativeEvents') = Len(nativeEvents) - 1
         /\ \A i \in 1 .. Len(nativeEvents) - 1 : nativeEvents'[i] = nativeEvents[i + 1]
BY DispatchesFit

LEMMA LastIsQuiet ==
  ASSUME NEW k, NEW now, LastComes(k, now), NEW sp, browser.composition
  PROVE  IsQuiet(nativeEvents[k], sp) /\ nativeEvents[k].text = now
<1>1. PICK ends \in Ends : Is(nativeEvents[k], ends, LastKey(ends), <<>>, now)
  BY DEF LastComes
<1>2. nativeEvents[k].type = ends /\ nativeEvents[k].text = now
  BY <1>1, NativeParts
<1> QED
  BY <1>2 DEF IsQuiet, Ends

LEMMA InputIsComposed ==
  ASSUME TextTypes, NEW base, NEW now, Composed(base, now), InputComposes(base, now), DispatchNative
  PROVE  InputComposes(base, now)' \/ Rests'
<1> DEFINE e == nativeEvents[1]
           p == nativeEvents'
           sp == hasSpaceKeypress
           chars == inserted.chars
<1>1. /\ isComposing' = ComposingAfter(isComposing, e) /\ hasSpaceKeypress' = SpaceAfter(sp, e)
      /\ reported' = (IF CharsOf(isComposing, startText, sp, e) = <<>> THEN reported
                      ELSE Append(reported, CharsOf(isComposing, startText, sp, e)))
      /\ compositions' = compositions \o EventsOf(isComposing, e)
      /\ browser' = browser /\ inserted' = inserted /\ FinalText' = FinalText /\ Len(p) = Len(nativeEvents) - 1
      /\ \A i \in 1 .. Len(nativeEvents) - 1 : p[i] = nativeEvents[i + 1]
  BY NextIsDispatched
<1>2. /\ isComposing = FALSE /\ browser.textInput /\ browser.composition /\ ~browser.fallback
      /\ sp \in BOOLEAN /\ isComposing \in BOOLEAN
  BY DEF InputComposes, Awaits, TextTypes
<1>3. chars \in Seq(Characters) /\ chars \in Seq(Letters) /\ chars # <<Space>> /\ <<>> # <<Space>>
  BY LetterTexts DEF Composed
<1> HIDE DEF e, p, sp, chars
<1>4. ASSUME e.type # "keypress", e.data # <<Space>>
      PROVE  /\ isComposing' = FALSE /\ hasSpaceKeypress' = sp
             /\ reported' = (IF e.type = "textInput" /\ e.data # <<>> THEN Append(reported, e.data) ELSE reported)
             /\ compositions' = compositions \o (IF e.type \in CompositionTypes THEN <<e.type>> ELSE <<>>)
  <2>1. /\ ComposingAfter(FALSE, e) = FALSE /\ SpaceAfter(sp, e) = sp
        /\ CharsOf(FALSE, startText, sp, e) = (IF e.type = "textInput" THEN e.data ELSE <<>>)
        /\ EventsOf(FALSE, e) = (IF e.type \in CompositionTypes THEN <<e.type>> ELSE <<>>)
    BY <1>2, <1>4, InputDoes
  <2> QED
    BY <1>1, <1>2, <2>1
<1>5. CASE Awaits(6, FALSE, <<>>) /\ KeyComes(1, base) /\ StartComes(2, base) /\ UpdateComes(3, now)
           /\ InputComes(4, now) /\ EndComes(5, now) /\ LastComes(6, now)
  <2>1. e.type = "keydown" /\ e.data = <<>>
    BY <1>5, NativeParts DEF KeyComes, e
  <2>2. <<>> \o <<>> = <<>>
    OBVIOUS
  <2>3. isComposing' = FALSE /\ reported' = <<>> /\ compositions' = <<>>
    BY <1>3, <1>4, <1>5, <2>1, <2>2 DEF Awaits, CompositionTypes
  <2>4. Len(p) = 5 /\ p[1] = nativeEvents[2] /\ p[2] = nativeEvents[3] /\ p[3] = nativeEvents[4]
        /\ p[4] = nativeEvents[5] /\ p[5] = nativeEvents[6]
    BY <1>1, <1>5 DEF Awaits
  <2>5. Awaits(5, FALSE, <<>>)'
    BY <2>3, <2>4 DEF Awaits, p
  <2>6. StartComes(1, base)' /\ UpdateComes(2, now)' /\ InputComes(3, now)' /\ EndComes(4, now)' /\ LastComes(5, now)'
    BY <1>1, <1>5, <2>4 DEF StartComes, UpdateComes, InputComes, EndComes, LastComes, p
  <2> QED
    BY <1>1, <1>2, <2>5, <2>6 DEF InputComposes
<1>6. CASE Awaits(5, FALSE, <<>>) /\ StartComes(1, base) /\ UpdateComes(2, now)
           /\ InputComes(3, now) /\ EndComes(4, now) /\ LastComes(5, now)
  <2>1. e.type = "compositionstart" /\ e.data = <<>>
    BY <1>6, NativeParts DEF StartComes, e
  <2>2. <<>> \o <<"compositionstart">> = SaysBegun
    BY DEF SaysBegun
  <2>3. isComposing' = FALSE /\ reported' = <<>> /\ compositions' = SaysBegun
    BY <1>3, <1>4, <1>6, <2>1, <2>2 DEF Awaits, CompositionTypes
  <2>4. Len(p) = 4 /\ p[1] = nativeEvents[2] /\ p[2] = nativeEvents[3] /\ p[3] = nativeEvents[4]
        /\ p[4] = nativeEvents[5]
    BY <1>1, <1>6 DEF Awaits
  <2>5. Awaits(4, FALSE, SaysBegun)'
    BY <2>3, <2>4 DEF Awaits, SaysBegun, p
  <2>6. UpdateComes(1, now)' /\ InputComes(2, now)' /\ EndComes(3, now)' /\ LastComes(4, now)'
    BY <1>1, <1>6, <2>4 DEF StartComes, UpdateComes, InputComes, EndComes, LastComes, p
  <2> QED
    BY <1>1, <1>2, <2>5, <2>6 DEF InputComposes
<1>7. CASE Awaits(4, FALSE, SaysBegun) /\ UpdateComes(1, now)
           /\ InputComes(2, now) /\ EndComes(3, now) /\ LastComes(4, now)
  <2>1. e.type = "compositionupdate" /\ e.data = chars
    BY <1>7, NativeParts DEF UpdateComes, e, chars
  <2>2. SaysBegun \o <<"compositionupdate">> = SaysUpdated
    BY WordsAreJoined DEF SaysBegun, SaysUpdated
  <2>3. isComposing' = FALSE /\ reported' = <<>> /\ compositions' = SaysUpdated
    BY <1>3, <1>4, <1>7, <2>1, <2>2 DEF Awaits, CompositionTypes
  <2>4. Len(p) = 3 /\ p[1] = nativeEvents[2] /\ p[2] = nativeEvents[3] /\ p[3] = nativeEvents[4]
    BY <1>1, <1>7 DEF Awaits
  <2>5. Awaits(3, FALSE, SaysUpdated)'
    BY <2>3, <2>4 DEF Awaits, SaysUpdated, p
  <2>6. InputComes(1, now)' /\ EndComes(2, now)' /\ LastComes(3, now)'
    BY <1>1, <1>7, <2>4 DEF InputComes, EndComes, LastComes, p
  <2> QED
    BY <1>1, <1>2, <2>5, <2>6 DEF InputComposes
<1>8. CASE Awaits(3, FALSE, SaysUpdated) /\ InputComes(1, now) /\ EndComes(2, now) /\ LastComes(3, now)
  <2>1. e.type = "textInput" /\ e.data = chars
    BY <1>8, NativeParts DEF InputComes, e, chars
  <2>2. SaysUpdated \o <<>> = SaysUpdated /\ Append(<<>>, chars) = <<chars>>
    BY DEF SaysUpdated
  <2>3. isComposing' = FALSE /\ compositions' = SaysUpdated /\ reported' = (IF chars = <<>> THEN <<>> ELSE <<chars>>)
    BY <1>3, <1>4, <1>8, <2>1, <2>2 DEF Awaits, CompositionTypes
  <2>4. Len(p) = 2 /\ p[1] = nativeEvents[2] /\ p[2] = nativeEvents[3]
    BY <1>1, <1>8 DEF Awaits
  <2>5. EndComes(1, now)' /\ LastComes(2, now)'
    BY <1>1, <1>8, <2>4 DEF EndComes, LastComes, p
  <2> QED
    BY <1>1, <1>2, <2>3, <2>4, <2>5 DEF InputComposes, chars, p
<1>9. CASE /\ Len(nativeEvents) = 2 /\ ~isComposing /\ compositions = SaysUpdated
           /\ reported = (IF inserted.chars = <<>> THEN <<>> ELSE <<inserted.chars>>)
           /\ EndComes(1, now) /\ LastComes(2, now)
  <2>1. e.type = "compositionend" /\ e.data = chars
    BY <1>9, NativeParts DEF EndComes, e, chars
  <2>2. SaysUpdated \o <<"compositionend">> \in Compositions
    BY WordsAreJoined DEF SaysUpdated, Compositions
  <2>3. isComposing' = FALSE /\ compositions' \in Compositions /\ reported' = reported /\ hasSpaceKeypress' = sp
    BY <1>3, <1>4, <1>9, <2>1, <2>2 DEF CompositionTypes
  <2>4. Len(p) = 1 /\ p[1] = nativeEvents[2]
    BY <1>1, <1>9
  <2>5. IsQuiet(nativeEvents[2], sp) /\ nativeEvents[2].text = now
    BY <1>2, <1>9, LastIsQuiet
  <2>6. FinalText' = now
    <3>1. nativeEvents # <<>>
      BY <1>9
    <3> QED
      BY <1>1, <1>9, <2>5, <3>1 DEF FinalText
  <2>7. Composed(base, now)' /\ ExplainsText(chars, now)
    BY <1>1 DEF Composed, chars
  <2>8. \A i \in 1 .. Len(p) : IsQuiet(nativeEvents[i], hasSpaceKeypress)'
    <3>1. browser' = browser /\ IsQuiet(p[1], sp) /\ hasSpaceKeypress' = sp
      BY <1>1, <2>3, <2>4, <2>5
    <3>2. \A i \in 1 .. Len(p) : i = 1
      BY <2>4
    <3> QED
      BY <3>1, <3>2 DEF IsQuiet, p
  <2>9. reported' = (IF chars = <<>> THEN <<>> ELSE <<chars>>) /\ Len(chars) = Len(inserted'.chars)
    BY <1>1, <1>9, <2>3 DEF chars
  <2> HIDE DEF p
  <2>10. Told'
    <3>1. inserted'.chars = chars /\ inserted'.silent = FALSE /\ Len(chars) = Len(inserted'.chars)
      BY <1>1, <2>7, <2>9 DEF Composed, chars, TextTypes
    <3>2. chars # <<>> => Explained(FinalText)'
      BY <1>3, <2>6, <2>7, <2>9, <3>1 DEF Explained
    <3> QED
      BY <2>3, <2>9, <3>1, <3>2 DEF Told
  <2> QED
    BY <2>8, <2>10 DEF Rests, p
<1> QED
  BY <1>5, <1>6, <1>7, <1>8, <1>9 DEF InputComposes

(* Without textInput; what there is to be told once the composition ends.  *)
LEMMA EventsDo ==
  ASSUME ~browser.textInput, browser.composition, browser.fallback \in BOOLEAN, NEW e, NEW st, NEW sp \in BOOLEAN
  PROVE  /\ SpaceAfter(sp, e) = sp
         /\ e.type = "keydown" => /\ ComposingAfter(FALSE, e) = FALSE /\ EventsOf(FALSE, e) = <<>>
                                  /\ CharsOf(FALSE, st, sp, e) = <<>>
         /\ e.type = "compositionstart" =>
              /\ ComposingAfter(FALSE, e) = browser.fallback /\ EventsOf(FALSE, e) = <<"compositionstart">>
              /\ CharsOf(FALSE, st, sp, e) = <<>> /\ (browser.fallback => StartAfter(FALSE, st, e) = e.text)
         /\ e.type = "compositionupdate" =>
              /\ ComposingAfter(browser.fallback, e) = browser.fallback
              /\ EventsOf(browser.fallback, e) = <<"compositionupdate">>
              /\ CharsOf(browser.fallback, st, sp, e) = <<>> /\ StartAfter(browser.fallback, st, e) = st
         /\ e.type = "compositionend" =>
              /\ ComposingAfter(browser.fallback, e) = FALSE
              /\ EventsOf(browser.fallback, e) = <<"compositionend">>
              /\ CharsOf(browser.fallback, st, sp, e) = (IF browser.fallback THEN getData(st, e.text) ELSE e.data)
<1>1. SpaceAfter(sp, e) = sp
  BY DEF SpaceAfter
<1>2. CASE e.type = "keydown"
  <2>1. EventType(FALSE, e) = "" /\ ~Composing(FALSE, e) /\ ~Stops(FALSE, e)
    BY <1>2 DEF EventType, Composing, Begins, Stops
  <2> QED
    BY <1>1, <1>2, <2>1 DEF ComposingAfter, EventsOf, CharsOf
<1>3. CASE e.type = "compositionstart"
  <2>1. EventType(FALSE, e) = "compositionstart" /\ (Begins(FALSE, e) <=> browser.fallback) /\ ~Stops(FALSE, e)
    BY <1>3 DEF EventType, Begins, Stops
  <2>2. Composing(FALSE, e) <=> browser.fallback
    BY <2>1 DEF Composing
  <2>3. ComposingAfter(FALSE, e) = browser.fallback
    BY <2>1, <2>2 DEF ComposingAfter, Composing
  <2>4. CharsOf(FALSE, st, sp, e) = <<>>
    BY <1>3, <2>1, <2>2 DEF CharsOf
  <2> QED
    BY <1>1, <1>3, <2>1, <2>3, <2>4 DEF EventsOf, StartAfter, StartOf
<1>4. CASE e.type = "compositionupdate"
  <2>1. EventType(browser.fallback, e) = "compositionupdate" /\ ~Begins(browser.fallback, e) /\ ~Stops(browser.fallback, e)
    BY <1>4 DEF EventType, Begins, Stops
  <2>2. Composing(browser.fallback, e) <=> browser.fallback
    BY <2>1 DEF Composing
  <2>3. ComposingAfter(browser.fallback, e) = browser.fallback
    BY <2>1, <2>2 DEF ComposingAfter, Composing
  <2>4. CharsOf(browser.fallback, st, sp, e) = <<>>
    BY <1>4, <2>1, <2>2 DEF CharsOf
  <2> QED
    BY <1>1, <1>4, <2>1, <2>3, <2>4 DEF EventsOf, StartAfter, StartOf
<1>5. CASE e.type = "compositionend"
  <2>1. EventType(browser.fallback, e) = "compositionend" /\ ~Begins(browser.fallback, e)
    BY <1>5 DEF EventType, Begins
  <2>2. (Composing(browser.fallback, e) <=> browser.fallback) /\ (Stops(browser.fallback, e) <=> browser.fallback)
    BY <1>5, <2>1 DEF Composing, Stops
  <2>3. ComposingAfter(browser.fallback, e) = FALSE
    BY <2>2 DEF ComposingAfter
  <2>4. CharsOf(browser.fallback, st, sp, e) = (IF browser.fallback THEN getData(st, e.text) ELSE e.data)
    BY <1>5, <2>1, <2>2 DEF CharsOf, StartOf
  <2> QED
    BY <1>1, <1>5, <2>1, <2>3, <2>4 DEF EventsOf
<1> QED
  BY <1>1, <1>2, <1>3, <1>4, <1>5

LEMMA KeysDo ==
  ASSUME ~browser.textInput, ~browser.composition, browser.fallback, NEW e, NEW st, NEW sp \in BOOLEAN
  PROVE  /\ SpaceAfter(sp, e) = sp
         /\ isFallbackCompositionStart(e) =>
              /\ ComposingAfter(FALSE, e) = TRUE /\ EventsOf(FALSE, e) = <<"compositionstart">>
              /\ CharsOf(FALSE, st, sp, e) = <<>> /\ StartAfter(FALSE, st, e) = e.text
         /\ (~isFallbackCompositionEnd(e) /\ e.type # "compositionend") =>
              /\ ComposingAfter(TRUE, e) = TRUE /\ EventsOf(TRUE, e) = <<>>
              /\ CharsOf(TRUE, st, sp, e) = <<>> /\ StartAfter(TRUE, st, e) = st
         /\ isFallbackCompositionEnd(e) =>
              /\ ComposingAfter(TRUE, e) = FALSE /\ EventsOf(TRUE, e) = <<"compositionend">>
              /\ CharsOf(TRUE, st, sp, e) = getData(st, e.text)
<1>1. SpaceAfter(sp, e) = sp
  BY DEF SpaceAfter
<1>2. ASSUME isFallbackCompositionStart(e)
      PROVE  /\ ComposingAfter(FALSE, e) = TRUE /\ EventsOf(FALSE, e) = <<"compositionstart">>
             /\ CharsOf(FALSE, st, sp, e) = <<>> /\ StartAfter(FALSE, st, e) = e.text
  <2>1. EventType(FALSE, e) = "compositionstart" /\ Begins(FALSE, e) /\ ~Stops(FALSE, e)
    BY <1>2 DEF EventType, Begins, Stops, isFallbackCompositionStart, isFallbackCompositionEnd
  <2> QED
    BY <2>1 DEF ComposingAfter, Composing, EventsOf, CharsOf, StartAfter, StartOf
<1>3. ASSUME ~isFallbackCompositionEnd(e), e.type # "compositionend"
      PROVE  /\ ComposingAfter(TRUE, e) = TRUE /\ EventsOf(TRUE, e) = <<>>
             /\ CharsOf(TRUE, st, sp, e) = <<>> /\ StartAfter(TRUE, st, e) = st
  <2>1. EventType(TRUE, e) = "" /\ ~Begins(TRUE, e) /\ ~Stops(TRUE, e)
    BY <1>3 DEF EventType, Begins, Stops
  <2> QED
    BY <2>1 DEF ComposingAfter, Composing, EventsOf, CharsOf, StartAfter, StartOf
<1>4. ASSUME isFallbackCompositionEnd(e)
      PROVE  /\ ComposingAfter(TRUE, e) = FALSE /\ EventsOf(TRUE, e) = <<"compositionend">>
             /\ CharsOf(TRUE, st, sp, e) = getData(st, e.text)
  <2>1. EventType(TRUE, e) = "compositionend" /\ ~Begins(TRUE, e) /\ Stops(TRUE, e)
    BY <1>4 DEF EventType, Begins, Stops, Composing
  <2> QED
    BY <2>1 DEF ComposingAfter, Composing, EventsOf, CharsOf, StartOf
<1> QED
  BY <1>1, <1>2, <1>3, <1>4

(* The text that was composed is what the plugin finds.                    *)
LEMMA ComposedIsFound ==
  ASSUME NEW base, NEW now, Composed(base, now)
  PROVE  /\ getData(base, now) \in Seq(Characters) /\ Len(getData(base, now)) = Len(inserted.chars)
         /\ ExplainsText(getData(base, now), now)
<1>1. base \in Seq(Characters) /\ now \in Seq(Characters) /\ Len(inserted.chars) \in Nat
  BY DEF Composed
<1>2. PICK at \in 0 .. Len(base) : Grown(base, now, at, Len(inserted.chars))
  BY DEF Composed
<1> QED
  BY <1>1, <1>2, DataAreFound

LEMMA EventsAreComposed ==
  ASSUME TextTypes, NEW base, NEW now, Composed(base, now), EventsCompose(base, now), DispatchNative
  PROVE  EventsCompose(base, now)' \/ Rests'
<1> DEFINE e == nativeEvents[1]
           p == nativeEvents'
           sp == hasSpaceKeypress
           st == startText
           chars == inserted.chars
<1>1. /\ isComposing' = ComposingAfter(isComposing, e) /\ startText' = StartAfter(isComposing, st, e)
      /\ hasSpaceKeypress' = SpaceAfter(sp, e)
      /\ reported' = (IF CharsOf(isComposing, st, sp, e) = <<>> THEN reported
                      ELSE Append(reported, CharsOf(isComposing, st, sp, e)))
      /\ compositions' = compositions \o EventsOf(isComposing, e)
      /\ browser' = browser /\ inserted' = inserted /\ FinalText' = FinalText /\ Len(p) = Len(nativeEvents) - 1
      /\ \A i \in 1 .. Len(nativeEvents) - 1 : p[i] = nativeEvents[i + 1]
  BY NextIsDispatched
<1>2. /\ ~browser.textInput /\ browser.composition /\ browser.fallback \in BOOLEAN
      /\ sp \in BOOLEAN /\ isComposing \in BOOLEAN /\ isComposing' \in BOOLEAN
  <2>1. browser \in Browsers /\ sp \in BOOLEAN /\ isComposing \in BOOLEAN
    BY DEF TextTypes
  <2>2. isComposing' \in BOOLEAN
    BY <1>1 DEF ComposingAfter, Composing, Begins
  <2> QED
    BY <2>1, <2>2, TextAssumption DEF EventsCompose
<1> HIDE DEF e, p, sp, st, chars
<1>4. CASE Awaits(5, FALSE, <<>>) /\ KeyComes(1, base) /\ StartComes(2, base) /\ UpdateComes(3, now)
           /\ EndComes(4, now) /\ LastComes(5, now)
  <2>1. e.type = "keydown"
    BY <1>4, NativeParts DEF KeyComes, e
  <2>2. <<>> \o <<>> = <<>>
    OBVIOUS
  <2>3. ComposingAfter(FALSE, e) = FALSE /\ EventsOf(FALSE, e) = <<>> /\ CharsOf(FALSE, st, sp, e) = <<>>
    BY <1>2, <2>1, EventsDo
  <2>4. isComposing' = FALSE /\ reported' = <<>> /\ compositions' = <<>>
    BY <1>1, <1>2, <1>4, <2>1, <2>2, <2>3 DEF Awaits
  <2>5. Len(p) = 4 /\ p[1] = nativeEvents[2] /\ p[2] = nativeEvents[3] /\ p[3] = nativeEvents[4] /\ p[4] = nativeEvents[5]
    BY <1>1, <1>4 DEF Awaits
  <2>6. StartComes(1, base)' /\ UpdateComes(2, now)' /\ EndComes(3, now)' /\ LastComes(4, now)'
    BY <1>1, <1>4, <2>5 DEF StartComes, UpdateComes, EndComes, LastComes, p
  <2>7. Awaits(4, FALSE, <<>>)'
    BY <1>1, <2>4, <2>5 DEF Awaits, SaysBegun, SaysUpdated, p
  <2> QED
    BY <1>1, <1>2, <2>4, <2>6, <2>7 DEF EventsCompose
<1>5. CASE Awaits(4, FALSE, <<>>) /\ StartComes(1, base) /\ UpdateComes(2, now)
           /\ EndComes(3, now) /\ LastComes(4, now)
  <2>1. e.type = "compositionstart" /\ e.text = base
    BY <1>5, NativeParts DEF StartComes, e
  <2>2. <<>> \o <<"compositionstart">> = SaysBegun
    BY DEF SaysBegun
  <2>3. /\ ComposingAfter(FALSE, e) = browser.fallback /\ EventsOf(FALSE, e) = <<"compositionstart">>
        /\ CharsOf(FALSE, st, sp, e) = <<>> /\ (browser.fallback => StartAfter(FALSE, st, e) = e.text)
    BY <1>2, <2>1, EventsDo
  <2>4. /\ isComposing' = browser.fallback /\ reported' = <<>> /\ compositions' = SaysBegun
        /\ (browser.fallback => startText' = base)
    BY <1>1, <1>2, <1>5, <2>1, <2>2, <2>3 DEF Awaits
  <2>5. Len(p) = 3 /\ p[1] = nativeEvents[2] /\ p[2] = nativeEvents[3] /\ p[3] = nativeEvents[4]
    BY <1>1, <1>5 DEF Awaits
  <2>6. UpdateComes(1, now)' /\ EndComes(2, now)' /\ LastComes(3, now)'
    BY <1>1, <1>5, <2>5 DEF UpdateComes, EndComes, LastComes, p
  <2>7. Awaits(3, browser.fallback, SaysBegun)'
    BY <1>1, <2>4, <2>5 DEF Awaits, SaysBegun, SaysUpdated, p
  <2> QED
    BY <1>1, <1>2, <2>4, <2>6, <2>7 DEF EventsCompose
<1>6. CASE /\ Awaits(3, browser.fallback, SaysBegun) /\ (browser.fallback => startText = base)
           /\ UpdateComes(1, now) /\ EndComes(2, now) /\ LastComes(3, now)
  <2>1. e.type = "compositionupdate"
    BY <1>6, NativeParts DEF UpdateComes, e
  <2>2. SaysBegun \o <<"compositionupdate">> = SaysUpdated
    BY WordsAreJoined DEF SaysBegun, SaysUpdated
  <2>3. /\ ComposingAfter(browser.fallback, e) = browser.fallback
        /\ EventsOf(browser.fallback, e) = <<"compositionupdate">>
        /\ CharsOf(browser.fallback, st, sp, e) = <<>> /\ StartAfter(browser.fallback, st, e) = st
    BY <1>2, <2>1, EventsDo
  <2>4. /\ isComposing' = browser.fallback /\ reported' = <<>> /\ compositions' = SaysUpdated
        /\ (browser.fallback => startText' = base)
    BY <1>1, <1>2, <1>6, <2>1, <2>2, <2>3 DEF Awaits, st
  <2>5. Len(p) = 2 /\ p[1] = nativeEvents[2] /\ p[2] = nativeEvents[3]
    BY <1>1, <1>6 DEF Awaits
  <2>6. EndComes(1, now)' /\ LastComes(2, now)'
    BY <1>1, <1>6, <2>5 DEF EndComes, LastComes, p
  <2>7. Awaits(2, browser.fallback, SaysUpdated)'
    BY <1>1, <2>4, <2>5 DEF Awaits, SaysBegun, SaysUpdated, p
  <2> QED
    BY <1>1, <1>2, <2>4, <2>6, <2>7 DEF EventsCompose
<1>7. CASE /\ Awaits(2, browser.fallback, SaysUpdated) /\ (browser.fallback => startText = base)
           /\ EndComes(1, now) /\ LastComes(2, now)
  <2> DEFINE data == IF browser.fallback THEN getData(base, now) ELSE chars
  <2>1. e.type = "compositionend" /\ e.data = chars /\ e.text = now
    BY <1>7, NativeParts DEF EndComes, e, chars
  <2>2. SaysUpdated \o <<"compositionend">> \in Compositions
    BY WordsAreJoined DEF SaysUpdated, Compositions
  <2>3. /\ ComposingAfter(browser.fallback, e) = FALSE /\ EventsOf(browser.fallback, e) = <<"compositionend">>
        /\ CharsOf(browser.fallback, st, sp, e) = (IF browser.fallback THEN getData(st, e.text) ELSE e.data)
        /\ SpaceAfter(sp, e) = sp
    BY <1>2, <2>1, EventsDo
  <2>4. CharsOf(isComposing, st, sp, e) = data
    BY <1>7, <2>1, <2>3 DEF Awaits, st
  <2>5. /\ chars \in Seq(Characters) /\ chars \in Seq(Letters) /\ ExplainsText(chars, now) /\ ~inserted.silent
        /\ getData(base, now) \in Seq(Characters) /\ Len(getData(base, now)) = Len(chars)
        /\ ExplainsText(getData(base, now), now)
    BY ComposedIsFound, LetterTexts DEF Composed, chars
  <2>6. data \in Seq(Characters) /\ Len(data) = Len(chars) /\ ExplainsText(data, now)
    BY <2>5
  <2> HIDE DEF data
  <2>7. /\ isComposing' = FALSE /\ compositions' \in Compositions /\ hasSpaceKeypress' = sp
        /\ reported' = (IF data = <<>> THEN <<>> ELSE <<data>>)
    <3>1. Append(<<>>, data) = <<data>>
      OBVIOUS
    <3> QED
      BY <1>1, <1>7, <2>2, <2>3, <2>4, <3>1 DEF Awaits
  <2>8. IsQuiet(nativeEvents[2], sp) /\ nativeEvents[2].text = now /\ Len(p) = 1 /\ p[1] = nativeEvents[2]
    BY <1>1, <1>2, <1>7, LastIsQuiet DEF Awaits
  <2>9. FinalText' = now
    <3>1. nativeEvents # <<>> /\ Len(nativeEvents) = 2
      BY <1>7 DEF Awaits
    <3> QED
      BY <1>1, <2>8, <3>1 DEF FinalText
  <2>10. Told'
    <3>1. inserted'.chars = chars /\ ~inserted'.silent
      BY <1>1, <2>5 DEF chars
    <3>2. data = <<>> <=> chars = <<>>
      BY <2>5, <2>6
    <3>3. data # <<>> => Explained(FinalText)'
      BY <2>6, <2>7, <2>9, <3>1 DEF Explained
    <3> QED
      BY <2>7, <3>1, <3>2, <3>3 DEF Told
  <2>11. \A i \in 1 .. Len(p) : IsQuiet(nativeEvents[i], hasSpaceKeypress)'
    <3>1. browser' = browser /\ IsQuiet(p[1], sp) /\ hasSpaceKeypress' = sp
      BY <1>1, <2>7, <2>8
    <3>2. \A i \in 1 .. Len(p) : i = 1
      BY <2>8
    <3> QED
      BY <3>1, <3>2 DEF IsQuiet, p
  <2> QED
    BY <2>10, <2>11 DEF Rests, p
<1> QED
  BY <1>4, <1>5, <1>6, <1>7 DEF EventsCompose

LEMMA KeysAreComposed ==
  ASSUME TextTypes, NEW base, NEW now, Composed(base, now), KeysCompose(base, now), DispatchNative
  PROVE  KeysCompose(base, now)' \/ Rests'
<1> DEFINE e == nativeEvents[1]
           p == nativeEvents'
           sp == hasSpaceKeypress
           st == startText
           chars == inserted.chars
<1>1. /\ isComposing' = ComposingAfter(isComposing, e) /\ startText' = StartAfter(isComposing, st, e)
      /\ hasSpaceKeypress' = SpaceAfter(sp, e)
      /\ reported' = (IF CharsOf(isComposing, st, sp, e) = <<>> THEN reported
                      ELSE Append(reported, CharsOf(isComposing, st, sp, e)))
      /\ compositions' = compositions \o EventsOf(isComposing, e)
      /\ browser' = browser /\ inserted' = inserted /\ FinalText' = FinalText /\ Len(p) = Len(nativeEvents) - 1
      /\ \A i \in 1 .. Len(nativeEvents) - 1 : p[i] = nativeEvents[i + 1]
  BY NextIsDispatched
<1>2. ~browser.textInput /\ ~browser.composition /\ browser.fallback /\ sp \in BOOLEAN
  BY DEF TextTypes, KeysCompose
<1> HIDE DEF e, p, sp, st, chars
<1>3. CASE Awaits(4, FALSE, <<>>) /\ KeyComes(1, base) /\ Is(nativeEvents[2], "keyup", "method", <<>>, now)
           /\ KeyComes(3, now) /\ LastComes(4, now)
  <2>1. e.type = "keydown" /\ e.key = "method" /\ e.text = base
    BY <1>3, NativeParts DEF KeyComes, e
  <2>2. <<>> \o <<"compositionstart">> = SaysBegun
    BY DEF SaysBegun
  <2>3. ComposingAfter(FALSE, e) = TRUE /\ EventsOf(FALSE, e) = <<"compositionstart">>
        /\ CharsOf(FALSE, st, sp, e) = <<>> /\ StartAfter(FALSE, st, e) = e.text
    BY <1>2, <2>1, KeysDo DEF isFallbackCompositionStart
  <2>4. isComposing' = TRUE /\ reported' = <<>> /\ compositions' = SaysBegun /\ startText' = base
    BY <1>1, <1>2, <1>3, <2>1, <2>2, <2>3 DEF Awaits
  <2>5. Len(p) = 3 /\ p[1] = nativeEvents[2] /\ p[2] = nativeEvents[3] /\ p[3] = nativeEvents[4]
    BY <1>1, <1>3 DEF Awaits
  <2>6. Is(nativeEvents[1], "keyup", "method", <<>>, now)' /\ KeyComes(2, now)' /\ LastComes(3, now)'
    BY <1>1, <1>3, <2>5 DEF Is, KeyComes, LastComes, p
  <2>7. Awaits(3, TRUE, SaysBegun)'
    BY <1>1, <2>4, <2>5 DEF Awaits, SaysBegun, SaysUpdated, p
  <2> QED
    BY <1>1, <1>2, <2>4, <2>6, <2>7 DEF KeysCompose
<1>4. CASE /\ Awaits(3, TRUE, SaysBegun) /\ startText = base /\ Is(nativeEvents[1], "keyup", "method", <<>>, now)
           /\ KeyComes(2, now) /\ LastComes(3, now)
  <2>1. e.type = "keyup" /\ e.key = "method"
    BY <1>4, NativeParts DEF e
  <2>2. SaysBegun \o <<>> = SaysBegun
    BY DEF SaysBegun
  <2>3. ComposingAfter(TRUE, e) = TRUE /\ EventsOf(TRUE, e) = <<>> /\ CharsOf(TRUE, st, sp, e) = <<>>
        /\ StartAfter(TRUE, st, e) = st
    BY <1>2, <2>1, KeysDo DEF isFallbackCompositionEnd
  <2>4. isComposing' = TRUE /\ reported' = <<>> /\ compositions' = SaysBegun /\ startText' = base
    BY <1>1, <1>2, <1>4, <2>1, <2>2, <2>3 DEF Awaits, st
  <2>5. Len(p) = 2 /\ p[1] = nativeEvents[2] /\ p[2] = nativeEvents[3]
    BY <1>1, <1>4 DEF Awaits
  <2>6. KeyComes(1, now)' /\ LastComes(2, now)'
    BY <1>1, <1>4, <2>5 DEF Is, KeyComes, LastComes, p
  <2>7. Awaits(2, TRUE, SaysBegun)'
    BY <1>1, <2>4, <2>5 DEF Awaits, SaysBegun, SaysUpdated, p
  <2> QED
    BY <1>1, <1>2, <2>4, <2>6, <2>7 DEF KeysCompose
<1>5. CASE Awaits(2, TRUE, SaysBegun) /\ startText = base /\ KeyComes(1, now) /\ LastComes(2, now)
  <2>1. e.type = "keydown" /\ e.key = "method"
    BY <1>5, NativeParts DEF KeyComes, e
  <2>2. SaysBegun \o <<>> = SaysBegun
    BY DEF SaysBegun
  <2>3. ComposingAfter(TRUE, e) = TRUE /\ EventsOf(TRUE, e) = <<>> /\ CharsOf(TRUE, st, sp, e) = <<>>
        /\ StartAfter(TRUE, st, e) = st
    BY <1>2, <2>1, KeysDo DEF isFallbackCompositionEnd
  <2>4. isComposing' = TRUE /\ reported' = <<>> /\ compositions' = SaysBegun /\ startText' = base
    BY <1>1, <1>2, <1>5, <2>1, <2>2, <2>3 DEF Awaits, st
  <2>5. Len(p) = 1 /\ p[1] = nativeEvents[2]
    BY <1>1, <1>5 DEF Awaits
  <2>6. LastComes(1, now)'
    BY <1>1, <1>5, <2>5 DEF Is, KeyComes, LastComes, p
  <2>7. Awaits(1, TRUE, SaysBegun)'
    BY <1>1, <2>4, <2>5 DEF Awaits, SaysBegun, SaysUpdated, p
  <2> QED
    BY <1>1, <1>2, <2>4, <2>6, <2>7 DEF KeysCompose
<1>6. CASE Awaits(1, TRUE, SaysBegun) /\ startText = base /\ LastComes(1, now)
  <2> DEFINE data == getData(base, now)
  <2>0. PICK ends \in Ends : Is(e, ends, LastKey(ends), <<>>, now)
    BY <1>6 DEF LastComes, e
  <2>1. e.type = ends /\ e.key = LastKey(ends) /\ e.text = now
    BY <2>0, NativeParts
  <2>2. SaysBegun \o <<"compositionend">> \in Compositions
    BY WordsAreJoined DEF SaysBegun, Compositions
  <2>3. isFallbackCompositionEnd(e)
    BY <2>1 DEF isFallbackCompositionEnd, LastKey, Ends
  <2>4. /\ ComposingAfter(TRUE, e) = FALSE /\ EventsOf(TRUE, e) = <<"compositionend">>
        /\ CharsOf(TRUE, st, sp, e) = getData(st, e.text)
    BY <1>2, <2>3, KeysDo
  <2>5. CharsOf(isComposing, st, sp, e) = data /\ isComposing = TRUE
    BY <1>6, <2>1, <2>4 DEF Awaits, st
  <2>6. /\ chars \in Seq(Letters) /\ ~inserted.silent
        /\ data \in Seq(Characters) /\ Len(data) = Len(chars) /\ ExplainsText(data, now)
    BY ComposedIsFound DEF Composed, chars
  <2> HIDE DEF data
  <2>7. /\ isComposing' = FALSE /\ compositions' \in Compositions
        /\ reported' = (IF data = <<>> THEN <<>> ELSE <<data>>)
    <3>1. Append(<<>>, data) = <<data>>
      OBVIOUS
    <3> QED
      BY <1>1, <1>6, <2>2, <2>4, <2>5, <3>1 DEF Awaits
  <2>8. Len(p) = 0 /\ FinalText' = now
    <3>1. nativeEvents # <<>> /\ Len(nativeEvents) = 1
      BY <1>6 DEF Awaits
    <3> QED
      BY <1>1, <2>1, <3>1 DEF FinalText, e
  <2>10. Told'
    <3>1. inserted'.chars = chars /\ ~inserted'.silent
      BY <1>1, <2>6 DEF chars
    <3>2. data = <<>> <=> chars = <<>>
      BY <2>6
    <3>3. data # <<>> => Explained(FinalText)'
      BY <2>6, <2>7, <2>8, <3>1 DEF Explained
    <3> QED
      BY <2>7, <3>1, <3>2, <3>3 DEF Told
  <2> QED
    BY <2>8, <2>10 DEF Rests, p
<1> QED
  BY <1>3, <1>4, <1>5, <1>6 DEF KeysCompose

LEMMA CompositionGoesOn == ASSUME TextTypes, InComposition, DispatchNative PROVE InComposition' \/ Rests'
<1>1. PICK base, now : /\ Composed(base, now)
                       /\ InputComposes(base, now) \/ EventsCompose(base, now) \/ KeysCompose(base, now)
  BY DEF InComposition
<1>2. Composed(base, now)'
  <2>1. inserted' = inserted
    BY NextIsDispatched
  <2> QED
    BY <1>1, <2>1 DEF Composed
<1>3. InputComposes(base, now)' \/ EventsCompose(base, now)' \/ KeysCompose(base, now)' \/ Rests'
  BY <1>1, InputIsComposed, EventsAreComposed, KeysAreComposed
<1> QED
  BY <1>2, <1>3 DEF InComposition

TextInv == TextTypes /\ (Rests \/ TypingIsDue \/ InComposition)

LEMMA EventsAreNative ==
  ASSUME NEW type \in NativeTypes, NEW key \in Keys, NEW data \in Seq(Characters), NEW now \in Seq(Characters)
  PROVE  Native(type, key, data, now) \in Natives
BY DEF Native, Natives

LEMMA QueuesAreSequences ==
  ASSUME NEW V, NEW a \in V, NEW b \in V, NEW c \in V, NEW d \in V, NEW e \in V, NEW f \in V
  PROVE  /\ <<a, b>> \in Seq(V) /\ <<a, b, c>> \in Seq(V) /\ <<a, b, c, d>> \in Seq(V)
         /\ <<a, b, c, d, e>> \in Seq(V) /\ <<a, b, c, d, e, f>> \in Seq(V)
OBVIOUS

(* The field is idle when the user does something.                         *)
LEMMA IdleAtFirst ==
  ASSUME TextInv, nativeEvents = <<>>
  PROVE  Told /\ isComposing = FALSE /\ FinalText = fieldText
<1>1. ~TypingIsDue
  BY DEF TypingIsDue
<1>2. ~InComposition
  BY DEF InComposition, InputComposes, EventsCompose, KeysCompose, Awaits
<1>3. Rests /\ isComposing \in BOOLEAN
  BY <1>1, <1>2 DEF TextInv, TextTypes
<1> QED
  BY <1>3 DEF Rests, Told, FinalText

LEMMA DoingKeepsTypes ==
  ASSUME TextInv, NEW events \in Seq(Natives), NEW chars \in Seq(Characters), NEW silent \in BOOLEAN,
         UserDoes(events, chars, silent)
  PROVE  /\ TextTypes' /\ nativeEvents' = events /\ inserted'.chars = chars /\ inserted'.silent = silent
         /\ reported' = <<>> /\ compositions' = <<>> /\ isComposing' = FALSE
         /\ browser' = browser /\ hasSpaceKeypress' = hasSpaceKeypress
         /\ browser \in Browsers /\ hasSpaceKeypress \in BOOLEAN /\ fieldText \in Seq(Characters)
         /\ (events # <<>> => FinalText' = events[Len(events)].text)
<1>1. isComposing = FALSE
  BY IdleAtFirst DEF UserDoes
<1>2. /\ nativeEvents' = events /\ inserted' = [chars |-> chars, silent |-> silent]
      /\ reported' = <<>> /\ compositions' = <<>>
      /\ UNCHANGED <<browser, nested, fieldText, isComposing, hasSpaceKeypress, startText>>
  BY DEF UserDoes
<1>3. inserted'.chars = chars /\ inserted'.silent = silent
  BY <1>2
<1>4. TextTypes'
  BY <1>2, <1>3 DEF TextInv, TextTypes
<1>5. events # <<>> => FinalText' = events[Len(events)].text
  BY <1>2 DEF FinalText
<1> QED
  BY <1>1, <1>2, <1>3, <1>4, <1>5 DEF TextInv, TextTypes

LEMMA TellingIsNext ==
  ASSUME NEW k, NEW q, NEW sp, NEW chars, browser' = browser, nativeEvents' = q, hasSpaceKeypress' = sp,
         inserted'.chars = chars, Tells(q[k], sp), q[k].data = chars,
         \A i \in 1 .. k - 1 : IsQuiet(q[i], sp),
         \A i \in k + 1 .. Len(q) : IsQuiet(q[i], sp) \/ Repeats(q[k], q[i])
  PROVE  TellsAt(k)'
<1>1. Tells(nativeEvents[k], hasSpaceKeypress)' /\ (nativeEvents[k].data = inserted.chars)'
  BY DEF Tells
<1>2. \A i \in 1 .. k - 1 : IsQuiet(nativeEvents[i], hasSpaceKeypress)'
  BY DEF IsQuiet
<1>3. \A i \in k + 1 .. Len(nativeEvents') :
        IsQuiet(nativeEvents[i], hasSpaceKeypress)' \/ Repeats(nativeEvents[k], nativeEvents[i])'
  BY DEF IsQuiet, Repeats
<1> QED
  BY <1>1, <1>2, <1>3 DEF TellsAt

LEMMA LettersAreTold ==
  ASSUME TextInv, NEW c \in Characters, NEW at \in 0 .. Len(fieldText), TypesLetter(c, at)
  PROVE  TextInv'
<1> DEFINE now == WithText(<<c>>, at)
           down == Native("keydown", "letter", NoChars, fieldText)
           press == Native("keypress", c, <<c>>, fieldText)
           input == Native("textInput", "", <<c>>, fieldText)
           up == Native("keyup", "letter", NoChars, now)
           events == IF browser.textInput THEN <<down, press, input, up>> ELSE <<down, press, up>>
           sp == hasSpaceKeypress
<1>1. fieldText \in Seq(Characters) /\ <<c>> \in Seq(Characters) /\ NoChars \in Seq(Characters) /\ <<c>> # <<>>
  BY DEF TextInv, TextTypes, NoChars
<1>2. now \in Seq(Characters) /\ ExplainsText(<<c>>, now)
  BY <1>1, TextGrows
<1> HIDE DEF now
<1>3. down \in Natives /\ press \in Natives /\ input \in Natives /\ up \in Natives
  <2>1. /\ "keydown" \in NativeTypes /\ "keypress" \in NativeTypes /\ "textInput" \in NativeTypes /\ "keyup" \in NativeTypes
        /\ "letter" \in Keys /\ c \in Keys /\ "" \in Keys
    BY DEF NativeTypes, Keys
  <2>2. down \in Natives /\ up \in Natives
    BY <1>1, <1>2, <2>1, EventsAreNative
  <2>3. press \in Natives
    BY <1>1, <2>1, EventsAreNative
  <2>4. input \in Natives
    BY <1>1, <2>1, EventsAreNative
  <2> QED
    BY <2>2, <2>3, <2>4
<1>4. /\ down.type = "keydown" /\ down.key = "letter" /\ up.type = "keyup" /\ up.text = now
      /\ press.type = "keypress" /\ press.key = c /\ press.data = <<c>>
      /\ input.type = "textInput" /\ input.data = <<c>>
  BY DEF Native
<1> HIDE DEF down, press, input, up
<1>5. events \in Seq(Natives) /\ events # <<>> /\ events[Len(events)] = up
  BY <1>3, QueuesAreSequences
<1>6. UserDoes(events, <<c>>, FALSE)
  BY DEF TypesLetter, now, down, press, input, up
<1>7. /\ TextTypes' /\ nativeEvents' = events /\ inserted'.chars = <<c>> /\ inserted'.silent = FALSE
      /\ reported' = <<>> /\ compositions' = <<>> /\ isComposing' = FALSE
      /\ browser' = browser /\ hasSpaceKeypress' = sp /\ FinalText' = now
  BY <1>1, <1>4, <1>5, <1>6, DoingKeepsTypes
<1>8. c # "command"
  BY TextAssumption DEF Characters
<1>9. \E k \in 1 .. Len(nativeEvents') : TellsAt(k)'
  <2>1. CASE browser.textInput /\ c # Space
    <3>1. <<c>> # <<Space>>
      BY <2>1
    <3>2. events = <<down, press, input, up>>
      BY <2>1
    <3>3. Tells(input, sp) /\ IsQuiet(down, sp) /\ IsQuiet(press, sp) /\ IsQuiet(up, sp)
      BY <1>4, <2>1, <3>1 DEF Tells, IsQuiet
    <3> HIDE DEF events, sp
    <3>4. /\ Len(events) = 4 /\ events[1] = down /\ events[2] = press /\ events[3] = input /\ events[4] = up
      BY <3>2
    <3>5. Tells(events[3], sp) /\ events[3].data = <<c>>
      BY <1>4, <3>3, <3>4
    <3>6. \A i \in 1 .. 3 - 1 : IsQuiet(events[i], sp)
      BY <3>3, <3>4
    <3>7. \A i \in 3 + 1 .. Len(events) : IsQuiet(events[i], sp)
      BY <3>3, <3>4
    <3>8. TellsAt(3)'
      BY <1>7, <3>5, <3>6, <3>7, TellingIsNext
    <3> QED
      BY <1>7, <3>4, <3>8
  <2>2. CASE browser.textInput /\ c = Space
    <3>1. events = <<down, press, input, up>>
      BY <2>2
    <3>2. Tells(press, sp) /\ IsQuiet(down, sp) /\ Repeats(press, input) /\ IsQuiet(up, sp)
      BY <1>4, <2>2 DEF Tells, IsQuiet, Repeats
    <3> HIDE DEF events, sp
    <3>3. /\ Len(events) = 4 /\ events[1] = down /\ events[2] = press /\ events[3] = input /\ events[4] = up
      BY <3>1
    <3>4. Tells(events[2], sp) /\ events[2].data = <<c>>
      BY <1>4, <3>2, <3>3
    <3>5. \A i \in 1 .. 2 - 1 : IsQuiet(events[i], sp)
      BY <3>2, <3>3
    <3>6. \A i \in 2 + 1 .. Len(events) : IsQuiet(events[i], sp) \/ Repeats(events[2], events[i])
      BY <3>2, <3>3
    <3>7. TellsAt(2)'
      BY <1>7, <3>4, <3>5, <3>6, TellingIsNext
    <3> QED
      BY <1>7, <3>3, <3>7
  <2>3. CASE ~browser.textInput
    <3>1. events = <<down, press, up>>
      BY <2>3
    <3>2. Tells(press, sp) /\ IsQuiet(down, sp) /\ IsQuiet(up, sp)
      BY <1>4, <1>8, <2>3 DEF Tells, IsQuiet
    <3> HIDE DEF events, sp
    <3>3. /\ Len(events) = 3 /\ events[1] = down /\ events[2] = press /\ events[3] = up
      BY <3>1
    <3>4. Tells(events[2], sp) /\ events[2].data = <<c>>
      BY <1>4, <3>2, <3>3
    <3>5. \A i \in 1 .. 2 - 1 : IsQuiet(events[i], sp)
      BY <3>2, <3>3
    <3>6. \A i \in 2 + 1 .. Len(events) : IsQuiet(events[i], sp)
      BY <3>2, <3>3
    <3>7. TellsAt(2)'
      BY <1>7, <3>4, <3>5, <3>6, TellingIsNext
    <3> QED
      BY <1>7, <3>3, <3>7
  <2> QED
    BY <2>1, <2>2, <2>3
<1> HIDE DEF events, sp
<1>10. TypingIsDue'
  BY <1>1, <1>2, <1>7, <1>9 DEF TypingIsDue, Untold
<1> QED
  BY <1>7, <1>10 DEF TextInv

LEMMA UnseenIsTold ==
  ASSUME TextInv, NEW c \in Characters, NEW at \in 0 .. Len(fieldText), TypesUnseen(c, at)
  PROVE  TextInv'
<1> DEFINE now == WithText(<<c>>, at)
           down == Native("keydown", "method", NoChars, fieldText)
           input == Native("textInput", "", <<c>>, fieldText)
           up == Native("keyup", "method", NoChars, now)
           events == <<down, input, up>>
           sp == hasSpaceKeypress
           silent == c = Space /\ sp
<1>1. fieldText \in Seq(Characters) /\ <<c>> \in Seq(Characters) /\ NoChars \in Seq(Characters) /\ <<c>> # <<>>
  BY DEF TextInv, TextTypes, NoChars
<1>2. now \in Seq(Characters) /\ ExplainsText(<<c>>, now)
  BY <1>1, TextGrows
<1> HIDE DEF now
<1>3. down \in Natives /\ input \in Natives /\ up \in Natives
  <2>1. /\ "keydown" \in NativeTypes /\ "textInput" \in NativeTypes /\ "keyup" \in NativeTypes
        /\ "method" \in Keys /\ "" \in Keys
    BY DEF NativeTypes, Keys
  <2>2. down \in Natives /\ up \in Natives
    BY <1>1, <1>2, <2>1, EventsAreNative
  <2>3. input \in Natives
    BY <1>1, <2>1, EventsAreNative
  <2> QED
    BY <2>2, <2>3
<1>4. /\ down.type = "keydown" /\ up.type = "keyup" /\ up.text = now
      /\ input.type = "textInput" /\ input.data = <<c>>
  BY DEF Native
<1> HIDE DEF down, input, up
<1>5. /\ events \in Seq(Natives) /\ events # <<>> /\ Len(events) = 3
      /\ events[1] = down /\ events[2] = input /\ events[3] = up
  BY <1>3, QueuesAreSequences
<1>6. UserDoes(events, <<c>>, silent) /\ browser.textInput
  BY DEF TypesUnseen, now, down, input, up
<1> HIDE DEF events, silent, sp
<1>7. silent \in BOOLEAN /\ (silent <=> c = Space /\ sp) /\ sp \in BOOLEAN
  BY DEF silent, sp, TextInv, TextTypes
<1>8a. /\ TextTypes' /\ nativeEvents' = events /\ inserted'.chars = <<c>> /\ inserted'.silent = silent
       /\ reported' = <<>> /\ compositions' = <<>> /\ isComposing' = FALSE
       /\ browser' = browser /\ hasSpaceKeypress' = sp /\ FinalText' = now /\ browser \in Browsers
  BY <1>1, <1>4, <1>5, <1>6, <1>7, DoingKeepsTypes DEF sp
<1>8. /\ TextTypes' /\ nativeEvents' = events /\ inserted'.chars = <<c>>
      /\ reported' = <<>> /\ compositions' = <<>> /\ isComposing' = FALSE
      /\ browser' = browser /\ hasSpaceKeypress' = sp /\ FinalText' = now /\ browser \in Browsers
  BY <1>8a, Zenon
<1>9. browser.composition /\ IsQuiet(down, sp) /\ IsQuiet(up, sp)
  BY <1>4, <1>6, <1>8, TextAssumption DEF IsQuiet
<1>10. CASE silent
  <2>1. IsQuiet(input, sp)
    BY <1>4, <1>6, <1>7, <1>10 DEF IsQuiet
  <2>2. \A i \in 1 .. Len(events) : IsQuiet(events[i], sp)
    BY <1>5, <1>9, <2>1
  <2>3. \A i \in 1 .. Len(nativeEvents') : IsQuiet(nativeEvents[i], hasSpaceKeypress)'
    BY <1>8, <2>2 DEF IsQuiet
  <2>4. Told'
    <3>1. inserted'.silent
      BY <1>8a, <1>10, Zenon
    <3> QED
      BY <1>8, <3>1 DEF Told, Compositions
  <2> QED
    BY <1>8, <2>3, <2>4 DEF TextInv, Rests
<1>11. CASE ~silent
  <2>1. ~(<<c>> = <<Space>> /\ sp)
    BY <1>7, <1>11
  <2>2. Tells(events[2], sp) /\ events[2].data = <<c>>
    BY <1>4, <1>5, <1>6, <2>1 DEF Tells
  <2>3. \A i \in 1 .. 2 - 1 : IsQuiet(events[i], sp)
    BY <1>5, <1>9
  <2>4. \A i \in 2 + 1 .. Len(events) : IsQuiet(events[i], sp)
    BY <1>5, <1>9
  <2>5. TellsAt(2)'
    BY <1>8, <2>2, <2>3, <2>4, TellingIsNext
  <2>6. ~inserted'.silent
    BY <1>8a, <1>11, Zenon
  <2>6a. /\ 2 \in 1 .. Len(nativeEvents') /\ inserted'.chars = <<c>> /\ FinalText' = now
         /\ reported' = <<>> /\ compositions' = <<>> /\ ~isComposing'
    BY <1>5, <1>8
  <2>6b. Untold'
    BY <2>6, <2>6a, Zenon DEF Untold
  <2>7. TypingIsDue'
    BY <1>1, <1>2, <2>5, <2>6a, <2>6b DEF TypingIsDue
  <2> QED
    BY <1>8, <2>7 DEF TextInv
<1> QED
  BY <1>10, <1>11

LEMMA CommandsAreNotTold == ASSUME TextInv, PressesCommand PROVE TextInv'
<1> DEFINE down == Native("keydown", "letter", NoChars, fieldText)
           press == Native("keypress", "command", NoChars, fieldText)
           up == Native("keyup", "letter", NoChars, fieldText)
           events == <<down, press, up>>
           sp == hasSpaceKeypress
<1>1. fieldText \in Seq(Characters) /\ NoChars \in Seq(Characters) /\ <<>> \in Seq(Characters)
  BY DEF TextInv, TextTypes, NoChars
<1>2. down \in Natives /\ press \in Natives /\ up \in Natives
  <2>1. /\ "keydown" \in NativeTypes /\ "keypress" \in NativeTypes /\ "keyup" \in NativeTypes
        /\ "letter" \in Keys /\ "command" \in Keys
    BY DEF NativeTypes, Keys
  <2> QED
    BY <1>1, <2>1, EventsAreNative
<1>3. /\ down.type = "keydown" /\ down.key = "letter" /\ up.type = "keyup"
      /\ press.type = "keypress" /\ press.key = "command"
  BY DEF Native
<1> HIDE DEF down, press, up
<1>4. /\ events \in Seq(Natives) /\ Len(events) = 3
      /\ events[1] = down /\ events[2] = press /\ events[3] = up
  BY <1>2, QueuesAreSequences
<1>5. UserDoes(events, <<>>, FALSE)
  BY DEF PressesCommand, down, press, up
<1> HIDE DEF events, sp
<1>6. /\ TextTypes' /\ nativeEvents' = events /\ inserted'.chars = <<>>
      /\ reported' = <<>> /\ compositions' = <<>> /\ isComposing' = FALSE
      /\ browser' = browser /\ hasSpaceKeypress' = sp
  BY <1>1, <1>4, <1>5, DoingKeepsTypes DEF sp
<1>7. \A i \in 1 .. Len(events) : IsQuiet(events[i], sp)
  BY <1>3, <1>4 DEF IsQuiet
<1>8. \A i \in 1 .. Len(nativeEvents') : IsQuiet(nativeEvents[i], hasSpaceKeypress)'
  BY <1>6, <1>7 DEF IsQuiet
<1>9. Told'
  BY <1>6 DEF Told, Compositions
<1> QED
  BY <1>6, <1>8, <1>9 DEF TextInv, Rests

LEMMA PastesAreNotTold ==
  ASSUME TextInv, NEW chars \in Seq(Characters), NEW at \in 0 .. Len(fieldText), Pastes(chars, at)
  PROVE  TextInv'
<1> DEFINE now == WithText(chars, at)
           paste == Native("paste", "", chars, fieldText)
           up == Native("keyup", "letter", NoChars, now)
           events == <<paste, up>>
           sp == hasSpaceKeypress
<1>1. fieldText \in Seq(Characters) /\ NoChars \in Seq(Characters)
  BY DEF TextInv, TextTypes, NoChars
<1>2. now \in Seq(Characters)
  BY <1>1, TextGrows
<1> HIDE DEF now
<1>3. paste \in Natives /\ up \in Natives
  <2>1. /\ "paste" \in NativeTypes /\ "keyup" \in NativeTypes
        /\ "letter" \in Keys /\ "" \in Keys
    BY DEF NativeTypes, Keys
  <2> QED
    BY <1>1, <1>2, <2>1, EventsAreNative
<1>4. paste.type = "paste" /\ up.type = "keyup"
  BY DEF Native
<1> HIDE DEF paste, up
<1>5. events \in Seq(Natives) /\ Len(events) = 2 /\ events[1] = paste /\ events[2] = up
  BY <1>3, QueuesAreSequences
<1>6. UserDoes(events, chars, TRUE)
  BY DEF Pastes, now, paste, up
<1> HIDE DEF events, sp
<1>7. /\ TextTypes' /\ nativeEvents' = events /\ inserted'.silent = TRUE
      /\ reported' = <<>> /\ compositions' = <<>> /\ isComposing' = FALSE
      /\ browser' = browser /\ hasSpaceKeypress' = sp
  BY <1>1, <1>5, <1>6, DoingKeepsTypes DEF sp
<1>8. \A i \in 1 .. Len(events) : IsQuiet(events[i], sp)
  BY <1>4, <1>5 DEF IsQuiet
<1>9. \A i \in 1 .. Len(nativeEvents') : IsQuiet(nativeEvents[i], hasSpaceKeypress)'
  BY <1>7, <1>8 DEF IsQuiet
<1>10. Told'
  BY <1>7 DEF Told, Compositions
<1> QED
  BY <1>7, <1>9, <1>10 DEF TextInv, Rests

LEMMA CompositionBegins ==
  ASSUME TextInv, NEW chars \in Seq(Letters), NEW at \in 0 .. Len(fieldText),
         NEW ends \in Ends, Composes(chars, at, ends)
  PROVE  TextInv'
<1> DEFINE base == fieldText
           now == WithText(chars, at)
           key == Native("keydown", "method", NoChars, fieldText)
           up == Native("keyup", "method", NoChars, now)
           start == Native("compositionstart", "", NoChars, fieldText)
           update == Native("compositionupdate", "", chars, now)
           input == Native("textInput", "", chars, now)
           end == Native("compositionend", "", chars, now)
           again == Native("keydown", "method", NoChars, now)
           last == Native(ends, LastKey(ends), NoChars, now)
           events == IF ~browser.composition THEN <<key, up, again, last>>
                     ELSE IF browser.textInput THEN <<key, start, update, input, end, last>>
                     ELSE <<key, start, update, end, last>>
<1>1. base \in Seq(Characters) /\ NoChars \in Seq(Characters) /\ chars \in Seq(Characters)
  BY LetterTexts DEF TextInv, TextTypes, NoChars
<1>2. now \in Seq(Characters) /\ ExplainsText(chars, now) /\ Grown(base, now, at, Len(chars))
  BY <1>1, TextGrows
<1> HIDE DEF now, base
<1>3. /\ key \in Natives /\ up \in Natives /\ again \in Natives /\ start \in Natives /\ update \in Natives
      /\ input \in Natives /\ end \in Natives /\ last \in Natives
  <2>1. /\ "keydown" \in NativeTypes /\ "keyup" \in NativeTypes /\ "compositionstart" \in NativeTypes
        /\ "compositionupdate" \in NativeTypes /\ "textInput" \in NativeTypes /\ "compositionend" \in NativeTypes
        /\ ends \in NativeTypes /\ LastKey(ends) \in Keys /\ "method" \in Keys /\ "" \in Keys
    BY DEF NativeTypes, Keys, Ends, LastKey
  <2>2. key \in Natives /\ up \in Natives /\ again \in Natives
    BY <1>1, <1>2, <2>1, EventsAreNative DEF base
  <2>3. start \in Natives /\ update \in Natives
    BY <1>1, <1>2, <2>1, EventsAreNative DEF base
  <2>4. input \in Natives /\ end \in Natives
    BY <1>1, <1>2, <2>1, EventsAreNative
  <2>5. last \in Natives
    BY <1>1, <1>2, <2>1, EventsAreNative
  <2> QED
    BY <2>2, <2>3, <2>4, <2>5
<1>4. UserDoes(events, chars, FALSE)
  BY DEF Composes, now, LastKey
<1>5. /\ Is(key, "keydown", "method", <<>>, base) /\ Is(up, "keyup", "method", <<>>, now)
      /\ Is(again, "keydown", "method", <<>>, now)
      /\ Is(start, "compositionstart", "", <<>>, base) /\ Is(update, "compositionupdate", "", chars, now)
      /\ Is(input, "textInput", "", chars, now) /\ Is(end, "compositionend", "", chars, now)
      /\ Is(last, ends, LastKey(ends), <<>>, now)
  BY DEF Is, NoChars, base
<1> HIDE DEF key, up, again, start, update, input, end, last
<1>6. events \in Seq(Natives)
  BY <1>3, QueuesAreSequences
<1>7. /\ TextTypes' /\ nativeEvents' = events /\ inserted'.chars = chars /\ inserted'.silent = FALSE
      /\ reported' = <<>> /\ compositions' = <<>> /\ isComposing' = FALSE
      /\ browser' = browser /\ browser \in Browsers
  BY <1>1, <1>4, <1>6, DoingKeepsTypes
<1>8. \A b, m : b = base /\ m = now => Composed(b, m)'
  <2> SUFFICES ASSUME NEW b, NEW m, b = base, m = now PROVE Composed(b, m)'
    OBVIOUS
  <2>1. at \in 0 .. Len(b) /\ Grown(b, m, at, Len(chars))
    BY <1>2 DEF base
  <2>2. /\ b \in Seq(Characters) /\ m \in Seq(Characters) /\ inserted'.chars \in Seq(Letters) /\ ~inserted'.silent
        /\ \E x \in 0 .. Len(b) : Grown(b, m, x, Len(inserted'.chars))
        /\ ExplainsText(inserted'.chars, m)
    BY <1>1, <1>2, <1>7, <2>1
  <2> QED
    BY <2>2 DEF Composed
<1>9. \A b, m : b = base /\ m = now => (InputComposes(b, m) \/ EventsCompose(b, m) \/ KeysCompose(b, m))'
  <2> SUFFICES ASSUME NEW b, NEW m, b = base, m = now
               PROVE  (InputComposes(b, m) \/ EventsCompose(b, m) \/ KeysCompose(b, m))'
    OBVIOUS
  <2>1. CASE ~browser.composition
    <3>1. browser.fallback /\ ~browser.textInput
      BY <1>7, <2>1, TextAssumption
    <3>2. events = <<key, up, again, last>>
      BY <2>1
    <3> HIDE DEF events
    <3>3. /\ Len(events) = 4 /\ events[1] = key /\ events[2] = up /\ events[3] = again /\ events[4] = last
      BY <3>2
    <3>4. Awaits(4, FALSE, <<>>)'
      BY <1>7, <3>3 DEF Awaits
    <3>5. /\ KeyComes(1, b)' /\ Is(nativeEvents[2], "keyup", "method", <<>>, m)'
          /\ KeyComes(3, m)' /\ LastComes(4, m)'
      BY <1>5, <1>7, <3>3 DEF KeyComes, LastComes, Is
    <3> QED
      BY <1>7, <2>1, <3>1, <3>4, <3>5 DEF KeysCompose
  <2>2. CASE browser.composition /\ browser.textInput
    <3>1. ~browser.fallback
      BY <1>7, <2>2, TextAssumption
    <3>2. events = <<key, start, update, input, end, last>>
      BY <2>2
    <3> HIDE DEF events
    <3>3. /\ Len(events) = 6 /\ events[1] = key /\ events[2] = start /\ events[3] = update /\ events[4] = input
          /\ events[5] = end /\ events[6] = last
      BY <3>2
    <3>4. Awaits(6, FALSE, <<>>)'
      BY <1>7, <3>3 DEF Awaits
    <3>5. /\ KeyComes(1, b)' /\ StartComes(2, b)' /\ UpdateComes(3, m)'
          /\ InputComes(4, m)' /\ EndComes(5, m)' /\ LastComes(6, m)'
      BY <1>5, <1>7, <3>3 DEF KeyComes, StartComes, UpdateComes, InputComes, EndComes, LastComes, Is
    <3> QED
      BY <1>7, <2>2, <3>1, <3>4, <3>5 DEF InputComposes
  <2>3. CASE browser.composition /\ ~browser.textInput
    <3>2. events = <<key, start, update, end, last>>
      BY <2>3
    <3> HIDE DEF events
    <3>3. /\ Len(events) = 5 /\ events[1] = key /\ events[2] = start /\ events[3] = update /\ events[4] = end
          /\ events[5] = last
      BY <3>2
    <3>4. Awaits(5, FALSE, <<>>)'
      BY <1>7, <3>3 DEF Awaits
    <3>5. KeyComes(1, b)' /\ StartComes(2, b)' /\ UpdateComes(3, m)' /\ EndComes(4, m)' /\ LastComes(5, m)'
      BY <1>5, <1>7, <3>3 DEF KeyComes, StartComes, UpdateComes, EndComes, LastComes, Is
    <3> QED
      BY <1>7, <2>3, <3>4, <3>5 DEF EventsCompose
  <2> QED
    BY <2>1, <2>2, <2>3
<1>10. InComposition'
  BY <1>8, <1>9 DEF InComposition
<1> QED
  BY <1>7, <1>10 DEF TextInv

LEMMA DispatchKeepsTypes == ASSUME TextTypes, DispatchNative PROVE TextTypes'
<1> DEFINE e == nativeEvents[1]
<1>1. /\ nativeEvents # <<>> /\ fieldText' = e.text
      /\ isComposing' = ComposingAfter(isComposing, e) /\ hasSpaceKeypress' = SpaceAfter(hasSpaceKeypress, e)
      /\ UNCHANGED <<browser, nested, inserted>> /\ nativeEvents' \in Seq(Natives)
  BY DispatchesFit
<1>2. isComposing \in BOOLEAN /\ hasSpaceKeypress \in BOOLEAN
  BY DEF TextTypes
<1>3. isComposing' \in BOOLEAN /\ hasSpaceKeypress' \in BOOLEAN
  BY <1>1, <1>2, AskedTwice
<1>4. e \in Natives
  BY <1>1 DEF TextTypes
<1>5. fieldText' \in Seq(Characters)
  BY <1>1, <1>4 DEF Natives
<1> HIDE DEF e
<1> QED
  BY <1>1, <1>3, <1>5 DEF TextTypes

LEMMA ChunksAreTexts == Chunks \subseteq Seq(Letters)
<1> SUFFICES ASSUME NEW chars \in Chunks PROVE chars \in Seq(Letters)
  OBVIOUS
<1>1. PICK n \in 0 .. 2 : chars \in [1 .. n -> Letters]
  BY DEF Chunks
<1> QED
  BY <1>1, SeqDef

LEMMA TextInvStarts == TextInit => TextInv
<1> SUFFICES ASSUME TextInit PROVE TextInv
  OBVIOUS
<1>1. TextTypes
  <2>1. inserted.chars = <<>> /\ inserted.silent = FALSE
    BY DEF TextInit
  <2>2. <<>> \in Seq(Characters) /\ <<>> \in Seq(Natives)
    OBVIOUS
  <2> QED
    BY <2>1, <2>2 DEF TextInit, TextTypes
<1>2. Rests
  BY DEF TextInit, Rests, Told, Compositions
<1> QED
  BY <1>1, <1>2 DEF TextInv

LEMMA TextInvStays == TextInv /\ [TextNext]_textVars => TextInv'
<1> SUFFICES ASSUME TextInv, [TextNext]_textVars PROVE TextInv'
  OBVIOUS
<1>1. ASSUME NEW at \in 0 .. Len(fieldText), NEW c \in Letters \cup {Space}, TypesLetter(c, at) \/ TypesUnseen(c, at)
      PROVE  TextInv'
  BY <1>1, LettersAreTold, UnseenIsTold DEF Characters
<1>2. ASSUME NEW at \in 0 .. Len(fieldText), NEW chars \in Chunks, Pastes(chars, at) PROVE TextInv'
  <2>1. chars \in Seq(Characters)
    BY ChunksAreTexts, LetterTexts
  <2> QED
    BY <1>2, <2>1, PastesAreNotTold
<1>3. ASSUME NEW at \in 0 .. Len(fieldText), NEW chars \in Chunks, NEW ends \in {"keyup", "keydown", "mousedown", "blur"},
             Composes(chars, at, ends)
      PROVE  TextInv'
  <2>1. chars \in Seq(Letters) /\ ends \in Ends
    BY ChunksAreTexts DEF Ends
  <2> QED
    BY <1>3, <2>1, CompositionBegins
<1>4. CASE PressesCommand
  BY <1>4, CommandsAreNotTold
<1>5. CASE DispatchNative
  <2>1. TextTypes'
    BY <1>5, DispatchKeepsTypes DEF TextInv
  <2>2. Rests' \/ TypingIsDue' \/ InComposition'
    BY <1>5, RestIsKept, TypingIsTold, CompositionGoesOn DEF TextInv
  <2> QED
    BY <2>1, <2>2 DEF TextInv
<1>6. CASE UNCHANGED textVars
  <2>1. TextTypes'
    BY <1>6 DEF textVars, TextInv, TextTypes
  <2>2. FinalText' = FinalText
    BY <1>6 DEF textVars, FinalText
  <2>3. Rests => Rests'
    BY <1>6, <2>2 DEF textVars, Rests, Told, Explained, IsQuiet
  <2>4. TypingIsDue => TypingIsDue'
    BY <1>6, <2>2 DEF textVars, TypingIsDue, Untold, TellsAt, Tells, IsQuiet, Repeats
  <2>5. InComposition => InComposition'
    <3> SUFFICES ASSUME InComposition PROVE InComposition'
      OBVIOUS
    <3>1. PICK base, now : /\ Composed(base, now)
                           /\ InputComposes(base, now) \/ EventsCompose(base, now) \/ KeysCompose(base, now)
      BY DEF InComposition
    <3>2. /\ browser' = browser /\ inserted' = inserted /\ nativeEvents' = nativeEvents /\ isComposing' = isComposing
          /\ compositions' = compositions /\ reported' = reported /\ startText' = startText
      BY <1>6 DEF textVars
    <3>3. Composed(base, now)'
      BY <3>1, <3>2 DEF Composed
    <3>4. /\ \A n, c, said : Awaits(n, c, said)' <=> Awaits(n, c, said)
          /\ \A k, x : StartComes(k, x)' <=> StartComes(k, x)
          /\ \A k, x : UpdateComes(k, x)' <=> UpdateComes(k, x)
          /\ \A k, x : InputComes(k, x)' <=> InputComes(k, x)
          /\ \A k, x : EndComes(k, x)' <=> EndComes(k, x)
          /\ \A k, x : LastComes(k, x)' <=> LastComes(k, x)
          /\ \A k, x : KeyComes(k, x)' <=> KeyComes(k, x)
      BY <3>2 DEF Awaits, StartComes, UpdateComes, InputComes, EndComes, LastComes, KeyComes, Is
    <3>5. InputComposes(base, now) => InputComposes(base, now)'
      BY <3>2, <3>4 DEF InputComposes, SaysBegun, SaysUpdated
    <3>6. EventsCompose(base, now) => EventsCompose(base, now)'
      BY <3>2, <3>4 DEF EventsCompose, Awaits, SaysBegun, SaysUpdated
    <3>7. KeysCompose(base, now) => KeysCompose(base, now)'
      BY <3>2, <3>4 DEF KeysCompose, SaysBegun, Is
    <3> QED
      BY <3>1, <3>3, <3>5, <3>6, <3>7 DEF InComposition
  <2> QED
    BY <2>1, <2>3, <2>4, <2>5 DEF TextInv
<1> QED
  BY <1>1, <1>2, <1>3, <1>4, <1>5, <1>6 DEF TextNext

LEMMA CompositionsArePaired ==
  ASSUME compositions \in Compositions
  PROVE  Times("compositionstart") = Times("compositionend") /\ Times("compositionstart") <= 1
<1> DEFINE At(type) == {k \in DOMAIN compositions : compositions[k] = type}
<1>1. Times("compositionstart") = Cardinality(At("compositionstart")) /\ Times("compositionend") = Cardinality(At("compositionend"))
  BY DEF Times
<1>2. CASE compositions = <<>>
  <2>1. At("compositionstart") = {} /\ At("compositionend") = {}
    BY <1>2
  <2> QED
    BY <1>1, <2>1, FS_EmptySet
<1>3. CASE compositions = <<"compositionstart", "compositionend">>
  <2>1. At("compositionstart") = {1} /\ At("compositionend") = {2}
    BY <1>3
  <2> HIDE DEF At
  <2>2. Cardinality({1}) = 1 /\ Cardinality({2}) = 1
    BY FS_Singleton
  <2> QED
    BY <1>1, <2>1, <2>2
<1>4. CASE compositions = <<"compositionstart", "compositionupdate", "compositionend">>
  <2>1. At("compositionstart") = {1} /\ At("compositionend") = {3}
    BY <1>4
  <2> HIDE DEF At
  <2>2. Cardinality({1}) = 1 /\ Cardinality({3}) = 1
    BY FS_Singleton
  <2> QED
    BY <1>1, <2>1, <2>2
<1> QED
  BY <1>2, <1>3, <1>4 DEF Compositions

LEMMA TextInvSuffices == TextInv => TextIsReported
<1> SUFFICES ASSUME TextInv, nativeEvents = <<>>
             PROVE  /\ ~isComposing
                    /\ reported = <<>> \/ Len(reported) = 1
                    /\ reported # <<>> => Len(reported[1]) = Len(inserted.chars) /\ Explains(reported[1])
                    /\ reported = <<>> <=> inserted.silent \/ inserted.chars = <<>>
                    /\ Times("compositionstart") = Times("compositionend") /\ Times("compositionstart") <= 1
  BY DEF TextIsReported
<1>1. Told /\ FinalText = fieldText
  BY IdleAtFirst
<1>2. Times("compositionstart") = Times("compositionend") /\ Times("compositionstart") <= 1
  BY <1>1, CompositionsArePaired DEF Told
<1>3. CASE inserted.silent \/ inserted.chars = <<>>
  <2>1. ~isComposing /\ reported = <<>>
    BY <1>1, <1>3 DEF Told
  <2> QED
    BY <1>2, <1>3, <2>1
<1>4. CASE ~(inserted.silent \/ inserted.chars = <<>>)
  <2>1. ~isComposing /\ Explained(fieldText)
    BY <1>1, <1>4 DEF Told
  <2>2. PICK data \in Seq(Characters) : reported = <<data>> /\ Len(data) = Len(inserted.chars) /\ ExplainsText(data, fieldText)
    BY <2>1 DEF Explained
  <2>3. reported # <<>> /\ Len(reported) = 1 /\ reported[1] = data
    BY <2>2
  <2>4. Explains(data)
    BY <2>2 DEF ExplainsText, Explains
  <2> QED
    BY <1>2, <1>4, <2>1, <2>2, <2>3, <2>4
<1> QED
  BY <1>3, <1>4

(* Whatever the browser, the letters and the length of the text: what the  *)
(* user types or composes is reported once, and what is pasted is not.     *)
THEOREM TypingIsReported == TextSpec => []TextIsReported
<1>1. TextInit => TextInv
  BY TextInvStarts
<1>2. TextInv /\ [TextNext]_textVars => TextInv'
  BY TextInvStays
<1>3. TextInv => TextIsReported
  BY TextInvSuffices
<1> QED
  BY <1>1, <1>2, <1>3, PTL DEF TextSpec

-----------------------------------------------------------------------------
(* The component below a boundary.  Fibers and what renders leave, with    *)
(* all their fields.                                                       *)
FiberOf(tag, pending, memo, kid, ref, done, late) ==
  [tag |-> tag, pending |-> pending, memo |-> memo, child |-> kid, ref |-> ref, done |-> done, due |-> late]

IsFiber(l) ==
  l = FiberOf(l.tag, l.pending, l.memo, l.child, l.ref, l.done, l.due) /\ l.done \in BOOLEAN /\ l.due \in BOOLEAN

WrapperOf(used, misled) == [used |-> used, misled |-> misled]
IsWrapper(o) == o = WrapperOf(o.used, o.misled) /\ o.used \in BOOLEAN /\ o.misled \in BOOLEAN

LEMMA FibersHaveParts ==
  ASSUME NEW tag, NEW pending, NEW memo, NEW kid, NEW ref, NEW done \in BOOLEAN, NEW late \in BOOLEAN, NEW l,
         l = FiberOf(tag, pending, memo, kid, ref, done, late)
  PROVE  /\ IsFiber(l) /\ l.tag = tag /\ l.pending = pending /\ l.memo = memo /\ l.child = kid /\ l.ref = ref
         /\ l.done = done /\ l.due = late
<1>1. /\ l.tag = tag /\ l.pending = pending /\ l.memo = memo /\ l.child = kid /\ l.ref = ref
      /\ l.done = done /\ l.due = late
  BY DEF FiberOf
<1>2. l = FiberOf(l.tag, l.pending, l.memo, l.child, l.ref, l.done, l.due)
  BY <1>1, Zenon
<1> QED
  BY <1>1, <1>2, Zenon DEF IsFiber

(* What the operators make of a fiber.                                     *)
LEMMA CompletedFibers ==
  ASSUME NEW l, IsFiber(l), NEW v
  PROVE  Completed(l, v) = FiberOf(l.tag, l.pending, l.pending, v, l.ref, TRUE, FALSE)
<1> DEFINE tag == l.tag
           p == l.pending
           m == l.memo
           c == l.child
           f == l.ref
           d == l.done
           u == l.due
           yes == TRUE
           no == FALSE
<1>0. l = FiberOf(tag, p, m, c, f, d, u)
  BY Zenon DEF IsFiber
<1> HIDE DEF tag, p, m, c, f, d, u, yes, no
<1>1. Completed(l, v) = [[[[l EXCEPT !.child = v] EXCEPT !.memo = p] EXCEPT !.done = yes] EXCEPT !.due = no]
  BY DEF Completed, p, yes, no
<1>2. [l EXCEPT !.child = v] = FiberOf(tag, p, m, v, f, d, u)
  BY <1>0 DEF FiberOf
<1>3. [FiberOf(tag, p, m, v, f, d, u) EXCEPT !.memo = p] = FiberOf(tag, p, p, v, f, d, u)
  BY DEF FiberOf
<1>4. [FiberOf(tag, p, p, v, f, d, u) EXCEPT !.done = yes] = FiberOf(tag, p, p, v, f, yes, u)
  BY DEF FiberOf
<1>5. [FiberOf(tag, p, p, v, f, yes, u) EXCEPT !.due = no] = FiberOf(tag, p, p, v, f, yes, no)
  BY DEF FiberOf
<1> QED
  BY <1>1, <1>2, <1>3, <1>4, <1>5, Zenon DEF tag, p, f, yes, no

LEMMA OtherEndsOfFibers ==
  ASSUME NEW l, IsFiber(l)
  PROVE  /\ Skipped(l) = FiberOf(l.tag, l.pending, l.pending, l.child, l.ref, TRUE, FALSE)
         /\ Emptied(l) = FiberOf(l.tag, l.pending, l.memo, Nil, l.ref, FALSE, FALSE)
         /\ [l EXCEPT !.due = TRUE] = FiberOf(l.tag, l.pending, l.memo, l.child, l.ref, l.done, TRUE)
<1> DEFINE tag == l.tag
           p == l.pending
           m == l.memo
           c == l.child
           f == l.ref
           d == l.done
           u == l.due
           yes == TRUE
           no == FALSE
<1>0. l = FiberOf(tag, p, m, c, f, d, u)
  BY Zenon DEF IsFiber
<1> HIDE DEF tag, p, m, c, f, d, u, yes, no
<1>1. Skipped(l) = FiberOf(tag, p, p, c, f, yes, no)
  <2>1. Skipped(l) = [[[l EXCEPT !.memo = p] EXCEPT !.done = yes] EXCEPT !.due = no]
    BY DEF Skipped, p, yes, no
  <2>2. [l EXCEPT !.memo = p] = FiberOf(tag, p, p, c, f, d, u)
    BY <1>0 DEF FiberOf
  <2>3. [FiberOf(tag, p, p, c, f, d, u) EXCEPT !.done = yes] = FiberOf(tag, p, p, c, f, yes, u)
    BY DEF FiberOf
  <2>4. [FiberOf(tag, p, p, c, f, yes, u) EXCEPT !.due = no] = FiberOf(tag, p, p, c, f, yes, no)
    BY DEF FiberOf
  <2> QED
    BY <2>1, <2>2, <2>3, <2>4, Zenon
<1>2. Emptied(l) = FiberOf(tag, p, m, Nil, f, no, no)
  <2>1. Emptied(l) = [[[l EXCEPT !.child = Nil] EXCEPT !.done = no] EXCEPT !.due = no]
    BY DEF Emptied, no
  <2>2. [l EXCEPT !.child = Nil] = FiberOf(tag, p, m, Nil, f, d, u)
    BY <1>0 DEF FiberOf
  <2>3. [FiberOf(tag, p, m, Nil, f, d, u) EXCEPT !.done = no] = FiberOf(tag, p, m, Nil, f, no, u)
    BY DEF FiberOf
  <2>4. [FiberOf(tag, p, m, Nil, f, no, u) EXCEPT !.due = no] = FiberOf(tag, p, m, Nil, f, no, no)
    BY DEF FiberOf
  <2> QED
    BY <2>1, <2>2, <2>3, <2>4, Zenon
<1>3. [l EXCEPT !.due = yes] = FiberOf(tag, p, m, c, f, d, yes)
  BY <1>0 DEF FiberOf
<1> QED
  BY <1>1, <1>2, <1>3, Zenon DEF tag, p, m, c, f, d, yes, no

LEMMA FibersChange ==
  ASSUME NEW l, IsFiber(l), NEW v
  PROVE  /\ [l EXCEPT !.tag = v] = FiberOf(v, l.pending, l.memo, l.child, l.ref, l.done, l.due)
         /\ [l EXCEPT !.ref = v] = FiberOf(l.tag, l.pending, l.memo, l.child, v, l.done, l.due)
         /\ [l EXCEPT !.pending = v, !.done = FALSE] = FiberOf(l.tag, v, l.memo, l.child, l.ref, FALSE, l.due)
<1> DEFINE tag == l.tag
           p == l.pending
           m == l.memo
           c == l.child
           f == l.ref
           d == l.done
           u == l.due
           no == FALSE
<1>0. l = FiberOf(tag, p, m, c, f, d, u)
  BY Zenon DEF IsFiber
<1> HIDE DEF tag, p, m, c, f, d, u, no
<1>1. /\ [l EXCEPT !.tag = v] = FiberOf(v, p, m, c, f, d, u)
      /\ [l EXCEPT !.ref = v] = FiberOf(tag, p, m, c, v, d, u)
  BY <1>0 DEF FiberOf
<1>2. [l EXCEPT !.pending = v, !.done = no] = FiberOf(tag, v, m, c, f, no, u)
  <2>1. [l EXCEPT !.pending = v, !.done = no] = [[l EXCEPT !.pending = v] EXCEPT !.done = no]
    OBVIOUS
  <2>2. [l EXCEPT !.pending = v] = FiberOf(tag, v, m, c, f, d, u)
    BY <1>0 DEF FiberOf
  <2>3. [FiberOf(tag, v, m, c, f, d, u) EXCEPT !.done = no] = FiberOf(tag, v, m, c, f, no, u)
    BY DEF FiberOf
  <2> QED
    BY <2>1, <2>2, <2>3, Zenon
<1> QED
  BY <1>1, <1>2, Zenon DEF tag, p, m, c, f, d, u, no

LEMMA FibersAreMade ==
  ASSUME NEW tag, NEW v, NEW r, NEW n, n = createFiber(tag, v, r)
  PROVE  IsFiber(n) /\ n.tag = tag /\ n.pending = v /\ n.ref = r
<1> DEFINE no == FALSE
<1>1. n = FiberOf(tag, v, Nil, Nil, r, no, no) /\ no \in BOOLEAN
  BY DEF createFiber, FiberOf
<1> HIDE DEF no
<1> QED
  BY <1>1, FibersHaveParts

(* What a render leaves, part by part.                                     *)
IsLeft(out, o, thrown, placed, apart, ref) ==
  /\ out.outer = o /\ out.thrown = thrown /\ out.ref = ref /\ out.fails = FALSE
  /\ out.placed = placed /\ out.apart = apart

LEMMA FailureFails == Failure.fails /\ Failure.leaf = leaf
<1> DEFINE r == Outcome(outer, leaf, {}, FALSE, FALSE, attached)
<1>1. Failure = [r EXCEPT !.fails = TRUE]
  BY DEF Failure
<1>2. "fails" \in DOMAIN r /\ r.leaf = leaf
  BY DEF Outcome
<1> HIDE DEF r
<1> QED
  BY <1>1, <1>2

(* The three ends of a render that begins the fiber l, of which v is to be *)
(* shown: it completes, is skipped, or throws.                             *)
RendersLeaf(out, o, l, v, r) ==
  \E tag : /\ IsLeft(out, o, {}, TRUE, out.apart, out.ref)
           /\ out.leaf = FiberOf(tag, l.pending, l.pending, v, r, TRUE, FALSE)
           /\ tag = l.tag \/ tag = MountedTag(l.tag)
           /\ Rendering = "forward" => out.ref = r

Throws(out, o, l, r) ==
  \E tag, memo : /\ out.thrown # {} /\ out.outer = o /\ out.fails = FALSE
                 /\ out.leaf = FiberOf(tag, l.pending, memo, Nil, r, FALSE, FALSE)
                 /\ tag = l.tag \/ tag = SuspendedTag(l.tag)

IsSkipped(out, o, l, v, r) ==
  /\ out.outer = o /\ out.fails = FALSE /\ out.apart = FALSE
  /\ out.leaf = FiberOf(l.tag, l.pending, l.pending, l.child, r, TRUE, FALSE)
  /\ Skips(l, v, l.ref = r)
  /\ Rendering = "forward" => out.ref = attached /\ r = l.ref

LEMMA MountEnds ==
  ASSUME NEW o, NEW l, IsFiber(l), NEW v, NEW apart \in BOOLEAN
  PROVE  RendersLeaf(Mount(o, l, v, TRUE, apart), o, l, v, l.ref) \/ Throws(Mount(o, l, v, TRUE, apart), o, l, l.ref)
<1> DEFINE out == Mount(o, l, v, TRUE, apart)
<1>1. CASE Ready(v)
  <2> DEFINE m == [l EXCEPT !.tag = MountedTag(l.tag)]
             ref == IF Rendering = "function" THEN Nil ELSE l.ref
  <2>1. out = Outcome(o, Completed(m, v), {}, TRUE, apart, ref)
    BY <1>1 DEF Mount
  <2>2. m = FiberOf(MountedTag(l.tag), l.pending, l.memo, l.child, l.ref, l.done, l.due)
    BY FibersChange
  <2>3. l.done \in BOOLEAN /\ l.due \in BOOLEAN
    BY DEF IsFiber
  <2> HIDE DEF m
  <2>4. IsFiber(m) /\ m.tag = MountedTag(l.tag) /\ m.pending = l.pending /\ m.ref = l.ref
    BY <2>2, <2>3, FibersHaveParts
  <2>5. Completed(m, v) = FiberOf(MountedTag(l.tag), l.pending, l.pending, v, l.ref, TRUE, FALSE)
    BY <2>4, CompletedFibers
  <2> HIDE DEF ref
  <2> DEFINE yes == TRUE
             no == FALSE
             fiber == Completed(m, v)
             none == {}
  <2>a6. out = Outcome(o, fiber, none, yes, apart, ref)
    BY <2>1, Zenon
  <2> HIDE DEF out, yes, no, fiber, none
  <2>b6. IsLeft(out, o, none, yes, apart, ref) /\ out.leaf = fiber
    BY <2>a6, Zenon DEF Outcome, IsLeft
  <2>6. IsLeft(out, o, {}, TRUE, apart, ref) /\ out.leaf = Completed(m, v)
    BY <2>b6, Zenon DEF yes, no, fiber, none
  <2>7. IsLeft(out, o, {}, TRUE, out.apart, out.ref) /\ out.ref = ref
    BY <2>6 DEF IsLeft
  <2>8. Rendering = "forward" => ref = l.ref
    BY DEF ref
  <2> HIDE DEF out
  <2>9. RendersLeaf(out, o, l, v, l.ref)
    BY <2>5, <2>6, <2>7, <2>8 DEF RendersLeaf
  <2> QED
    BY <2>9 DEF out
<1>2. CASE ~Ready(v)
  <2> DEFINE m == [l EXCEPT !.tag = SuspendedTag(l.tag)]
  <2>1. out = Outcome(o, Emptied(m), {v}, TRUE, apart, Nil)
    BY <1>2 DEF Mount
  <2>2. m = FiberOf(SuspendedTag(l.tag), l.pending, l.memo, l.child, l.ref, l.done, l.due)
    BY FibersChange
  <2>3. l.done \in BOOLEAN /\ l.due \in BOOLEAN
    BY DEF IsFiber
  <2> HIDE DEF m
  <2>4. IsFiber(m) /\ m.tag = SuspendedTag(l.tag) /\ m.pending = l.pending /\ m.ref = l.ref /\ m.memo = l.memo
    BY <2>2, <2>3, FibersHaveParts
  <2>5. Emptied(m) = FiberOf(SuspendedTag(l.tag), l.pending, l.memo, Nil, l.ref, FALSE, FALSE)
    BY <2>4, OtherEndsOfFibers
  <2> DEFINE yes == TRUE
             no == FALSE
             fiber == Emptied(m)
             none == {v}
  <2>a6. out = Outcome(o, fiber, none, yes, apart, Nil)
    BY <2>1, Zenon
  <2> HIDE DEF out, yes, no, fiber, none
  <2>b6. IsLeft(out, o, none, yes, apart, Nil) /\ out.leaf = fiber
    BY <2>a6, Zenon DEF Outcome, IsLeft
  <2>6. IsLeft(out, o, {v}, TRUE, apart, Nil) /\ out.leaf = Emptied(m)
    BY <2>b6, Zenon DEF yes, no, fiber, none
  <2>7. out.thrown # {} /\ out.outer = o /\ out.fails = FALSE
    BY <2>6 DEF IsLeft
  <2> HIDE DEF out
  <2>8. Throws(out, o, l, l.ref)
    BY <2>5, <2>6, <2>7 DEF Throws
  <2> QED
    BY <2>8 DEF out
<1> QED
  BY <1>1, <1>2

LEMMA UpdateEnds ==
  ASSUME NEW o, NEW l, IsFiber(l), NEW v, NEW r
  PROVE  \/ RendersLeaf(UpdateLeaf(o, l, v, r), o, l, v, r) \/ Throws(UpdateLeaf(o, l, v, r), o, l, r)
         \/ IsSkipped(UpdateLeaf(o, l, v, r), o, l, v, r)
<1> DEFINE out == UpdateLeaf(o, l, v, r)
           m == [l EXCEPT !.ref = r]
           sameRef == l.ref = r
<1>1. m = FiberOf(l.tag, l.pending, l.memo, l.child, r, l.done, l.due) /\ l.done \in BOOLEAN /\ l.due \in BOOLEAN
  BY FibersChange DEF IsFiber
<1> HIDE DEF m
<1>2. /\ IsFiber(m) /\ m.tag = l.tag /\ m.pending = l.pending /\ m.ref = r /\ m.memo = l.memo /\ m.child = l.child
  BY <1>1, FibersHaveParts
<1>3. /\ Completed(m, v) = FiberOf(l.tag, l.pending, l.pending, v, r, TRUE, FALSE)
      /\ Skipped(m) = FiberOf(l.tag, l.pending, l.pending, l.child, r, TRUE, FALSE)
      /\ Emptied(m) = FiberOf(l.tag, l.pending, l.memo, Nil, r, FALSE, FALSE)
  BY <1>2, CompletedFibers, OtherEndsOfFibers
<1>4. CASE Skips(l, v, sameRef)
  <2> DEFINE ref == IF IsClass /\ ~sameRef THEN r ELSE attached
  <2>1. out = Outcome(o, Skipped(m), {}, FALSE, FALSE, ref)
    BY <1>4 DEF UpdateLeaf, m
  <2> HIDE DEF ref
  <2> DEFINE yes == TRUE
             no == FALSE
             fiber == Skipped(m)
             none == {}
  <2>a2. out = Outcome(o, fiber, none, no, no, ref)
    BY <2>1, Zenon
  <2> HIDE DEF out, yes, no, fiber, none
  <2>b2. IsLeft(out, o, none, no, no, ref) /\ out.leaf = fiber
    BY <2>a2, Zenon DEF Outcome, IsLeft
  <2>2. IsLeft(out, o, {}, FALSE, FALSE, ref) /\ out.leaf = Skipped(m)
    BY <2>b2, Zenon DEF yes, no, fiber, none
  <2>3. Rendering = "forward" => ref = attached /\ sameRef
    BY <1>4 DEF ref, IsClass, Skips, Rendering
  <2>4. out.outer = o /\ out.fails = FALSE /\ out.apart = FALSE /\ out.ref = ref
    BY <2>2 DEF IsLeft
  <2> HIDE DEF out
  <2>5. IsSkipped(out, o, l, v, r)
    BY <1>3, <1>4, <2>2, <2>3, <2>4 DEF IsSkipped
  <2> QED
    BY <2>5 DEF out
<1>5. CASE ~Skips(l, v, sameRef) /\ Ready(v)
  <2> DEFINE ref == IF Rendering = "forward" \/ (IsClass /\ ~sameRef) THEN r ELSE attached
  <2>1. out = Outcome(o, Completed(m, v), {}, TRUE, FALSE, ref)
    BY <1>5 DEF UpdateLeaf, m
  <2> HIDE DEF ref
  <2> DEFINE yes == TRUE
             no == FALSE
             fiber == Completed(m, v)
             none == {}
  <2>a2. out = Outcome(o, fiber, none, yes, no, ref)
    BY <2>1, Zenon
  <2> HIDE DEF out, yes, no, fiber, none
  <2>b2. IsLeft(out, o, none, yes, no, ref) /\ out.leaf = fiber
    BY <2>a2, Zenon DEF Outcome, IsLeft
  <2>2. IsLeft(out, o, {}, TRUE, FALSE, ref) /\ out.leaf = Completed(m, v)
    BY <2>b2, Zenon DEF yes, no, fiber, none
  <2>3. IsLeft(out, o, {}, TRUE, out.apart, out.ref) /\ out.ref = ref
    BY <2>2 DEF IsLeft
  <2>4. Rendering = "forward" => ref = r
    BY DEF ref
  <2> HIDE DEF out
  <2>5. RendersLeaf(out, o, l, v, r)
    BY <1>3, <2>2, <2>3, <2>4 DEF RendersLeaf
  <2> QED
    BY <2>5 DEF out
<1>6. CASE ~Skips(l, v, sameRef) /\ ~Ready(v)
  <2> DEFINE ref == IF IsClass THEN attached ELSE Nil
  <2>1. out = Outcome(o, Emptied(m), {v}, FALSE, FALSE, ref)
    BY <1>6 DEF UpdateLeaf, m
  <2> HIDE DEF ref
  <2> DEFINE yes == TRUE
             no == FALSE
             fiber == Emptied(m)
             none == {v}
  <2>a2. out = Outcome(o, fiber, none, no, no, ref)
    BY <2>1, Zenon
  <2> HIDE DEF out, yes, no, fiber, none
  <2>b2. IsLeft(out, o, none, no, no, ref) /\ out.leaf = fiber
    BY <2>a2, Zenon DEF Outcome, IsLeft
  <2>2. IsLeft(out, o, {v}, FALSE, FALSE, ref) /\ out.leaf = Emptied(m)
    BY <2>b2, Zenon DEF yes, no, fiber, none
  <2>3. out.thrown # {} /\ out.outer = o /\ out.fails = FALSE
    BY <2>2 DEF IsLeft
  <2> HIDE DEF out
  <2>4. Throws(out, o, l, r)
    BY <1>3, <2>2, <2>3 DEF Throws
  <2> QED
    BY <2>4 DEF out
<1> QED
  BY <1>4, <1>5, <1>6

Stays(out, o, l) == IsLeft(out, o, {}, FALSE, FALSE, attached) /\ out.leaf = l

LEMMA LeavesEnd ==
  ASSUME NEW o, NEW l, IsFiber(l), NEW v, NEW r
  PROVE  \/ l.done /\ ~l.due /\ Stays(BeginLeaf(o, l, v, r), o, l)
         \/ /\ ~(l.done /\ ~l.due)
            /\ \/ RendersLeaf(BeginLeaf(o, l, v, r), o, l, v, r) \/ Throws(BeginLeaf(o, l, v, r), o, l, r)
               \/ IsSkipped(BeginLeaf(o, l, v, r), o, l, v, r)
<1> DEFINE out == BeginLeaf(o, l, v, r)
<1>1. CASE l.done /\ ~l.due
  <2>1. out = Outcome(o, l, {}, FALSE, FALSE, attached)
    BY <1>1 DEF BeginLeaf
  <2> HIDE DEF out
  <2>2. Stays(out, o, l)
    BY <2>1, Zenon DEF Outcome, IsLeft, Stays
  <2> QED
    BY <1>1, <2>2 DEF out
<1>2. CASE ~(l.done /\ ~l.due) /\ l.tag \in Unfinished
  <2> DEFINE m == [l EXCEPT !.ref = r]
             n == createFiber(m.tag, m.pending, m.ref)
  <2>1. out = Mount(o, n, v, TRUE, TRUE)
    BY <1>2 DEF BeginLeaf, Remount
  <2>2. m = FiberOf(l.tag, l.pending, l.memo, l.child, r, l.done, l.due) /\ l.done \in BOOLEAN /\ l.due \in BOOLEAN
    BY FibersChange DEF IsFiber
  <2> HIDE DEF m
  <2>3. m.tag = l.tag /\ m.pending = l.pending /\ m.ref = r
    BY <2>2, FibersHaveParts
  <2>4. n = createFiber(l.tag, l.pending, r)
    BY <2>3
  <2> HIDE DEF n
  <2>5. IsFiber(n) /\ n.tag = l.tag /\ n.pending = l.pending /\ n.ref = r
    BY <2>4, FibersAreMade
  <2>6. TRUE \in BOOLEAN
    OBVIOUS
  <2>7. RendersLeaf(Mount(o, n, v, TRUE, TRUE), o, n, v, n.ref) \/ Throws(Mount(o, n, v, TRUE, TRUE), o, n, n.ref)
    BY <2>5, <2>6, MountEnds
  <2> HIDE DEF out
  <2>8. RendersLeaf(out, o, n, v, r) \/ Throws(out, o, n, r)
    BY <2>1, <2>5, <2>7
  <2>9. RendersLeaf(out, o, l, v, r) \/ Throws(out, o, l, r)
    BY <2>5, <2>8 DEF RendersLeaf, Throws
  <2> QED
    BY <1>2, <2>9 DEF out
<1>3. CASE ~(l.done /\ ~l.due) /\ l.tag \notin Unfinished
  <2>1. out = UpdateLeaf(o, l, v, r)
    BY <1>3 DEF BeginLeaf
  <2> QED
    BY <1>3, <2>1, UpdateEnds
<1> QED
  BY <1>1, <1>2, <1>3

-----------------------------------------------------------------------------
(* What a fiber below the boundary shows was asked for.                    *)
AskedFor(v) == WithDefault(WithDefault(v, componentType.default), componentType.innerDefault)
Lost(v) == componentType.lazy /\ componentType.kind = "memo" /\ v = NotGiven /\ componentType.default # NotGiven

(* The defaults of a component that is not lazy are in the element.        *)
ElementFits(e) == e.value # Nil /\ (~componentType.lazy => WithDefault(e.value, componentType.default) = e.value)

(* A leaf with a fiber around it: its props, where memo did not take them  *)
(* for equal, are those the element asks for.                              *)
InnerFits(o, l, e) ==
  /\ componentType.kind = "memo" /\ l.tag \notin {"LazyComponent", "SimpleMemoComponent"} /\ l.pending # Nil
  /\ l.child # Nil => l.child = l.pending /\ l.memo = l.pending
  /\ l.done => l.memo = l.pending
  /\ o.misled \/ componentType.compares \/ Lost(e.value) \/ l.pending = AskedFor(e.value)

(* A leaf of its own has the props of the element, and shows those it was  *)
(* rendered with.                                                          *)
TagFits(l) ==
  /\ l.tag # "LazyComponent" => (componentType.kind = "memo" <=> l.tag = "SimpleMemoComponent")
  /\ l.tag = "SimpleMemoComponent" => isSimpleFunctionComponent
  /\ l.tag = "LazyComponent" => componentType.lazy /\ l.child = Nil

LoneFits(l, e) ==
  /\ l.pending = e.value /\ TagFits(l)
  /\ l.child # Nil => l.done /\ (l.child = AskedFor(l.memo) \/ Lost(l.memo))
  /\ l.done => l.memo = l.pending

LeafFits(o, l, e) ==
  /\ l.tag # "none" /\ l.ref = e.ref
  /\ IF o.used THEN InnerFits(o, l, e) ELSE LoneFits(l, e)
  /\ l.tag = "ForwardRef" /\ l.done => l.child # Nil

(* What a render that begins with the leaf l may leave.                    *)
OutcomeFits(out, l, e) ==
  /\ ~out.fails
  /\ IsFiber(out.leaf) /\ IsWrapper(out.outer) /\ ~out.leaf.due
  /\ LeafFits(out.outer, out.leaf, e)
  /\ out.leaf.child # Nil => (l.child # Nil \/ out.placed) /\ (Rendering = "forward" => out.ref = out.leaf.ref)
  /\ out.leaf.child = Nil => out.thrown # {} \/ (l.tag # "none" /\ l.child = Nil /\ ~l.due /\ ~out.apart)

(* A render of the wrong tag does not happen.                              *)
LEMMA TagsFit ==
  ASSUME NEW tag
  PROVE  /\ MountedTag(tag) \in {tag, "ClassComponent", "FunctionComponent"}
         /\ SuspendedTag(tag) \in {tag, "IncompleteClassComponent"}
         /\ tag = "SimpleMemoComponent" /\ Rendering = "function" => MountedTag(tag) = tag /\ SuspendedTag(tag) = tag
BY DEF MountedTag, SuspendedTag, IsClass

(* The props that are shown.                                               *)
LEMMA DefaultsAreKnown ==
  ASSUME componentType \in Components
  PROVE  /\ componentType.kind # "memo" => componentType.innerDefault = NotGiven
         /\ componentType.default # Nil /\ componentType.innerDefault # Nil
         /\ componentType.kind = "memo" => Rendering = componentType.inner
         /\ Nil # NotGiven
BY SuspenseAssumption DEF Rendering

LEMMA AskedOnce ==
  ASSUME componentType \in Components, NEW e, ElementFits(e), NEW v,
         v = IF componentType.lazy /\ componentType.kind # "memo" THEN WithDefault(e.value, componentType.default) ELSE e.value,
         componentType.innerDefault = NotGiven
  PROVE  /\ v # Nil /\ (v = AskedFor(e.value) \/ Lost(e.value))
         /\ componentType.kind # "memo" => AskedFor(v) = v
BY DefaultsAreKnown DEF AskedFor, Lost, ElementFits, WithDefault

LEMMA AskedOfInner ==
  ASSUME componentType \in Components, NEW e, ElementFits(e), NEW v, componentType.kind = "memo",
         v = WithDefault(e.value, componentType.innerDefault)
  PROVE  v # Nil /\ (v = AskedFor(e.value) \/ Lost(e.value))
BY DefaultsAreKnown DEF AskedFor, Lost, ElementFits, WithDefault

(* The parts of what the ends of a render leave.                           *)
AreRendered(out, o, l, v, r) ==
  /\ out.thrown = {} /\ out.outer = o /\ ~out.fails /\ out.placed
  /\ IsFiber(out.leaf) /\ out.leaf.done /\ ~out.leaf.due
  /\ out.leaf.tag \in {l.tag, MountedTag(l.tag)}
  /\ out.leaf.pending = l.pending /\ out.leaf.memo = l.pending /\ out.leaf.child = v /\ out.leaf.ref = r
  /\ Rendering = "forward" => out.ref = r

AreThrown(out, o, l, r) ==
  /\ out.thrown # {} /\ out.outer = o /\ ~out.fails
  /\ IsFiber(out.leaf) /\ ~out.leaf.done /\ ~out.leaf.due
  /\ out.leaf.tag \in {l.tag, SuspendedTag(l.tag)}
  /\ out.leaf.pending = l.pending /\ out.leaf.child = Nil /\ out.leaf.ref = r

LEMMA RenderedParts ==
  ASSUME NEW out, NEW o, NEW l, NEW v, NEW r, RendersLeaf(out, o, l, v, r)
  PROVE  AreRendered(out, o, l, v, r)
<1> DEFINE yes == TRUE
           no == FALSE
<1>1. PICK tag : /\ IsLeft(out, o, {}, TRUE, out.apart, out.ref)
                 /\ out.leaf = FiberOf(tag, l.pending, l.pending, v, r, TRUE, FALSE)
                 /\ tag = l.tag \/ tag = MountedTag(l.tag)
                 /\ Rendering = "forward" => out.ref = r
  BY Zenon DEF RendersLeaf
<1>2. out.leaf = FiberOf(tag, l.pending, l.pending, v, r, yes, no) /\ yes \in BOOLEAN /\ no \in BOOLEAN
  BY <1>1
<1> HIDE DEF yes, no
<1>3. /\ IsFiber(out.leaf) /\ out.leaf.tag = tag /\ out.leaf.pending = l.pending /\ out.leaf.memo = l.pending
      /\ out.leaf.child = v /\ out.leaf.ref = r /\ out.leaf.done = yes /\ out.leaf.due = no
  BY <1>2, FibersHaveParts
<1>4. out.leaf.done /\ ~out.leaf.due
  BY <1>3, Zenon DEF yes, no
<1>5. out.thrown = {} /\ out.outer = o /\ ~out.fails /\ out.placed
  BY <1>1, Zenon DEF IsLeft
<1> QED
  BY <1>1, <1>3, <1>4, <1>5, Zenon DEF AreRendered

LEMMA ThrownParts ==
  ASSUME NEW out, NEW o, NEW l, NEW r, Throws(out, o, l, r)
  PROVE  AreThrown(out, o, l, r)
<1> DEFINE no == FALSE
<1>1. PICK tag, memo : /\ out.thrown # {} /\ out.outer = o /\ out.fails = FALSE
                       /\ out.leaf = FiberOf(tag, l.pending, memo, Nil, r, FALSE, FALSE)
                       /\ tag = l.tag \/ tag = SuspendedTag(l.tag)
  BY Zenon DEF Throws
<1>2. out.leaf = FiberOf(tag, l.pending, memo, Nil, r, no, no) /\ no \in BOOLEAN
  BY <1>1
<1> HIDE DEF no
<1>3. /\ IsFiber(out.leaf) /\ out.leaf.tag = tag /\ out.leaf.pending = l.pending
      /\ out.leaf.child = Nil /\ out.leaf.ref = r /\ out.leaf.done = no /\ out.leaf.due = no
  BY <1>2, FibersHaveParts
<1>4. ~out.leaf.done /\ ~out.leaf.due
  BY <1>3, Zenon DEF no
<1> QED
  BY <1>1, <1>3, <1>4, Zenon DEF AreThrown

LEMMA SkippedParts ==
  ASSUME NEW out, NEW o, NEW l, NEW v, NEW r, IsSkipped(out, o, l, v, r)
  PROVE  /\ out.outer = o /\ ~out.fails /\ ~out.apart
         /\ IsFiber(out.leaf) /\ out.leaf.done /\ ~out.leaf.due
         /\ out.leaf.tag = l.tag /\ out.leaf.pending = l.pending /\ out.leaf.memo = l.pending
         /\ out.leaf.child = l.child /\ out.leaf.ref = r
         /\ Skips(l, v, l.ref = r) /\ (Rendering = "forward" => out.ref = attached /\ r = l.ref)
<1> DEFINE yes == TRUE
           no == FALSE
<1>1. /\ out.outer = o /\ out.fails = FALSE /\ out.apart = FALSE
      /\ out.leaf = FiberOf(l.tag, l.pending, l.pending, l.child, r, TRUE, FALSE)
      /\ Skips(l, v, l.ref = r)
      /\ Rendering = "forward" => out.ref = attached /\ r = l.ref
  BY Zenon DEF IsSkipped
<1>2. out.leaf = FiberOf(l.tag, l.pending, l.pending, l.child, r, yes, no) /\ yes \in BOOLEAN /\ no \in BOOLEAN
  BY <1>1
<1> HIDE DEF yes, no
<1>3. /\ IsFiber(out.leaf) /\ out.leaf.tag = l.tag /\ out.leaf.pending = l.pending /\ out.leaf.memo = l.pending
      /\ out.leaf.child = l.child /\ out.leaf.ref = r /\ out.leaf.done = yes /\ out.leaf.due = no
  BY <1>2, FibersHaveParts
<1>4. out.leaf.done /\ ~out.leaf.due
  BY <1>3, Zenon DEF yes, no
<1> QED
  BY <1>1, <1>3, <1>4, Zenon

LEMMA NoOuterIsNone == IsWrapper(NoOuter) /\ ~NoOuter.used /\ IsWrapper(WrapperFiber) /\ WrapperFiber.used
<1>1. NoOuter.used = FALSE /\ NoOuter.misled = FALSE /\ WrapperFiber.used = TRUE /\ WrapperFiber.misled = FALSE
  BY DEF NoOuter, WrapperFiber
<1>2. NoOuter = WrapperOf(NoOuter.used, NoOuter.misled) /\ WrapperFiber = WrapperOf(WrapperFiber.used, WrapperFiber.misled)
  BY <1>1, Zenon DEF NoOuter, WrapperFiber, WrapperOf
<1> QED
  BY <1>1, <1>2, Zenon DEF IsWrapper

(* A leaf of its own, as it begins to render with the element e.           *)
LoneBegins(l, e) ==
  /\ IsFiber(l) /\ l.tag \notin {"none", "LazyComponent"} /\ l.pending = e.value /\ TagFits(l)
  /\ l.child # Nil => l.child = AskedFor(l.memo) \/ Lost(l.memo)
  /\ l.done => l.memo = l.pending /\ l.ref = e.ref /\ (l.tag = "ForwardRef" => l.child # Nil)
  /\ l.child # Nil /\ Rendering = "forward" => attached = l.ref

ShownTo(l, e) ==
  IF componentType.lazy /\ l.tag # "SimpleMemoComponent" THEN WithDefault(e.value, componentType.default) ELSE e.value

LEMMA LoneLeavesFit ==
  ASSUME componentType \in Components, NEW l, NEW e, ElementFits(e), LoneBegins(l, e), NEW out,
         out = BeginLeaf(NoOuter, l, ShownTo(l, e), e.ref)
  PROVE  OutcomeFits(out, l, e)
<1> DEFINE v == ShownTo(l, e)
           f == out.leaf
           r == e.ref
<1>1. IsFiber(l) /\ l.pending = e.value /\ TagFits(l) /\ l.tag # "none" /\ l.tag # "LazyComponent"
  BY DEF LoneBegins
<1>2. /\ componentType.innerDefault = NotGiven
      /\ componentType.kind = "memo" <=> l.tag = "SimpleMemoComponent"
      /\ l.tag = "SimpleMemoComponent" => Rendering = "function"
  BY <1>1, DefaultsAreKnown DEF TagFits, isSimpleFunctionComponent
<1>3. /\ v # Nil /\ (v = AskedFor(e.value) \/ Lost(e.value))
      /\ componentType.kind # "memo" => AskedFor(v) = v
      /\ componentType.kind = "memo" => v = e.value
  <2>1. v = IF componentType.lazy /\ componentType.kind # "memo" THEN WithDefault(e.value, componentType.default) ELSE e.value
    BY <1>2 DEF ShownTo
  <2> QED
    BY <1>2, <2>1, AskedOnce
<1>4. \/ l.done /\ ~l.due /\ Stays(out, NoOuter, l)
      \/ /\ ~(l.done /\ ~l.due)
         /\ RendersLeaf(out, NoOuter, l, v, r) \/ Throws(out, NoOuter, l, r) \/ IsSkipped(out, NoOuter, l, v, r)
  BY <1>1, LeavesEnd
<1> HIDE DEF v, r
<1>5. CASE l.done /\ ~l.due /\ Stays(out, NoOuter, l)
  <2>1. f = l /\ out.outer = NoOuter /\ ~out.fails /\ ~out.apart /\ out.ref = attached
    BY <1>5, Zenon DEF Stays, IsLeft
  <2>2. LoneFits(l, e)
    BY <1>5, <1>1 DEF LoneFits, LoneBegins
  <2>3. LeafFits(NoOuter, l, e)
    BY <1>1, <1>5, <2>2, NoOuterIsNone DEF LeafFits, LoneBegins
  <2> QED
    BY <1>1, <1>5, <2>1, <2>3, NoOuterIsNone DEF OutcomeFits, LoneBegins
<1>6. CASE RendersLeaf(out, NoOuter, l, v, r)
  <2>0. AreRendered(out, NoOuter, l, v, r)
    BY <1>6, RenderedParts
  <2>1. /\ out.thrown = {} /\ out.outer = NoOuter /\ ~out.fails /\ out.placed
        /\ IsFiber(f) /\ f.done /\ ~f.due
        /\ f.tag \in {l.tag, MountedTag(l.tag)}
        /\ f.pending = l.pending /\ f.memo = l.pending /\ f.child = v /\ f.ref = r
        /\ Rendering = "forward" => out.ref = r
    BY <2>0, Zenon DEF AreRendered
  <2> HIDE DEF f
  <2>2. TagFits(f) /\ f.tag \notin {"none", "LazyComponent"}
    BY <1>1, <1>2, <2>1, TagsFit DEF TagFits
  <2>3. LoneFits(f, e)
    BY <1>1, <1>3, <2>1, <2>2 DEF LoneFits
  <2>4. LeafFits(NoOuter, f, e)
    BY <1>3, <2>1, <2>2, <2>3, NoOuterIsNone DEF LeafFits, r
  <2> QED
    BY <1>3, <2>1, <2>4, NoOuterIsNone DEF OutcomeFits, f
<1>7. CASE Throws(out, NoOuter, l, r)
  <2>0. AreThrown(out, NoOuter, l, r)
    BY <1>7, ThrownParts
  <2>1. /\ out.thrown # {} /\ out.outer = NoOuter /\ ~out.fails
        /\ IsFiber(f) /\ ~f.done /\ ~f.due
        /\ f.tag \in {l.tag, SuspendedTag(l.tag)}
        /\ f.pending = l.pending /\ f.child = Nil /\ f.ref = r
    BY <2>0, Zenon DEF AreThrown
  <2> HIDE DEF f
  <2>2. TagFits(f) /\ f.tag \notin {"none", "LazyComponent"}
    BY <1>1, <1>2, <2>1, TagsFit DEF TagFits
  <2>3. LoneFits(f, e)
    BY <1>1, <2>1, <2>2 DEF LoneFits
  <2>4. LeafFits(NoOuter, f, e)
    BY <2>1, <2>2, <2>3, NoOuterIsNone DEF LeafFits, r
  <2> QED
    BY <2>1, <2>4, NoOuterIsNone DEF OutcomeFits, f
<1>8. CASE ~(l.done /\ ~l.due) /\ IsSkipped(out, NoOuter, l, v, r)
  <2>1. /\ out.outer = NoOuter /\ ~out.fails /\ ~out.apart
        /\ IsFiber(f) /\ f.done /\ ~f.due
        /\ f.tag = l.tag /\ f.pending = l.pending /\ f.memo = l.pending /\ f.child = l.child /\ f.ref = r
        /\ Skips(l, v, l.ref = r) /\ (Rendering = "forward" => out.ref = attached /\ r = l.ref)
    BY <1>8, SkippedParts
  <2> HIDE DEF f
  <2>2. \/ l.tag = "ForwardRef" /\ l.done
        \/ l.tag = "ClassComponent" /\ ~l.due /\ l.memo = v
        \/ l.tag = "SimpleMemoComponent" /\ ~l.due /\ l.memo = v
    BY <2>1 DEF Skips
  <2>3. TagFits(f)
    BY <1>1, <2>1 DEF TagFits
  <2>4. l.child # Nil => l.child = AskedFor(f.memo) \/ Lost(f.memo)
    <3>1. l.child # Nil => l.child = AskedFor(l.memo) \/ Lost(l.memo)
      BY DEF LoneBegins
    <3>2. l.done => l.memo = l.pending
      BY DEF LoneBegins
    <3>3. CASE l.memo = l.pending
      BY <2>1, <3>1, <3>3
    <3>4. CASE l.tag = "ClassComponent" /\ l.memo = v
      <4>1. componentType.kind # "memo" /\ AskedFor(v) = v /\ ~Lost(v)
        BY <1>2, <1>3, <3>4 DEF Lost
      <4>2. f.memo = e.value
        BY <1>1, <2>1
      <4> QED
        BY <1>3, <3>1, <3>4, <4>1, <4>2
    <3>5. CASE l.tag = "SimpleMemoComponent" /\ l.memo = v
      BY <1>1, <1>2, <1>3, <2>1, <3>1, <3>5
    <3> QED
      BY <2>2, <3>2, <3>3, <3>4, <3>5
  <2>5. LoneFits(f, e)
    BY <1>1, <2>1, <2>3, <2>4 DEF LoneFits
  <2>6. f.tag = "ForwardRef" => f.child # Nil
    BY <2>1, <2>2 DEF LoneBegins
  <2>7. LeafFits(NoOuter, f, e)
    BY <1>1, <2>1, <2>5, <2>6, NoOuterIsNone DEF LeafFits, r
  <2>8. l.child # Nil /\ Rendering = "forward" => attached = l.ref
    BY DEF LoneBegins
  <2>9. f.child = Nil => ~l.due
    BY <2>1, <2>2, <2>6
  <2> QED
    BY <1>1, <2>1, <2>7, <2>8, <2>9, NoOuterIsNone DEF OutcomeFits, f
<1> QED
  BY <1>4, <1>5, <1>6, <1>7, <1>8

(* A leaf with the fiber o around it, as it begins to render with v.       *)
InnerBegins(o, l, v, e) ==
  /\ IsFiber(l) /\ IsWrapper(o) /\ o.used /\ componentType.kind = "memo"
  /\ l.tag \notin {"none", "LazyComponent", "SimpleMemoComponent"} /\ l.pending = v /\ v # Nil
  /\ l.child # Nil /\ l.memo = v => l.child = v
  /\ l.done => l.memo = v /\ l.ref = e.ref /\ (l.tag = "ForwardRef" => l.child # Nil)
  /\ o.misled \/ componentType.compares \/ Lost(e.value) \/ v = AskedFor(e.value)
  /\ l.child # Nil /\ Rendering = "forward" => attached = l.ref

LEMMA InnerLeavesFit ==
  ASSUME NEW l, NEW o, NEW v, NEW e, InnerBegins(o, l, v, e), NEW out, out = BeginLeaf(o, l, v, e.ref)
  PROVE  OutcomeFits(out, l, e)
<1> DEFINE f == out.leaf
           r == e.ref
<1>1. /\ IsFiber(l) /\ IsWrapper(o) /\ o.used /\ componentType.kind = "memo" /\ l.pending = v /\ v # Nil
      /\ l.tag \notin {"none", "LazyComponent", "SimpleMemoComponent"}
      /\ o.misled \/ componentType.compares \/ Lost(e.value) \/ v = AskedFor(e.value)
  BY DEF InnerBegins
<1>2. /\ l.child # Nil /\ l.memo = v => l.child = v
      /\ l.done => l.memo = v /\ l.ref = e.ref /\ (l.tag = "ForwardRef" => l.child # Nil)
      /\ l.child # Nil /\ Rendering = "forward" => attached = l.ref
  BY DEF InnerBegins
<1>3. \/ l.done /\ ~l.due /\ Stays(out, o, l)
      \/ /\ ~(l.done /\ ~l.due)
         /\ RendersLeaf(out, o, l, v, r) \/ Throws(out, o, l, r) \/ IsSkipped(out, o, l, v, r)
  BY <1>1, LeavesEnd
<1> HIDE DEF r
<1>4. CASE l.done /\ ~l.due /\ Stays(out, o, l)
  <2>1. f = l /\ out.outer = o /\ ~out.fails /\ ~out.apart /\ out.ref = attached
    BY <1>4, Zenon DEF Stays, IsLeft
  <2>2. InnerFits(o, l, e)
    BY <1>1, <1>2, <1>4 DEF InnerFits
  <2>3. LeafFits(o, l, e)
    BY <1>1, <1>2, <1>4, <2>2 DEF LeafFits
  <2> QED
    BY <1>1, <1>2, <1>4, <2>1, <2>3 DEF OutcomeFits
<1>5. CASE RendersLeaf(out, o, l, v, r)
  <2>0. AreRendered(out, o, l, v, r)
    BY <1>5, RenderedParts
  <2>1. /\ out.thrown = {} /\ out.outer = o /\ ~out.fails /\ out.placed
        /\ IsFiber(f) /\ f.done /\ ~f.due
        /\ f.tag \in {l.tag, MountedTag(l.tag)}
        /\ f.pending = l.pending /\ f.memo = l.pending /\ f.child = v /\ f.ref = r
        /\ Rendering = "forward" => out.ref = r
    BY <2>0, Zenon DEF AreRendered
  <2> HIDE DEF f
  <2>2. f.tag \notin {"none", "LazyComponent", "SimpleMemoComponent"}
    BY <1>1, <2>1, TagsFit
  <2>3. InnerFits(o, f, e)
    BY <1>1, <2>1, <2>2 DEF InnerFits
  <2>4. LeafFits(o, f, e)
    BY <1>1, <2>1, <2>2, <2>3 DEF LeafFits, r
  <2> QED
    BY <1>1, <2>1, <2>4 DEF OutcomeFits, f
<1>6. CASE Throws(out, o, l, r)
  <2>0. AreThrown(out, o, l, r)
    BY <1>6, ThrownParts
  <2>1. /\ out.thrown # {} /\ out.outer = o /\ ~out.fails
        /\ IsFiber(f) /\ ~f.done /\ ~f.due
        /\ f.tag \in {l.tag, SuspendedTag(l.tag)}
        /\ f.pending = l.pending /\ f.child = Nil /\ f.ref = r
    BY <2>0, Zenon DEF AreThrown
  <2> HIDE DEF f
  <2>2. f.tag \notin {"none", "LazyComponent", "SimpleMemoComponent"}
    BY <1>1, <2>1, TagsFit
  <2>3. InnerFits(o, f, e)
    BY <1>1, <2>1, <2>2 DEF InnerFits
  <2>4. LeafFits(o, f, e)
    BY <1>1, <2>1, <2>2, <2>3 DEF LeafFits, r
  <2> QED
    BY <1>1, <2>1, <2>4 DEF OutcomeFits, f
<1>7. CASE ~(l.done /\ ~l.due) /\ IsSkipped(out, o, l, v, r)
  <2>1. /\ out.outer = o /\ ~out.fails /\ ~out.apart
        /\ IsFiber(f) /\ f.done /\ ~f.due
        /\ f.tag = l.tag /\ f.pending = l.pending /\ f.memo = l.pending /\ f.child = l.child /\ f.ref = r
        /\ Skips(l, v, l.ref = r) /\ (Rendering = "forward" => out.ref = attached /\ r = l.ref)
    BY <1>7, SkippedParts
  <2> HIDE DEF f
  <2>2. \/ l.tag = "ForwardRef" /\ l.done
        \/ l.tag = "ClassComponent" /\ ~l.due /\ l.memo = v
    BY <1>1, <2>1 DEF Skips
  <2>3. InnerFits(o, f, e)
    BY <1>1, <1>2, <2>1, <2>2 DEF InnerFits
  <2>4. f.tag = "ForwardRef" => f.child # Nil
    BY <1>2, <2>1, <2>2
  <2>5. LeafFits(o, f, e)
    BY <1>1, <2>1, <2>3, <2>4 DEF LeafFits, r
  <2>6. f.child = Nil => ~l.due
    BY <2>1, <2>2, <2>4
  <2> QED
    BY <1>1, <1>2, <2>1, <2>5, <2>6 DEF OutcomeFits, f
<1> QED
  BY <1>3, <1>4, <1>5, <1>6, <1>7

LEMMA WrappersChange ==
  ASSUME NEW o, IsWrapper(o), NEW b \in BOOLEAN, NEW w, w = [o EXCEPT !.misled = b]
  PROVE  IsWrapper(w) /\ w.used = o.used /\ w.misled = b
<1> DEFINE u == o.used
           c == o.misled
<1>1. o = WrapperOf(u, c) /\ u \in BOOLEAN
  BY Zenon DEF IsWrapper
<1> HIDE DEF u, c
<1>2. w = WrapperOf(u, b)
  BY <1>1 DEF WrapperOf
<1>3. w.used = u /\ w.misled = b
  BY <1>2 DEF WrapperOf
<1> QED
  BY <1>1, <1>2, <1>3, Zenon DEF IsWrapper, u

(* updateMemoComponent of a fiber around the leaf, which was rendered with *)
(* the element g.                                                          *)
LEMMA MemosFit ==
  ASSUME componentType \in Components, NEW l, NEW e, NEW g, NEW new \in BOOLEAN,
         IsFiber(l), IsWrapper(outer), outer.used, LeafFits(outer, l, g), ElementFits(e),
         l.child # Nil /\ Rendering = "forward" => attached = l.ref,
         new => l = leaf /\ ~l.due, ~new => e = g, NEW out, out = UpdateMemo(l, e, new)
  PROVE  out.fails \/ OutcomeFits(out, l, e)
<1> DEFINE v == WithDefault(e.value, componentType.innerDefault)
           b == outer.misled \/ (~l.done /\ l.pending # v)
           kept == [outer EXCEPT !.misled = @ \/ (~l.done /\ l.pending # v)]
<1>1. InnerFits(outer, l, g) /\ l.tag # "none" /\ l.ref = g.ref /\ (l.tag = "ForwardRef" /\ l.done => l.child # Nil)
  BY DEF LeafFits
<1>2. /\ componentType.kind = "memo" /\ l.tag \notin {"LazyComponent", "SimpleMemoComponent"} /\ l.pending # Nil
      /\ l.child # Nil => l.child = l.pending /\ l.memo = l.pending
      /\ l.done => l.memo = l.pending
      /\ outer.misled \/ componentType.compares \/ Lost(g.value) \/ l.pending = AskedFor(g.value)
  BY <1>1 DEF InnerFits
<1>3. v # Nil /\ (v = AskedFor(e.value) \/ Lost(e.value))
  BY <1>2, AskedOfInner
<1> HIDE DEF v
<1>4. CASE ~new /\ l.due
  <2>1. out = BeginLeaf(outer, l, l.pending, e.ref)
    BY <1>1, <1>4 DEF UpdateMemo
  <2>2. InnerBegins(outer, l, l.pending, e)
    BY <1>1, <1>2, <1>4 DEF InnerBegins
  <2> QED
    BY <2>1, <2>2, InnerLeavesFit
<1>5. CASE ~new /\ ~l.due
  <2>1. out = Outcome(outer, l, {}, FALSE, FALSE, attached)
    BY <1>5 DEF UpdateMemo
  <2> DEFINE left == Outcome(outer, l, {}, FALSE, FALSE, attached)
  <2>b. Stays(left, outer, l)
    BY Zenon DEF Outcome, IsLeft, Stays
  <2>a. Stays(out, outer, l)
    BY <2>1, <2>b
  <2>2. out.leaf = l /\ out.outer = outer /\ ~out.fails /\ ~out.apart /\ out.ref = attached
    BY <2>a, Zenon DEF IsLeft, Stays
  <2> QED
    BY <1>1, <1>5, <2>2 DEF OutcomeFits
<1>6. CASE new /\ ComparesNothing
  BY <1>6, FailureFails DEF UpdateMemo
<1>7. CASE new /\ ~ComparesNothing /\ AreEqual(v, e.ref)
  <2>1. out = Outcome(kept, l, {}, FALSE, FALSE, attached)
    BY <1>7 DEF UpdateMemo, v
  <2> HIDE DEF kept
  <2> DEFINE left == Outcome(kept, l, {}, FALSE, FALSE, attached)
  <2>b. Stays(left, kept, l)
    BY Zenon DEF Outcome, IsLeft, Stays
  <2>a. Stays(out, kept, l)
    BY <2>1, <2>b
  <2>2. out.leaf = l /\ out.outer = kept /\ ~out.fails /\ ~out.apart /\ out.ref = attached
    BY <2>a, Zenon DEF IsLeft, Stays
  <2>3. IsWrapper(kept) /\ kept.used = outer.used /\ kept.misled = b
    <3>1. kept = [outer EXCEPT !.misled = b] /\ b \in BOOLEAN
      BY DEF kept
    <3> HIDE DEF b
    <3> QED
      BY <3>1, WrappersChange
  <2>4. l.ref = e.ref /\ (componentType.compares \/ l.memo = v) /\ ~l.due
    BY <1>7 DEF AreEqual
  <2> QED
    BY <1>1, <1>2, <1>3, <1>7, <2>2, <2>3, <2>4 DEF OutcomeFits, LeafFits, InnerFits
<1>8. CASE new /\ ~ComparesNothing /\ ~AreEqual(v, e.ref)
  <2> DEFINE m == [l EXCEPT !.pending = v, !.done = FALSE]
  <2>1. out = BeginLeaf(WrapperFiber, m, v, e.ref)
    BY <1>8 DEF UpdateMemo, v
  <2>2. m = FiberOf(l.tag, v, l.memo, l.child, l.ref, FALSE, l.due)
    BY FibersChange
  <2> HIDE DEF m
  <2>3. IsFiber(m) /\ m.tag = l.tag /\ m.pending = v /\ m.memo = l.memo /\ m.child = l.child /\ m.ref = l.ref /\ ~m.done /\ m.due = l.due
    <3> DEFINE no == FALSE
    <3>1. m = FiberOf(l.tag, v, l.memo, l.child, l.ref, no, l.due) /\ no \in BOOLEAN /\ l.due \in BOOLEAN
      BY <2>2 DEF IsFiber
    <3> HIDE DEF no
    <3>2. IsFiber(m) /\ m.tag = l.tag /\ m.pending = v /\ m.memo = l.memo /\ m.child = l.child /\ m.ref = l.ref /\ m.done = no /\ m.due = l.due
      BY <3>1, FibersHaveParts
    <3> QED
      BY <3>2, Zenon DEF no
  <2>4. InnerBegins(WrapperFiber, m, v, e)
    BY <1>1, <1>2, <1>3, <2>3, NoOuterIsNone DEF InnerBegins
  <2>5. OutcomeFits(out, m, e)
    BY <2>1, <2>4, InnerLeavesFit
  <2> QED
    BY <2>3, <2>5 DEF OutcomeFits
<1> QED
  BY <1>4, <1>5, <1>6, <1>7, <1>8

(* The first render of a fiber, whatever was there before.                 *)
LEMMA LoneMountsFit ==
  ASSUME componentType \in Components, NEW l, NEW e, NEW v, NEW apart \in BOOLEAN, NEW tag, NEW n,
         n = createFiber(tag, e.value, e.ref), tag \notin {"none", "LazyComponent"},
         componentType.kind = "memo" <=> tag = "SimpleMemoComponent",
         tag = "SimpleMemoComponent" => isSimpleFunctionComponent,
         v # Nil, v = AskedFor(e.value) \/ Lost(e.value), NEW out, out = Mount(NoOuter, n, v, TRUE, apart)
  PROVE  OutcomeFits(out, l, e)
<1> DEFINE f == out.leaf
           r == e.ref
<1>1. IsFiber(n) /\ n.tag = tag /\ n.pending = e.value /\ n.ref = r
  BY FibersAreMade
<1>2. RendersLeaf(out, NoOuter, n, v, r) \/ Throws(out, NoOuter, n, r)
  BY <1>1, MountEnds
<1>3. tag = "SimpleMemoComponent" => Rendering = "function"
  BY DEF isSimpleFunctionComponent
<1> HIDE DEF r
<1>4. CASE RendersLeaf(out, NoOuter, n, v, r)
  <2>0. AreRendered(out, NoOuter, n, v, r)
    BY <1>4, RenderedParts
  <2>1. /\ out.thrown = {} /\ out.outer = NoOuter /\ ~out.fails /\ out.placed
        /\ IsFiber(f) /\ f.done /\ ~f.due
        /\ f.tag \in {n.tag, MountedTag(n.tag)}
        /\ f.pending = n.pending /\ f.memo = n.pending /\ f.child = v /\ f.ref = r
        /\ Rendering = "forward" => out.ref = r
    BY <2>0, Zenon DEF AreRendered
  <2> HIDE DEF f
  <2>2. TagFits(f) /\ f.tag \notin {"none", "LazyComponent"}
    BY <1>1, <1>3, <2>1, TagsFit DEF TagFits
  <2>3. LoneFits(f, e)
    BY <1>1, <2>1, <2>2 DEF LoneFits
  <2>4. LeafFits(NoOuter, f, e)
    BY <2>1, <2>2, <2>3, NoOuterIsNone DEF LeafFits, r
  <2> QED
    BY <2>1, <2>4, NoOuterIsNone DEF OutcomeFits, f
<1>5. CASE Throws(out, NoOuter, n, r)
  <2>0. AreThrown(out, NoOuter, n, r)
    BY <1>5, ThrownParts
  <2>1. /\ out.thrown # {} /\ out.outer = NoOuter /\ ~out.fails
        /\ IsFiber(f) /\ ~f.done /\ ~f.due
        /\ f.tag \in {n.tag, SuspendedTag(n.tag)}
        /\ f.pending = n.pending /\ f.child = Nil /\ f.ref = r
    BY <2>0, Zenon DEF AreThrown
  <2> HIDE DEF f
  <2>2. TagFits(f) /\ f.tag \notin {"none", "LazyComponent"}
    BY <1>1, <1>3, <2>1, TagsFit DEF TagFits
  <2>3. LoneFits(f, e)
    BY <1>1, <2>1, <2>2 DEF LoneFits
  <2>4. LeafFits(NoOuter, f, e)
    BY <2>1, <2>2, <2>3, NoOuterIsNone DEF LeafFits, r
  <2> QED
    BY <2>1, <2>4, NoOuterIsNone DEF OutcomeFits, f
<1> QED
  BY <1>2, <1>4, <1>5

LEMMA InnerMountsFit ==
  ASSUME NEW l, NEW e, NEW v, NEW apart \in BOOLEAN, NEW tag, NEW n, componentType.kind = "memo",
         n = createFiber(tag, v, e.ref), tag \notin {"none", "LazyComponent", "SimpleMemoComponent"},
         v # Nil, v = AskedFor(e.value) \/ Lost(e.value), NEW out, out = Mount(WrapperFiber, n, v, TRUE, apart)
  PROVE  OutcomeFits(out, l, e)
<1> DEFINE f == out.leaf
           r == e.ref
<1>1. IsFiber(n) /\ n.tag = tag /\ n.pending = v /\ n.ref = r
  BY FibersAreMade
<1>2. RendersLeaf(out, WrapperFiber, n, v, r) \/ Throws(out, WrapperFiber, n, r)
  BY <1>1, MountEnds
<1> HIDE DEF r
<1>3. CASE RendersLeaf(out, WrapperFiber, n, v, r)
  <2>0. AreRendered(out, WrapperFiber, n, v, r)
    BY <1>3, RenderedParts
  <2>1. /\ out.thrown = {} /\ out.outer = WrapperFiber /\ ~out.fails /\ out.placed
        /\ IsFiber(f) /\ f.done /\ ~f.due
        /\ f.tag \in {n.tag, MountedTag(n.tag)}
        /\ f.pending = n.pending /\ f.memo = n.pending /\ f.child = v /\ f.ref = r
        /\ Rendering = "forward" => out.ref = r
    BY <2>0, Zenon DEF AreRendered
  <2> HIDE DEF f
  <2>2. f.tag \notin {"none", "LazyComponent", "SimpleMemoComponent"}
    BY <1>1, <2>1, TagsFit
  <2>3. LeafFits(WrapperFiber, f, e)
    BY <1>1, <2>1, <2>2, NoOuterIsNone DEF LeafFits, InnerFits, r
  <2> QED
    BY <2>1, <2>3, NoOuterIsNone DEF OutcomeFits, f
<1>4. CASE Throws(out, WrapperFiber, n, r)
  <2>0. AreThrown(out, WrapperFiber, n, r)
    BY <1>4, ThrownParts
  <2>1. /\ out.thrown # {} /\ out.outer = WrapperFiber /\ ~out.fails
        /\ IsFiber(f) /\ ~f.done /\ ~f.due
        /\ f.tag \in {n.tag, SuspendedTag(n.tag)}
        /\ f.pending = n.pending /\ f.child = Nil /\ f.ref = r
    BY <2>0, Zenon DEF AreThrown
  <2> HIDE DEF f
  <2>2. f.tag \notin {"none", "LazyComponent", "SimpleMemoComponent"}
    BY <1>1, <2>1, TagsFit
  <2>3. LeafFits(WrapperFiber, f, e)
    BY <1>1, <2>1, <2>2, NoOuterIsNone DEF LeafFits, InnerFits, r
  <2> QED
    BY <2>1, <2>3, NoOuterIsNone DEF OutcomeFits, f
<1> QED
  BY <1>2, <1>3, <1>4

LEMMA MemoMountsFit ==
  ASSUME componentType \in Components, componentType.kind = "memo", NEW l, NEW e, ElementFits(e),
         NEW apart \in BOOLEAN, NEW out, out = MountMemo(e, TRUE, apart)
  PROVE  OutcomeFits(out, l, e)
<1> DEFINE own == IF componentType.lazy THEN WithDefault(e.value, componentType.default) ELSE e.value
           v == WithDefault(own, componentType.innerDefault)
<1>1. own = WithDefault(e.value, componentType.default)
  BY DEF ElementFits
<1>2. v = AskedFor(e.value)
  BY <1>1 DEF AskedFor
<1>3. v # Nil
  BY DefaultsAreKnown DEF ElementFits, WithDefault
<1>4. CASE isSimpleFunctionComponent /\ ~componentType.compares
  <2> DEFINE tag == "SimpleMemoComponent"
             n == createFiber(tag, e.value, e.ref)
  <2>1. out = Mount(NoOuter, n, v, TRUE, apart)
    BY <1>4 DEF MountMemo
  <2>2. /\ n = createFiber(tag, e.value, e.ref) /\ tag \notin {"none", "LazyComponent"}
        /\ componentType.kind = "memo" <=> tag = "SimpleMemoComponent"
    OBVIOUS
  <2> HIDE DEF v, tag, n
  <2> QED
    BY <1>2, <1>3, <1>4, <2>1, <2>2, LoneMountsFit
<1>5. CASE ~(isSimpleFunctionComponent /\ ~componentType.compares)
  <2> DEFINE tag == TypeTag(componentType.inner)
             n == createFiber(tag, v, e.ref)
  <2>1. out = Mount(WrapperFiber, n, v, TRUE, apart)
    BY <1>5 DEF MountMemo
  <2>2. tag \notin {"none", "LazyComponent", "SimpleMemoComponent"}
    BY DEF TypeTag
  <2> HIDE DEF v, tag
  <2>3. n = createFiber(tag, v, e.ref)
    OBVIOUS
  <2> HIDE DEF n
  <2> QED
    BY <1>2, <1>3, <2>1, <2>2, <2>3, InnerMountsFit
<1> QED
  BY <1>4, <1>5

(* readLazyComponentType and the mount of what it returns.                 *)
LEMMA LazyMountsFit ==
  ASSUME componentType \in Components, componentType.lazy, NEW l, NEW e, ElementFits(e),
         NEW apart \in BOOLEAN, NEW out, out = MountLazy(e, TRUE, apart)
  PROVE  out.fails \/ OutcomeFits(out, l, e)
<1>1. CASE status = "rejected"
  BY <1>1, FailureFails DEF MountLazy
<1>2. CASE status # "rejected" /\ status # "resolved"
  <2> DEFINE n == createFiber("LazyComponent", e.value, e.ref)
             left == Outcome(NoOuter, n, {"module"}, TRUE, apart, Nil)
  <2>1. out = left
    BY <1>2 DEF MountLazy
  <2>2. IsLeft(left, NoOuter, {"module"}, TRUE, apart, Nil) /\ left.leaf = n
    BY Zenon DEF Outcome, IsLeft
  <2> HIDE DEF left
  <2>3. out.thrown # {} /\ out.outer = NoOuter /\ ~out.fails /\ out.leaf = n
    BY <2>1, <2>2 DEF IsLeft
  <2>4. IsFiber(n) /\ n.tag = "LazyComponent" /\ n.pending = e.value /\ n.ref = e.ref
    BY FibersAreMade
  <2>5. n.child = Nil /\ ~n.done /\ ~n.due
    BY DEF createFiber
  <2> HIDE DEF n
  <2>6. LoneFits(n, e)
    BY <2>4, <2>5 DEF LoneFits, TagFits
  <2>7. LeafFits(NoOuter, n, e)
    BY <2>4, <2>5, <2>6, NoOuterIsNone DEF LeafFits
  <2> QED
    BY <2>3, <2>4, <2>5, <2>7, NoOuterIsNone DEF OutcomeFits
<1>3. CASE status = "resolved" /\ componentType.kind = "memo"
  <2>1. out = MountMemo(e, TRUE, apart)
    BY <1>3 DEF MountLazy
  <2> QED
    BY <1>3, <2>1, MemoMountsFit
<1>4. CASE status = "resolved" /\ componentType.kind # "memo"
  <2> DEFINE tag == resolveLazyComponentTag(componentType.kind)
             n == createFiber(tag, e.value, e.ref)
             v == WithDefault(e.value, componentType.default)
  <2>1. out = Mount(NoOuter, n, v, TRUE, apart)
    BY <1>4 DEF MountLazy
  <2>2. tag \notin {"none", "LazyComponent", "SimpleMemoComponent"}
    BY DEF resolveLazyComponentTag, TypeTag
  <2>3. v # Nil /\ (v = AskedFor(e.value) \/ Lost(e.value))
    BY <1>4, AskedOnce, DefaultsAreKnown
  <2>4. n = createFiber(tag, e.value, e.ref)
    OBVIOUS
  <2> HIDE DEF tag, n, v
  <2> QED
    BY <1>4, <2>1, <2>2, <2>3, <2>4, LoneMountsFit
<1> QED
  BY <1>1, <1>2, <1>3, <1>4

(* The child of the boundary, last rendered with the element g.            *)
LEMMA ChildrenFit ==
  ASSUME componentType \in Components, NEW l, NEW e, NEW g, NEW new \in BOOLEAN, IsFiber(l), ElementFits(e),
         l.tag # "none" =>
           /\ IsWrapper(outer) /\ LeafFits(outer, l, g)
           /\ l.child # Nil /\ Rendering = "forward" => attached = l.ref,
         new => l = leaf /\ ~l.due, ~new => e = g, NEW out, out = BeginChild(l, e, new)
  PROVE  out.fails \/ OutcomeFits(out, l, e)
<1> DEFINE no == FALSE
           yes == TRUE
<1>0. no \in BOOLEAN /\ yes \in BOOLEAN
  OBVIOUS
<1>1. CASE l.tag = "none" /\ componentType.lazy
  <2>1. out = MountLazy(e, TRUE, no)
    BY <1>1 DEF BeginChild
  <2> HIDE DEF no, yes
  <2> QED
    BY <1>0, <1>1, <2>1, LazyMountsFit
<1>2. CASE l.tag = "none" /\ ~componentType.lazy /\ componentType.kind = "memo"
  <2>1. out = MountMemo(e, TRUE, no)
    BY <1>2 DEF BeginChild
  <2> HIDE DEF no, yes
  <2> QED
    BY <1>0, <1>2, <2>1, MemoMountsFit
<1>3. CASE l.tag = "none" /\ ~componentType.lazy /\ componentType.kind # "memo"
  <2> DEFINE tag == TypeTag(componentType.kind)
             n == createFiber(tag, e.value, e.ref)
             v == e.value
  <2>1. out = Mount(NoOuter, n, v, TRUE, no)
    BY <1>3 DEF BeginChild
  <2>2. tag \notin {"none", "LazyComponent", "SimpleMemoComponent"}
    BY DEF TypeTag
  <2>3. v # Nil /\ (v = AskedFor(e.value) \/ Lost(e.value))
    BY <1>3, AskedOnce, DefaultsAreKnown
  <2>4. n = createFiber(tag, e.value, e.ref)
    OBVIOUS
  <2> HIDE DEF tag, n, v, no, yes
  <2> QED
    BY <1>0, <1>3, <2>1, <2>2, <2>3, <2>4, LoneMountsFit
<1>4. CASE l.tag = "LazyComponent"
  <2>1. componentType.lazy
    BY <1>4 DEF LeafFits, LoneFits, InnerFits, TagFits
  <2>2. out = MountLazy(e, TRUE, yes)
    BY <1>4 DEF BeginChild
  <2> HIDE DEF no, yes
  <2> QED
    BY <1>0, <2>1, <2>2, LazyMountsFit
<1>5. CASE l.tag \notin {"none", "LazyComponent"} /\ outer.used
  <2>1. out = UpdateMemo(l, e, new)
    BY <1>5 DEF BeginChild
  <2> QED
    BY <1>5, <2>1, MemosFit
<1>6. CASE l.tag \notin {"none", "LazyComponent"} /\ ~outer.used
  <2> DEFINE v == e.value
             m == IF new THEN [l EXCEPT !.pending = v, !.done = FALSE] ELSE l
  <2>1. out = BeginLeaf(NoOuter, m, ShownTo(l, e), e.ref)
    BY <1>6 DEF BeginChild, ShownTo
  <2>2. /\ LoneFits(l, g) /\ l.ref = g.ref /\ (l.tag = "ForwardRef" /\ l.done => l.child # Nil)
        /\ l.child # Nil /\ Rendering = "forward" => attached = l.ref
    BY <1>6 DEF LeafFits
  <2>3. /\ IsFiber(m) /\ m.tag = l.tag /\ m.pending = v /\ m.memo = l.memo /\ m.child = l.child /\ m.ref = l.ref
        /\ (m.due <=> l.due) /\ (m.done => l.done /\ ~new)
    <3>1. CASE new
      <4>1. m = FiberOf(l.tag, v, l.memo, l.child, l.ref, no, l.due) /\ l.due \in BOOLEAN
        BY <3>1, FibersChange DEF IsFiber
      <4> HIDE DEF m, no, v
      <4>2. IsFiber(m) /\ m.tag = l.tag /\ m.pending = v /\ m.memo = l.memo /\ m.child = l.child /\ m.ref = l.ref /\ m.done = no /\ m.due = l.due
        BY <1>0, <4>1, FibersHaveParts
      <4> QED
        BY <4>2, Zenon DEF no
    <3>2. CASE ~new
      BY <2>2, <3>2 DEF LoneFits
    <3> QED
      BY <3>1, <3>2
  <2> HIDE DEF m
  <2>4. LoneBegins(m, e)
    BY <1>6, <2>2, <2>3 DEF LoneBegins, LoneFits, TagFits, v
  <2>5. ShownTo(l, e) = ShownTo(m, e)
    BY <2>3 DEF ShownTo
  <2>6. OutcomeFits(out, m, e)
    BY <2>1, <2>4, <2>5, LoneLeavesFit
  <2> QED
    BY <2>3, <2>6 DEF OutcomeFits
<1> QED
  BY <1>1, <1>2, <1>3, <1>4, <1>5, <1>6

-----------------------------------------------------------------------------
(* What holds after every step: the leaf shows what it was rendered with,  *)
(* and while it is empty a promise that is to call will render it again.   *)
BoundaryInv ==
  /\ boundary # "captured" => (concealed <=> boundary = "timedOut")
  /\ boundary # "primary" => pings # {}
  /\ leaf.child = Nil => \E p \in pings : p.live

SuspenseInv ==
  /\ componentType \in Components
  /\ ~crashed =>
       /\ IsFiber(leaf) /\ IsWrapper(outer) /\ ~leaf.due /\ onScreen = leaf.child
       /\ leaf.tag = "none" => pings = {} /\ leaf.child = Nil
       /\ leaf.tag # "none" =>
            /\ ElementFits(givenElement) /\ LeafFits(outer, leaf, givenElement)
            /\ leaf.child # Nil /\ Rendering = "forward" => attached = leaf.ref
            /\ BoundaryInv

LEMMA AttemptsKeepInv ==
  ASSUME SuspenseInv, NEW l, NEW e, NEW new, NEW awaited, Attempt(l, e, new, awaited), givenElement' = e, ElementFits(e),
         NEW out, out = BeginChild(l, e, new), out.fails \/ OutcomeFits(out, l, e), l.child = leaf.child,
         l.tag # "none" /\ l.child = Nil /\ ~l.due => \E p \in awaited : p.live
  PROVE  SuspenseInv'
<1> DEFINE kept == {IF out.apart THEN [p EXCEPT !.live = FALSE] ELSE p : p \in awaited}
<1>1. /\ ~crashed /\ boundary # "captured"
      /\ crashed' = out.fails
      /\ outer' = out.outer /\ leaf' = out.leaf /\ attached' = out.ref
      /\ onScreen' = IF out.leaf.child = Nil \/ (onScreen = Nil /\ ~out.placed) THEN Nil ELSE out.leaf.child
      /\ pings' = kept \cup {[on |-> t, live |-> TRUE] : t \in out.thrown}
      /\ boundary' = IF out.thrown = {} THEN "primary" ELSE "captured"
      /\ concealed' = (concealed /\ out.thrown # {})
      /\ componentType' = componentType
  BY DEF Attempt
<1>2. CASE out.fails
  BY <1>1, <1>2 DEF SuspenseInv
<1>3. CASE ~out.fails
  <2>1. OutcomeFits(out, l, e) /\ ~crashed'
    BY <1>1, <1>3
  <2>2. /\ IsFiber(out.leaf) /\ IsWrapper(out.outer) /\ ~out.leaf.due
        /\ LeafFits(out.outer, out.leaf, e)
        /\ out.leaf.child # Nil => (l.child # Nil \/ out.placed) /\ (Rendering = "forward" => out.ref = out.leaf.ref)
        /\ out.leaf.child = Nil => out.thrown # {} \/ (l.tag # "none" /\ l.child = Nil /\ ~l.due /\ ~out.apart)
    BY <2>1 DEF OutcomeFits
  <2>3. IsFiber(leaf)' /\ IsWrapper(outer)' /\ ~leaf'.due
    BY <1>1, <2>2 DEF IsFiber, IsWrapper
  <2>4. onScreen' = leaf'.child
    BY <1>1, <2>2 DEF SuspenseInv
  <2>5. leaf'.tag # "none"
    BY <1>1, <2>2 DEF LeafFits
  <2>6. ElementFits(givenElement)'
    BY <1>1 DEF ElementFits, WithDefault
  <2>7. LeafFits(outer, leaf, givenElement)'
    BY <1>1, <2>2 DEF LeafFits, InnerFits, LoneFits, TagFits, AskedFor, Lost, WithDefault, isSimpleFunctionComponent, Rendering
  <2>8. leaf'.child # Nil /\ Rendering' = "forward" => attached' = leaf'.ref
    BY <1>1, <2>2 DEF Rendering
  <2>9. BoundaryInv'
    <3>1. boundary' # "captured" => (concealed' <=> boundary' = "timedOut")
      BY <1>1
    <3>2. out.thrown # {} => \E p \in pings' : p.live
      <4>1. ASSUME NEW t \in out.thrown
            PROVE  \E p \in pings' : p.live
        <5>1. [on |-> t, live |-> TRUE] \in pings' /\ [on |-> t, live |-> TRUE].live
          BY <1>1
        <5> QED
          BY <5>1
      <4> QED
        BY <4>1
    <3>3. boundary' # "primary" => pings' # {}
      BY <1>1, <3>2
    <3>4. leaf'.child = Nil => \E p \in pings' : p.live
      <4>1. CASE out.thrown = {} /\ out.leaf.child = Nil
        <5>1. PICK p \in awaited : p.live
          BY <2>2, <4>1
        <5>2. p \in kept
          BY <2>2, <4>1
        <5> QED
          BY <1>1, <5>1, <5>2
      <4> QED
        BY <1>1, <3>2, <4>1
    <3> QED
      BY <3>1, <3>3, <3>4 DEF BoundaryInv
  <2>10. (componentType \in Components)'
    BY <1>1 DEF SuspenseInv
  <2> QED
    BY <2>1, <2>3, <2>4, <2>5, <2>6, <2>7, <2>8, <2>9, <2>10 DEF SuspenseInv
<1> QED
  BY <1>2, <1>3

(* The leaf as it is, or with a render of its own due, is tried again.     *)
LEMMA RetriesKeepInv ==
  ASSUME SuspenseInv, leaf.tag # "none", NEW l, l = leaf \/ l = [leaf EXCEPT !.due = TRUE], NEW awaited,
         Attempt(l, givenElement, FALSE, awaited), UNCHANGED givenElement,
         l = leaf => \A p \in pings : p.live => p \in awaited
  PROVE  SuspenseInv'
<1> DEFINE e == givenElement
           no == FALSE
           yes == TRUE
           out == BeginChild(l, e, no)
<1>0. no \in BOOLEAN /\ ~no /\ yes \in BOOLEAN
  OBVIOUS
<1>1. ~crashed /\ componentType \in Components
  BY DEF Attempt, SuspenseInv
<1>2. /\ IsFiber(leaf) /\ IsWrapper(outer) /\ ~leaf.due /\ ElementFits(e) /\ LeafFits(outer, leaf, e) /\ BoundaryInv
      /\ leaf.child # Nil /\ Rendering = "forward" => attached = leaf.ref
  BY <1>1 DEF SuspenseInv
<1>3. /\ IsFiber(l) /\ l.tag = leaf.tag /\ l.pending = leaf.pending /\ l.memo = leaf.memo /\ l.child = leaf.child
      /\ l.ref = leaf.ref /\ l.done = leaf.done /\ (l = leaf \/ l.due)
  <2>1. CASE l = leaf
    BY <1>2, <2>1
  <2>2. CASE l = [leaf EXCEPT !.due = TRUE]
    <3>1. l = FiberOf(leaf.tag, leaf.pending, leaf.memo, leaf.child, leaf.ref, leaf.done, yes) /\ leaf.done \in BOOLEAN
      BY <1>2, <2>2, OtherEndsOfFibers DEF IsFiber
    <3> HIDE DEF yes
    <3>2. /\ IsFiber(l) /\ l.tag = leaf.tag /\ l.pending = leaf.pending /\ l.memo = leaf.memo /\ l.child = leaf.child
          /\ l.ref = leaf.ref /\ l.done = leaf.done /\ l.due = yes
      BY <1>0, <3>1, FibersHaveParts
    <3> QED
      BY <3>2, Zenon DEF yes
  <2> QED
    BY <2>1, <2>2
<1>4. LeafFits(outer, l, e)
  BY <1>2, <1>3 DEF LeafFits, InnerFits, LoneFits, TagFits
<1>5. out.fails \/ OutcomeFits(out, l, e)
  <2>1. out = BeginChild(l, e, no)
    OBVIOUS
  <2> HIDE DEF out, no, e
  <2> QED
    BY <1>0, <1>1, <1>2, <1>3, <1>4, <2>1, ChildrenFit
<1>6. l.tag # "none" /\ l.child = Nil /\ ~l.due => \E p \in awaited : p.live
  BY <1>2, <1>3 DEF BoundaryInv
<1>7. out = BeginChild(l, e, no) /\ Attempt(l, e, no, awaited) /\ givenElement' = e
  OBVIOUS
<1> HIDE DEF out, no, e
<1> QED
  BY <1>2, <1>3, <1>5, <1>6, <1>7, AttemptsKeepInv

LEMMA ParentsKeepInv ==
  ASSUME SuspenseInv, NEW v \in PropValues, NEW r \in Refs, ParentRenders(v, r)
  PROVE  SuspenseInv'
<1> DEFINE e == createElement(v, r)
           yes == TRUE
           out == BeginChild(leaf, e, yes)
<1>0. yes \in BOOLEAN /\ yes
  OBVIOUS
<1>1. Attempt(leaf, e, yes, pings) /\ givenElement' = e
  BY DEF ParentRenders
<1>2. ~crashed /\ componentType \in Components
  BY <1>1 DEF Attempt, SuspenseInv
<1>3. ElementFits(e)
  BY <1>2, SuspenseAssumption, DefaultsAreKnown DEF ElementFits, createElement, WithDefault
<1>4. /\ IsFiber(leaf) /\ ~leaf.due
      /\ leaf.tag # "none" =>
           /\ IsWrapper(outer) /\ LeafFits(outer, leaf, givenElement)
           /\ leaf.child # Nil /\ Rendering = "forward" => attached = leaf.ref
  BY <1>2 DEF SuspenseInv
<1>5. out.fails \/ OutcomeFits(out, leaf, e)
  <2>1. out = BeginChild(leaf, e, yes)
    OBVIOUS
  <2> HIDE DEF out, yes, e
  <2> QED
    BY <1>0, <1>2, <1>3, <1>4, <2>1, ChildrenFit
<1>6. leaf.tag # "none" /\ leaf.child = Nil /\ ~leaf.due => \E p \in pings : p.live
  BY <1>2 DEF SuspenseInv, BoundaryInv
<1>7. out = BeginChild(leaf, e, yes)
  OBVIOUS
<1> HIDE DEF out, yes, e
<1> QED
  BY <1>1, <1>3, <1>5, <1>6, <1>7, AttemptsKeepInv

LEMMA SuspenseInvKept == SuspenseInv /\ [SuspenseNext]_suspenseVars => SuspenseInv'
<1> SUFFICES ASSUME SuspenseInv, [SuspenseNext]_suspenseVars
             PROVE  SuspenseInv'
  OBVIOUS
<1>1. ASSUME NEW v \in PropValues, NEW r \in Refs, ParentRenders(v, r)
      PROVE  SuspenseInv'
  BY <1>1, ParentsKeepInv
<1>2. CASE StateChanges
  <2>1. leaf.tag # "none" /\ Attempt([leaf EXCEPT !.due = TRUE], givenElement, FALSE, pings) /\ UNCHANGED givenElement
    BY <1>2 DEF StateChanges
  <2> DEFINE l == [leaf EXCEPT !.due = TRUE]
  <2>2. l = leaf \/ l = [leaf EXCEPT !.due = TRUE]
    OBVIOUS
  <2> HIDE DEF l
  <2> QED
    BY <2>1, <2>2, RetriesKeepInv DEF l
<1>3. ASSUME NEW p \in pings, Retry(p)
      PROVE  SuspenseInv'
  <2> DEFINE l == SourceOf(p)
             awaited == pings \ {p}
  <2>1. Attempt(l, givenElement, FALSE, awaited) /\ UNCHANGED givenElement
    BY <1>3 DEF Retry
  <2>2. leaf.tag # "none" /\ ~leaf.due /\ IsFiber(leaf)
    BY <2>1 DEF Attempt, SuspenseInv
  <2>3. l = leaf \/ l = [leaf EXCEPT !.due = TRUE]
    BY DEF SourceOf
  <2>4. l = leaf => ~p.live
    <3>1. [leaf EXCEPT !.due = TRUE] # leaf
      <4> DEFINE yes == TRUE
                 m == [leaf EXCEPT !.due = yes]
      <4>1. m = FiberOf(leaf.tag, leaf.pending, leaf.memo, leaf.child, leaf.ref, leaf.done, yes) /\ leaf.done \in BOOLEAN /\ yes \in BOOLEAN
        BY <2>2, OtherEndsOfFibers DEF IsFiber
      <4> HIDE DEF yes, m
      <4>2. m.due = yes
        BY <4>1, FibersHaveParts
      <4>3. m # leaf
        BY <2>2, <4>2, Zenon DEF yes
      <4> QED
        BY <4>3 DEF m, yes
    <3> QED
      BY <3>1 DEF SourceOf
  <2>5. l = leaf => \A q \in pings : q.live => q \in awaited
    BY <2>4
  <2> HIDE DEF l, awaited
  <2> QED
    BY <2>1, <2>2, <2>3, <2>5, RetriesKeepInv
<1>4. CASE ShowFallback
  BY <1>4 DEF ShowFallback, SuspenseInv, BoundaryInv, IsFiber, IsWrapper, LeafFits, InnerFits, LoneFits, TagFits, AskedFor, Lost,
              WithDefault, isSimpleFunctionComponent, Rendering, ElementFits
<1>5. CASE UNCHANGED <<componentType, givenElement, outer, leaf, boundary, concealed, onScreen, attached, pings, crashed>>
  BY <1>5 DEF SuspenseInv, BoundaryInv, IsFiber, IsWrapper, LeafFits, InnerFits, LoneFits, TagFits, AskedFor, Lost,
              WithDefault, isSimpleFunctionComponent, Rendering, ElementFits
<1>6. ASSUME NEW v \in Slow, DataArrive(v)
      PROVE  SuspenseInv'
  BY <1>5, <1>6 DEF DataArrive
<1>7. ASSUME NEW s \in {"resolved", "rejected"}, ModuleArrives(s)
      PROVE  SuspenseInv'
  BY <1>5, <1>7 DEF ModuleArrives
<1>8. CASE UNCHANGED suspenseVars
  BY <1>5, <1>8 DEF suspenseVars
<1> QED
  BY <1>1, <1>2, <1>3, <1>4, <1>6, <1>7, <1>8 DEF SuspenseNext

LEMMA SuspenseInvStarts == SuspenseInit => SuspenseInv
<1> SUFFICES ASSUME SuspenseInit
             PROVE  SuspenseInv
  OBVIOUS
<1> DEFINE n == createFiber("none", NotGiven, Nil)
<1>1. /\ componentType \in Components /\ outer = NoOuter /\ leaf = n /\ onScreen = Nil /\ pings = {}
  BY DEF SuspenseInit
<1>2. n.child = Nil /\ n.tag = "none" /\ ~n.due
  BY DEF createFiber
<1>3. IsFiber(n)
  BY FibersAreMade
<1> HIDE DEF n
<1> QED
  BY <1>1, <1>2, <1>3, NoOuterIsNone DEF SuspenseInv

LEMMA SuspenseInvShows == SuspenseInv => ComponentShowsItsProps
<1> SUFFICES ASSUME SuspenseInv, ~crashed, leaf.tag # "none"
             PROVE  /\ onScreen = leaf.child
                    /\ onScreen # Nil => onScreen = Wanted \/ componentType.compares \/ DefaultIsLost \/ outer.misled
                    /\ boundary # "captured" => (concealed <=> boundary = "timedOut")
                    /\ pings = {} => boundary = "primary" /\ onScreen # Nil
                    /\ onScreen # Nil /\ Rendering = "forward" => attached = givenElement.ref
  BY DEF ComponentShowsItsProps
<1>1. /\ onScreen = leaf.child /\ LeafFits(outer, leaf, givenElement)
      /\ leaf.child # Nil /\ Rendering = "forward" => attached = leaf.ref
      /\ boundary # "captured" => (concealed <=> boundary = "timedOut")
      /\ boundary # "primary" => pings # {}
      /\ leaf.child = Nil => \E p \in pings : p.live
  BY DEF SuspenseInv, BoundaryInv
<1>2. leaf.child # Nil => leaf.child = Wanted \/ componentType.compares \/ DefaultIsLost \/ outer.misled
  <2>1. Wanted = AskedFor(givenElement.value) /\ (DefaultIsLost <=> Lost(givenElement.value))
    BY DEF Wanted, AskedFor, DefaultIsLost, Lost
  <2>2. CASE outer.used
    BY <1>1, <2>1, <2>2 DEF LeafFits, InnerFits
  <2>3. CASE ~outer.used
    BY <1>1, <2>1, <2>3 DEF LeafFits, LoneFits
  <2> QED
    BY <2>2, <2>3
<1>3. leaf.ref = givenElement.ref
  BY <1>1 DEF LeafFits
<1> QED
  BY <1>1, <1>2, <1>3

(* Once every promise it waits for has called, the boundary shows its      *)
(* children, and the component what the parent gave it last.               *)
THEOREM ComponentsShowTheirProps == SuspenseSpec => []ComponentShowsItsProps
<1>1. SuspenseSpec => []SuspenseInv
  BY SuspenseInvStarts, SuspenseInvKept, PTL DEF SuspenseSpec
<1> QED
  BY <1>1, SuspenseInvShows, PTL
====
