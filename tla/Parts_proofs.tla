---------------------------- MODULE Parts_proofs ----------------------------
(***************************************************************************)
(* Theorems about the components that MC_Parts checks one at a time.       *)
(*                                                                         *)
(* Levels of a root: what RootLevels checks for four levels, for any set   *)
(* of levels.  Everything rests on one fact about each function of         *)
(* PendingPriority, proved in PendingPriority_proofs: applied to levels    *)
(* that are sound, it returns sound levels.                                *)
(*                                                                         *)
(* Batches: of the children that are not rendered nothing is forgotten     *)
(* (QueueFits) or overlooked by a finished tree (TreeFits), and a root     *)
(* that is not scheduled keeps such a tree and a first batch (RootFits).   *)
(*                                                                         *)
(* react-cache: the entries that are linked are a ring, of as many nodes   *)
(* as the cache counts, the first of them the one used last (CacheFits).   *)
(*                                                                         *)
(* create-subscription: whatever was left out of a render, the last update *)
(* that applies to the base state is about the current value (UpToDate);   *)
(* behind a render that is complete there are only events of sources that  *)
(* are listened to, the last of each with its current value (NewsFit).     *)
(*                                                                         *)
(* Tracing: the counts alone are inductive, but not that they are positive *)
(* where they are used: for that every call on the stack must know what    *)
(* keeps its interactions alive, a call of its own or of one around it     *)
(* (Held).                                                                 *)
(***************************************************************************)
EXTENDS RootLevels, Batches, Cache, Subscription, Tracing, PendingPriority_proofs, SequenceTheorems,
        FiniteSetTheorems, WellFoundedInduction, TLAPS

-----------------------------------------------------------------------------
IInv == Sound(levels)

LEMMA IInvIsLevelsInv == IInv <=> LevelsInv
  BY DEF IInv, Sound, TypeOK, LevelsInv, RangesAgree, PingIsSuspended, WorkIsNext, IsPinged

LEMMA SoundIsSoundButNext == ASSUME NEW root, Sound(root) PROVE SoundButNext(root)
  BY DEF Sound, SoundButNext

LEMMA InitIsSound == Init => IInv
  BY DEF IInv, Init, NewLevels, Sound, Levels, NoLevels, Ranges, IsRange, IsPinged, NoWork

(* No sequence of calls makes the levels of a root unsound.                *)
LEMMA StepIsSound == IInv /\ [Next]_levels => IInv'
<1> SUFFICES ASSUME Sound(levels), [Next]_levels PROVE Sound(levels')
  BY DEF IInv
<1> USE SoundIsSoundButNext
<1>0. \A t \in Times : t \in Nat /\ t # NoWork
  BY TimesAssumption
<1>1. CASE UNCHANGED levels
  BY <1>1
<1>2. ASSUME NEW t \in Times, Schedule(t) PROVE Sound(levels')
  BY <1>0, <1>2, MarkPendingIsSound DEF Schedule
<1>3. ASSUME NEW t \in Times, Suspend(t) PROVE Sound(levels')
  BY <1>0, <1>3, MarkSuspendedIsSound DEF Suspend
<1>4. ASSUME NEW t \in Times, RetrySynchronously(t) PROVE Sound(levels')
  BY <1>0, <1>4 DEF RetrySynchronously, Sound, Levels, IsPinged, IsPriorityLevelSuspended, Sync, NoWork
<1>5. ASSUME NEW t \in Times, Ping(t) PROVE Sound(levels')
  BY <1>0, <1>5, MarkPingedIsSound DEF Ping
<1>6. ASSUME NEW t \in Times \cup {NoWork}, Commit(t) PROVE Sound(levels')
  BY <1>0, <1>6, MarkCommittedIsSound DEF Commit, NoWork
<1>7. ASSUME NEW t \in Times \cup {NoWork}, SetExpirationTime(t) PROVE Sound(levels')
  BY <1>0, <1>7 DEF SetExpirationTime, Sound, Levels, IsPinged, IsPriorityLevelSuspended, NoWork
<1>8. ASSUME NEW t \in Times, Expire(t) PROVE Sound(levels')
  BY <1>0, <1>8 DEF Expire, DidExpireAt, Sound, Levels, IsPinged, IsPriorityLevelSuspended, NoWork
<1> QED
  BY <1>1, <1>2, <1>3, <1>4, <1>5, <1>6, <1>7, <1>8 DEF Next

LEMMA AlwaysSound == Spec => []IInv
  BY InitIsSound, StepIsSound, PTL DEF Spec

(* The levels of a root are levels, whatever is called.                    *)
THEOREM TypeCorrect == Spec => []TypeOK
<1>1. IInv => TypeOK
  BY IInvIsLevelsInv DEF LevelsInv
<1> QED
  BY <1>1, AlwaysSound, PTL

(* The ends of a range agree, a ping is remembered only for a level that   *)
(* is still suspended, and a root with work that can be rendered has a     *)
(* level to work on.                                                       *)
THEOREM LevelsAreSound == Spec => []LevelsInv
  BY AlwaysSound, IInvIsLevelsInv, PTL

(* What a root knows is what its two ranges say.  A range that is extended *)
(* keeps its ends apart; a level that is suspended leaves one range, whose *)
(* ends may come closer, for the other, which covers it then.              *)
KeepsKnown(before, after) ==
  /\ LatestKnown(after) >= LatestKnown(before)
  /\ \A t \in Times : IsNoEarlier(after, t) => IsNoEarlier(before, t)

LEMMA SameRangesKeepKnown ==
  ASSUME NEW before \in Levels, NEW after,
         after.pending = before.pending, after.suspended = before.suspended
  PROVE  KeepsKnown(before, after)
  BY DEF KeepsKnown, LatestKnown, IsNoEarlier, Levels, Ranges

LEMMA MarkPendingKeepsKnown ==
  ASSUME NEW root, Sound(root), NEW t \in Times
  PROVE  KeepsKnown(root, MarkPending(root, t))
<1> DEFINE pending == Extend(root.pending, t)
           marked == [root EXCEPT !.didError = FALSE, !.pending = pending]
<1>1. t \in Nat /\ t # NoWork /\ \A s \in Times : s \in Nat
  BY TimesAssumption
<1>2. root \in Levels /\ root.pending \in Ranges /\ root.suspended \in Ranges
      /\ IsRange(root.pending) /\ IsRange(root.suspended)
  BY DEF Sound, Levels
<1>3. /\ pending \in Ranges /\ root.pending.latest <= pending.latest
      /\ pending.earliest # NoWork
      /\ root.pending.earliest # NoWork => pending.earliest <= root.pending.earliest
  BY <1>1, <1>2, ExtendIsRange
<1>4. marked \in Levels /\ marked.pending = pending /\ marked.suspended = root.suspended
  BY <1>2, <1>3 DEF Levels
<1>5. /\ MarkPending(root, t).pending = pending
      /\ MarkPending(root, t).suspended = root.suspended
  BY <1>1, <1>4, FindNextKeeps DEF MarkPending
<1> HIDE DEF pending
<1> QED
  BY <1>1, <1>2, <1>3, <1>5 DEF KeepsKnown, LatestKnown, IsNoEarlier, Ranges, NoWork

LEMMA MarkSuspendedKeepsKnown ==
  ASSUME NEW root, Sound(root), NEW t \in Times
  PROVE  KeepsKnown(root, MarkSuspended(root, t))
<1> DEFINE pending == Withdraw(root.pending, t)
           suspended == Extend(root.suspended, t)
           pinged == ClearPing(root.latestPingedTime, t)
           marked == [root EXCEPT !.didError = FALSE, !.latestPingedTime = pinged,
                                  !.pending = pending, !.suspended = suspended]
<1>1. t \in Nat /\ t # NoWork /\ \A s \in Times : s \in Nat
  BY TimesAssumption
<1>2. root \in Levels /\ root.pending \in Ranges /\ root.suspended \in Ranges
      /\ IsRange(root.pending) /\ IsRange(root.suspended)
      /\ root.latestPingedTime \in Nat
  BY DEF Sound, Levels
<1>3. /\ pending \in Ranges
      /\ root.pending.latest = t \/ pending.latest = root.pending.latest
      /\ root.pending.earliest = t \/ pending.earliest = root.pending.earliest
  BY <1>1, <1>2, WithdrawIsRange
<1>4. /\ suspended \in Ranges /\ root.suspended.latest <= suspended.latest
      /\ suspended.earliest # NoWork /\ suspended.earliest <= t /\ t <= suspended.latest
      /\ root.suspended.earliest # NoWork => suspended.earliest <= root.suspended.earliest
  BY <1>1, <1>2, ExtendIsRange
<1>5. pinged \in Nat
  BY <1>2 DEF ClearPing, NoWork
<1>6. marked \in Levels /\ marked.pending = pending /\ marked.suspended = suspended
  BY <1>2, <1>3, <1>4, <1>5 DEF Levels
<1>7. /\ MarkSuspended(root, t).pending = pending
      /\ MarkSuspended(root, t).suspended = suspended
  BY <1>1, <1>6, FindNextKeeps DEF MarkSuspended
<1> HIDE DEF pending, suspended
<1>8. LatestKnown(MarkSuspended(root, t)) >= LatestKnown(root)
  BY <1>1, <1>2, <1>3, <1>4, <1>7 DEF LatestKnown, Ranges
<1>9. ASSUME NEW s \in Times, IsNoEarlier(MarkSuspended(root, t), s)
      PROVE  IsNoEarlier(root, s)
  <2>1. s \in Nat /\ s <= suspended.earliest /\ s <= t
    BY <1>1, <1>4, <1>7, <1>9 DEF IsNoEarlier, Ranges
  <2>2. root.suspended.earliest = NoWork \/ s <= root.suspended.earliest
    BY <1>1, <1>2, <1>4, <2>1 DEF Ranges
  <2>3. root.pending.earliest = NoWork \/ s <= root.pending.earliest
    BY <1>3, <1>7, <1>9, <2>1 DEF IsNoEarlier
  <2> QED
    BY <2>2, <2>3 DEF IsNoEarlier
<1> QED
  BY <1>8, <1>9 DEF KeepsKnown

(* Only a commit makes a root forget work: by every other step the         *)
(* earliest and the latest level it knows of stay as they are or get       *)
(* further apart.                                                          *)
THEOREM WorkIsForgottenByCommits == Spec => OnlyCommitsForget
<1> DEFINE Forgets == \/ \E remaining \in Times \cup {NoWork} : Commit(remaining)
                      \/ KeepsKnown(levels, levels')
<1>1. IInv /\ [Next]_levels => Forgets \/ UNCHANGED levels
  <2> SUFFICES ASSUME Sound(levels), Next PROVE Forgets
    BY DEF IInv
  <2>0. levels \in Levels
    BY DEF Sound
  <2>1. ASSUME NEW t \in Times, Schedule(t) PROVE Forgets
    BY <2>1, MarkPendingKeepsKnown DEF Schedule
  <2>2. ASSUME NEW t \in Times, Suspend(t) PROVE Forgets
    BY <2>2, MarkSuspendedKeepsKnown DEF Suspend
  <2>3. ASSUME NEW t \in Times, Ping(t) PROVE Forgets
    <3> DEFINE pinged == IF levels.latestPingedTime < t THEN t ELSE levels.latestPingedTime
               marked == [levels EXCEPT !.didError = FALSE, !.latestPingedTime = pinged]
    <3>1. t \in Nat
      BY TimesAssumption
    <3>2. marked \in Levels /\ marked.pending = levels.pending
          /\ marked.suspended = levels.suspended
      BY <2>0, <3>1 DEF Levels
    <3>3. levels'.pending = levels.pending /\ levels'.suspended = levels.suspended
      BY <2>3, <3>1, <3>2, FindNextKeeps DEF Ping, MarkPinged
    <3> QED
      BY <2>0, <3>3, SameRangesKeepKnown
  <2>4. ASSUME NEW t \in Times \cup {NoWork},
               RetrySynchronously(t) \/ SetExpirationTime(t) \/ Expire(t)
        PROVE  Forgets
    <3>1. levels'.pending = levels.pending /\ levels'.suspended = levels.suspended
      BY <2>0, <2>4 DEF RetrySynchronously, SetExpirationTime, Expire, DidExpireAt, Levels
    <3> QED
      BY <2>0, <3>1, SameRangesKeepKnown
  <2>5. ASSUME NEW t \in Times \cup {NoWork}, Commit(t) PROVE Forgets
    BY <2>5
  <2> QED
    BY <2>1, <2>2, <2>3, <2>4, <2>5 DEF Next
<1> QED
  BY <1>1, AlwaysSound, PTL DEF Spec, OnlyCommitsForget, KeepsKnown

LEMMA PendingAgainIsKnown ==
  ASSUME NEW root, SoundButNext(root), NEW t \in Nat, t # NoWork
  PROVE  LET again == FindNext(MarkPending(root, t), NoWork)
         IN again.pending.earliest <= t /\ t <= again.pending.latest
<1> DEFINE pending == Extend(root.pending, t)
           marked == [root EXCEPT !.didError = FALSE, !.pending = pending]
<1>1. root \in Levels /\ root.pending \in Ranges /\ IsRange(root.pending)
  BY DEF SoundButNext, Levels
<1>2. pending \in Ranges /\ pending.earliest <= t /\ t <= pending.latest
  BY <1>1, ExtendIsRange
<1>3. marked \in Levels /\ marked.pending = pending
  BY <1>1, <1>2 DEF Levels
<1>4. MarkPending(root, t) \in Levels /\ MarkPending(root, t).pending = pending
  BY <1>3, FindNextKeeps DEF MarkPending
<1>5. FindNext(MarkPending(root, t), NoWork).pending = pending
  BY <1>4, FindNextKeeps DEF NoWork
<1> QED
  BY <1>2, <1>5

LEMMA CommittedIsKnown ==
  ASSUME NEW root, Sound(root), NEW t \in Nat, t # NoWork
  PROVE  LET after == MarkCommitted(root, t)
         IN \/ after.pending.earliest <= t /\ t <= after.pending.latest
            \/ IsPriorityLevelSuspended(after, t)
<1> DEFINE flushed == [root EXCEPT !.didError = FALSE,
                                   !.pending = DropBefore(root.pending, t)]
           unsuspended == [flushed EXCEPT !.suspended = NoLevels,
                                          !.latestPingedTime = NoWork]
           again(r) == FindNext(MarkPending(r, t), NoWork)
           isKnown(r) == \/ r.pending.earliest <= t /\ t <= r.pending.latest
                         \/ IsPriorityLevelSuspended(r, t)
<1>1. DropBefore(root.pending, t) \in Ranges /\ IsRange(DropBefore(root.pending, t))
  BY DropBeforeIsRange DEF Sound, Levels
<1>2. SoundButNext(flushed) /\ flushed.suspended = root.suspended
  BY <1>1 DEF Sound, SoundButNext, Levels, IsPinged, IsPriorityLevelSuspended
<1>0. NoLevels \in Ranges /\ IsRange(NoLevels) /\ NoWork \in Nat
  BY DEF NoLevels, Ranges, IsRange, NoWork
<1>3. SoundButNext(unsuspended)
  BY <1>0, <1>2 DEF SoundButNext, Levels, IsPinged
<1>4. FindNext(flushed, NoWork).suspended = root.suspended
  BY <1>2, FindNextKeeps DEF SoundButNext, NoWork
<1>5. isKnown(again(flushed)) /\ isKnown(again(unsuspended))
  BY <1>2, <1>3, PendingAgainIsKnown
<1> HIDE DEF flushed, unsuspended, again
<1>6. \/ MarkCommitted(root, t) = again(flushed)
      \/ MarkCommitted(root, t) = again(unsuspended)
      \/ /\ root.suspended.earliest # NoWork
         /\ ~(t > root.suspended.latest) /\ ~(t < root.suspended.earliest)
         /\ MarkCommitted(root, t) = FindNext(flushed, NoWork)
  BY DEF MarkCommitted, IsMoreUrgentThanSuspended, flushed, unsuspended, again
<1>7. ASSUME root.suspended.earliest # NoWork,
             ~(t > root.suspended.latest), ~(t < root.suspended.earliest)
      PROVE  IsPriorityLevelSuspended(FindNext(flushed, NoWork), t)
  BY <1>4, <1>7 DEF IsPriorityLevelSuspended, Sound, Levels, Ranges
<1> QED
  BY <1>5, <1>6, <1>7

(* A commit does not forget the level left in the tree that it commits.    *)
THEOREM CommitsKeepTheRest == Spec => RemainingIsKnown
<1> DEFINE isKnown(root, t) == \/ root.pending.earliest <= t /\ t <= root.pending.latest
                               \/ IsPriorityLevelSuspended(root, t)
<1>1. IInv /\ [Next]_levels => \A t \in Times : Commit(t) => isKnown(levels', t)
  BY CommittedIsKnown, TimesAssumption DEF IInv, Commit
<1> QED
  BY <1>1, AlwaysSound, PTL DEF Spec, RemainingIsKnown
-----------------------------------------------------------------------------
(* Sets of numbers have a least member, places also a greatest one.        *)
LEMMA LeastOf ==
  ASSUME NEW S \in SUBSET Nat, S # {}
  PROVE  \E m \in S : \A k \in S : m <= k
<1>1. IsWellFoundedOn(OpToRel(<, Nat), Nat)
  BY NatLessThanWellFounded
<1>2. PICK m \in S : \A k \in S : ~(<<k, m>> \in OpToRel(<, Nat))
  BY <1>1, WFMin, Zenon
<1>3. \A k \in S : <<k, m>> \in OpToRel(<, Nat) <=> k < m
  BY Zenon DEF OpToRel
<1>4. \A k \in S : k < m \/ m <= k
  OBVIOUS
<1> QED
  BY <1>2, <1>3, <1>4

LEMMA LeastIsMin ==
  ASSUME NEW S \in SUBSET Nat, S # {}
  PROVE  Min(S) \in S /\ \A k \in S : Min(S) <= k
  BY LeastOf DEF Min

LEMMA NumbersHaveBounds ==
  ASSUME NEW n \in Nat, NEW T \in SUBSET (0 .. n), T # {}
  PROVE  /\ Max(T) \in T /\ \A k \in T : k <= Max(T)
         /\ Min(T) \in T /\ \A k \in T : Min(T) <= k
<1>1. \E m \in T : \A k \in T : m <= k
  BY LeastOf
<1>2. \E m \in T : \A k \in T : m >= k
  <2> DEFINE R == {k \in Nat : k <= n /\ \A x \in T : x <= k}
  <2>1. n \in R
    OBVIOUS
  <2>2. PICK m \in R : \A k \in R : m <= k
    BY <2>1, LeastOf
  <2>3. m \in T
    <3> SUFFICES ASSUME m \notin T PROVE FALSE
      OBVIOUS
    <3>1. \A x \in T : x \in 0 .. n /\ x <= m /\ x # m
      OBVIOUS
    <3>2. PICK x : x \in T
      OBVIOUS
    <3>3. m - 1 \in Nat /\ m - 1 <= n
      BY <3>1, <3>2
    <3>4. \A y \in T : y <= m - 1
      BY <3>1
    <3>5. m - 1 \in R
      BY <3>3, <3>4
    <3> QED
      BY <2>2, <3>5
  <2> QED
    BY <2>3
<1> QED
  BY <1>1, <1>2 DEF Max, Min

LEMMA PlacesHaveBounds ==
  ASSUME NEW n \in Nat, NEW T \in SUBSET (1 .. n), T # {}
  PROVE  /\ Max(T) \in T /\ \A k \in T : k <= Max(T)
         /\ Min(T) \in T /\ \A k \in T : Min(T) <= k
<1>1. T \in SUBSET (0 .. n)
  OBVIOUS
<1> QED
  BY <1>1, NumbersHaveBounds

-----------------------------------------------------------------------------
Positive == Nat \ {0}
QueuedChildren == [children : Nat, time : Positive]
FinishedTrees == [children : Nat, seen : Nat, left : Seq(QueuedChildren), base : Nat, works : SUBSET Nat, time : Nat]
BatchRoots ==
  [levels : Levels, queue : Seq(QueuedChildren), base : Nat, shown : Nat, works : SUBSET Nat,
   finished : FinishedTrees \cup {NoFinished}, first : Nat, completed : Seq(Nat), broken : BOOLEAN]
BatchesMade == [time : Positive, next : Nat, children : Nat, defer : BOOLEAN, didComplete : BOOLEAN]

(* What a finished tree has seen of the queue it has rendered or left, and *)
(* of what it left it has rendered the children that were due.             *)
TreeFits(r) ==
  r.finished # NoFinished =>
    /\ r.finished.seen <= Len(r.queue)
    /\ \A i \in 1 .. r.finished.seen :
         \/ r.queue[i].children \in r.finished.works
         \/ \E j \in DOMAIN r.finished.left : r.finished.left[j].children = r.queue[i].children
    /\ \A j \in DOMAIN r.finished.left :
         r.finished.left[j].time <= r.finished.time => r.finished.left[j].children \in r.finished.works

(* Of the first n children, those whose work is not done are in the queue. *)
QueueFits(r, n) ==
  \A c \in 1 .. n : c \in r.works \/ \E i \in DOMAIN r.queue : r.queue[i].children = c

RootIsSound(r, n) == r \in BatchRoots /\ Sound(r.levels) /\ TreeFits(r) /\ QueueFits(r, n)

(* The root is scheduled, if there is something to do.                     *)
IsScheduled(r, n) == r.broken \/ (\A c \in 1 .. n : c \in r.works) \/ r.levels.expirationTime # NoWork

RootFits(r, n) == RootIsSound(r, n) /\ (IsScheduled(r, n) \/ (r.finished # NoFinished /\ r.first # 0))

(* The batches ever made are numbered, and linked by their numbers.        *)
AreBatches(bs, n) ==
  /\ bs \in Seq(BatchesMade) /\ Len(bs) = n
  /\ \A b \in 1 .. n : bs[b].next \in 0 .. n

BatchesFit ==
  /\ AreBatches(batches, Len(batches)) /\ broot.first \in 0 .. Len(batches)
  /\ ownerOf \in Seq(Nat) /\ lastUniqueAsyncExpiration \in Positive

BatchesInv == BatchesFit /\ RootFits(broot, Len(ownerOf))

-----------------------------------------------------------------------------

(* A render sees the whole queue.                                          *)
LEMMA TreeRendered ==
  ASSUME NEW n \in Nat, NEW r, RootIsSound(r, n)
  PROVE  LET s == RenderTree(r)
         IN  /\ RootIsSound(s, n) /\ s.finished # NoFinished
             /\ s.levels = r.levels /\ s.works = r.works /\ s.first = r.first /\ s.broken = r.broken
<1> DEFINE t == r.levels.nextExpirationTimeToWorkOn
           due == {i \in DOMAIN r.queue : r.queue[i].time <= t}
           skipped == DOMAIN r.queue \ due
           from == IF skipped = {} THEN Len(r.queue) + 1 ELSE Min(skipped)
           LastOf(places) == IF places = {} THEN r.base ELSE r.queue[Max(places)].children
           left == SubSeq(r.queue, from, Len(r.queue))
           works == {r.queue[i].children : i \in due}
           f == [children |-> LastOf(due), seen |-> Len(r.queue), left |-> left, base |-> LastOf(1 .. from - 1),
                 works |-> works, time |-> t]
<1>1. /\ r \in BatchRoots /\ r.queue \in Seq(QueuedChildren) /\ Len(r.queue) \in Nat /\ r.base \in Nat /\ t \in Nat
      /\ DOMAIN r.queue = 1 .. Len(r.queue)
      /\ \A i \in DOMAIN r.queue : r.queue[i] \in QueuedChildren /\ r.queue[i].children \in Nat /\ r.queue[i].time \in Nat
  <2>1. r \in BatchRoots
    BY DEF RootIsSound
  <2>2. r.queue \in Seq(QueuedChildren) /\ r.base \in Nat /\ r.levels \in Levels
    BY <2>1 DEF BatchRoots
  <2>3. t \in Nat
    BY <2>2 DEF Levels
  <2>4. \A i \in DOMAIN r.queue : r.queue[i] \in QueuedChildren
    BY <2>2
  <2>5. \A q \in QueuedChildren : q.children \in Nat /\ q.time \in Nat
    BY DEF QueuedChildren, Positive
  <2> HIDE DEF t
  <2> QED
    BY <2>1, <2>2, <2>3, <2>4, <2>5
<1>2. skipped \in SUBSET (0 .. Len(r.queue)) /\ (skipped # {} => Min(skipped) \in skipped /\ \A k \in skipped : Min(skipped) <= k)
  <2>1. skipped \in SUBSET (0 .. Len(r.queue)) /\ Len(r.queue) \in Nat
    BY <1>1
  <2> HIDE DEF skipped
  <2> QED
    BY <2>1, NumbersHaveBounds
<1>3. from \in 1 .. Len(r.queue) + 1 /\ \A i \in DOMAIN r.queue : i < from => i \in due
  <2>1. CASE skipped = {}
    BY <1>1, <2>1
  <2>2. CASE skipped # {}
    <3>1. Min(skipped) \in skipped /\ \A k \in skipped : Min(skipped) <= k
      BY <1>2, <2>2
    <3>2. from = Min(skipped)
      BY <2>2
    <3>3. from \in 1 .. Len(r.queue)
      <4>1. Min(skipped) \in 1 .. Len(r.queue)
        BY <1>1, <3>1
      <4> HIDE DEF from
      <4> QED
        BY <3>2, <4>1
    <3>4. ASSUME NEW i \in DOMAIN r.queue, i < from, i \notin due PROVE FALSE
      <4>1. i \in skipped
        BY <3>4
      <4> HIDE DEF skipped, from, due
      <4> QED
        BY <1>1, <3>1, <3>2, <3>3, <3>4, <4>1
    <3>5. from \in 1 .. Len(r.queue) + 1
      <4> HIDE DEF from
      <4> QED
        BY <1>1, <3>3
    <3> HIDE DEF from, due
    <3> QED
      BY <3>4, <3>5
  <2> QED
    BY <2>1, <2>2
<1>4. /\ left \in Seq(QueuedChildren) /\ DOMAIN left = 1 .. Len(r.queue) - from + 1
      /\ \A j \in 1 .. Len(r.queue) - from + 1 : left[j] = r.queue[from + j - 1]
  <2> HIDE DEF from
  <2> QED
    BY <1>1, <1>3, SubSeqProperties
<1>5. ASSUME NEW S \in SUBSET DOMAIN r.queue PROVE LastOf(S) \in Nat
  <2>1. CASE S = {}
    BY <1>1, <2>1
  <2>2. CASE S # {}
    <3>1. S \in SUBSET (0 .. Len(r.queue))
      BY <1>1, <1>5
    <3>2. Max(S) \in S
      BY <1>1, <2>2, <3>1, NumbersHaveBounds
    <3> QED
      BY <1>1, <1>5, <2>2, <3>2
  <2> QED
    BY <2>1, <2>2
<1>6. LastOf(due) \in Nat /\ LastOf(1 .. from - 1) \in Nat
  <2>1. due \in SUBSET DOMAIN r.queue
    OBVIOUS
  <2>2. 1 .. from - 1 \in SUBSET DOMAIN r.queue
    <3> HIDE DEF from
    <3> QED
      BY <1>1, <1>3
  <2> HIDE DEF LastOf, due, from
  <2> QED
    BY <1>5, <2>1, <2>2
<1>7. works \in SUBSET Nat
  BY <1>1
<1>8. RenderTree(r) = [r EXCEPT !.finished = f]
  BY DEF RenderTree
<1>9. \A i \in 1 .. Len(r.queue) : r.queue[i].children \in works \/ \E j \in DOMAIN left : left[j].children = r.queue[i].children
  <2> TAKE i \in 1 .. Len(r.queue)
  <2>1. CASE i \in due
    BY <2>1
  <2>2. CASE i \notin due
    <3>1. from <= i
      <4> HIDE DEF due, from
      <4> QED
        BY <1>1, <1>3, <2>2
    <3> DEFINE j == i - from + 1
    <3>2. j \in DOMAIN left /\ left[j] = r.queue[i]
      <4> HIDE DEF from, left
      <4>1. j \in 1 .. Len(r.queue) - from + 1 /\ from + j - 1 = i
        BY <1>1, <1>3, <3>1
      <4> QED
        BY <1>4, <4>1
    <3> QED
      BY <3>2
  <2> QED
    BY <2>1, <2>2
<1>10. \A j \in DOMAIN left : left[j].time <= t => left[j].children \in works
  <2> TAKE j \in DOMAIN left
  <2> HAVE left[j].time <= t
  <2> DEFINE i == from + j - 1
  <2>1. i \in DOMAIN r.queue /\ left[j] = r.queue[i]
    <3> HIDE DEF from, left
    <3>1. j \in 1 .. Len(r.queue) - from + 1
      BY <1>4
    <3>2. i \in 1 .. Len(r.queue)
      BY <1>1, <1>3, <3>1
    <3> QED
      BY <1>1, <1>4, <3>1, <3>2
  <2> QED
    BY <2>1
<1> HIDE DEF LastOf, due, from, left, works, t
<1>11. f \in FinishedTrees /\ f # NoFinished
  BY <1>1, <1>4, <1>6, <1>7 DEF FinishedTrees, NoFinished, t
<1>12. /\ f.seen = Len(r.queue) /\ f.works = works /\ f.left = left /\ f.time = t
  OBVIOUS
<1> HIDE DEF f
<1> DEFINE s == RenderTree(r)
<1>13. /\ s \in BatchRoots /\ s.finished = f /\ s.queue = r.queue
       /\ s.levels = r.levels /\ s.works = r.works /\ s.first = r.first /\ s.broken = r.broken
  BY <1>1, <1>8, <1>11 DEF BatchRoots
<1> HIDE DEF s
<1>14. TreeFits(s)
  BY <1>1, <1>9, <1>10, <1>12, <1>13 DEF TreeFits
<1> QED
  BY <1>11, <1>13, <1>14 DEF RootIsSound, QueueFits, s

(* Nothing is forgotten by a commit: what is behind the finished tree is   *)
(* in the queue still, and so is what it left, and if it has not rendered  *)
(* it then its level is the next one.                                      *)
LEMMA CommittedFits ==
  ASSUME NEW n \in Nat, NEW r, RootIsSound(r, n), r.finished # NoFinished
  PROVE  LET s == CommitTree(r)
         IN  RootIsSound(s, n) /\ IsScheduled(s, n) /\ s.first = r.first
<1> DEFINE f == r.finished
           new == SubSeq(r.queue, f.seen + 1, Len(r.queue))
           late == {u \in ToSet(f.left) : u.time > f.time}
           times == {u.time : u \in ToSet(new) \cup late}
           remaining == IF times = {} THEN NoWork ELSE Min(times)
           marked == [MarkCommitted(r.levels, remaining) EXCEPT !.expirationTime = remaining]
           queue == f.left \o new
           works == r.works \cup f.works
           s == CommitTree(r)
<1>1. /\ r \in BatchRoots /\ r.queue \in Seq(QueuedChildren) /\ Len(r.queue) \in Nat
      /\ DOMAIN r.queue = 1 .. Len(r.queue) /\ r.levels \in Levels /\ r.works \in SUBSET Nat
      /\ \A i \in DOMAIN r.queue : r.queue[i] \in QueuedChildren
  <2>1. r \in BatchRoots
    BY DEF RootIsSound
  <2> QED
    BY <2>1 DEF BatchRoots
<1>2. /\ f \in FinishedTrees /\ f.seen \in Nat /\ f.left \in Seq(QueuedChildren) /\ f.base \in Nat
      /\ f.children \in Nat /\ f.works \in SUBSET Nat /\ f.time \in Nat
  <2>1. f \in FinishedTrees
    BY <1>1 DEF BatchRoots
  <2> HIDE DEF f
  <2> QED
    BY <2>1 DEF FinishedTrees
<1>3. /\ f.seen <= Len(r.queue)
      /\ \A i \in 1 .. f.seen :
           \/ r.queue[i].children \in f.works
           \/ \E j \in DOMAIN f.left : f.left[j].children = r.queue[i].children
      /\ \A j \in DOMAIN f.left : f.left[j].time <= f.time => f.left[j].children \in f.works
  BY DEF RootIsSound, TreeFits
<1>4. /\ new \in Seq(QueuedChildren) /\ Len(new) = Len(r.queue) - f.seen
      /\ \A j \in 1 .. Len(r.queue) - f.seen : new[j] = r.queue[f.seen + j]
  <2> HIDE DEF f
  <2> DEFINE m == f.seen + 1
             k == Len(r.queue)
  <2>1. m \in Nat /\ k \in Nat /\ 1 <= m /\ m <= k + 1 /\ m = f.seen + 1
    BY <1>1, <1>2, <1>3
  <2>2. \A i \in m .. k : r.queue[i] \in QueuedChildren
    <3> HIDE DEF m
    <3> QED
      BY <1>1, <2>1
  <2>3. new = SubSeq(r.queue, m, k)
    OBVIOUS
  <2> HIDE DEF m, k, new
  <2>4. /\ new \in Seq(QueuedChildren) /\ Len(new) = (IF m <= k THEN k - m + 1 ELSE 0)
        /\ \A i \in 1 .. k - m + 1 : new[i] = r.queue[m + i - 1]
    BY <2>1, <2>2, <2>3, SubSeqProperties
  <2> HIDE DEF f
  <2>5. k - m + 1 = k - f.seen /\ f.seen \in Int
    BY <1>2, <2>1
  <2>8. \A i \in Int : m + i - 1 = f.seen + i
    BY <2>1, <2>5
  <2>6. \A i \in 1 .. k - f.seen : new[i] = r.queue[f.seen + i]
    <3> SUFFICES ASSUME NEW i \in 1 .. k - f.seen PROVE new[i] = r.queue[f.seen + i]
      OBVIOUS
    <3>1. i \in Int /\ i \in 1 .. k - m + 1
      BY <2>5
    <3>2. new[i] = r.queue[m + i - 1] /\ m + i - 1 = f.seen + i
      BY <2>4, <2>8, <3>1
    <3> QED
      BY <3>2
  <2>7. Len(new) = k - f.seen
    BY <1>2, <2>1, <2>4
  <2> QED
    BY <2>4, <2>6, <2>7 DEF k
<1>5. \A q \in QueuedChildren : q.children \in Nat /\ q.time \in Positive
  BY DEF QueuedChildren
<1>6. times \in SUBSET Positive
  <2> SUFFICES ASSUME NEW u \in ToSet(new) \cup late PROVE u.time \in Positive
    OBVIOUS
  <2>1. u \in QueuedChildren
    <3> HIDE DEF new, f
    <3> QED
      BY <1>2, <1>4 DEF ToSet
  <2> QED
    BY <1>5, <2>1
<1>7. remaining \in Nat /\ (times # {} => remaining # NoWork)
  <2> HIDE DEF times
  <2> QED
    BY <1>6, LeastIsMin DEF Positive, NoWork
<1> HIDE DEF remaining
<1>8. Sound(marked) /\ marked.expirationTime = remaining
  <2>1. Sound(MarkCommitted(r.levels, remaining))
    <3>1. SoundButNext(r.levels)
      BY DEF RootIsSound, Sound, SoundButNext
    <3> QED
      BY <1>7, <3>1, MarkCommittedIsSound
  <2> DEFINE M == MarkCommitted(r.levels, remaining)
  <2> HIDE DEF M
  <2> QED
    BY <1>7, <2>1 DEF M, Sound, Levels, IsPinged, IsPriorityLevelSuspended, NoWork
<1>9. /\ queue \in Seq(QueuedChildren)
      /\ DOMAIN queue = 1 .. Len(f.left) + Len(new) /\ Len(f.left) \in Nat /\ DOMAIN f.left = 1 .. Len(f.left)
      /\ \A j \in 1 .. Len(f.left) : queue[j] = f.left[j]
      /\ \A j \in 1 .. Len(new) : queue[Len(f.left) + j] = new[j]
  <2>1. f.left \in Seq(QueuedChildren) /\ new \in Seq(QueuedChildren)
    BY <1>2, <1>4
  <2>2. queue = f.left \o new
    OBVIOUS
  <2> HIDE DEF f, new, queue
  <2>3. /\ queue \in Seq(QueuedChildren) /\ Len(queue) = Len(f.left) + Len(new)
        /\ \A i \in 1 .. Len(f.left) + Len(new) :
             queue[i] = IF i <= Len(f.left) THEN f.left[i] ELSE new[i - Len(f.left)]
    BY <2>1, <2>2, ConcatProperties
  <2>4. Len(f.left) \in Nat /\ Len(new) \in Nat /\ DOMAIN queue = 1 .. Len(queue) /\ DOMAIN f.left = 1 .. Len(f.left)
    BY <2>1, <2>3
  <2>5. \A j \in 1 .. Len(f.left) : queue[j] = f.left[j]
    BY <2>3, <2>4
  <2>6. ASSUME NEW j \in 1 .. Len(new) PROVE queue[Len(f.left) + j] = new[j]
    <3> DEFINE i == Len(f.left) + j
    <3>1. i \in 1 .. Len(f.left) + Len(new) /\ ~(i <= Len(f.left)) /\ i - Len(f.left) = j
      BY <2>4
    <3> HIDE DEF i
    <3>2. queue[i] = new[i - Len(f.left)]
      BY <2>3, <3>1
    <3>3. queue[i] = new[j]
      BY <3>1, <3>2
    <3> QED
      BY <3>3 DEF i
  <2> QED
    BY <2>3, <2>4, <2>5, <2>6
<1>10. works \in SUBSET Nat
  BY <1>1, <1>2
<1>11. CASE f.time = NoWork
  <2>1. s = [r EXCEPT !.broken = TRUE, !.finished = NoFinished]
    BY <1>11 DEF CommitTree
  <2> HIDE DEF s, f
  <2>2. s \in BatchRoots /\ s.broken /\ s.finished = NoFinished
    BY <1>1, <2>1 DEF BatchRoots
  <2>3. /\ s.levels = r.levels /\ s.queue = r.queue /\ s.works = r.works /\ s.first = r.first
    BY <1>1, <2>1 DEF BatchRoots
  <2>4. RootIsSound(s, n)
    BY <2>2, <2>3 DEF RootIsSound, TreeFits, QueueFits
  <2> QED
    BY <2>2, <2>3, <2>4 DEF IsScheduled, s
<1>12. CASE f.time # NoWork
  <2>1. s = [r EXCEPT !.levels = marked, !.queue = queue, !.base = f.base, !.shown = f.children,
                      !.works = works, !.finished = NoFinished]
    BY <1>12 DEF CommitTree, remaining
  <2>2. \A c \in 1 .. n :
          \/ c \in works
          \/ \E k \in DOMAIN queue : queue[k].children = c /\ queue[k].time \in times
    <3> SUFFICES ASSUME NEW c \in 1 .. n, c \notin works
                 PROVE  \E k \in DOMAIN queue : queue[k].children = c /\ queue[k].time \in times
      OBVIOUS
    <3>1. PICK i \in DOMAIN r.queue : r.queue[i].children = c
      BY DEF RootIsSound, QueueFits
    <3>2. CASE i <= f.seen
      <4>1. PICK j \in DOMAIN f.left : f.left[j].children = c
        <5> HIDE DEF f
        <5> QED
          BY <1>1, <1>2, <1>3, <3>1, <3>2 DEF works
      <4>2. f.left[j].time > f.time
        <5>1. f.left[j] \in QueuedChildren /\ f.left[j].time \in Nat
          BY <1>2, <1>5, <4>1 DEF Positive
        <5>2. f.left[j].children \notin f.works
          BY <4>1
        <5> HIDE DEF f
        <5> QED
          BY <1>2, <1>3, <4>1, <5>1, <5>2
      <4>3. f.left[j] \in late
        BY <4>1, <4>2 DEF ToSet
      <4>4. f.left[j].time \in times
        <5> HIDE DEF late, new, f
        <5> QED
          BY <4>3
      <4>5. j \in DOMAIN queue /\ queue[j] = f.left[j]
        <5> HIDE DEF queue, f, new
        <5> QED
          BY <1>1, <1>2, <1>3, <1>4, <1>9, <4>1
      <4> QED
        BY <4>1, <4>4, <4>5
    <3>3. CASE ~(i <= f.seen)
      <4> DEFINE j == i - f.seen
      <4>1. j \in 1 .. Len(r.queue) - f.seen /\ f.seen + j = i
        <5> HIDE DEF f
        <5> QED
          BY <1>1, <1>2, <3>1, <3>3
      <4>2. j \in DOMAIN new /\ new[j] = r.queue[i] /\ j \in 1 .. Len(new)
        <5> HIDE DEF f, new, j
        <5> QED
          BY <1>4, <4>1
      <4>3. new[j].time \in times
        <5> HIDE DEF late, new, f, j
        <5>1. new[j] \in ToSet(new)
          BY <4>2 DEF ToSet
        <5> QED
          BY <5>1
      <4>4. Len(f.left) + j \in DOMAIN queue /\ queue[Len(f.left) + j] = new[j]
        <5> HIDE DEF queue, f, new, j
        <5>1. Len(new) \in Nat
          BY <1>4
        <5>2. Len(f.left) + j \in 1 .. Len(f.left) + Len(new)
          BY <1>9, <4>2, <5>1
        <5> QED
          BY <1>9, <4>2, <5>2
      <4> HIDE DEF queue, new, times, j
      <4> QED
        BY <3>1, <4>2, <4>3, <4>4
    <3> QED
      BY <3>2, <3>3
  <2> HIDE DEF s, f, marked, queue, works, times
  <2>3. marked \in Levels
    BY <1>8 DEF Sound
  <2>4. s \in BatchRoots
    BY <1>1, <1>2, <1>9, <1>10, <2>1, <2>3 DEF BatchRoots
  <2>5. s.levels = marked /\ s.queue = queue /\ s.works = works /\ s.finished = NoFinished /\ s.first = r.first
    BY <1>1, <2>1 DEF BatchRoots
  <2>6. RootIsSound(s, n)
    BY <1>8, <2>2, <2>4, <2>5 DEF RootIsSound, TreeFits, QueueFits
  <2>7. IsScheduled(s, n)
    BY <1>7, <1>8, <2>2, <2>5 DEF IsScheduled
  <2> QED
    BY <2>5, <2>6, <2>7 DEF s
<1> QED
  BY <1>11, <1>12

(* What every step does that works on a root: the first batch stays, and   *)
(* while that one is being committed the root stays scheduled.             *)
StaysFit(r, s, n, bs) ==
  /\ RootFits(s, n) /\ s.first = r.first
  /\ ~bs[r.first].defer /\ IsScheduled(r, n) => IsScheduled(s, n)

(* A root that waits for a batch keeps its finished tree.                  *)
LEMMA CompletedFits ==
  ASSUME NEW n \in Nat, NEW r, RootIsSound(r, n), r.finished # NoFinished, NEW bs, NEW time
  PROVE  LET s == completeRoot(r, bs, time)
         IN  RootFits(s, n) /\ s.first = r.first /\ (~bs[r.first].defer => IsScheduled(s, n))
<1> DEFINE blocked == IsBlocked(r, bs, time)
           s == IF blocked THEN [r EXCEPT !.completed = Append(@, r.first)] ELSE r
<1>1. r \in BatchRoots
  BY DEF RootIsSound
<1>2. r.first \in Nat /\ r.completed \in Seq(Nat) /\ r.levels \in Levels
  BY <1>1 DEF BatchRoots
<1>3. Append(r.completed, r.first) \in Seq(Nat)
  BY <1>2, AppendProperties
<1>4. /\ s \in BatchRoots /\ s.levels = r.levels /\ s.queue = r.queue /\ s.works = r.works
      /\ s.finished = r.finished /\ s.first = r.first /\ s.broken = r.broken
  BY <1>1, <1>3 DEF BatchRoots
<1> HIDE DEF s
<1>5. RootIsSound(s, n)
  BY <1>4 DEF RootIsSound, TreeFits, QueueFits
<1>6. CASE blocked /\ bs[r.first].defer
  <2> DEFINE marked == [s.levels EXCEPT !.expirationTime = NoWork]
             u == completeRoot(r, bs, time)
  <2>1. u = [s EXCEPT !.levels = marked]
    BY <1>1, <1>4, <1>6 DEF completeRoot, s, BatchRoots
  <2>2. Sound(marked)
    BY <1>5 DEF RootIsSound, Sound, Levels, IsPinged, IsPriorityLevelSuspended, NoWork
  <2>3. marked \in Levels
    BY <2>2 DEF Sound
  <2> HIDE DEF u, marked
  <2>4. /\ u \in BatchRoots /\ u.levels = marked /\ u.queue = s.queue /\ u.works = s.works
        /\ u.finished = s.finished /\ u.first = s.first
    BY <1>4, <2>1, <2>3 DEF BatchRoots
  <2>5. RootIsSound(u, n)
    BY <1>5, <2>2, <2>4 DEF RootIsSound, TreeFits, QueueFits
  <2>6. r.first # 0
    BY <1>6 DEF IsBlocked
  <2> QED
    BY <1>4, <1>6, <2>4, <2>5, <2>6 DEF RootFits, u
<1>7. CASE ~(blocked /\ bs[r.first].defer)
  <2>1. completeRoot(r, bs, time) = CommitTree(s)
    BY <1>7 DEF completeRoot, s
  <2>2. RootIsSound(CommitTree(s), n) /\ IsScheduled(CommitTree(s), n) /\ CommitTree(s).first = s.first
    BY <1>4, <1>5, CommittedFits
  <2> QED
    BY <1>4, <2>1, <2>2 DEF RootFits
<1> QED
  BY <1>6, <1>7

LEMMA WorkedFits ==
  ASSUME NEW n \in Nat, NEW r, RootIsSound(r, n), NEW bs, NEW time
  PROVE  LET s == performWorkOnRoot(r, bs, time)
         IN  RootFits(s, n) /\ s.first = r.first /\ (~bs[r.first].defer => IsScheduled(s, n))
<1> DEFINE tree == IF r.finished # NoFinished THEN r ELSE RenderTree(r)
<1>1. RootIsSound(tree, n) /\ tree.finished # NoFinished /\ tree.first = r.first
  BY TreeRendered
<1>2. performWorkOnRoot(r, bs, time) = completeRoot(tree, bs, time)
  BY DEF performWorkOnRoot
<1> HIDE DEF tree
<1> QED
  BY <1>1, <1>2, CompletedFits

LEMMA RoundFits ==
  ASSUME NEW n \in Nat, NEW r, RootFits(r, n), NEW bs, NEW min
  PROVE  StaysFit(r, Round(r, bs, min), n, bs)
<1>1. RootIsSound(r, n)
  BY DEF RootFits
<1>2. CASE Round(r, bs, min) = r
  BY <1>2 DEF StaysFit
<1>3. CASE Round(r, bs, min) = performWorkOnRoot(r, bs, r.levels.expirationTime)
  BY <1>1, <1>3, WorkedFits DEF StaysFit
<1> QED
  BY <1>2, <1>3 DEF Round

IsRounds(f, last, r, bs, min) ==
  f = [k \in 0 .. last |-> IF k = 0 THEN r ELSE Round(f[k - 1], bs, min)]

LEMMA RoundsExist ==
  ASSUME NEW r, NEW bs, NEW min, NEW last \in Nat
  PROVE  \E f : IsRounds(f, last, r, bs, min)
<1> DEFINE Missing == {m \in Nat : ~\E f : IsRounds(f, m, r, bs, min)}
<1> SUFFICES ASSUME Missing # {} PROVE FALSE
  OBVIOUS
<1>1. PICK m \in Missing : \A k \in Missing : m <= k
  BY LeastOf
<1>2. CASE m = 0
  <2> DEFINE f == [k \in 0 .. 0 |-> r]
  <2>1. IsRounds(f, 0, r, bs, min)
    BY DEF IsRounds
  <2> QED
    BY <1>1, <1>2, <2>1
<1>3. CASE m # 0
  <2>1. m - 1 \in Nat /\ m - 1 \notin Missing /\ m \in Nat
    BY <1>1, <1>3
  <2>2. PICK g : IsRounds(g, m - 1, r, bs, min)
    BY <2>1
  <2> DEFINE f == [k \in 0 .. m |-> IF k = m THEN Round(g[m - 1], bs, min) ELSE g[k]]
  <2>3. ASSUME NEW k \in 0 .. m PROVE f[k] = IF k = 0 THEN r ELSE Round(f[k - 1], bs, min)
    <3>1. CASE k = m
      <4>1. f[m - 1] = g[m - 1] /\ f[m] = Round(g[m - 1], bs, min)
        BY <1>3, <2>1
      <4> HIDE DEF f
      <4> QED
        BY <1>3, <3>1, <4>1
    <3>2. CASE k # m
      <4>1. k \in 0 .. m - 1
        BY <2>1, <3>2
      <4>2. g[k] = IF k = 0 THEN r ELSE Round(g[k - 1], bs, min)
        BY <2>2, <4>1 DEF IsRounds
      <4>3. f[k] = g[k] /\ (k # 0 => f[k - 1] = g[k - 1])
        BY <2>1, <3>2, <4>1
      <4> HIDE DEF f
      <4> QED
        BY <4>2, <4>3
    <3> QED
      BY <3>1, <3>2
  <2>4. f = [k \in 0 .. m |-> f[k]]
    OBVIOUS
  <2> HIDE DEF f
  <2>5. IsRounds(f, m, r, bs, min)
    BY <2>3, <2>4 DEF IsRounds
  <2> QED
    BY <1>1, <2>5
<1> QED
  BY <1>2, <1>3

(* The loop of performWork, of as many rounds as it takes.                 *)
LEMMA PerformedFits ==
  ASSUME NEW n \in Nat, NEW r, RootFits(r, n), NEW bs, NEW min
  PROVE  StaysFit(r, performWork(r, bs, min), n, bs)
<1> DEFINE last == Len(r.queue) + 2
           after == CHOOSE f : IsRounds(f, last, r, bs, min)
<1>1. last \in Nat
  <2>1. r.queue \in Seq(QueuedChildren)
    BY DEF RootFits, RootIsSound, BatchRoots
  <2> QED
    BY <2>1
<1>2. performWork(r, bs, min) = after[last]
  BY DEF performWork, IsRounds
<1> HIDE DEF last
<1>3. IsRounds(after, last, r, bs, min)
  BY <1>1, RoundsExist
<1> HIDE DEF after
<1> DEFINE Bad == {k \in 0 .. last : ~StaysFit(r, after[k], n, bs)}
<1>4. ASSUME NEW k \in 0 .. last PROVE after[k] = IF k = 0 THEN r ELSE Round(after[k - 1], bs, min)
  BY <1>3, <1>4 DEF IsRounds
<1>5. Bad = {}
  <2> SUFFICES ASSUME Bad # {} PROVE FALSE
    OBVIOUS
  <2>1. Bad \in SUBSET Nat
    OBVIOUS
  <2>2. PICK m \in Bad : \A k \in Bad : m <= k
    <3> HIDE DEF Bad
    <3> QED
      BY <2>1, LeastOf
  <2>3. m # 0
    <3>1. StaysFit(r, r, n, bs)
      BY DEF StaysFit
    <3>2. m = 0 => after[m] = r
      BY <1>4
    <3> QED
      BY <3>1, <3>2
  <2>4. m - 1 \in 0 .. last /\ m - 1 \notin Bad
    BY <1>1, <2>2, <2>3
  <2>5. StaysFit(r, after[m - 1], n, bs)
    BY <2>4
  <2>6. after[m] = Round(after[m - 1], bs, min)
    BY <1>4, <2>3
  <2>7. StaysFit(after[m - 1], Round(after[m - 1], bs, min), n, bs)
    BY <2>5, RoundFits DEF StaysFit
  <2>8. StaysFit(r, after[m], n, bs)
    BY <2>5, <2>6, <2>7 DEF StaysFit
  <2> QED
    BY <2>8
<1> QED
  BY <1>1, <1>2, <1>5

(* Committing a batch leaves nothing of the root to wait for it.           *)
LEMMA FlushedFits ==
  ASSUME NEW n \in Nat, NEW r, RootIsSound(r, n), NEW bs, ~bs[r.first].defer, NEW time
  PROVE  LET s == flushRoot(r, bs, time)
         IN  RootIsSound(s, n) /\ IsScheduled(s, n) /\ s.first = r.first
<1> DEFINE worked == performWorkOnRoot(r, bs, time)
<1>1. RootFits(worked, n) /\ worked.first = r.first /\ IsScheduled(worked, n)
  BY WorkedFits
<1> HIDE DEF worked
<1>2. StaysFit(worked, performWork(worked, bs, Sync), n, bs)
  BY <1>1, PerformedFits
<1>3. flushRoot(r, bs, time) = performWork(worked, bs, Sync)
  BY DEF flushRoot, worked
<1> QED
  BY <1>1, <1>2, <1>3 DEF StaysFit, RootFits

(* New children schedule the root; a render at once is work like any other.*)
LEMMA UpdatedFits ==
  ASSUME NEW n \in Nat, NEW m \in Nat, NEW r, RootIsSound(r, n), NEW bs,
         NEW children \in Nat, NEW time \in Positive,
         \A c \in 1 .. m : c \in 1 .. n \/ c = children
  PROVE  LET s == UpdateContainer(r, bs, children, time)
         IN  RootFits(s, m) /\ s.first = r.first
<1> DEFINE update == [children |-> children, time |-> time]
           queue == Append(r.queue, update)
           marked == MarkPending(r.levels, time)
           s == [r EXCEPT !.queue = queue, !.levels = marked]
<1>1. r \in BatchRoots
  BY DEF RootIsSound
<1>2. r.queue \in Seq(QueuedChildren) /\ update \in QueuedChildren
  BY <1>1 DEF BatchRoots, QueuedChildren
<1>3. /\ queue \in Seq(QueuedChildren) /\ Len(queue) = Len(r.queue) + 1 /\ Len(r.queue) \in Nat
      /\ DOMAIN queue = 1 .. Len(queue) /\ DOMAIN r.queue = 1 .. Len(r.queue)
      /\ \A i \in 1 .. Len(r.queue) : queue[i] = r.queue[i]
      /\ queue[Len(queue)].children = children
  <2> HIDE DEF update, queue
  <2>1. /\ queue \in Seq(QueuedChildren) /\ Len(queue) = Len(r.queue) + 1
        /\ \A i \in 1 .. Len(r.queue) : queue[i] = r.queue[i]
        /\ queue[Len(r.queue) + 1] = update
    BY <1>2, AppendProperties DEF queue
  <2> QED
    BY <1>2, <2>1 DEF update
<1>4. Sound(marked) /\ marked.expirationTime # NoWork /\ marked \in Levels
  <2>1. Sound(r.levels) /\ time \in Nat /\ time # NoWork
    BY DEF RootIsSound, Positive, NoWork
  <2> HIDE DEF marked
  <2>2. Sound(marked) /\ marked.expirationTime # NoWork
    BY <2>1, MarkPendingAdds DEF marked
  <2> QED
    BY <2>2 DEF Sound
<1>5. UpdateContainer(r, bs, children, time) = IF s.levels.expirationTime = Sync THEN performWork(s, bs, Sync) ELSE s
  <2>1. s = [r EXCEPT !.queue = Append(@, update), !.levels = MarkPending(@, time)]
    BY <1>1 DEF BatchRoots
  <2> HIDE DEF s
  <2> QED
    BY <2>1 DEF UpdateContainer
<1> HIDE DEF queue, marked
<1>6. /\ s \in BatchRoots /\ s.levels = marked /\ s.queue = queue /\ s.works = r.works
      /\ s.finished = r.finished /\ s.first = r.first
  BY <1>1, <1>3, <1>4 DEF BatchRoots
<1> HIDE DEF s
<1>7. QueueFits(s, m)
  <2> SUFFICES ASSUME NEW c \in 1 .. m, c \notin r.works PROVE \E i \in DOMAIN queue : queue[i].children = c
    BY <1>6 DEF QueueFits
  <2>1. CASE c = children
    BY <1>3, <2>1
  <2>2. CASE c # children
    <3>1. PICK i \in DOMAIN r.queue : r.queue[i].children = c
      BY <2>2 DEF RootIsSound, QueueFits
    <3>2. i \in DOMAIN queue /\ queue[i] = r.queue[i]
      BY <1>3
    <3> QED
      BY <3>1, <3>2
  <2> QED
    BY <2>1, <2>2
<1>8. TreeFits(s)
  <2> SUFFICES ASSUME r.finished # NoFinished PROVE TreeFits(s)
    BY <1>6 DEF TreeFits
  <2>1. r.finished \in FinishedTrees
    BY <1>1 DEF BatchRoots
  <2>2. r.finished.seen \in Nat /\ r.finished.seen <= Len(r.queue)
    BY <2>1 DEF FinishedTrees, RootIsSound, TreeFits
  <2>3. /\ s.finished.seen <= Len(s.queue)
        /\ \A i \in 1 .. s.finished.seen : s.queue[i] = r.queue[i]
    BY <1>3, <1>6, <2>2
  <2> QED
    BY <1>6, <2>3 DEF RootIsSound, TreeFits
<1>9. RootFits(s, m)
  BY <1>4, <1>6, <1>7, <1>8 DEF RootFits, RootIsSound, IsScheduled
<1>10. StaysFit(s, performWork(s, bs, Sync), m, bs)
  BY <1>9, PerformedFits
<1> QED
  BY <1>5, <1>6, <1>9, <1>10 DEF StaysFit

LEMMA BatchChanges ==
  ASSUME NEW n \in Nat, NEW bs, AreBatches(bs, n), NEW b, NEW made,
         b \in 1 .. n => made \in BatchesMade /\ made.next \in 0 .. n
  PROVE  LET to == [bs EXCEPT ![b] = made]
         IN  AreBatches(to, n) /\ \A c \in 1 .. n : to[c] = IF c = b THEN made ELSE bs[c]
<1> DEFINE to == [bs EXCEPT ![b] = made]
<1>1. bs \in Seq(BatchesMade) /\ DOMAIN bs = 1 .. n /\ \A c \in 1 .. n : bs[c] \in BatchesMade /\ bs[c].next \in 0 .. n
  BY DEF AreBatches
<1>2. to = [c \in 1 .. n |-> IF c = b THEN made ELSE bs[c]]
  BY <1>1
<1> HIDE DEF to
<1>3. \A c \in 1 .. n : to[c] \in BatchesMade /\ to[c].next \in 0 .. n /\ to[c] = IF c = b THEN made ELSE bs[c]
  BY <1>1, <1>2
<1>4. to \in Seq(BatchesMade) /\ Len(to) = n
  BY <1>2, <1>3
<1> QED
  BY <1>3, <1>4 DEF AreBatches, to

LEMMA BatchesAreTyped ==
  ASSUME NEW n \in Nat, NEW bs, AreBatches(bs, n)
  PROVE  \A b \in 1 .. n : /\ bs[b] \in BatchesMade /\ bs[b].next \in 0 .. n
                           /\ bs[b].children \in Nat /\ bs[b].time \in Positive
<1>1. \A b \in 1 .. n : bs[b] \in BatchesMade /\ bs[b].next \in 0 .. n
  BY DEF AreBatches
<1>2. \A made \in BatchesMade : made.children \in Nat /\ made.time \in Positive
  BY DEF BatchesMade
<1> QED
  BY <1>1, <1>2

LEMMA NextChanges ==
  ASSUME NEW n \in Nat, NEW bs, AreBatches(bs, n), NEW b, NEW next \in 0 .. n
  PROVE  LET to == [bs EXCEPT ![b].next = next]
         IN  AreBatches(to, n) /\ \A c \in 1 .. n : to[c].defer = bs[c].defer
<1> DEFINE made == [bs[b] EXCEPT !.next = next]
<1>1. \A c \in 1 .. n : bs[c] \in BatchesMade
  BY DEF AreBatches
<1>2. b \in 1 .. n => made \in BatchesMade /\ made.next = next /\ made.defer = bs[b].defer
  BY <1>1 DEF BatchesMade
<1>3. [bs EXCEPT ![b].next = next] = [bs EXCEPT ![b] = made]
  OBVIOUS
<1> HIDE DEF made
<1> QED
  BY <1>2, <1>3, BatchChanges

LEMMA TimeChanges ==
  ASSUME NEW n \in Nat, NEW bs, AreBatches(bs, n), NEW b, NEW time \in Positive
  PROVE  LET to == [bs EXCEPT ![b].time = time]
         IN  AreBatches(to, n) /\ \A c \in 1 .. n : to[c].defer = bs[c].defer
<1> DEFINE made == [bs[b] EXCEPT !.time = time]
<1>1. \A c \in 1 .. n : bs[c] \in BatchesMade /\ bs[c].next \in 0 .. n
  BY DEF AreBatches
<1>2. b \in 1 .. n => made \in BatchesMade /\ made.next = bs[b].next /\ made.defer = bs[b].defer
  BY <1>1 DEF BatchesMade
<1>3. [bs EXCEPT ![b].time = time] = [bs EXCEPT ![b] = made]
  OBVIOUS
<1> HIDE DEF made
<1> QED
  BY <1>1, <1>2, <1>3, BatchChanges

LEMMA DeferEnds ==
  ASSUME NEW n \in Nat, NEW bs, AreBatches(bs, n), NEW b
  PROVE  LET to == [bs EXCEPT ![b].defer = FALSE]
         IN  AreBatches(to, n) /\ (b \in 1 .. n => ~to[b].defer)
<1> DEFINE made == [bs[b] EXCEPT !.defer = FALSE]
           to == [bs EXCEPT ![b] = made]
<1>1. \A c \in 1 .. n : bs[c] \in BatchesMade /\ bs[c].next \in 0 .. n
  BY DEF AreBatches
<1>2. b \in 1 .. n => made \in BatchesMade /\ made.next \in 0 .. n /\ made.defer = FALSE
  BY <1>1 DEF BatchesMade
<1>3. [bs EXCEPT ![b].defer = FALSE] = to
  OBVIOUS
<1> HIDE DEF made, to
<1>4. AreBatches(to, n)
  BY <1>2, BatchChanges DEF to
<1>5. b \in 1 .. n => to[b].defer = FALSE
  BY <1>2 DEF AreBatches, to
<1> QED
  BY <1>3, <1>4, <1>5

LEMMA ChildrenChange ==
  ASSUME NEW n \in Nat, NEW bs, AreBatches(bs, n), NEW b, NEW children \in Nat
  PROVE  AreBatches([bs EXCEPT ![b].children = children], n)
<1> DEFINE made == [bs[b] EXCEPT !.children = children]
<1>1. \A c \in 1 .. n : bs[c] \in BatchesMade /\ bs[c].next \in 0 .. n
  BY DEF AreBatches
<1>2. b \in 1 .. n => made \in BatchesMade /\ made.next = bs[b].next
  BY <1>1 DEF BatchesMade
<1>3. [bs EXCEPT ![b].children = children] = [bs EXCEPT ![b] = made]
  OBVIOUS
<1> HIDE DEF made
<1> QED
  BY <1>1, <1>2, <1>3, BatchChanges

LEMMA BatchCompletes ==
  ASSUME NEW n \in Nat, NEW bs, AreBatches(bs, n), NEW b
  PROVE  AreBatches([bs EXCEPT ![b].didComplete = TRUE], n)
<1> DEFINE made == [bs[b] EXCEPT !.didComplete = TRUE]
<1>1. \A c \in 1 .. n : bs[c] \in BatchesMade /\ bs[c].next \in 0 .. n
  BY DEF AreBatches
<1>2. b \in 1 .. n => made \in BatchesMade /\ made.next = bs[b].next
  BY <1>1 DEF BatchesMade
<1>3. [bs EXCEPT ![b].didComplete = TRUE] = [bs EXCEPT ![b] = made]
  OBVIOUS
<1> HIDE DEF made
<1> QED
  BY <1>1, <1>2, <1>3, BatchChanges

(* Every place of the list is a batch, or behind the last one.             *)
IsPlaces(at, last, start, bs) ==
  at = [n \in 0 .. last |-> IF n = 0 THEN start ELSE IF at[n - 1] = 0 THEN 0 ELSE bs[at[n - 1]].next]

LEMMA PlacesExist ==
  ASSUME NEW start, NEW bs, NEW last \in Nat
  PROVE  \E at : IsPlaces(at, last, start, bs)
<1> DEFINE NextOf(i) == IF i = 0 THEN 0 ELSE bs[i].next
           Missing == {m \in Nat : ~\E at : IsPlaces(at, m, start, bs)}
<1> SUFFICES ASSUME Missing # {} PROVE FALSE
  OBVIOUS
<1>1. PICK m \in Missing : \A k \in Missing : m <= k
  BY LeastOf
<1>2. CASE m = 0
  <2> DEFINE f == [k \in 0 .. 0 |-> start]
  <2>1. IsPlaces(f, 0, start, bs)
    BY DEF IsPlaces
  <2> QED
    BY <1>1, <1>2, <2>1
<1>3. CASE m # 0
  <2>1. m - 1 \in Nat /\ m - 1 \notin Missing /\ m \in Nat
    BY <1>1, <1>3
  <2>2. PICK g : IsPlaces(g, m - 1, start, bs)
    BY <2>1
  <2> DEFINE f == [k \in 0 .. m |-> IF k = m THEN NextOf(g[m - 1]) ELSE g[k]]
  <2>3. ASSUME NEW k \in 0 .. m PROVE f[k] = IF k = 0 THEN start ELSE NextOf(f[k - 1])
    <3> HIDE DEF NextOf
    <3>1. CASE k = m
      <4>1. f[m - 1] = g[m - 1] /\ f[m] = NextOf(g[m - 1])
        BY <1>3, <2>1
      <4> HIDE DEF f
      <4> QED
        BY <1>3, <3>1, <4>1
    <3>2. CASE k # m
      <4>1. k \in 0 .. m - 1
        BY <2>1, <3>2
      <4>2. g[k] = IF k = 0 THEN start ELSE NextOf(g[k - 1])
        BY <2>2, <4>1 DEF IsPlaces, NextOf
      <4>3. f[k] = g[k] /\ (k # 0 => f[k - 1] = g[k - 1])
        BY <2>1, <3>2, <4>1
      <4> HIDE DEF f
      <4> QED
        BY <4>2, <4>3
    <3> QED
      BY <3>1, <3>2
  <2>4. f = [k \in 0 .. m |-> f[k]]
    OBVIOUS
  <2> HIDE DEF f
  <2>5. IsPlaces(f, m, start, bs)
    BY <2>3, <2>4 DEF IsPlaces
  <2> QED
    BY <1>1, <2>5
<1> QED
  BY <1>2, <1>3

LEMMA PlacesAreBatches ==
  ASSUME BatchesFit
  PROVE  \A n \in 0 .. Len(batches) : BatchAt[n] \in 0 .. Len(batches)
<1> DEFINE last == Len(batches)
           Bad == {n \in 0 .. last : BatchAt[n] \notin 0 .. last}
<1>1. /\ last \in Nat /\ broot.first \in 0 .. last
      /\ \A b \in 1 .. last : batches[b].next \in 0 .. last
  BY DEF BatchesFit, AreBatches
<1>2. IsPlaces(BatchAt, last, broot.first, batches)
  <2>1. BatchAt = CHOOSE at : IsPlaces(at, last, broot.first, batches)
    BY DEF BatchAt, IsPlaces
  <2> HIDE DEF last
  <2> QED
    BY <1>1, <2>1, PlacesExist
<1> HIDE DEF last
<1>3. ASSUME NEW n \in 0 .. last
      PROVE  BatchAt[n] = IF n = 0 THEN broot.first ELSE IF BatchAt[n - 1] = 0 THEN 0 ELSE batches[BatchAt[n - 1]].next
  BY <1>2, <1>3 DEF IsPlaces
<1>4. Bad = {}
  <2> SUFFICES ASSUME Bad # {} PROVE FALSE
    OBVIOUS
  <2>1. Bad \in SUBSET Nat
    BY <1>1
  <2>2. PICK m \in Bad : \A k \in Bad : m <= k
    <3> HIDE DEF Bad
    <3> QED
      BY <2>1, LeastOf
  <2>3. m # 0
    BY <1>1, <1>3, <2>2
  <2>4. m - 1 \in 0 .. last /\ m - 1 \notin Bad
    BY <1>1, <2>2, <2>3
  <2>5. BatchAt[m - 1] \in 0 .. last
    BY <2>4
  <2>6. BatchAt[m] \in 0 .. last
    BY <1>1, <1>3, <2>2, <2>3, <2>5
  <2> QED
    BY <2>2, <2>6
<1> QED
  BY <1>4 DEF last

-----------------------------------------------------------------------------
(* What depends on the number of batches alone, and on the owners.         *)
LEMMA RootStaysFit ==
  ASSUME NEW n \in Nat, NEW r, RootFits(r, n), NEW start \in Nat, r.first # 0 => start # 0
  PROVE  LET s == [r EXCEPT !.first = start]
         IN  RootFits(s, n) /\ s.first = start /\ (IsScheduled(r, n) => IsScheduled(s, n))
<1> DEFINE s == [r EXCEPT !.first = start]
<1>1. r \in BatchRoots
  BY DEF RootFits, RootIsSound
<1>2. /\ s \in BatchRoots /\ s.first = start /\ s.levels = r.levels /\ s.queue = r.queue
      /\ s.works = r.works /\ s.finished = r.finished /\ s.broken = r.broken
  BY <1>1 DEF BatchRoots
<1> HIDE DEF s
<1> QED
  BY <1>2 DEF RootFits, RootIsSound, IsScheduled, TreeFits, QueueFits, s

LEMMA createBatchFits ==
  ASSUME BatchesInv, NEW gap \in {1, 2}, createBatch(gap)
  PROVE  BatchesInv'
<1> DEFINE b == Len(batches) + 1
           time == lastUniqueAsyncExpiration + gap
           IsEarlier(n) == BatchAt[n] # 0 /\ batches[BatchAt[n]].time <= time
           passed == {n \in 0 .. Len(batches) : \A m \in 0 .. n : IsEarlier(m)}
           after == IF passed = {} THEN 0 ELSE BatchAt[Max(passed)]
           before == IF passed = {} THEN broot.first ELSE batches[after].next
           made == [time |-> time, next |-> before, children |-> 0, defer |-> TRUE, didComplete |-> FALSE]
           linked == IF passed = {} THEN batches ELSE [batches EXCEPT ![after].next = b]
<1>1. /\ batches \in Seq(BatchesMade) /\ Len(batches) \in Nat /\ DOMAIN batches = 1 .. Len(batches)
      /\ \A c \in 1 .. Len(batches) : batches[c] \in BatchesMade /\ batches[c].next \in 0 .. Len(batches)
      /\ broot.first \in 0 .. Len(batches)
      /\ time \in Positive /\ ownerOf \in Seq(Nat) /\ Len(ownerOf) \in Nat
  <2>1. /\ AreBatches(batches, Len(batches)) /\ broot.first \in 0 .. Len(batches)
        /\ lastUniqueAsyncExpiration \in Positive /\ ownerOf \in Seq(Nat)
    BY DEF BatchesInv, BatchesFit
  <2>2. Len(batches) \in Nat /\ DOMAIN batches = 1 .. Len(batches) /\ Len(ownerOf) \in Nat
    BY <2>1 DEF AreBatches
  <2>3. time \in Positive
    BY <2>1 DEF Positive
  <2> HIDE DEF time
  <2> QED
    BY <2>1, <2>2, <2>3 DEF AreBatches
<1>2. passed # {} => after \in 1 .. Len(batches)
  <2> SUFFICES ASSUME passed # {} PROVE after \in 1 .. Len(batches)
    OBVIOUS
  <2>1. Max(passed) \in passed
    <3>1. passed \in SUBSET (0 .. Len(batches))
      OBVIOUS
    <3> HIDE DEF passed
    <3> QED
      BY <1>1, <3>1, NumbersHaveBounds
  <2>2. Max(passed) \in 0 .. Len(batches) /\ IsEarlier(Max(passed))
    <3>1. \A n \in passed : n \in 0 .. Len(batches) /\ n \in 0 .. n /\ IsEarlier(n)
      BY <1>1
    <3> HIDE DEF passed, IsEarlier
    <3> QED
      BY <2>1, <3>1
  <2>3. after = BatchAt[Max(passed)] /\ after # 0
    BY <2>2
  <2>4. BatchAt[Max(passed)] \in 0 .. Len(batches)
    <3> HIDE DEF passed
    <3> QED
      BY <2>2, PlacesAreBatches DEF BatchesInv
  <2> HIDE DEF after, passed
  <2> QED
    BY <1>1, <2>3, <2>4
<1>3. before \in 0 .. Len(batches)
  <2> HIDE DEF after, passed
  <2> QED
    BY <1>1, <1>2
<1>4. made \in BatchesMade /\ made.next = before
  <2> HIDE DEF before, time
  <2> QED
    BY <1>1, <1>3 DEF BatchesMade
<1>5. /\ linked \in Seq(BatchesMade) /\ Len(linked) = Len(batches) /\ DOMAIN linked = 1 .. Len(batches)
      /\ \A c \in 1 .. Len(batches) : linked[c].next \in 0 .. b
  <2>1. CASE passed = {}
    <3>1. linked = batches
      BY <2>1
    <3> HIDE DEF linked
    <3> QED
      BY <1>1, <3>1
  <2>2. CASE passed # {}
    <3> DEFINE moved == [batches[after] EXCEPT !.next = b]
    <3>1. linked = [batches EXCEPT ![after] = moved] /\ b \in Nat
      <4>1. linked = [batches EXCEPT ![after].next = b]
        BY <2>2
      <4>2. b \in Nat
        BY <1>1
      <4> HIDE DEF linked, after, passed, b
      <4> QED
        BY <4>1, <4>2
    <3>2. moved \in BatchesMade /\ moved.next = b
      <4>1. batches[after] \in BatchesMade
        BY <1>1, <1>2, <2>2
      <4> HIDE DEF after, b
      <4> QED
        BY <3>1, <4>1 DEF BatchesMade
    <3> HIDE DEF linked, after, passed, b, moved
    <3>3. linked = [c \in 1 .. Len(batches) |-> IF c = after THEN moved ELSE batches[c]]
      BY <1>1, <3>1
    <3>4. \A c \in 1 .. Len(batches) : linked[c] \in BatchesMade /\ linked[c].next \in 0 .. b
      <4>1. b \in 0 .. b /\ \A k \in 0 .. Len(batches) : k \in 0 .. b
        BY <1>1 DEF b
      <4> QED
        BY <1>1, <3>2, <3>3, <4>1
    <3>5. linked \in Seq(BatchesMade) /\ Len(linked) = Len(batches) /\ DOMAIN linked = 1 .. Len(batches)
      BY <1>1, <3>3, <3>4
    <3> QED
      BY <3>4, <3>5
  <2> QED
    BY <2>1, <2>2
<1>6. /\ lastUniqueAsyncExpiration' = time /\ batches' = Append(linked, made) /\ ownerOf' = ownerOf
      /\ broot' = IF broot.first = 0 THEN [broot EXCEPT !.first = b] ELSE broot
  BY DEF createBatch
<1> HIDE DEF linked, made, time
<1>7. AreBatches(batches', b) /\ Len(batches') = b
  <2>1. /\ batches' \in Seq(BatchesMade) /\ Len(batches') = Len(linked) + 1
        /\ \A c \in 1 .. Len(linked) : batches'[c] = linked[c]
        /\ batches'[Len(linked) + 1] = made
    BY <1>4, <1>5, <1>6, AppendProperties
  <2>2. ASSUME NEW c \in 1 .. b PROVE batches'[c].next \in 0 .. b
    <3>1. CASE c = b
      <4>1. batches'[c].next = before
        BY <1>4, <1>5, <2>1, <3>1
      <4> HIDE DEF before
      <4> QED
        BY <1>1, <1>3, <4>1
    <3>2. CASE c # b
      <4>1. c \in 1 .. Len(batches)
        BY <1>1, <3>2
      <4> HIDE DEF b
      <4> QED
        BY <1>5, <2>1, <4>1
    <3> QED
      BY <3>1, <3>2
  <2>3. Len(batches') = b
    BY <1>5, <2>1
  <2> HIDE DEF b
  <2> QED
    BY <2>1, <2>2, <2>3 DEF AreBatches
<1>8. RootFits(broot', Len(ownerOf)) /\ broot'.first \in 0 .. b
  <2>1. CASE broot.first = 0
    <3>1. b \in Nat /\ b # 0
      BY <1>1
    <3> HIDE DEF b
    <3> QED
      BY <1>1, <1>6, <2>1, <3>1, RootStaysFit DEF BatchesInv
  <2>2. CASE broot.first # 0
    BY <1>1, <1>6, <2>2 DEF BatchesInv
  <2> QED
    BY <2>1, <2>2
<1> HIDE DEF b
<1> QED
  BY <1>1, <1>6, <1>7, <1>8 DEF BatchesInv, BatchesFit

LEMMA ChildrenFit ==
  ASSUME NEW owner \in Nat, BatchesInv, NewChildren(owner)
  PROVE  /\ ownerOf' \in Seq(Nat) /\ Len(ownerOf) \in Nat /\ Len(ownerOf') = Len(ownerOf) + 1
         /\ \A c \in 1 .. Len(ownerOf') : c \in 1 .. Len(ownerOf) \/ c = Len(ownerOf) + 1
<1>1. ownerOf \in Seq(Nat) /\ ownerOf' = Append(ownerOf, owner)
  BY DEF BatchesInv, BatchesFit, NewChildren
<1>2. ownerOf' \in Seq(Nat) /\ Len(ownerOf) \in Nat /\ Len(ownerOf') = Len(ownerOf) + 1
  BY <1>1, AppendProperties
<1> QED
  BY <1>2

LEMMA BatchRenderFits ==
  ASSUME BatchesInv, NEW b \in DOMAIN batches, BatchRender(b)
  PROVE  BatchesInv'
<1> DEFINE c == Len(ownerOf) + 1
           bs == [batches EXCEPT ![b].children = c]
<1>1. /\ AreBatches(batches, Len(batches)) /\ broot.first \in 0 .. Len(batches) /\ RootIsSound(broot, Len(ownerOf))
      /\ Len(batches) \in Nat /\ b \in Nat /\ batches[b].time \in Positive
      /\ lastUniqueAsyncExpiration \in Positive
  <2>1. AreBatches(batches, Len(batches)) /\ broot.first \in 0 .. Len(batches) /\ RootIsSound(broot, Len(ownerOf))
        /\ lastUniqueAsyncExpiration \in Positive
    BY DEF BatchesInv, BatchesFit, RootFits
  <2>2. batches \in Seq(BatchesMade)
    BY <2>1 DEF AreBatches
  <2>3. Len(batches) \in Nat /\ b \in Nat /\ batches[b] \in BatchesMade
    BY <2>2
  <2> QED
    BY <2>1, <2>3 DEF BatchesMade
<1>2. /\ NewChildren(b) /\ batches' = bs /\ broot' = UpdateContainer(broot, bs, c, batches[b].time)
      /\ lastUniqueAsyncExpiration' = lastUniqueAsyncExpiration
  BY DEF BatchRender
<1>3. /\ ownerOf' \in Seq(Nat) /\ Len(ownerOf) \in Nat /\ Len(ownerOf') = Len(ownerOf) + 1
      /\ \A k \in 1 .. Len(ownerOf') : k \in 1 .. Len(ownerOf) \/ k = Len(ownerOf) + 1
  BY <1>1, <1>2, ChildrenFit
<1>4. c \in Nat /\ Len(ownerOf') \in Nat
  BY <1>3
<1>5. AreBatches(bs, Len(batches))
  <2> HIDE DEF c
  <2> QED
    BY <1>1, <1>4, ChildrenChange
<1>6. Len(batches') = Len(batches)
  BY <1>2, <1>5 DEF AreBatches
<1>7. RootFits(broot', Len(ownerOf')) /\ broot'.first = broot.first
  <2>1. \A k \in 1 .. Len(ownerOf') : k \in 1 .. Len(ownerOf) \/ k = c
    BY <1>3
  <2> HIDE DEF c, bs
  <2> QED
    BY <1>1, <1>2, <1>3, <1>4, <2>1, UpdatedFits
<1> HIDE DEF bs
<1> QED
  BY <1>1, <1>2, <1>3, <1>5, <1>6, <1>7 DEF BatchesInv, BatchesFit

LEMMA RootRenderFits ==
  ASSUME BatchesInv, NEW time \in Positive, RootRender(time)
  PROVE  BatchesInv'
<1> DEFINE c == Len(ownerOf) + 1
<1>1. RootIsSound(broot, Len(ownerOf))
  BY DEF BatchesInv, RootFits
<1>2. /\ NewChildren(0) /\ broot' = UpdateContainer(broot, batches, c, time)
      /\ batches' = batches /\ lastUniqueAsyncExpiration' = lastUniqueAsyncExpiration
  BY DEF RootRender
<1>3. /\ ownerOf' \in Seq(Nat) /\ Len(ownerOf) \in Nat /\ Len(ownerOf') = Len(ownerOf) + 1
      /\ \A k \in 1 .. Len(ownerOf') : k \in 1 .. Len(ownerOf) \/ k = Len(ownerOf) + 1
  BY <1>2, ChildrenFit
<1>4. c \in Nat /\ Len(ownerOf') \in Nat
  BY <1>3
<1>5. RootFits(broot', Len(ownerOf')) /\ broot'.first = broot.first
  <2>1. \A k \in 1 .. Len(ownerOf') : k \in 1 .. Len(ownerOf) \/ k = c
    BY <1>3
  <2> HIDE DEF c
  <2> QED
    BY <1>1, <1>2, <1>3, <1>4, <2>1, UpdatedFits
<1> QED
  BY <1>2, <1>3, <1>5 DEF BatchesInv, BatchesFit

LEMMA CommitEmptyFits ==
  ASSUME BatchesInv, NEW b \in DOMAIN batches, CommitEmpty(b)
  PROVE  BatchesInv'
<1> DEFINE n == Len(batches)
           unlinked == [batches EXCEPT ![b].next = 0]
<1>1. AreBatches(batches, n) /\ n \in Nat /\ 0 \in 0 .. n
  BY DEF BatchesInv, BatchesFit, AreBatches
<1>2. batches' = [unlinked EXCEPT ![b].defer = FALSE]
  BY DEF CommitEmpty
<1> HIDE DEF n
<1>3. AreBatches(unlinked, n)
  BY <1>1, NextChanges
<1> HIDE DEF unlinked
<1>4. AreBatches(batches', n)
  BY <1>1, <1>2, <1>3, DeferEnds
<1>5. Len(batches') = n
  BY <1>4 DEF AreBatches
<1>6. broot' = broot /\ ownerOf' = ownerOf /\ lastUniqueAsyncExpiration' = lastUniqueAsyncExpiration
  BY DEF CommitEmpty
<1> QED
  BY <1>4, <1>5, <1>6 DEF BatchesInv, BatchesFit, n

(* Whoever commits a batch that is not the first puts it there.            *)
LEMMA BatchCommitFits ==
  ASSUME BatchesInv, NEW b \in DOMAIN batches, BatchCommit(b)
  PROVE  BatchesInv'
<1> DEFINE n == Len(batches)
           m == Len(ownerOf)
           time == batches[broot.first].time
           before == CHOOSE c \in DOMAIN batches : batches[c].next = b
           isFirst == broot.first = b
           bs1 == [batches EXCEPT ![before].next = batches[b].next]
           bs2 == [bs1 EXCEPT ![b].time = time]
           bs3 == [bs2 EXCEPT ![b].next = broot.first]
           bs == IF isFirst THEN [batches EXCEPT ![b].defer = FALSE] ELSE [bs3 EXCEPT ![b].defer = FALSE]
           r == IF isFirst THEN broot
                ELSE [UpdateContainer(broot, bs, bs[b].children, time) EXCEPT !.first = b]
           flushed == flushRoot(r, bs, time)
           next == bs[b].next
           popped == [flushed EXCEPT !.first = next]
<1>1. /\ AreBatches(batches, n) /\ n \in Nat /\ broot.first \in 1 .. n /\ b \in 1 .. n
      /\ RootFits(broot, m) /\ m \in Nat
      /\ lastUniqueAsyncExpiration \in Positive /\ ownerOf \in Seq(Nat)
  <2>1. /\ AreBatches(batches, n) /\ broot.first \in 0 .. n /\ RootFits(broot, m)
        /\ lastUniqueAsyncExpiration \in Positive /\ ownerOf \in Seq(Nat)
    BY DEF BatchesInv, BatchesFit
  <2>2. n \in Nat /\ DOMAIN batches = 1 .. n /\ m \in Nat
    BY <2>1 DEF AreBatches
  <2>3. broot.first # 0
    BY DEF BatchCommit
  <2> HIDE DEF n, m
  <2> QED
    BY <2>1, <2>2, <2>3
<1>2. /\ batches' = IF flushed.broken THEN bs ELSE [bs EXCEPT ![b].next = 0]
      /\ broot' = IF flushed.broken THEN flushed
                  ELSE IF next # 0 /\ bs[next].children # 0
                       THEN UpdateContainer(popped, bs, bs[next].children, bs[next].time)
                       ELSE popped
      /\ ownerOf' = ownerOf /\ lastUniqueAsyncExpiration' = lastUniqueAsyncExpiration
  BY DEF BatchCommit
<1> HIDE DEF n, m
<1>3. time \in Positive /\ batches[b].next \in 0 .. n
  BY <1>1, BatchesAreTyped
<1>4. AreBatches(bs, n) /\ ~bs[b].defer
  <2>1. CASE isFirst
    <3>1. bs = [batches EXCEPT ![b].defer = FALSE]
      BY <2>1
    <3> HIDE DEF bs
    <3> QED
      BY <1>1, <3>1, DeferEnds
  <2>2. CASE ~isFirst
    <3>1. bs = [bs3 EXCEPT ![b].defer = FALSE]
      BY <2>2
    <3> HIDE DEF bs, before
    <3>2. AreBatches(bs1, n)
      BY <1>1, <1>3, NextChanges
    <3> HIDE DEF bs1, time
    <3>3. AreBatches(bs2, n)
      BY <1>1, <1>3, <3>2, TimeChanges
    <3> HIDE DEF bs2
    <3>4. AreBatches(bs3, n)
      <4>1. broot.first \in 0 .. n
        BY <1>1
      <4> QED
        BY <1>1, <3>3, <4>1, NextChanges
    <3> HIDE DEF bs3
    <3> QED
      BY <1>1, <3>1, <3>4, DeferEnds
  <2> QED
    BY <2>1, <2>2
<1> HIDE DEF bs, time
<1>5. \A c \in 1 .. n : bs[c].children \in Nat /\ bs[c].time \in Positive /\ bs[c].next \in 0 .. n
  BY <1>1, <1>4, BatchesAreTyped
<1>6. RootIsSound(r, m) /\ r.first = b
  <2>1. CASE isFirst
    BY <1>1, <2>1 DEF RootFits
  <2>2. CASE ~isFirst
    <3> DEFINE updated == UpdateContainer(broot, bs, bs[b].children, time)
    <3>1. RootFits(updated, m)
      BY <1>1, <1>3, <1>5, UpdatedFits DEF RootFits
    <3>2. r = [updated EXCEPT !.first = b]
      BY <2>2
    <3> HIDE DEF updated, r
    <3>3. b \in Nat /\ b # 0
      BY <1>1
    <3> QED
      BY <1>1, <3>1, <3>2, <3>3, RootStaysFit DEF RootFits
  <2> QED
    BY <2>1, <2>2
<1> HIDE DEF r
<1>7. RootIsSound(flushed, m) /\ IsScheduled(flushed, m) /\ flushed.first = b
  <2>1. ~bs[r.first].defer
    BY <1>4, <1>6
  <2> QED
    BY <1>1, <1>6, <2>1, FlushedFits
<1> HIDE DEF flushed
<1>8. next \in 0 .. n
  BY <1>1, <1>5
<1>9. RootFits(popped, m) /\ popped.first = next
  <2>1. flushed \in BatchRoots
    BY <1>7 DEF RootIsSound
  <2>2. next \in Nat
    BY <1>1, <1>8
  <2> HIDE DEF next, popped
  <2>3. /\ popped \in BatchRoots /\ popped.first = next /\ popped.levels = flushed.levels
        /\ popped.queue = flushed.queue /\ popped.works = flushed.works
        /\ popped.finished = flushed.finished /\ popped.broken = flushed.broken
    BY <2>1, <2>2 DEF popped, BatchRoots
  <2> QED
    BY <1>7, <2>3 DEF RootFits, RootIsSound, IsScheduled, TreeFits, QueueFits
<1> HIDE DEF next, popped
<1>10. RootFits(broot', m) /\ broot'.first \in 0 .. n
  <2>1. CASE flushed.broken
    BY <1>1, <1>2, <1>7, <2>1 DEF RootFits
  <2>2. CASE ~flushed.broken /\ next # 0 /\ bs[next].children # 0
    <3>1. next \in 1 .. n
      BY <1>1, <1>8, <2>2
    <3> DEFINE updated == UpdateContainer(popped, bs, bs[next].children, bs[next].time)
    <3>2. RootFits(updated, m) /\ updated.first = popped.first
      BY <1>1, <1>5, <1>9, <3>1, UpdatedFits DEF RootFits
    <3> HIDE DEF updated
    <3>3. broot' = updated
      BY <1>2, <2>2 DEF updated
    <3> QED
      BY <1>8, <1>9, <3>2, <3>3
  <2>3. CASE ~flushed.broken /\ ~(next # 0 /\ bs[next].children # 0)
    BY <1>2, <1>8, <1>9, <2>3
  <2> QED
    BY <2>1, <2>2, <2>3
<1>11. AreBatches(batches', n)
  <2>1. CASE flushed.broken
    BY <1>2, <1>4, <2>1
  <2>2. CASE ~flushed.broken
    <3>1. batches' = [bs EXCEPT ![b].next = 0] /\ 0 \in 0 .. n
      BY <1>1, <1>2, <2>2
    <3> QED
      BY <1>1, <1>4, <3>1, NextChanges
  <2> QED
    BY <2>1, <2>2
<1>12. Len(batches') = n
  BY <1>11 DEF AreBatches
<1> QED
  BY <1>1, <1>2, <1>10, <1>11, <1>12 DEF BatchesInv, BatchesFit, m

LEMMA BatchCommitLostFits ==
  ASSUME BatchesInv, NEW b \in DOMAIN batches, BatchCommitLost(b)
  PROVE  BatchesInv'
<1> DEFINE n == Len(batches)
           m == Len(ownerOf)
           bs == [batches EXCEPT ![b].time = batches[broot.first].time]
<1>1. /\ AreBatches(batches, n) /\ n \in Nat /\ broot.first \in 1 .. n /\ b \in 1 .. n
      /\ RootIsSound(broot, m) /\ m \in Nat
  BY DEF BatchesInv, BatchesFit, AreBatches, BatchCommitLost, RootFits
<1>2. /\ batches' = bs /\ broot' = UpdateContainer(broot, bs, bs[b].children, bs[b].time)
      /\ ownerOf' = ownerOf /\ lastUniqueAsyncExpiration' = lastUniqueAsyncExpiration
  BY DEF BatchCommitLost
<1> HIDE DEF n, m
<1>3. AreBatches(bs, n)
  <2>1. batches[broot.first].time \in Positive
    BY <1>1, BatchesAreTyped
  <2> QED
    BY <1>1, <2>1, TimeChanges
<1> HIDE DEF bs
<1>4. bs[b].children \in Nat /\ bs[b].time \in Positive
  BY <1>1, <1>3, BatchesAreTyped
<1>5. RootFits(broot', m) /\ broot'.first = broot.first
  BY <1>1, <1>2, <1>4, UpdatedFits
<1>6. Len(batches') = n
  BY <1>2, <1>3 DEF AreBatches
<1> QED
  BY <1>1, <1>2, <1>3, <1>5, <1>6 DEF BatchesInv, BatchesFit, n, m

(* The host calls back.                                                    *)
LEMMA HostWorkFits ==
  ASSUME BatchesInv, NEW r, RootIsSound(r, Len(ownerOf)), r.first = broot.first, NEW time,
         broot' = performWorkOnRoot(r, batches, time),
         UNCHANGED <<batches, ownerOf, lastUniqueAsyncExpiration>>
  PROVE  BatchesInv'
<1>1. Len(ownerOf) \in Nat
  BY DEF BatchesInv, BatchesFit
<1>2. RootFits(broot', Len(ownerOf)) /\ broot'.first = broot.first
  BY <1>1, WorkedFits
<1> QED
  BY <1>2 DEF BatchesInv, BatchesFit

LEMMA AsyncWorkFits == BatchesInv /\ AsyncWork => BatchesInv'
<1> SUFFICES ASSUME BatchesInv, AsyncWork PROVE BatchesInv'
  OBVIOUS
<1>1. RootIsSound(broot, Len(ownerOf)) /\ RootFits(broot, Len(ownerOf)) /\ Len(ownerOf) \in Nat
  BY DEF BatchesInv, BatchesFit, RootFits
<1>2. UNCHANGED <<batches, ownerOf, lastUniqueAsyncExpiration>> /\ broot.levels.expirationTime # NoWork
  BY DEF AsyncWork
<1>3. CASE broot' = performWorkOnRoot(broot, batches, broot.levels.expirationTime)
  BY <1>1, <1>2, <1>3, HostWorkFits
<1>4. CASE broot' = broot
  BY <1>2, <1>4 DEF BatchesInv, BatchesFit
<1>5. CASE broot' = RenderTree(broot)
  <2>1. /\ RootIsSound(broot', Len(ownerOf)) /\ broot'.first = broot.first
        /\ broot'.levels = broot.levels
    BY <1>1, <1>5, TreeRendered
  <2>2. RootFits(broot', Len(ownerOf))
    BY <1>2, <2>1 DEF RootFits, IsScheduled
  <2> QED
    BY <1>2, <2>1, <2>2 DEF BatchesInv, BatchesFit
<1> QED
  BY <1>3, <1>4, <1>5 DEF AsyncWork

LEMMA ExpiredWorkFits ==
  ASSUME BatchesInv, NEW now \in Nat, ExpiredWork(now)
  PROVE  BatchesInv'
<1> DEFINE marked == DidExpireAt(broot.levels, now)
           r == [broot EXCEPT !.levels = marked]
<1>1. RootIsSound(broot, Len(ownerOf)) /\ broot \in BatchRoots
  BY DEF BatchesInv, RootFits, RootIsSound
<1>2. broot' = performWorkOnRoot(r, batches, broot.levels.expirationTime)
  <2>1. r = [broot EXCEPT !.levels = DidExpireAt(@, now)]
    BY <1>1 DEF BatchRoots
  <2> HIDE DEF r
  <2> QED
    BY <2>1 DEF ExpiredWork
<1>3. Sound(marked)
  BY <1>1 DEF ExpiredWork, RootIsSound, DidExpireAt, Sound, Levels, IsPinged, IsPriorityLevelSuspended, NoWork
<1>4. marked \in Levels
  BY <1>3 DEF Sound
<1> HIDE DEF marked
<1>5. /\ r \in BatchRoots /\ r.levels = marked /\ r.queue = broot.queue /\ r.works = broot.works
      /\ r.finished = broot.finished /\ r.first = broot.first
  BY <1>1, <1>4 DEF BatchRoots
<1> HIDE DEF r
<1>6. RootIsSound(r, Len(ownerOf))
  BY <1>1, <1>3, <1>5 DEF RootIsSound, TreeFits, QueueFits
<1>7. UNCHANGED <<batches, ownerOf, lastUniqueAsyncExpiration>>
  BY DEF ExpiredWork
<1> QED
  BY <1>2, <1>5, <1>6, <1>7, HostWorkFits

LEMMA CompleteFits == BatchesInv /\ Complete => BatchesInv'
<1> SUFFICES ASSUME BatchesInv, Complete PROVE BatchesInv'
  OBVIOUS
<1>1. /\ broot.completed # <<>> /\ broot' = [broot EXCEPT !.completed = Tail(@)]
      /\ batches' = [batches EXCEPT ![Head(broot.completed)].didComplete = TRUE]
      /\ ownerOf' = ownerOf /\ lastUniqueAsyncExpiration' = lastUniqueAsyncExpiration
  BY DEF Complete
<1>2. broot \in BatchRoots /\ broot.completed \in Seq(Nat)
  <2>1. broot \in BatchRoots
    BY DEF BatchesInv, RootFits, RootIsSound
  <2> QED
    BY <2>1 DEF BatchRoots
<1>3. Tail(broot.completed) \in Seq(Nat)
  BY <1>1, <1>2, HeadTailProperties
<1>4. /\ broot' \in BatchRoots /\ broot'.levels = broot.levels /\ broot'.queue = broot.queue
      /\ broot'.works = broot.works /\ broot'.finished = broot.finished /\ broot'.first = broot.first
      /\ broot'.broken = broot.broken
  BY <1>1, <1>2, <1>3 DEF BatchRoots
<1>5. RootFits(broot', Len(ownerOf))
  BY <1>4 DEF BatchesInv, RootFits, RootIsSound, IsScheduled, TreeFits, QueueFits
<1>6. AreBatches(batches', Len(batches))
  <2>1. AreBatches(batches, Len(batches)) /\ Len(batches) \in Nat
    BY DEF BatchesInv, BatchesFit, AreBatches
  <2> QED
    BY <1>1, <2>1, BatchCompletes
<1>7. Len(batches') = Len(batches)
  BY <1>6 DEF AreBatches
<1> QED
  BY <1>1, <1>4, <1>5, <1>6, <1>7 DEF BatchesInv, BatchesFit

LEMMA BatchesStart == BatchesInit => BatchesInv
<1> SUFFICES ASSUME BatchesInit PROVE BatchesInv
  OBVIOUS
<1>1. broot = NewBatchRoot /\ batches = <<>> /\ ownerOf = <<>> /\ lastUniqueAsyncExpiration = Sync
  BY DEF BatchesInit
<1>2. Sound(NewLevels) /\ NewLevels \in Levels
  BY DEF NewLevels, Sound, Levels, NoLevels, Ranges, IsRange, IsPinged, NoWork
<1>3. /\ broot.levels = NewLevels /\ broot.queue = <<>> /\ broot.finished = NoFinished
      /\ broot.first = 0 /\ broot.works = {}
  BY <1>1 DEF NewBatchRoot
<1>4. broot \in BatchRoots
  BY <1>1, <1>2 DEF NewBatchRoot, BatchRoots
<1>5. Len(ownerOf) = 0 /\ Len(batches) = 0 /\ ownerOf \in Seq(Nat) /\ batches \in Seq(BatchesMade)
  BY <1>1
<1>6. RootFits(broot, 0)
  BY <1>2, <1>3, <1>4 DEF RootFits, RootIsSound, IsScheduled, TreeFits, QueueFits
<1>7. AreBatches(batches, 0)
  BY <1>5 DEF AreBatches
<1> QED
  BY <1>1, <1>3, <1>5, <1>6, <1>7 DEF BatchesInv, BatchesFit, Positive, Sync

LEMMA BatchesStep == BatchesInv /\ [BatchesNext]_batchVars => BatchesInv'
<1> SUFFICES ASSUME BatchesInv, [BatchesNext]_batchVars PROVE BatchesInv'
  OBVIOUS
<1>1. ASSUME NEW gap \in {1, 2}, createBatch(gap) PROVE BatchesInv'
  BY <1>1, createBatchFits
<1>2. ASSUME NEW b \in DOMAIN batches, BatchRender(b) PROVE BatchesInv'
  BY <1>2, BatchRenderFits
<1>3. ASSUME NEW b \in DOMAIN batches, CommitEmpty(b) PROVE BatchesInv'
  BY <1>3, CommitEmptyFits
<1>4. ASSUME NEW b \in DOMAIN batches, BatchCommit(b) PROVE BatchesInv'
  BY <1>4, BatchCommitFits
<1>5. ASSUME NEW b \in DOMAIN batches, BatchCommitLost(b) PROVE BatchesInv'
  BY <1>5, BatchCommitLostFits
<1>6. ASSUME NEW t \in Sync .. MaxLevel, RootRender(t) PROVE BatchesInv'
  <2>1. t \in Positive
    BY DEF Positive, Sync
  <2> QED
    BY <1>6, <2>1, RootRenderFits
<1>7. ASSUME NEW t \in Sync .. MaxLevel, ExpiredWork(t) PROVE BatchesInv'
  <2>1. t \in Nat
    BY DEF Sync
  <2> QED
    BY <1>7, <2>1, ExpiredWorkFits
<1>8. CASE UNCHANGED batchVars
  BY <1>8 DEF batchVars, BatchesInv, BatchesFit
<1> QED
  BY <1>1, <1>2, <1>3, <1>4, <1>5, <1>6, <1>7, <1>8, AsyncWorkFits, CompleteFits DEF BatchesNext

LEMMA FittingIsKept == BatchesInv => WorkIsKept
<1> SUFFICES ASSUME BatchesInv, ~broot.broken, Unresolved # {}
             PROVE  /\ Unresolved \subseteq {u.children : u \in ToSet(broot.queue)}
                    /\ \/ broot.levels.expirationTime # NoWork
                       \/ broot.finished # NoFinished /\ broot.first # 0
  BY DEF WorkIsKept
<1>1. DOMAIN ownerOf = 1 .. Len(ownerOf)
  BY DEF BatchesInv, BatchesFit
<1>2. ASSUME NEW c \in Unresolved PROVE c \in {u.children : u \in ToSet(broot.queue)}
  <2>1. c \in 1 .. Len(ownerOf) /\ c \notin broot.works
    BY <1>1 DEF Unresolved
  <2>2. PICK i \in DOMAIN broot.queue : broot.queue[i].children = c
    BY <2>1 DEF BatchesInv, RootFits, RootIsSound, QueueFits
  <2>3. broot.queue[i] \in ToSet(broot.queue)
    BY DEF ToSet
  <2> QED
    BY <2>2, <2>3
<1>3. ~(\A c \in 1 .. Len(ownerOf) : c \in broot.works)
  BY <1>1 DEF Unresolved
<1> QED
  BY <1>2, <1>3 DEF BatchesInv, RootFits, IsScheduled

(* A root that a batch has unscheduled forgets nothing, of any number of   *)
(* batches and levels (completeRoot, flushRoot, commitRoot).               *)
THEOREM WorkStaysKept == BatchesSpec => []WorkIsKept
<1>1. BatchesSpec => []BatchesInv
  BY BatchesStart, BatchesStep, PTL DEF BatchesSpec
<1> QED
  BY <1>1, FittingIsKept, PTL

-----------------------------------------------------------------------------

Statuses == {"Pending", "Resolved", "Rejected"}
Nodes == [key : Keys, status : Statuses, next : Nat, previous : Nat]

After(i, n) == IF i = n THEN 1 ELSE i + 1

Ring(R, o, n) ==
  \A i \in 1 .. n : R[o[i]].next = o[After(i, n)] /\ R[o[After(i, n)]].previous = o[i]

RingOf(D, R, n, o) ==
  /\ D \subseteq Nat \ {0} /\ R \in [D -> Nodes] /\ n \in Nat /\ o \in [1 .. n -> D]
  /\ Ring(R, o, n) /\ \A i, j \in 1 .. n : o[i] = o[j] => i = j

InsertedBefore(D, R, f, e, Q) ==
  /\ Q \in [D -> Nodes]
  /\ \A x \in D : /\ Q[x].key = R[x].key /\ Q[x].status = R[x].status
                  /\ Q[x].next = IF x = e THEN f ELSE IF x = R[f].previous THEN e ELSE R[x].next
                  /\ Q[x].previous = IF x = f THEN e ELSE IF x = e THEN R[f].previous ELSE R[x].previous

TakenOut(D, R, e, Q) ==
  /\ Q \in [D -> Nodes]
  /\ \A x \in D : /\ Q[x].key = R[x].key /\ Q[x].status = R[x].status
                  /\ Q[x].next = IF x = R[e].previous THEN R[e].next ELSE R[x].next
                  /\ Q[x].previous = IF x = R[e].next THEN R[e].previous ELSE R[x].previous

(* The nodes keep what they stand for, and those outside of the places p   *)
(* of a list of n nodes are linked as before.                              *)
SameBut(D, R, p, n, Q) ==
  /\ Q \in [D -> Nodes]
  /\ \A x \in D : /\ Q[x].key = R[x].key /\ Q[x].status = R[x].status
                  /\ (\A i \in 1 .. n : x # p[i]) => Q[x].next = R[x].next

(* What is linked into a list, or out of it, changes these pointers only.  *)
LEMMA PointersIn ==
  ASSUME NEW D, D \subseteq Nat \ {0}, NEW R \in [D -> Nodes], NEW f \in D, NEW e \in D, f # e, R[f].previous \in D
  PROVE  InsertedBefore(D, R, f, e, LinkedIn(R, f, e))
<1> DEFINE last == R[f].previous
           A == [R EXCEPT ![last] = [@ EXCEPT !.next = e]]
           B == [A EXCEPT ![e] = [@ EXCEPT !.previous = last]]
           C == [B EXCEPT ![f] = [@ EXCEPT !.previous = e]]
           Q == [C EXCEPT ![e] = [@ EXCEPT !.next = f]]
<1>0. last \in D /\ f # 0
  OBVIOUS
<1>1. LinkedIn(R, f, e) = Q
  BY <1>0 DEF LinkedIn
<1>a. e \in Nat /\ f \in Nat /\ last \in Nat
  BY <1>0
<1>2. /\ A \in [D -> Nodes]
      /\ \A x \in D : /\ A[x].key = R[x].key /\ A[x].status = R[x].status /\ A[x].previous = R[x].previous
                      /\ A[x].next = IF x = last THEN e ELSE R[x].next
  <2> HIDE DEF last
  <2> QED
    BY <1>0, <1>a DEF Nodes
<1>3. /\ B \in [D -> Nodes]
      /\ \A x \in D : /\ B[x].key = A[x].key /\ B[x].status = A[x].status /\ B[x].next = A[x].next
                      /\ B[x].previous = IF x = e THEN last ELSE A[x].previous
  <2> HIDE DEF A, last
  <2> QED
    BY <1>0, <1>a, <1>2 DEF Nodes
<1>4. /\ C \in [D -> Nodes]
      /\ \A x \in D : /\ C[x].key = B[x].key /\ C[x].status = B[x].status /\ C[x].next = B[x].next
                      /\ C[x].previous = IF x = f THEN e ELSE B[x].previous
  <2> HIDE DEF B, last
  <2> QED
    BY <1>0, <1>a, <1>3 DEF Nodes
<1>5. /\ Q \in [D -> Nodes]
      /\ \A x \in D : /\ Q[x].key = C[x].key /\ Q[x].status = C[x].status /\ Q[x].previous = C[x].previous
                      /\ Q[x].next = IF x = e THEN f ELSE C[x].next
  <2> HIDE DEF C, last
  <2> QED
    BY <1>0, <1>a, <1>4 DEF Nodes
<1> HIDE DEF A, B, C, Q
<1> QED
  BY <1>1, <1>2, <1>3, <1>4, <1>5 DEF InsertedBefore

LEMMA PointersOut ==
  ASSUME NEW D, D \subseteq Nat \ {0}, NEW R \in [D -> Nodes], NEW e \in D, R[e].previous \in D, R[e].next \in D
  PROVE  TakenOut(D, R, e, LinkedOut(R, e))
<1> DEFINE p == R[e].previous
           n == R[e].next
           A == [R EXCEPT ![p] = [@ EXCEPT !.next = n]]
           Q == [A EXCEPT ![n] = [@ EXCEPT !.previous = p]]
<1>0. p \in D /\ n \in D
  OBVIOUS
<1>1. LinkedOut(R, e) = Q
  BY <1>0 DEF LinkedOut
<1>2. /\ A \in [D -> Nodes]
      /\ \A x \in D : /\ A[x].key = R[x].key /\ A[x].status = R[x].status /\ A[x].previous = R[x].previous
                      /\ A[x].next = IF x = p THEN n ELSE R[x].next
  <2> HIDE DEF p, n
  <2> QED
    BY <1>0 DEF Nodes
<1>3. /\ Q \in [D -> Nodes]
      /\ \A x \in D : /\ Q[x].key = A[x].key /\ Q[x].status = A[x].status /\ Q[x].next = A[x].next
                      /\ Q[x].previous = IF x = n THEN p ELSE A[x].previous
  <2> HIDE DEF A, p, n
  <2> QED
    BY <1>0, <1>2 DEF Nodes
<1> HIDE DEF A, Q
<1> QED
  BY <1>1, <1>2, <1>3 DEF TakenOut

LEMMA AfterIsAPlace ==
  ASSUME NEW n \in Nat, NEW i \in 1 .. n
  PROVE  After(i, n) \in 1 .. n
  BY DEF After

LEMMA RingGrows ==
  ASSUME NEW D, NEW R, NEW n, NEW o, RingOf(D, R, n, o), n # 0,
         NEW e \in D, \A i \in 1 .. n : o[i] # e,
         NEW p \in [1 .. n + 1 -> D], p[1] = e, \A i \in 1 .. n : p[i + 1] = o[i]
  PROVE  Ring(LinkedIn(R, o[1], e), p, n + 1) /\ SameBut(D, R, p, n + 1, LinkedIn(R, o[1], e))
<1>r. /\ D \subseteq Nat \ {0} /\ R \in [D -> Nodes] /\ n \in Nat /\ o \in [1 .. n -> D]
      /\ Ring(R, o, n) /\ \A i, j \in 1 .. n : o[i] = o[j] => i = j
  BY DEF RingOf
<1> DEFINE Q == LinkedIn(R, o[1], e)
<1>0. 1 \in 1 .. n /\ n \in 1 .. n /\ o[1] \in D /\ o[n] \in D /\ o[1] # e
  BY <1>r
<1>1. R[o[1]].previous = o[n]
  BY <1>r, <1>0 DEF Ring, After
<1>2. /\ Q \in [D -> Nodes]
      /\ \A x \in D : /\ Q[x].key = R[x].key /\ Q[x].status = R[x].status
                      /\ Q[x].next = IF x = e THEN o[1] ELSE IF x = o[n] THEN e ELSE R[x].next
                      /\ Q[x].previous = IF x = o[1] THEN e ELSE IF x = e THEN o[n] ELSE R[x].previous
  <2> DEFINE f == o[1]
  <2>1. f \in D /\ f # e /\ R[f].previous \in D /\ R[f].previous = o[n]
    BY <1>r, <1>0, <1>1
  <2> HIDE DEF f
  <2>2. InsertedBefore(D, R, f, e, LinkedIn(R, f, e))
    BY <1>r, <2>1, PointersIn
  <2>3. LinkedIn(R, f, e) = Q
    BY <1>r DEF f
  <2> HIDE DEF Q
  <2> QED
    BY <1>r, <2>1, <2>2, <2>3 DEF f, InsertedBefore
<1> HIDE DEF Q
<1>3. ASSUME NEW i \in 1 .. n + 1
      PROVE  Q[p[i]].next = p[After(i, n + 1)] /\ Q[p[After(i, n + 1)]].previous = p[i]
  <2>1. CASE i = 1
    <3>1. p[2] = o[1] /\ After(1, n + 1) = 2
      BY <1>r, <1>0 DEF After
    <3>2. Q[e].next = o[1] /\ Q[o[1]].previous = e
      BY <1>r, <1>0, <1>2
    <3> QED
      BY <1>r, <2>1, <3>1, <3>2
  <2>2. CASE i # 1 /\ i # n + 1
    <3>1. i - 1 \in 1 .. n /\ i \in 1 .. n /\ i - 1 # n /\ After(i - 1, n) = i /\ After(i, n + 1) = i + 1
      BY <1>r, <2>2 DEF After
    <3>2. p[i] = o[i - 1] /\ p[i + 1] = o[i]
      <4>1. p[(i - 1) + 1] = o[i - 1]
        BY <1>r, <3>1
      <4> QED
        BY <1>r, <3>1, <4>1
    <3>3. o[i - 1] # e /\ o[i - 1] # o[n] /\ o[i] # o[1] /\ o[i] # e /\ o[i] \in D /\ o[i - 1] \in D
      BY <1>r, <1>0, <2>2, <3>1
    <3>4. R[o[i - 1]].next = o[i] /\ R[o[i]].previous = o[i - 1]
      BY <1>r, <3>1 DEF Ring
    <3>5. Q[o[i - 1]].next = R[o[i - 1]].next /\ Q[o[i]].previous = R[o[i]].previous
      BY <1>r, <1>2, <3>3
    <3> QED
      BY <1>r, <3>1, <3>2, <3>4, <3>5
  <2>3. CASE i = n + 1 /\ i # 1
    <3>1. p[i] = o[n] /\ After(i, n + 1) = 1
      BY <1>r, <1>0, <2>3 DEF After
    <3> QED
      BY <1>r, <1>0, <1>2, <3>1
  <2> QED
    BY <1>r, <2>1, <2>2, <2>3
<1>4. ASSUME NEW x \in D, \A i \in 1 .. n + 1 : x # p[i] PROVE Q[x].next = R[x].next
  <2>1. x # e /\ x # o[n]
    <3>1. 1 \in 1 .. n + 1 /\ n + 1 \in 1 .. n + 1 /\ p[n + 1] = o[n]
      BY <1>r, <1>0
    <3> QED
      BY <1>r, <1>4, <3>1
  <2> QED
    BY <1>r, <1>2, <2>1
<1> QED
  BY <1>r, <1>2, <1>3, <1>4 DEF Ring, SameBut, Q

LEMMA RingShrinks ==
  ASSUME NEW D, NEW R, NEW n, NEW o, RingOf(D, R, n, o),
         NEW k \in 2 .. n,
         NEW p \in [1 .. n - 1 -> D], \A i \in 1 .. n - 1 : p[i] = IF i < k THEN o[i] ELSE o[i + 1]
  PROVE  Ring(LinkedOut(R, o[k]), p, n - 1) /\ SameBut(D, R, o, n, LinkedOut(R, o[k]))
<1>r. /\ D \subseteq Nat \ {0} /\ R \in [D -> Nodes] /\ n \in Nat /\ o \in [1 .. n -> D]
      /\ Ring(R, o, n) /\ \A i, j \in 1 .. n : o[i] = o[j] => i = j
  BY DEF RingOf
<1> DEFINE Q == LinkedOut(R, o[k])
           m == After(k, n)
<1>0. /\ k \in 1 .. n /\ k - 1 \in 1 .. n /\ k - 1 # n /\ After(k - 1, n) = k /\ m \in 1 .. n
      /\ o[k] \in D /\ o[k - 1] \in D /\ o[m] \in D
  BY <1>r DEF After
<1>1. R[o[k]].previous = o[k - 1] /\ R[o[k]].next = o[m]
  BY <1>r, <1>0 DEF Ring
<1>2. /\ Q \in [D -> Nodes]
      /\ \A x \in D : /\ Q[x].key = R[x].key /\ Q[x].status = R[x].status
                      /\ Q[x].next = IF x = o[k - 1] THEN o[m] ELSE R[x].next
                      /\ Q[x].previous = IF x = o[m] THEN o[k - 1] ELSE R[x].previous
  <2> DEFINE e == o[k]
  <2>1. e \in D /\ R[e].previous \in D /\ R[e].next \in D /\ R[e].previous = o[k - 1] /\ R[e].next = o[m]
    BY <1>r, <1>0, <1>1
  <2> HIDE DEF e, m
  <2>2. TakenOut(D, R, e, LinkedOut(R, e))
    BY <1>r, <2>1, PointersOut
  <2>3. LinkedOut(R, e) = Q
    BY <1>r DEF e
  <2> HIDE DEF Q
  <2> QED
    BY <1>r, <2>1, <2>2, <2>3 DEF TakenOut
<1> HIDE DEF Q
<1>3. ASSUME NEW i \in 1 .. n - 1
      PROVE  Q[p[i]].next = p[After(i, n - 1)] /\ Q[p[After(i, n - 1)]].previous = p[i]
  <2>1. CASE i < k - 1
    <3>1. i \in 1 .. n /\ i + 1 \in 1 .. n - 1 /\ i + 1 \in 1 .. n /\ After(i, n - 1) = i + 1 /\ After(i, n) = i + 1
      BY <1>r, <2>1 DEF After
    <3>2. p[i] = o[i] /\ p[i + 1] = o[i + 1] /\ o[i] \in D /\ o[i + 1] \in D
      BY <1>r, <2>1, <3>1
    <3>3. o[i] # o[k - 1] /\ o[i + 1] # o[m]
      <4>1. i # k - 1 /\ i + 1 # m
        BY <1>r, <2>1 DEF After
      <4> HIDE DEF m
      <4> QED
        BY <1>r, <1>0, <3>1, <4>1
    <3>4. R[o[i]].next = o[i + 1] /\ R[o[i + 1]].previous = o[i]
      BY <1>r, <3>1 DEF Ring
    <3>5. Q[o[i]].next = R[o[i]].next /\ Q[o[i + 1]].previous = R[o[i + 1]].previous
      BY <1>r, <1>2, <3>2, <3>3
    <3> QED
      BY <1>r, <3>1, <3>2, <3>4, <3>5
  <2>2. CASE i = k - 1
    <3>1. p[i] = o[k - 1]
      BY <1>r, <2>2
    <3>2. p[After(i, n - 1)] = o[m]
      <4>1. CASE k = n
        <5>1. After(i, n - 1) = 1 /\ m = 1 /\ 1 \in 1 .. n - 1
          BY <1>r, <2>2, <4>1 DEF After
        <5> QED
          BY <1>r, <5>1
      <4>2. CASE k # n
        <5>1. After(i, n - 1) = k /\ m = k + 1 /\ k \in 1 .. n - 1
          BY <1>r, <2>2, <4>2 DEF After
        <5> QED
          BY <1>r, <5>1
      <4> QED
        BY <1>r, <4>1, <4>2
    <3> HIDE DEF m
    <3> QED
      BY <1>r, <1>0, <1>2, <3>1, <3>2
  <2>3. CASE i >= k
    <3>1. i + 1 \in 1 .. n /\ p[i] = o[i + 1] /\ o[i + 1] \in D
      BY <1>r, <2>3
    <3>2. After(i + 1, n) \in 1 .. n /\ p[After(i, n - 1)] = o[After(i + 1, n)]
      <4>1. CASE i = n - 1
        <5>1. After(i, n - 1) = 1 /\ After(i + 1, n) = 1 /\ 1 \in 1 .. n - 1 /\ 1 < k
          BY <1>r, <4>1 DEF After
        <5> QED
          BY <1>r, <5>1
      <4>2. CASE i # n - 1
        <5>1. After(i, n - 1) = i + 1 /\ After(i + 1, n) = i + 2 /\ i + 1 \in 1 .. n - 1 /\ ~(i + 1 < k) /\ (i + 1) + 1 = i + 2
          BY <1>r, <2>3, <4>2 DEF After
        <5>2. p[i + 1] = o[(i + 1) + 1]
          BY <1>r, <5>1
        <5> QED
          BY <1>r, <5>1, <5>2
      <4> QED
        BY <1>r, <4>1, <4>2
    <3>3. i + 1 # k - 1 /\ After(i + 1, n) # m
      BY <1>r, <2>3 DEF After
    <3>4. R[o[i + 1]].next = o[After(i + 1, n)] /\ R[o[After(i + 1, n)]].previous = o[i + 1]
      BY <1>r, <3>1 DEF Ring
    <3> HIDE DEF m
    <3>5. o[i + 1] # o[k - 1] /\ o[After(i + 1, n)] # o[m] /\ o[After(i + 1, n)] \in D
      BY <1>r, <1>0, <3>1, <3>2, <3>3
    <3>6. /\ Q[o[i + 1]].next = R[o[i + 1]].next
          /\ Q[o[After(i + 1, n)]].previous = R[o[After(i + 1, n)]].previous
      BY <1>2, <3>1, <3>5
    <3> QED
      BY <3>1, <3>2, <3>4, <3>6
  <2>4. i < k - 1 \/ i = k - 1 \/ i >= k
    BY <1>r
  <2> QED
    BY <1>r, <2>1, <2>2, <2>3, <2>4
<1>4. ASSUME NEW x \in D, \A i \in 1 .. n : x # o[i] PROVE Q[x].next = R[x].next
  BY <1>r, <1>0, <1>2, <1>4
<1> QED
  BY <1>r, <1>2, <1>3, <1>4 DEF Ring, SameBut, Q


CutAt(D, R, b, last, f, Q) ==
  /\ Q \in [D -> Nodes]
  /\ \A x \in D : /\ Q[x].key = R[x].key /\ Q[x].status = R[x].status
                  /\ Q[x].next = IF x = b THEN f ELSE IF x = last THEN 0 ELSE R[x].next
                  /\ Q[x].previous = IF x = f THEN b ELSE IF x = last THEN 0 ELSE R[x].previous

LEMMA PointersCut ==
  ASSUME NEW D, D \subseteq Nat \ {0}, NEW R \in [D -> Nodes], NEW last \in D, NEW f \in D, NEW b \in D
  PROVE  CutAt(D, R, b, last, f, [[R EXCEPT ![last].next = 0, ![last].previous = 0] EXCEPT ![f].previous = b, ![b].next = f])
<1> DEFINE A == [R EXCEPT ![last] = [@ EXCEPT !.next = 0]]
           B == [A EXCEPT ![last] = [@ EXCEPT !.previous = 0]]
           C == [B EXCEPT ![f] = [@ EXCEPT !.previous = b]]
           E == [C EXCEPT ![b] = [@ EXCEPT !.next = f]]
<1>0. last \in Nat /\ f \in Nat /\ b \in Nat /\ 0 \in Nat
  OBVIOUS
<1>1. [[R EXCEPT ![last].next = 0, ![last].previous = 0] EXCEPT ![f].previous = b, ![b].next = f] = E
  OBVIOUS
<1>2. /\ A \in [D -> Nodes]
      /\ \A x \in D : /\ A[x].key = R[x].key /\ A[x].status = R[x].status /\ A[x].previous = R[x].previous
                      /\ A[x].next = IF x = last THEN 0 ELSE R[x].next
  BY <1>0 DEF Nodes
<1>3. /\ B \in [D -> Nodes]
      /\ \A x \in D : /\ B[x].key = A[x].key /\ B[x].status = A[x].status /\ B[x].next = A[x].next
                      /\ B[x].previous = IF x = last THEN 0 ELSE A[x].previous
  <2> HIDE DEF A
  <2> QED
    BY <1>0, <1>2 DEF Nodes
<1>4. /\ C \in [D -> Nodes]
      /\ \A x \in D : /\ C[x].key = B[x].key /\ C[x].status = B[x].status /\ C[x].next = B[x].next
                      /\ C[x].previous = IF x = f THEN b ELSE B[x].previous
  <2> HIDE DEF B
  <2> QED
    BY <1>0, <1>3 DEF Nodes
<1>5. /\ E \in [D -> Nodes]
      /\ \A x \in D : /\ E[x].key = C[x].key /\ E[x].status = C[x].status /\ E[x].previous = C[x].previous
                      /\ E[x].next = IF x = b THEN f ELSE C[x].next
  <2> HIDE DEF C
  <2> QED
    BY <1>0, <1>4 DEF Nodes
<1> HIDE DEF A, B, C, E
<1>6. ASSUME NEW x \in D
      PROVE  /\ E[x].key = R[x].key /\ E[x].status = R[x].status
             /\ E[x].next = IF x = b THEN f ELSE IF x = last THEN 0 ELSE R[x].next
             /\ E[x].previous = IF x = f THEN b ELSE IF x = last THEN 0 ELSE R[x].previous
  <2>1. E[x].key = R[x].key /\ E[x].status = R[x].status
    BY <1>2, <1>3, <1>4, <1>5
  <2>2. E[x].next = IF x = b THEN f ELSE A[x].next
    BY <1>3, <1>4, <1>5
  <2>3. E[x].previous = IF x = f THEN b ELSE B[x].previous
    BY <1>4, <1>5
  <2> QED
    BY <1>2, <1>3, <2>1, <2>2, <2>3
<1> QED
  BY <1>1, <1>5, <1>6 DEF CutAt

LEMMA RingEnds ==
  ASSUME NEW D, NEW R, NEW n, NEW o, RingOf(D, R, n, o), n >= 2,
         NEW Q, CutAt(D, R, o[n - 1], o[n], o[1], Q)
  PROVE  Ring(Q, o, n - 1) /\ SameBut(D, R, o, n, Q) /\ Q[o[n]].next = 0
<1>r. /\ D \subseteq Nat \ {0} /\ R \in [D -> Nodes] /\ n \in Nat /\ o \in [1 .. n -> D]
      /\ Ring(R, o, n) /\ \A i, j \in 1 .. n : o[i] = o[j] => i = j
  BY DEF RingOf
<1> DEFINE last == o[n]
           f == o[1]
           b == o[n - 1]
<1>0. 1 \in 1 .. n /\ n \in 1 .. n /\ n - 1 \in 1 .. n /\ last \in D /\ f \in D /\ b \in D /\ f # last /\ b # last
  <2>1. 1 \in 1 .. n /\ n \in 1 .. n /\ n - 1 \in 1 .. n /\ 1 # n /\ n - 1 # n
    BY <1>r
  <2> QED
    BY <1>r, <2>1
<1>a. last \in Nat /\ f \in Nat /\ b \in Nat
  BY <1>r, <1>0
<1> HIDE DEF last, f, b
<1>6. /\ Q \in [D -> Nodes]
      /\ \A x \in D : /\ Q[x].key = R[x].key /\ Q[x].status = R[x].status
                      /\ Q[x].next = IF x = b THEN f ELSE IF x = last THEN 0 ELSE R[x].next
                      /\ Q[x].previous = IF x = f THEN b ELSE IF x = last THEN 0 ELSE R[x].previous
  BY <1>r DEF CutAt, b, last, f
<1>7. ASSUME NEW i \in 1 .. n - 1
      PROVE  Q[o[i]].next = o[After(i, n - 1)] /\ Q[o[After(i, n - 1)]].previous = o[i]
  <2>1. CASE i = n - 1
    <3>1. After(i, n - 1) = 1
      BY <1>r, <2>1 DEF After
    <3>2. Q[b].next = f /\ Q[f].previous = b
      <4> QED
        BY <1>r, <1>0, <1>6
    <3> QED
      BY <1>r, <2>1, <3>1, <3>2 DEF b, f
  <2>2. CASE i # n - 1
    <3>1. i \in 1 .. n /\ i + 1 \in 1 .. n /\ i # n /\ i + 1 # n /\ i + 1 # 1 /\ After(i, n - 1) = i + 1 /\ After(i, n) = i + 1
      BY <1>r, <2>2 DEF After
    <3>2. o[i] # b /\ o[i] # last /\ o[i + 1] # f /\ o[i + 1] # last /\ o[i] \in D /\ o[i + 1] \in D
      BY <1>r, <1>0, <2>2, <3>1 DEF last, f, b
    <3>3. R[o[i]].next = o[i + 1] /\ R[o[i + 1]].previous = o[i]
      BY <1>r, <3>1 DEF Ring
    <3>4. Q[o[i]].next = R[o[i]].next /\ Q[o[i + 1]].previous = R[o[i + 1]].previous
      <4> QED
        BY <1>r, <1>6, <3>2
    <3> QED
      BY <1>r, <3>1, <3>3, <3>4
  <2> QED
    BY <1>r, <2>1, <2>2
<1>8. ASSUME NEW x \in D, \A i \in 1 .. n : x # o[i] PROVE Q[x].next = R[x].next
  <2>1. x # b /\ x # last
    BY <1>r, <1>0, <1>8 DEF last, b
  <2> QED
    BY <1>r, <1>6, <2>1
<1>9. Q[o[n]].next = 0
  <2>1. Q[last].next = 0
    <3> QED
      BY <1>r, <1>0, <1>6
  <2> QED
    BY <1>r, <2>1 DEF last
<1> QED
  BY <1>r, <1>6, <1>7, <1>8, <1>9 DEF Ring, SameBut

-----------------------------------------------------------------------------
Order(E, s) == [i \in 1 .. Len(s) |-> E[s[i]]]

CacheKnown(R, E, s) ==
  /\ \A i, j \in 1 .. Len(s) : s[i] = s[j] => i = j
  /\ \A i \in 1 .. Len(s) : E[s[i]] \in 1 .. Len(R) /\ R[E[s[i]]].key = s[i]
  /\ \A k \in Keys : E[k] # 0 <=> \E i \in 1 .. Len(s) : s[i] = k

Results(R, E, S) ==
  \A e \in 1 .. Len(R) : /\ R[e].next # 0 <=> E[R[e].key] = e
                         /\ S[e] # "Pending" => S[e] = R[e].status

CacheFits(R, E, f, s, S) ==
  /\ R \in Seq(Nodes) /\ E \in [Keys -> Nat] /\ s \in Seq(Keys) /\ S \in Seq(Statuses) /\ Len(S) = Len(R)
  /\ f = IF s = <<>> THEN 0 ELSE E[s[1]]
  /\ CacheKnown(R, E, s)
  /\ Ring(R, Order(E, s), Len(s))
  /\ Results(R, E, S)

CacheInv == size = Len(recent) /\ CacheFits(result, entries, first, recent, seen)

LEMMA InFront ==
  ASSUME NEW T, NEW k \in T, NEW s \in Seq(T)
  PROVE  LET p == <<k>> \o s
         IN  /\ p \in Seq(T) /\ Len(p) = Len(s) + 1 /\ p[1] = k
             /\ \A i \in 1 .. Len(s) : p[i + 1] = s[i]
             /\ \A i \in 2 .. Len(s) + 1 : p[i] = s[i - 1]
  OBVIOUS

LEMMA Without ==
  ASSUME NEW T, NEW s \in Seq(T), NEW k \in 1 .. Len(s)
  PROVE  LET p == RemoveAt(s, k)
         IN  /\ p \in Seq(T) /\ Len(p) = Len(s) - 1
             /\ \A i \in 1 .. Len(s) - 1 : p[i] = IF i < k THEN s[i] ELSE s[i + 1]
<1> DEFINE a == SubSeq(s, 1, k - 1)
           b == SubSeq(s, k + 1, Len(s))
<1>0. k \in Int /\ Len(s) \in Nat
  OBVIOUS
<1>1. a \in Seq(T) /\ Len(a) = k - 1 /\ \A i \in 1 .. k - 1 : a[i] = s[i]
  BY <1>0
<1>2. b \in Seq(T) /\ Len(b) = Len(s) - k /\ \A i \in 1 .. Len(s) - k : b[i] = s[k + i]
  BY <1>0
<1>3. RemoveAt(s, k) = a \o b
  BY DEF RemoveAt
<1> HIDE DEF a, b
<1>4. a \o b \in Seq(T) /\ Len(a \o b) = Len(s) - 1
  <2>1. a \o b \in Seq(T) /\ Len(a \o b) = Len(a) + Len(b)
    BY <1>1, <1>2, ConcatProperties
  <2> QED
    BY <1>0, <1>1, <1>2, <2>1
<1>5. ASSUME NEW i \in 1 .. Len(s) - 1 PROVE (a \o b)[i] = IF i < k THEN s[i] ELSE s[i + 1]
  <2>1. CASE i < k
    BY <1>0, <1>1, <1>2, <2>1
  <2>2. CASE ~(i < k)
    <3>1. (a \o b)[i] = b[i - (k - 1)]
      BY <1>0, <1>1, <1>2, <2>2
    <3>2. i - (k - 1) \in 1 .. Len(s) - k /\ k + (i - (k - 1)) = i + 1
      BY <1>0, <2>2
    <3> QED
      BY <1>2, <2>2, <3>1, <3>2
  <2> QED
    BY <2>1, <2>2
<1> QED
  BY <1>3, <1>4, <1>5

(* What CacheFits says of the list of entries.                             *)
LEMMA ListOfEntries ==
  ASSUME NEW R, NEW E, NEW f, NEW s, NEW S, CacheFits(R, E, f, s, S)
  PROVE  LET D == 1 .. Len(R)
             o == Order(E, s)
         IN  /\ R \in [D -> Nodes] /\ D \subseteq Nat \ {0} /\ Len(s) \in Nat /\ Len(R) \in Nat
             /\ o \in [1 .. Len(s) -> D]
             /\ \A i, j \in 1 .. Len(s) : o[i] = o[j] => i = j
             /\ \A i \in 1 .. Len(s) : o[i] = E[s[i]]
             /\ \A e \in D : R[e].key \in Keys
<1>1. R \in [1 .. Len(R) -> Nodes] /\ 1 .. Len(R) \subseteq Nat \ {0} /\ Len(s) \in Nat /\ Len(R) \in Nat
  BY DEF CacheFits
<1>2. \A i \in 1 .. Len(s) : Order(E, s)[i] = E[s[i]]
  BY DEF Order
<1>3. Order(E, s) \in [1 .. Len(s) -> 1 .. Len(R)]
  BY DEF CacheFits, CacheKnown, Order
<1>4. ASSUME NEW i \in 1 .. Len(s), NEW j \in 1 .. Len(s), Order(E, s)[i] = Order(E, s)[j] PROVE i = j
  <2>1. E[s[i]] = E[s[j]]
    BY <1>2, <1>4
  <2>2. s[i] = s[j]
    BY <2>1 DEF CacheFits, CacheKnown
  <2> QED
    BY <2>2 DEF CacheFits, CacheKnown
<1>5. \A e \in 1 .. Len(R) : R[e].key \in Keys
  BY <1>1 DEF Nodes
<1> QED
  BY <1>1, <1>2, <1>3, <1>4, <1>5

LEMMA AddFits ==
  ASSUME NEW R, NEW E, NEW f, NEW s, NEW S, CacheFits(R, E, f, s, S), NEW k \in Keys, E[k] = 0
  PROVE  LET e == Len(R) + 1
             new == [key |-> k, status |-> "Pending", next |-> 0, previous |-> 0]
         IN  CacheFits(LinkedIn(Append(R, new), f, e), [E EXCEPT ![k] = e], e, <<k>> \o s, Append(S, "Pending"))
<1> DEFINE e == Len(R) + 1
           new == [key |-> k, status |-> "Pending", next |-> 0, previous |-> 0]
           R1 == Append(R, new)
           Q == LinkedIn(R1, f, e)
           D == 1 .. e
           E1 == [E EXCEPT ![k] = e]
           o == Order(E, s)
           t == <<k>> \o s
           p == Order(E1, t)
           n == Len(s)
           S1 == Append(S, "Pending")
<1>1. /\ R \in [1 .. Len(R) -> Nodes] /\ n \in Nat /\ Len(R) \in Nat
      /\ o \in [1 .. n -> 1 .. Len(R)]
      /\ \A i, j \in 1 .. n : o[i] = o[j] => i = j
      /\ \A i \in 1 .. n : o[i] = E[s[i]]
      /\ \A x \in 1 .. Len(R) : R[x].key \in Keys
  BY ListOfEntries
<1>2. /\ R \in Seq(Nodes) /\ E \in [Keys -> Nat] /\ s \in Seq(Keys) /\ S \in Seq(Statuses) /\ Len(S) = Len(R)
      /\ f = IF s = <<>> THEN 0 ELSE E[s[1]]
      /\ CacheKnown(R, E, s) /\ Ring(R, o, n) /\ Results(R, E, S)
  BY DEF CacheFits
<1>3. new \in Nodes
  BY DEF Nodes, Statuses
<1>4. /\ R1 \in Seq(Nodes) /\ Len(R1) = e /\ R1[e] = new /\ \A x \in 1 .. Len(R) : R1[x] = R[x]
      /\ R1 \in [D -> Nodes] /\ D \subseteq Nat \ {0} /\ e \in D /\ 1 .. Len(R) \subseteq D
  <2> HIDE DEF new
  <2>1. R1 \in Seq(Nodes) /\ Len(R1) = e /\ R1[e] = new /\ \A x \in 1 .. Len(R) : R1[x] = R[x]
    BY <1>1, <1>2, <1>3
  <2>2. D \subseteq Nat \ {0} /\ e \in D /\ 1 .. Len(R) \subseteq D
    BY <1>1
  <2> HIDE DEF R1
  <2>3. R1 \in [D -> Nodes]
    BY <2>1
  <2> QED
    BY <2>1, <2>2, <2>3
<1>5. /\ t \in Seq(Keys) /\ Len(t) = n + 1 /\ t[1] = k
      /\ \A i \in 1 .. n : t[i + 1] = s[i]
      /\ \A i \in 2 .. n + 1 : t[i] = s[i - 1]
  BY <1>2, InFront
<1>6. S1 \in Seq(Statuses) /\ Len(S1) = e /\ S1[e] = "Pending" /\ \A x \in 1 .. Len(R) : S1[x] = S[x]
  BY <1>1, <1>2 DEF Statuses
<1>7. \A i \in 1 .. n : s[i] \in Keys /\ s[i] # k
  BY <1>2, <1>1 DEF CacheKnown
<1>8. /\ E1 \in [Keys -> Nat] /\ E1[k] = e
      /\ \A i \in 1 .. n : E1[s[i]] = o[i]
      /\ \A j \in Keys : j # k => E1[j] = E[j]
  BY <1>1, <1>2, <1>7
<1> HIDE DEF new, R1, E1, S1, t, o, D
<1>9. /\ p \in [1 .. n + 1 -> D] /\ p[1] = e /\ \A i \in 1 .. n : p[i + 1] = o[i]
  <2>1. \A i \in 1 .. n + 1 : p[i] = E1[t[i]]
    BY <1>5 DEF Order
  <2>2. p[1] = e
    BY <1>1, <1>5, <1>8, <2>1
  <2>3. ASSUME NEW i \in 1 .. n PROVE p[i + 1] = o[i]
    <3>1. i + 1 \in 1 .. n + 1
      BY <1>1
    <3>2. t[i + 1] = s[i] /\ p[i + 1] = E1[t[i + 1]]
      BY <1>5, <2>1, <3>1
    <3> QED
      BY <1>8, <3>2
  <2>4. \A i \in 1 .. n + 1 : p[i] \in D
    <3>1. ASSUME NEW i \in 1 .. n + 1, i # 1 PROVE p[i] \in D
      <4>1. i - 1 \in 1 .. n /\ (i - 1) + 1 = i
        BY <1>1, <3>1
      <4>2. p[i] = o[i - 1]
        BY <2>3, <4>1
      <4> QED
        BY <1>1, <1>4, <4>1, <4>2
    <3> QED
      BY <1>4, <2>2, <3>1
  <2>5. p = [i \in 1 .. n + 1 |-> E1[t[i]]]
    BY <1>5 DEF Order
  <2> HIDE DEF p
  <2> QED
    BY <2>1, <2>2, <2>3, <2>4, <2>5
<1> HIDE DEF p
<1>10. Ring(Q, p, n + 1) /\ SameBut(D, R1, p, n + 1, Q)
  <2>1. CASE n = 0
    <3>1. f = 0
      BY <1>2, <2>1
    <3>2. Q = [R1 EXCEPT ![e] = [key |-> k, status |-> "Pending", next |-> e, previous |-> e]]
      <4> DEFINE A == [R1 EXCEPT ![e] = [@ EXCEPT !.next = e]]
                 B == [A EXCEPT ![e] = [@ EXCEPT !.previous = e]]
      <4>1. Q = B
        BY <3>1 DEF LinkedIn
      <4>2. e \in D /\ R1[e] = [key |-> k, status |-> "Pending", next |-> 0, previous |-> 0] /\ DOMAIN R1 = D
        BY <1>4 DEF new
      <4> HIDE DEF e, Q
      <4>3. A = [R1 EXCEPT ![e] = [key |-> k, status |-> "Pending", next |-> e, previous |-> 0]]
        <5>1. [R1[e] EXCEPT !.next = e] = [key |-> k, status |-> "Pending", next |-> e, previous |-> 0]
          BY <4>2
        <5> QED
          BY <4>2, <5>1
      <4>4. B = [A EXCEPT ![e] = [key |-> k, status |-> "Pending", next |-> e, previous |-> e]]
        <5>1. A[e] = [key |-> k, status |-> "Pending", next |-> e, previous |-> 0]
          BY <4>2, <4>3
        <5> HIDE DEF A
        <5>2. [A[e] EXCEPT !.previous = e] = [key |-> k, status |-> "Pending", next |-> e, previous |-> e]
          BY <5>1
        <5>3. B = [A EXCEPT ![e] = [A[e] EXCEPT !.previous = e]]
          OBVIOUS
        <5> QED
          BY <5>2, <5>3
      <4> HIDE DEF A, B
      <4>5. B = [R1 EXCEPT ![e] = [key |-> k, status |-> "Pending", next |-> e, previous |-> e]]
        BY <4>2, <4>3, <4>4
      <4> QED
        BY <4>1, <4>5
    <3>3. /\ Q \in [D -> Nodes] /\ Q[e] = [key |-> k, status |-> "Pending", next |-> e, previous |-> e]
          /\ \A x \in D : x # e => Q[x] = R1[x]
      <4>1. [key |-> k, status |-> "Pending", next |-> e, previous |-> e] \in Nodes
        BY <1>1 DEF Nodes, Statuses
      <4> HIDE DEF Q
      <4>2. e \in D /\ DOMAIN R1 = D /\ \A x \in D : R1[x] \in Nodes
        BY <1>4
      <4> HIDE DEF e
      <4> QED
        BY <1>4, <3>2, <4>1, <4>2
    <3> HIDE DEF Q
    <3>4. Ring(Q, p, n + 1)
      <4>1. \A i \in 1 .. n + 1 : i = 1 /\ After(i, n + 1) = 1
        BY <2>1 DEF After
      <4> QED
        BY <1>9, <3>3, <4>1 DEF Ring
    <3>5. 1 \in 1 .. n + 1
      BY <2>1
    <3>6. \A x \in D : Q[x].key = R1[x].key /\ Q[x].status = R1[x].status
      BY <1>4, <3>3 DEF new
    <3> QED
      BY <1>9, <3>3, <3>4, <3>5, <3>6 DEF SameBut
  <2>2. CASE n # 0
    <3>1. n \in Nat \ {0} /\ f = o[1]
      <4>1. s # <<>> /\ 1 \in 1 .. n
        BY <1>1, <1>2, <2>2
      <4> QED
        BY <1>1, <1>2, <2>2, <4>1
    <3>2. o \in [1 .. n -> D] /\ \A i \in 1 .. n : o[i] # e /\ o[i] \in 1 .. Len(R)
      BY <1>1, <1>4
    <3>3. Ring(R1, o, n)
      <4>1. \A i \in 1 .. n : After(i, n) \in 1 .. n
        BY <1>1 DEF After
      <4> QED
        BY <1>2, <1>4, <3>2, <4>1 DEF Ring
    <3>4. RingOf(D, R1, n, o)
      BY <1>1, <1>4, <3>2, <3>3 DEF RingOf
    <3>5. (\A i \in 1 .. n : o[i] # e) /\ e \in D /\ p \in [1 .. n + 1 -> D] /\ p[1] = e /\ \A i \in 1 .. n : p[i + 1] = o[i]
      BY <1>4, <1>9, <3>2
    <3> HIDE DEF e, n
    <3> QED
      BY <2>2, <3>1, <3>4, <3>5, RingGrows
  <2> QED
    BY <2>1, <2>2
<1> HIDE DEF Q
<1>11. /\ Q \in [D -> Nodes] /\ Q \in Seq(Nodes) /\ Len(Q) = e
       /\ \A x \in D : /\ Q[x].key = R1[x].key /\ Q[x].status = R1[x].status
                       /\ (\A i \in 1 .. n + 1 : x # p[i]) => Q[x].next = R1[x].next
  <2>1. Q \in [1 .. e -> Nodes] /\ e \in Nat
    BY <1>1, <1>10 DEF SameBut, D
  <2> HIDE DEF e
  <2>2. Q \in Seq(Nodes) /\ Len(Q) = e
    BY <2>1
  <2> QED
    BY <1>10, <2>2 DEF SameBut
<1>12. CacheKnown(Q, E1, t)
  <2>1. ASSUME NEW i \in 1 .. n + 1, NEW j \in 1 .. n + 1, t[i] = t[j] PROVE i = j
    <3>1. \A l \in 1 .. n + 1 : l = 1 \/ (l - 1 \in 1 .. n /\ t[l] = s[l - 1])
      BY <1>1, <1>5
    <3>2. (i = 1 \/ t[i] # k) /\ (j = 1 \/ t[j] # k)
      BY <1>7, <3>1
    <3>3. CASE i # 1 /\ j # 1
      <4>1. i - 1 \in 1 .. n /\ j - 1 \in 1 .. n /\ s[i - 1] = s[j - 1]
        BY <2>1, <3>1, <3>3
      <4>2. i - 1 = j - 1
        BY <1>2, <4>1 DEF CacheKnown
      <4> QED
        BY <1>1, <4>2
    <3> QED
      BY <1>5, <2>1, <3>2, <3>3
  <2>2. ASSUME NEW i \in 1 .. n + 1 PROVE E1[t[i]] \in 1 .. e /\ Q[E1[t[i]]].key = t[i]
    <3>1. CASE i = 1
      BY <1>4, <1>5, <1>8, <1>11, <3>1 DEF D, new
    <3>2. CASE i # 1
      <4>1. i - 1 \in 1 .. n /\ t[i] = s[i - 1]
        BY <1>1, <1>5, <3>2
      <4>2. E1[t[i]] = o[i - 1] /\ o[i - 1] = E[s[i - 1]] /\ R[o[i - 1]].key = s[i - 1] /\ o[i - 1] \in 1 .. Len(R)
        <5>1. E[s[i - 1]] \in 1 .. Len(R) /\ R[E[s[i - 1]]].key = s[i - 1]
          BY <1>2, <4>1 DEF CacheKnown
        <5>2. o[i - 1] = E[s[i - 1]]
          BY <1>1, <4>1
        <5>3. E1[s[i - 1]] = o[i - 1]
          BY <1>8, <4>1
        <5> QED
          BY <4>1, <5>1, <5>2, <5>3
      <4> QED
        BY <1>4, <1>11, <4>1, <4>2 DEF D
    <3> QED
      BY <3>1, <3>2
  <2>3. ASSUME NEW j \in Keys PROVE E1[j] # 0 <=> \E i \in 1 .. n + 1 : t[i] = j
    <3>1. CASE j = k
      BY <1>1, <1>5, <1>8, <3>1
    <3>2. CASE j # k
      <4>1. E1[j] = E[j]
        BY <1>8, <3>2
      <4>2. ASSUME NEW i \in 1 .. n, s[i] = j PROVE \E l \in 1 .. n + 1 : t[l] = j
        <5>1. i + 1 \in 1 .. n + 1 /\ t[i + 1] = j
          BY <1>1, <1>5, <4>2
        <5> QED
          BY <5>1
      <4>3. ASSUME NEW i \in 1 .. n + 1, t[i] = j PROVE \E l \in 1 .. n : s[l] = j
        <5>1. i - 1 \in 1 .. n /\ t[i] = s[i - 1]
          BY <1>1, <1>5, <3>2, <4>3
        <5> QED
          BY <4>3, <5>1
      <4> QED
        BY <1>2, <4>1, <4>2, <4>3 DEF CacheKnown
    <3> QED
      BY <3>1, <3>2
  <2> QED
    BY <1>5, <1>11, <2>1, <2>2, <2>3 DEF CacheKnown
<1>13. Results(Q, E1, S1)
  <2>1. ASSUME NEW x \in 1 .. e PROVE Q[x].next # 0 <=> E1[Q[x].key] = x
    <3>1. CASE \E i \in 1 .. n + 1 : x = p[i]
      <4>1. PICK i \in 1 .. n + 1 : x = p[i]
        BY <3>1
      <4>2. Q[x].next = p[After(i, n + 1)] /\ After(i, n + 1) \in 1 .. n + 1
        BY <1>1, <1>10, <4>1 DEF Ring, After
      <4>3. Q[x].next # 0
        BY <1>4, <1>9, <4>2
      <4>4. E1[t[i]] = x /\ Q[x].key = t[i]
        BY <1>5, <1>12, <4>1 DEF CacheKnown, p, Order
      <4> QED
        BY <4>3, <4>4
    <3>2. CASE \A i \in 1 .. n + 1 : x # p[i]
      <4>1. x # e /\ x \in 1 .. Len(R)
        BY <1>1, <1>9, <3>2
      <4>2. Q[x].next = R[x].next /\ Q[x].key = R[x].key /\ R[x].key \in Keys
        BY <1>1, <1>4, <1>11, <3>2, <4>1 DEF D
      <4>3. R[x].next # 0 <=> E[R[x].key] = x
        BY <1>2, <4>1 DEF Results
      <4>4. R[x].key # k => E1[R[x].key] = E[R[x].key]
        BY <1>8, <4>2
      <4>5. R[x].key = k => E1[R[x].key] # x /\ E[R[x].key] # x
        BY <1>1, <1>8, <4>1
      <4> QED
        BY <4>2, <4>3, <4>4, <4>5
    <3> QED
      BY <3>1, <3>2
  <2>2. ASSUME NEW x \in 1 .. e, S1[x] # "Pending" PROVE S1[x] = Q[x].status
    <3>1. x \in 1 .. Len(R)
      BY <1>1, <1>6, <2>2
    <3>2. S[x] = R[x].status
      BY <1>2, <1>6, <2>2, <3>1 DEF Results
    <3> QED
      BY <1>4, <1>6, <1>11, <3>1, <3>2 DEF D
  <2> QED
    BY <1>11, <2>1, <2>2 DEF Results
<1>14. e = IF t = <<>> THEN 0 ELSE E1[t[1]]
  BY <1>5, <1>8, <1>1
<1>15. CacheFits(Q, E1, e, t, S1)
  BY <1>5, <1>6, <1>8, <1>10, <1>11, <1>12, <1>13, <1>14 DEF CacheFits, p
<1> QED
  BY <1>15 DEF Q, R1, E1, t, S1, new

Move(R, e, f, R2, f2) ==
  IF R[e].next # 0 /\ f # e THEN R2 = LinkedIn(LinkedOut(R, e), f, e) /\ f2 = e
                            ELSE R2 = R /\ f2 = f

TakenToFront(s, k) == <<k>> \o RemoveAt(s, CHOOSE i \in DOMAIN s : s[i] = k)
ReadNow(S, R, e) == [S EXCEPT ![e] = R[e].status]

LEMMA MoveFits ==
  ASSUME NEW R, NEW E, NEW f, NEW s, NEW S, CacheFits(R, E, f, s, S), NEW k \in Keys, E[k] # 0,
         NEW R2, NEW f2, Move(R, E[k], f, R2, f2)
  PROVE  CacheFits(R2, E, f2, TakenToFront(s, k), ReadNow(S, R, E[k]))
<1> DEFINE e == E[k]
           D == 1 .. Len(R)
           o == Order(E, s)
           n == Len(s)
           i0 == CHOOSE i \in DOMAIN s : s[i] = k
           r == RemoveAt(s, i0)
           t == <<k>> \o r
           p == Order(E, t)
           q == [j \in 1 .. n - 1 |-> IF j < i0 THEN o[j] ELSE o[j + 1]]
           S2 == [S EXCEPT ![e] = R[e].status]
           R1 == LinkedOut(R, e)
<1>1. /\ R \in [D -> Nodes] /\ D \subseteq Nat \ {0} /\ n \in Nat /\ Len(R) \in Nat
      /\ o \in [1 .. n -> D]
      /\ \A i, j \in 1 .. n : o[i] = o[j] => i = j
      /\ \A i \in 1 .. n : o[i] = E[s[i]]
      /\ \A x \in D : R[x].key \in Keys
  BY ListOfEntries
<1>2. /\ R \in Seq(Nodes) /\ E \in [Keys -> Nat] /\ s \in Seq(Keys) /\ S \in Seq(Statuses) /\ Len(S) = Len(R)
      /\ f = IF s = <<>> THEN 0 ELSE E[s[1]]
      /\ CacheKnown(R, E, s) /\ Ring(R, o, n) /\ Results(R, E, S)
  BY DEF CacheFits
<1>3. i0 \in 1 .. n /\ s[i0] = k /\ DOMAIN s = 1 .. n
  <2>1. DOMAIN s = 1 .. n /\ \E i \in 1 .. n : s[i] = k
    BY <1>2 DEF CacheKnown
  <2> QED
    BY <2>1
<1> HIDE DEF i0
<1>4. /\ r \in Seq(Keys) /\ Len(r) = n - 1
      /\ \A i \in 1 .. n - 1 : r[i] = IF i < i0 THEN s[i] ELSE s[i + 1]
  BY <1>2, <1>3, Without
<1> HIDE DEF r
<1>5. /\ t \in Seq(Keys) /\ Len(t) = n /\ t[1] = k
      /\ \A i \in 1 .. n - 1 : t[i + 1] = r[i]
      /\ \A i \in 2 .. n : t[i] = r[i - 1]
  <2>1. LET u == <<k>> \o r
        IN  /\ u \in Seq(Keys) /\ Len(u) = Len(r) + 1 /\ u[1] = k
            /\ \A i \in 1 .. Len(r) : u[i + 1] = r[i]
            /\ \A i \in 2 .. Len(r) + 1 : u[i] = r[i - 1]
    BY <1>4, InFront
  <2> HIDE DEF t
  <2>2. Len(r) = n - 1 /\ Len(r) + 1 = n
    BY <1>1, <1>4
  <2> QED
    BY <2>1, <2>2 DEF t
<1> HIDE DEF t
<1>6. \A i \in 2 .. n : t[i] = IF i <= i0 THEN s[i - 1] ELSE s[i]
  <2>1. ASSUME NEW i \in 2 .. n PROVE t[i] = IF i <= i0 THEN s[i - 1] ELSE s[i]
    <3>1. i - 1 \in 1 .. n - 1 /\ (i - 1) + 1 = i /\ (i - 1 < i0 <=> i <= i0)
      BY <1>1, <1>3
    <3> QED
      BY <1>4, <1>5, <3>1
  <2> QED
    BY <2>1
<1>7. e = o[i0] /\ e \in D
  BY <1>1, <1>3
<1>8. /\ S2 \in Seq(Statuses) /\ Len(S2) = Len(R)
      /\ \A x \in D : S2[x] = IF x = e THEN R[e].status ELSE S[x]
  <2>1. R[e].status \in Statuses /\ e \in 1 .. Len(S)
    BY <1>1, <1>2, <1>7 DEF Nodes
  <2> HIDE DEF e
  <2> QED
    BY <1>1, <1>2, <2>1
<1> HIDE DEF S2
(* The same keys as before, in another order.                              *)
<1>9. /\ \A i, j \in 1 .. n : t[i] = t[j] => i = j
      /\ \A i \in 1 .. n : \E j \in 1 .. n : t[i] = s[j]
      /\ \A j \in 1 .. n : \E i \in 1 .. n : t[i] = s[j]
  <2>0. \A i, j \in 1 .. n : s[i] = s[j] => i = j
    BY <1>2 DEF CacheKnown
  <2> DEFINE from(i) == IF i = 1 THEN i0 ELSE IF i <= i0 THEN i - 1 ELSE i
             to(j) == IF j = i0 THEN 1 ELSE IF j < i0 THEN j + 1 ELSE j
  <2>1. ASSUME NEW i \in 1 .. n PROVE from(i) \in 1 .. n /\ t[i] = s[from(i)] /\ to(from(i)) = i
    BY <1>1, <1>3, <1>5, <1>6
  <2>2. ASSUME NEW j \in 1 .. n PROVE to(j) \in 1 .. n /\ from(to(j)) = j
    BY <1>1, <1>3
  <2>3. ASSUME NEW i \in 1 .. n, NEW j \in 1 .. n, t[i] = t[j] PROVE i = j
    <3>1. from(i) \in 1 .. n /\ from(j) \in 1 .. n /\ s[from(i)] = s[from(j)]
      BY <2>1, <2>3
    <3>2. to(from(i)) = i /\ to(from(j)) = j
      BY <2>1
    <3> HIDE DEF from, to
    <3>3. from(i) = from(j)
      BY <2>0, <3>1
    <3> QED
      BY <3>2, <3>3
  <2> HIDE DEF from, to
  <2>4. \A i \in 1 .. n : \E j \in 1 .. n : t[i] = s[j]
    BY <2>1
  <2>5. \A j \in 1 .. n : \E i \in 1 .. n : t[i] = s[j]
    BY <2>1, <2>2
  <2> QED
    BY <2>3, <2>4, <2>5
<1>p. /\ \A i \in 1 .. n : \E j \in 1 .. n : p[i] = o[j]
      /\ \A j \in 1 .. n : \E i \in 1 .. n : p[i] = o[j]
      /\ \A x : (\A j \in 1 .. n : x # o[j]) <=> (\A i \in 1 .. n : x # p[i])
  <2>0. \A i \in 1 .. n : p[i] = E[t[i]]
    BY <1>5 DEF Order
  <2>1. ASSUME NEW i \in 1 .. n PROVE \E j \in 1 .. n : p[i] = o[j]
    <3>1. PICK j \in 1 .. n : t[i] = s[j]
      BY <1>9
    <3>2. p[i] = o[j]
      BY <1>1, <2>0, <3>1
    <3> QED
      BY <3>2
  <2>2. ASSUME NEW j \in 1 .. n PROVE \E i \in 1 .. n : p[i] = o[j]
    <3>1. PICK i \in 1 .. n : t[i] = s[j]
      BY <1>9
    <3>2. p[i] = o[j]
      BY <1>1, <2>0, <3>1
    <3> QED
      BY <3>2
  <2> HIDE DEF p, o
  <2>3. ASSUME NEW x, \A j \in 1 .. n : x # o[j] PROVE \A i \in 1 .. n : x # p[i]
    BY <2>1, <2>3
  <2>4. ASSUME NEW x, \A i \in 1 .. n : x # p[i] PROVE \A j \in 1 .. n : x # o[j]
    BY <2>2, <2>4
  <2> QED
    BY <2>1, <2>2, <2>3, <2>4
<1>10. /\ R2 \in [D -> Nodes] /\ Ring(R2, p, n) /\ f2 = e
       /\ \A x \in D : /\ R2[x].key = R[x].key /\ R2[x].status = R[x].status
                       /\ (\A i \in 1 .. n : x # o[i]) => R2[x].next = R[x].next
  <2>0. \A i \in 1 .. n : p[i] = E[t[i]]
    BY <1>5 DEF Order
  <2>1. CASE i0 = 1
    <3>1. f = e
      <4>1. s # <<>>
        BY <1>2, <1>3
      <4> QED
        BY <1>2, <1>3, <2>1, <4>1
    <3>2. R2 = R /\ f2 = f
      BY <3>1 DEF Move
    <3>3. \A i \in 1 .. n : t[i] = s[i]
      <4>1. ASSUME NEW i \in 1 .. n PROVE t[i] = s[i]
        <5>1. i = 1 \/ (i \in 2 .. n /\ ~(i <= 1))
          BY <1>1
        <5> QED
          BY <1>3, <1>5, <1>6, <2>1, <5>1
      <4> QED
        BY <4>1
    <3>4. \A i \in 1 .. n : p[i] = o[i]
      BY <1>1, <2>0, <3>3
    <3>5. \A i \in 1 .. n : After(i, n) \in 1 .. n
      BY <1>1 DEF After
    <3>6. Ring(R2, p, n)
      <4> HIDE DEF p, o
      <4> QED
        BY <1>2, <3>2, <3>4, <3>5 DEF Ring
    <3> QED
      BY <1>1, <3>1, <3>2, <3>6
  <2>2. CASE i0 # 1
    <3>1. i0 \in 2 .. n /\ 1 \in 1 .. n /\ n >= 2
      BY <1>1, <1>3, <2>2
    <3>2. f = o[1] /\ f # e
      <4>1. s # <<>>
        BY <1>2, <3>1
      <4>2. f = o[1]
        BY <1>1, <1>2, <3>1, <4>1
      <4>3. o[1] # o[i0]
        BY <1>1, <1>3, <2>2, <3>1
      <4> QED
        BY <1>7, <4>2, <4>3
    <3>3. R[e].next # 0
      <4>1. R[o[i0]].next = o[After(i0, n)]
        BY <1>2, <1>3 DEF Ring
      <4>2. After(i0, n) \in 1 .. n
        BY <1>1, <1>3, AfterIsAPlace
      <4>3. o[After(i0, n)] # 0
        BY <1>1, <4>2
      <4> QED
        BY <1>7, <4>1, <4>3
    <3>4. R2 = LinkedIn(R1, f, e) /\ f2 = e
      BY <3>2, <3>3 DEF Move
    <3>5. /\ q \in [1 .. n - 1 -> D]
          /\ \A i \in 1 .. n - 1 : q[i] = IF i < i0 THEN o[i] ELSE o[i + 1]
      <4>1. \A i \in 1 .. n - 1 : i \in 1 .. n /\ i + 1 \in 1 .. n
        BY <1>1
      <4> HIDE DEF o
      <4> QED
        BY <1>1, <4>1
    <3> HIDE DEF q
    <3>6. Ring(R1, q, n - 1) /\ SameBut(D, R, o, n, R1)
      <4>1. RingOf(D, R, n, o)
        BY <1>1, <1>2 DEF RingOf
      <4>2. Ring(LinkedOut(R, o[i0]), q, n - 1) /\ SameBut(D, R, o, n, LinkedOut(R, o[i0]))
        <5> HIDE DEF o, D, n
        <5> QED
          BY <3>1, <3>5, <4>1, RingShrinks
      <4> QED
        BY <1>7, <4>2
    <3>7. /\ R1 \in [D -> Nodes]
          /\ \A x \in D : R1[x].key = R[x].key /\ R1[x].status = R[x].status
          /\ \A x \in D : (\A i \in 1 .. n : x # o[i]) => R1[x].next = R[x].next
      BY <3>6 DEF SameBut
    <3>8. q[1] = f /\ n - 1 \in Nat \ {0}
      <4>1. n - 1 \in Nat \ {0} /\ 1 \in 1 .. n - 1 /\ 1 < i0
        BY <1>1, <3>1
      <4>2. q[1] = o[1]
        BY <3>5, <4>1
      <4> QED
        BY <3>2, <4>1, <4>2
    <3>9. \A i, j \in 1 .. n - 1 : q[i] = q[j] => i = j
      <4> DEFINE from(i) == IF i < i0 THEN i ELSE i + 1
      <4>1. \A i \in 1 .. n - 1 : from(i) \in 1 .. n /\ q[i] = o[from(i)]
        BY <1>1, <3>1, <3>5
      <4>2. \A i, j \in 1 .. n - 1 : from(i) = from(j) => i = j
        BY <1>1, <3>1
      <4> HIDE DEF from, o
      <4> QED
        BY <1>1, <4>1, <4>2
    <3>10. \A i \in 1 .. n - 1 : q[i] # e
      <4> DEFINE from(i) == IF i < i0 THEN i ELSE i + 1
      <4>1. \A i \in 1 .. n - 1 : from(i) \in 1 .. n /\ q[i] = o[from(i)] /\ from(i) # i0
        BY <1>1, <3>1, <3>5
      <4> HIDE DEF from, o
      <4> QED
        BY <1>1, <1>3, <1>7, <4>1
    <3>11. p \in [1 .. (n - 1) + 1 -> D] /\ p[1] = e /\ \A i \in 1 .. n - 1 : p[i + 1] = q[i]
      <4>1. p[1] = e
        BY <1>5, <2>0, <3>1
      <4>2. \A i \in 1 .. n - 1 : p[i + 1] = q[i]
        <5>1. ASSUME NEW i \in 1 .. n - 1 PROVE p[i + 1] = q[i]
          <6>1. i + 1 \in 1 .. n /\ i \in 1 .. n
            BY <1>1
          <6>2. p[i + 1] = E[r[i]]
            BY <1>5, <2>0, <6>1
          <6> QED
            BY <1>1, <1>4, <3>5, <6>1, <6>2
        <5> QED
          BY <5>1
      <4>3. \A i \in 1 .. n : p[i] \in D
        <5> HIDE DEF p, o
        <5>1. ASSUME NEW i \in 1 .. n PROVE p[i] \in D
          <6>1. PICK j \in 1 .. n : p[i] = o[j]
            BY <1>p
          <6> QED
            BY <1>1, <6>1
        <5> QED
          BY <5>1
      <4>4. p = [i \in 1 .. n |-> E[t[i]]] /\ (n - 1) + 1 = n
        BY <1>1, <1>5 DEF Order
      <4> HIDE DEF p
      <4> QED
        BY <2>0, <4>1, <4>2, <4>3, <4>4
    <3>12. Ring(R2, p, (n - 1) + 1) /\ SameBut(D, R1, p, (n - 1) + 1, R2)
      <4> DEFINE m == n - 1
      <4>1. RingOf(D, R1, m, q) /\ m # 0
        BY <1>1, <3>5, <3>6, <3>7, <3>8, <3>9 DEF RingOf
      <4>2. (\A i \in 1 .. m : q[i] # e) /\ e \in D /\ p \in [1 .. m + 1 -> D] /\ p[1] = e /\ \A i \in 1 .. m : p[i + 1] = q[i]
        BY <1>7, <3>10, <3>11
      <4> HIDE DEF m, R1, p, D, e
      <4>3. Ring(LinkedIn(R1, q[1], e), p, m + 1) /\ SameBut(D, R1, p, m + 1, LinkedIn(R1, q[1], e))
        BY <4>1, <4>2, RingGrows
      <4> QED
        BY <3>4, <3>8, <4>3 DEF m
    <3>13. (n - 1) + 1 = n
      BY <1>1
    <3>14. ASSUME NEW x \in D, \A i \in 1 .. n : x # o[i] PROVE R2[x].next = R[x].next
      <4> HIDE DEF p, o, R1, D
      <4>1. \A i \in 1 .. n : x # p[i]
        BY <1>p, <3>14
      <4>2. R2[x].next = R1[x].next
        BY <3>12, <3>13, <4>1 DEF SameBut
      <4>3. (\A i \in 1 .. n : x # o[i]) => R1[x].next = R[x].next
        BY <3>7
      <4> QED
        BY <3>14, <4>2, <4>3
    <3> HIDE DEF p, o, R1
    <3>15. R2 \in [D -> Nodes] /\ \A x \in D : R2[x].key = R1[x].key /\ R2[x].status = R1[x].status
      BY <3>12 DEF SameBut
    <3>16. \A x \in D : R2[x].key = R[x].key /\ R2[x].status = R[x].status
      <4> HIDE DEF D
      <4> QED
        BY <3>7, <3>15
    <3>17. Ring(R2, p, n)
      BY <3>12, <3>13
    <3> HIDE DEF D
    <3> QED
      BY <3>4, <3>14, <3>15, <3>16, <3>17
  <2> QED
    BY <2>1, <2>2
<1>11. R2 \in Seq(Nodes) /\ Len(R2) = Len(R)
  BY <1>1, <1>10
<1>12. CacheKnown(R2, E, t)
  <2>1. ASSUME NEW i \in 1 .. n PROVE E[t[i]] \in D /\ R2[E[t[i]]].key = t[i]
    <3>1. PICK j \in 1 .. n : t[i] = s[j]
      BY <1>9
    <3>2. E[s[j]] \in D /\ R[E[s[j]]].key = s[j]
      BY <1>2 DEF CacheKnown
    <3> QED
      BY <1>10, <3>1, <3>2
  <2>2. ASSUME NEW j \in Keys PROVE E[j] # 0 <=> \E i \in 1 .. n : t[i] = j
    <3>1. E[j] # 0 <=> \E i \in 1 .. n : s[i] = j
      BY <1>2 DEF CacheKnown
    <3>2. ASSUME NEW i \in 1 .. n, s[i] = j PROVE \E l \in 1 .. n : t[l] = j
      BY <1>9, <3>2
    <3>3. ASSUME NEW i \in 1 .. n, t[i] = j PROVE \E l \in 1 .. n : s[l] = j
      BY <1>9, <3>3
    <3> QED
      BY <3>1, <3>2, <3>3
  <2> QED
    BY <1>5, <1>9, <1>11, <2>1, <2>2 DEF CacheKnown
<1>13. Results(R2, E, S2)
  <2>1. ASSUME NEW x \in D PROVE R2[x].next # 0 <=> E[R2[x].key] = x
    <3>1. CASE \E i \in 1 .. n : x = p[i]
      <4>1. PICK i \in 1 .. n : x = p[i]
        BY <3>1
      <4>2. R2[x].next = p[After(i, n)] /\ After(i, n) \in 1 .. n
        BY <1>1, <1>10, <4>1 DEF Ring, After
      <4>3. \A j \in 1 .. n : p[j] = E[t[j]]
        BY <1>5 DEF Order
      <4>4. R2[x].next \in D
        BY <1>5, <1>11, <1>12, <4>2, <4>3 DEF CacheKnown
      <4>5. E[t[i]] = x /\ R2[x].key = t[i]
        BY <1>5, <1>12, <4>1, <4>3 DEF CacheKnown
      <4> QED
        BY <1>1, <4>4, <4>5
    <3>2. CASE \A i \in 1 .. n : x # p[i]
      <4>1. \A j \in 1 .. n : p[j] = E[t[j]]
        BY <1>5 DEF Order
      <4>2. \A j \in 1 .. n : x # o[j]
        <5> HIDE DEF p, o
        <5> QED
          BY <1>p, <3>2
      <4>3. R2[x].next = R[x].next /\ R2[x].key = R[x].key
        BY <1>10, <4>2
      <4> QED
        BY <1>2, <4>3 DEF Results
    <3> QED
      BY <3>1, <3>2
  <2>2. ASSUME NEW x \in D, S2[x] # "Pending" PROVE S2[x] = R2[x].status
    <3>1. R2[x].status = R[x].status
      BY <1>10
    <3>2. CASE x = e
      BY <1>8, <3>1, <3>2
    <3>3. CASE x # e
      <4>1. S2[x] = S[x]
        BY <1>8, <3>3
      <4>2. S[x] # "Pending" => S[x] = R[x].status
        BY <1>2 DEF Results
      <4> QED
        BY <2>2, <3>1, <4>1, <4>2
    <3> QED
      BY <3>2, <3>3
  <2> QED
    BY <1>11, <2>1, <2>2 DEF Results
<1>14. f2 = IF t = <<>> THEN 0 ELSE E[t[1]]
  <2>1. t # <<>>
    BY <1>1, <1>3, <1>5
  <2> QED
    BY <1>5, <1>10, <2>1
<1>15. CacheFits(R2, E, f2, t, S2)
  BY <1>2, <1>5, <1>8, <1>10, <1>11, <1>12, <1>13, <1>14 DEF CacheFits
<1> QED
  BY <1>15 DEF S2, t, r, i0, TakenToFront, ReadNow

LEMMA SettleFits ==
  ASSUME NEW R, NEW E, NEW f, NEW s, NEW S, CacheFits(R, E, f, s, S),
         NEW e \in DOMAIN R, R[e].status = "Pending", NEW status \in Statuses
  PROVE  CacheFits([R EXCEPT ![e].status = status], E, f, s, S)
<1> DEFINE Q == [R EXCEPT ![e].status = status]
           D == 1 .. Len(R)
           o == Order(E, s)
           n == Len(s)
<1>1. /\ R \in [D -> Nodes] /\ n \in Nat /\ Len(R) \in Nat /\ o \in [1 .. n -> D]
      /\ \A i \in 1 .. n : o[i] = E[s[i]]
  BY ListOfEntries
<1>2. /\ R \in Seq(Nodes) /\ E \in [Keys -> Nat] /\ s \in Seq(Keys) /\ S \in Seq(Statuses) /\ Len(S) = Len(R)
      /\ f = IF s = <<>> THEN 0 ELSE E[s[1]]
      /\ CacheKnown(R, E, s) /\ Ring(R, o, n) /\ Results(R, E, S)
  BY DEF CacheFits
<1>3. e \in D
  BY <1>2
<1>4. /\ Q \in [D -> Nodes]
      /\ \A x \in D : /\ Q[x].key = R[x].key /\ Q[x].next = R[x].next /\ Q[x].previous = R[x].previous
                      /\ Q[x].status = IF x = e THEN status ELSE R[x].status
  <2> HIDE DEF D, o, n
  <2> QED
    BY <1>1, <1>3 DEF Nodes
<1> HIDE DEF Q
<1>5. Q \in Seq(Nodes) /\ Len(Q) = Len(R)
  BY <1>1, <1>4
<1>6. CacheKnown(Q, E, s)
  BY <1>2, <1>4, <1>5 DEF CacheKnown
<1>7. Ring(Q, o, n)
  <2>1. ASSUME NEW i \in 1 .. n PROVE Q[o[i]].next = o[After(i, n)] /\ Q[o[After(i, n)]].previous = o[i]
    <3>1. After(i, n) \in 1 .. n
      BY <1>1, AfterIsAPlace
    <3>2. o[i] \in D /\ o[After(i, n)] \in D
      BY <1>1, <3>1
    <3>3. R[o[i]].next = o[After(i, n)] /\ R[o[After(i, n)]].previous = o[i]
      BY <1>2 DEF Ring
    <3> QED
      BY <1>4, <3>2, <3>3
  <2> QED
    BY <2>1 DEF Ring
<1>8. Results(Q, E, S)
  <2>1. ASSUME NEW x \in D PROVE (Q[x].next # 0 <=> E[Q[x].key] = x) /\ (S[x] # "Pending" => S[x] = Q[x].status)
    <3>1. (R[x].next # 0 <=> E[R[x].key] = x) /\ (S[x] # "Pending" => S[x] = R[x].status)
      BY <1>2 DEF Results
    <3>2. Q[x].next = R[x].next /\ Q[x].key = R[x].key /\ Q[x].status = IF x = e THEN status ELSE R[x].status
      BY <1>4
    <3>3. x = e => S[x] = "Pending"
      BY <3>1
    <3> QED
      BY <3>1, <3>2, <3>3
  <2> QED
    BY <1>5, <2>1 DEF Results
<1>9. CacheFits(Q, E, f, s, S)
  BY <1>2, <1>5, <1>6, <1>7, <1>8 DEF CacheFits
<1> QED
  BY <1>9 DEF Q

Deletion(R, f, last, Q, f2) ==
  IF last = f
  THEN Q = [R EXCEPT ![last].next = 0, ![last].previous = 0] /\ f2 = 0
  ELSE /\ Q = [[R EXCEPT ![last].next = 0, ![last].previous = 0]
                 EXCEPT ![f].previous = R[last].previous, ![R[last].previous].next = f]
       /\ f2 = f

LEMMA FrontOf ==
  ASSUME NEW T, NEW s \in Seq(T), s # <<>>
  PROVE  Front(s) \in Seq(T) /\ Len(Front(s)) = Len(s) - 1 /\ \A i \in 1 .. Len(s) - 1 : Front(s)[i] = s[i]
<1> DEFINE n == Len(s) - 1
<1>1. n \in Nat /\ Len(s) = n + 1 /\ \A i \in 1 .. n + 1 : s[i] \in T
  OBVIOUS
<1>2. Front(s) = SubSeq(s, 1, n)
  BY DEF Front
<1> HIDE DEF n
<1>3. \A i \in 1 .. n : s[i] \in T
  BY <1>1
<1>4. /\ SubSeq(s, 1, n) \in Seq(T)
      /\ Len(SubSeq(s, 1, n)) = IF 1 <= n THEN n - 1 + 1 ELSE 0
      /\ \A i \in 1 .. n - 1 + 1 : SubSeq(s, 1, n)[i] = s[1 + i - 1]
  BY <1>1, <1>3, SubSeqProperties
<1>5. Len(SubSeq(s, 1, n)) = n /\ Len(s) - 1 = n
  BY <1>1, <1>4
<1>6. \A i \in 1 .. n : SubSeq(s, 1, n)[i] = s[i]
  BY <1>1, <1>4
<1> QED
  BY <1>2, <1>4, <1>5, <1>6

Cleared(R, last) == [R EXCEPT ![last].next = 0, ![last].previous = 0]

LEMMA PointersCleared ==
  ASSUME NEW D, NEW R \in [D -> Nodes], NEW last \in D,
         NEW Q, Q = Cleared(R, last)
  PROVE  /\ Q \in [D -> Nodes] /\ Q[last].next = 0
         /\ \A x \in D : Q[x].key = R[x].key /\ Q[x].status = R[x].status
         /\ \A x \in D : x # last => Q[x].next = R[x].next
<1> DEFINE A == [R EXCEPT ![last] = [@ EXCEPT !.next = 0]]
           B == [A EXCEPT ![last] = [@ EXCEPT !.previous = 0]]
<1>1. Q = B
  BY DEF Cleared
<1>2. /\ A \in [D -> Nodes] /\ A[last].next = 0
      /\ \A x \in D : A[x].key = R[x].key /\ A[x].status = R[x].status
      /\ \A x \in D : x # last => A[x].next = R[x].next
  BY DEF Nodes
<1> HIDE DEF A
<1>3. /\ B \in [D -> Nodes] /\ B[last].next = 0
      /\ \A x \in D : B[x].key = A[x].key /\ B[x].status = A[x].status
      /\ \A x \in D : x # last => B[x].next = A[x].next
  BY <1>2 DEF Nodes
<1> HIDE DEF B
<1> QED
  BY <1>1, <1>2, <1>3

LEMMA DeleteFits ==
  ASSUME NEW R, NEW E, NEW f, NEW s, NEW S, CacheFits(R, E, f, s, S), f # 0,
         NEW last, last = R[f].previous, NEW Q, NEW f2, Deletion(R, f, last, Q, f2)
  PROVE  s # <<>> /\ CacheFits(Q, [E EXCEPT ![R[last].key] = 0], f2, Front(s), S)
<1> DEFINE D == 1 .. Len(R)
           o == Order(E, s)
           n == Len(s)
           t == Front(s)
           E2 == [E EXCEPT ![R[last].key] = 0]
           p == Order(E2, t)
<1>1. /\ R \in [D -> Nodes] /\ D \subseteq Nat \ {0} /\ n \in Nat /\ Len(R) \in Nat /\ o \in [1 .. n -> D]
      /\ \A i, j \in 1 .. n : o[i] = o[j] => i = j
      /\ \A i \in 1 .. n : o[i] = E[s[i]]
      /\ \A x \in D : R[x].key \in Keys
  BY ListOfEntries
<1>2. /\ R \in Seq(Nodes) /\ E \in [Keys -> Nat] /\ s \in Seq(Keys) /\ S \in Seq(Statuses) /\ Len(S) = Len(R)
      /\ f = IF s = <<>> THEN 0 ELSE E[s[1]]
      /\ CacheKnown(R, E, s) /\ Ring(R, o, n) /\ Results(R, E, S)
  BY DEF CacheFits
<1>3. s # <<>> /\ n >= 1 /\ 1 \in 1 .. n /\ n \in 1 .. n /\ f = o[1]
  <2>1. s # <<>>
    BY <1>2
  <2>2. n # 0
    BY <1>2, <2>1
  <2> QED
    BY <1>1, <1>2, <2>1, <2>2
<1>4. last = o[n] /\ last \in D /\ f \in D
  <2>1. After(n, n) = 1
    BY DEF After
  <2>2. R[o[1]].previous = o[n]
    BY <1>2, <1>3, <2>1 DEF Ring
  <2> HIDE DEF o
  <2> QED
    BY <1>1, <1>3, <2>2
<1>5. t \in Seq(Keys) /\ Len(t) = n - 1 /\ \A i \in 1 .. n - 1 : t[i] = s[i]
  BY <1>2, <1>3, FrontOf
<1>6. R[last].key = s[n] /\ s[n] \in Keys
  BY <1>1, <1>2, <1>3, <1>4 DEF CacheKnown
<1>7. E2 \in [Keys -> Nat] /\ E2[s[n]] = 0 /\ \A k \in Keys : k # s[n] => E2[k] = E[k]
  BY <1>2, <1>6
<1> HIDE DEF t, E2
<1>8. \A i \in 1 .. n - 1 : i \in 1 .. n /\ s[i] \in Keys /\ s[i] # s[n]
  BY <1>1, <1>2, <1>3 DEF CacheKnown
<1>9. \A i \in 1 .. n - 1 : E2[t[i]] = o[i] /\ p[i] = o[i]
  <2>1. ASSUME NEW i \in 1 .. n - 1 PROVE E2[t[i]] = o[i]
    <3>1. t[i] = s[i] /\ i \in 1 .. n /\ s[i] \in Keys /\ s[i] # s[n]
      BY <1>5, <1>8
    <3>2. E2[s[i]] = E[s[i]] /\ o[i] = E[s[i]]
      BY <1>1, <1>7, <3>1
    <3> QED
      BY <3>1, <3>2
  <2> QED
    BY <1>5, <2>1 DEF Order
<1>10. Ring(Q, o, n - 1) /\ SameBut(D, R, o, n, Q) /\ Q[last].next = 0
  <2>1. CASE n = 1
    <3>1. last = f
      BY <1>3, <1>4, <2>1
    <3>2. Q = Cleared(R, last)
      BY <3>1 DEF Deletion, Cleared
    <3>3. /\ Q \in [D -> Nodes] /\ Q[last].next = 0
          /\ \A x \in D : Q[x].key = R[x].key /\ Q[x].status = R[x].status
          /\ \A x \in D : x # last => Q[x].next = R[x].next
      <4> HIDE DEF D, o, n
      <4>1. R \in [D -> Nodes] /\ last \in D
        BY <1>1, <1>4
      <4> QED
        BY <3>2, <4>1, PointersCleared
    <3>4. Ring(Q, o, n - 1)
      BY <2>1 DEF Ring
    <3> QED
      BY <1>3, <1>4, <3>3, <3>4 DEF SameBut
  <2>2. CASE n # 1
    <3>0. n \in Nat /\ n >= 1
      BY <1>1, <1>3
    <3>1. n >= 2 /\ n - 1 \in 1 .. n /\ n - 1 # n /\ 1 # n
      <4> HIDE DEF n
      <4> QED
        BY <2>2, <3>0
    <3>2. last # f /\ o[n - 1] \in D
      BY <1>1, <1>3, <1>4, <3>1
    <3>3. R[last].previous = o[n - 1]
      <4>1. After(n - 1, n) = n
        BY <1>1 DEF After
      <4> QED
        BY <1>2, <1>4, <3>1, <4>1 DEF Ring
    <3>4. CutAt(D, R, o[n - 1], o[n], o[1], Q)
      <4> DEFINE b == o[n - 1]
      <4>1. Q = [[R EXCEPT ![last].next = 0, ![last].previous = 0] EXCEPT ![f].previous = b, ![b].next = f]
        BY <3>2, <3>3 DEF Deletion
      <4>2. b \in D
        BY <3>2
      <4> HIDE DEF b, D
      <4>3. CutAt(D, R, b, last, f, Q)
        BY <1>1, <1>4, <4>1, <4>2, PointersCut
      <4> QED
        BY <1>3, <1>4, <4>3 DEF b
    <3> HIDE DEF D, o, n
    <3>5. Ring(Q, o, n - 1) /\ SameBut(D, R, o, n, Q) /\ Q[o[n]].next = 0
      <4>1. RingOf(D, R, n, o) /\ n >= 2
        BY <1>1, <1>2, <3>1 DEF RingOf
      <4> QED
        BY <3>4, <4>1, RingEnds
    <3> QED
      BY <1>4, <3>5
  <2> QED
    BY <2>1, <2>2
<1>11. /\ Q \in [D -> Nodes] /\ Q \in Seq(Nodes) /\ Len(Q) = Len(R)
       /\ \A x \in D : Q[x].key = R[x].key /\ Q[x].status = R[x].status
       /\ \A x \in D : (\A i \in 1 .. n : x # o[i]) => Q[x].next = R[x].next
  <2>1. Q \in [D -> Nodes]
    BY <1>10 DEF SameBut
  <2>2. Q \in Seq(Nodes) /\ Len(Q) = Len(R)
    BY <1>1, <2>1
  <2> QED
    BY <1>10, <2>1, <2>2 DEF SameBut
<1>12. CacheKnown(Q, E2, t)
  <2>1. \A i, j \in 1 .. n - 1 : t[i] = t[j] => i = j
    <3>1. \A i, j \in 1 .. n : s[i] = s[j] => i = j
      BY <1>2 DEF CacheKnown
    <3> QED
      BY <1>5, <1>8, <3>1
  <2>2. ASSUME NEW i \in 1 .. n - 1 PROVE E2[t[i]] \in D /\ Q[E2[t[i]]].key = t[i]
    <3>1. i \in 1 .. n /\ E2[t[i]] = o[i] /\ t[i] = s[i]
      BY <1>5, <1>8, <1>9
    <3>2. o[i] = E[s[i]] /\ o[i] \in D /\ R[E[s[i]]].key = s[i]
      BY <1>1, <1>2, <3>1 DEF CacheKnown
    <3> QED
      BY <1>11, <3>1, <3>2
  <2>3. ASSUME NEW k \in Keys PROVE E2[k] # 0 <=> \E i \in 1 .. n - 1 : t[i] = k
    <3>1. E[k] # 0 <=> \E i \in 1 .. n : s[i] = k
      BY <1>2 DEF CacheKnown
    <3>2. CASE k = s[n]
      <4>1. \A i \in 1 .. n - 1 : t[i] # k
        BY <1>5, <1>8, <3>2
      <4> QED
        BY <1>7, <3>2, <4>1
    <3>3. CASE k # s[n]
      <4>1. E2[k] = E[k]
        BY <1>7, <3>3
      <4>2. ASSUME NEW i \in 1 .. n, s[i] = k PROVE \E j \in 1 .. n - 1 : t[j] = k
        <5>1. i \in 1 .. n - 1
          BY <1>1, <3>3, <4>2
        <5> QED
          BY <1>5, <4>2, <5>1
      <4>3. ASSUME NEW i \in 1 .. n - 1, t[i] = k PROVE \E j \in 1 .. n : s[j] = k
        BY <1>5, <1>8, <4>3
      <4> QED
        BY <3>1, <4>1, <4>2, <4>3
    <3> QED
      BY <3>2, <3>3
  <2> QED
    BY <1>5, <1>11, <2>1, <2>2, <2>3 DEF CacheKnown
<1>13. Ring(Q, p, n - 1)
  <2>1. ASSUME NEW i \in 1 .. n - 1 PROVE After(i, n - 1) \in 1 .. n - 1
    <3>1. n - 1 \in Nat
      BY <1>1, <1>3
    <3> QED
      BY <3>1, AfterIsAPlace
  <2> HIDE DEF p, o
  <2> QED
    BY <1>9, <1>10, <2>1 DEF Ring
<1>14. Results(Q, E2, S)
  <2>1. ASSUME NEW x \in D PROVE Q[x].next # 0 <=> E2[Q[x].key] = x
    <3>1. CASE \E i \in 1 .. n - 1 : x = o[i]
      <4>1. PICK i \in 1 .. n - 1 : x = o[i]
        BY <3>1
      <4>2. n - 1 \in Nat
        BY <1>1, <1>3
      <4>3. Q[x].next = o[After(i, n - 1)] /\ After(i, n - 1) \in 1 .. n - 1
        BY <1>10, <4>1, <4>2, AfterIsAPlace DEF Ring
      <4>4. Q[x].next # 0
        BY <1>1, <1>8, <4>3
      <4>5. E2[t[i]] = x /\ Q[x].key = t[i]
        BY <1>5, <1>9, <1>12, <4>1 DEF CacheKnown
      <4> QED
        BY <4>4, <4>5
    <3>2. CASE x = last
      BY <1>1, <1>6, <1>7, <1>10, <1>11, <3>2
    <3>3. CASE \A i \in 1 .. n : x # o[i]
      <4>1. Q[x].next = R[x].next /\ Q[x].key = R[x].key /\ R[x].key \in Keys
        BY <1>1, <1>11, <3>3
      <4>2. R[x].next # 0 <=> E[R[x].key] = x
        BY <1>2 DEF Results
      <4>3. R[x].key # s[n] => E2[R[x].key] = E[R[x].key]
        BY <1>7, <4>1
      <4>4. R[x].key = s[n] => E2[R[x].key] # x /\ E[R[x].key] # x
        BY <1>1, <1>3, <1>7, <3>3
      <4> QED
        BY <4>1, <4>2, <4>3, <4>4
    <3>4. \A i \in 1 .. n : i \in 1 .. n - 1 \/ i = n
      BY <1>1
    <3> QED
      BY <1>4, <3>1, <3>2, <3>3, <3>4
  <2>2. ASSUME NEW x \in D, S[x] # "Pending" PROVE S[x] = Q[x].status
    BY <1>2, <1>11, <2>2 DEF Results
  <2> QED
    BY <1>11, <2>1, <2>2 DEF Results
<1>15. f2 = IF t = <<>> THEN 0 ELSE E2[t[1]]
  <2>1. CASE n = 1
    <3>1. t = <<>> /\ last = f
      BY <1>3, <1>4, <1>5, <2>1
    <3> QED
      BY <3>1 DEF Deletion
  <2>2. CASE n # 1
    <3>1. 1 \in 1 .. n - 1 /\ t # <<>> /\ 1 # n
      BY <1>1, <1>3, <1>5, <2>2
    <3>2. last # f
      BY <1>1, <1>3, <1>4, <3>1
    <3> QED
      BY <1>3, <1>9, <3>1, <3>2 DEF Deletion
  <2> QED
    BY <2>1, <2>2
<1>16. CacheFits(Q, E2, f2, t, S)
  BY <1>2, <1>5, <1>7, <1>11, <1>12, <1>13, <1>14, <1>15 DEF CacheFits
<1> QED
  BY <1>3, <1>16 DEF t, E2

LEMMA CacheStarts == CacheInit => CacheInv
<1> SUFFICES ASSUME CacheInit PROVE CacheInv
  OBVIOUS
<1>1. /\ result = <<>> /\ recent = <<>> /\ seen = <<>> /\ first = 0 /\ size = 0
      /\ entries = [k \in Keys |-> 0]
  BY DEF CacheInit
<1>2. result \in Seq(Nodes) /\ recent \in Seq(Keys) /\ seen \in Seq(Statuses) /\ entries \in [Keys -> Nat]
  BY <1>1
<1>3. Len(result) = 0 /\ Len(recent) = 0 /\ Len(seen) = 0
  BY <1>1
<1>4. CacheKnown(result, entries, recent) /\ Ring(result, Order(entries, recent), Len(recent)) /\ Results(result, entries, seen)
  BY <1>1, <1>3 DEF CacheKnown, Ring, Results
<1> QED
  BY <1>1, <1>2, <1>3, <1>4 DEF CacheInv, CacheFits

LEMMA CacheSteps == CacheInv /\ [CacheNext]_cacheVars => CacheInv'
<1> SUFFICES ASSUME CacheInv, [CacheNext]_cacheVars PROVE CacheInv'
  OBVIOUS
<1>0. size = Len(recent) /\ CacheFits(result, entries, first, recent, seen)
  BY DEF CacheInv
<1>t. result \in Seq(Nodes) /\ recent \in Seq(Keys) /\ seen \in Seq(Statuses)
  BY <1>0 DEF CacheFits
<1>1. ASSUME NEW k \in Keys, add(k) PROVE CacheInv'
  <2>1. CacheFits(result', entries', first', recent', seen')
    BY <1>0, <1>1, AddFits DEF add
  <2>2. size' = Len(recent')
    BY <1>0, <1>1, <1>t DEF add
  <2> QED
    BY <2>1, <2>2 DEF CacheInv
<1>2. ASSUME NEW k \in Keys, access(k) PROVE CacheInv'
  <2>1. Move(result, entries[k], first, result', first')
    BY <1>2 DEF access, Moved, Move
  <2>2. CacheFits(result', entries, first', recent', seen')
    <3>1. /\ entries[k] # 0
          /\ recent' = TakenToFront(recent, k)
          /\ seen' = ReadNow(seen, result, entries[k])
      BY <1>2 DEF access, TakenToFront, ReadNow
    <3> QED
      BY <1>0, <2>1, <3>1, MoveFits
  <2>3. Len(recent') = Len(recent)
    <3> DEFINE i0 == CHOOSE i \in DOMAIN recent : recent[i] = k
    <3>1. i0 \in 1 .. Len(recent)
      <4>1. \E i \in 1 .. Len(recent) : recent[i] = k
        BY <1>0, <1>2 DEF CacheFits, CacheKnown, access
      <4>2. DOMAIN recent = 1 .. Len(recent)
        BY <1>t
      <4> QED
        BY <4>1, <4>2
    <3>2. recent' = <<k>> \o RemoveAt(recent, i0)
      BY <1>2 DEF access
    <3> HIDE DEF i0
    <3>3. RemoveAt(recent, i0) \in Seq(Keys) /\ Len(RemoveAt(recent, i0)) = Len(recent) - 1
      BY <1>t, <3>1, Without
    <3>4. Len(recent') = 1 + Len(RemoveAt(recent, i0))
      BY <3>2, <3>3
    <3>5. Len(recent) \in Nat
      BY <1>t
    <3> QED
      BY <3>3, <3>4, <3>5
  <2> QED
    BY <1>0, <1>2, <2>2, <2>3 DEF CacheInv, access
<1>3. ASSUME NEW e \in DOMAIN result, NEW status \in {"Resolved", "Rejected"}, Settle(e, status) PROVE CacheInv'
  <2>1. status \in Statuses
    BY DEF Statuses
  <2>2. CacheFits(result', entries, first, recent, seen)
    BY <1>0, <1>3, <2>1, SettleFits DEF Settle
  <2> QED
    BY <1>0, <1>3, <2>2 DEF Settle, CacheInv
<1>4. CASE deleteLast
  <2> DEFINE last == result[first].previous
  <2>1. Deletion(result, first, last, result', first')
    BY <1>4 DEF deleteLast, Deleted, Deletion
  <2>a. first # 0 /\ entries' = [entries EXCEPT ![result[last].key] = 0] /\ recent' = Front(recent)
    BY <1>4 DEF deleteLast
  <2>2. recent # <<>> /\ CacheFits(result', entries', first', recent', seen)
    <3>1. last = result[first].previous
      OBVIOUS
    <3> HIDE DEF last
    <3> QED
      BY <1>0, <2>1, <2>a, <3>1, DeleteFits
  <2>3. recent' = Front(recent) /\ size' = size - 1
    BY <1>4 DEF deleteLast
  <2>4. Len(Front(recent)) = Len(recent) - 1
    BY <1>t, <2>2, FrontOf
  <2> QED
    BY <1>0, <1>4, <2>2, <2>3, <2>4 DEF CacheInv, deleteLast
<1>5. ASSUME UNCHANGED <<result, first, size, entries, recent, seen>> PROVE CacheInv'
  BY <1>5, <1>0 DEF CacheInv
<1>6. CASE \E k \in Keys : AccessResult(k)
  BY <1>1, <1>2, <1>6 DEF AccessResult
<1>7. CASE (\E n \in Limits : SetLimit(n)) \/ CleanUp \/ CleanUpEnds \/ UNCHANGED cacheVars
  BY <1>5, <1>7 DEF SetLimit, CleanUp, CleanUpEnds, cacheVars
<1> QED
  BY <1>3, <1>4, <1>6, <1>7 DEF CacheNext

LEMMA CacheIsKept == CacheInv => UsedEntriesAreKept
<1> SUFFICES ASSUME CacheInv PROVE UsedEntriesAreKept
  OBVIOUS
<1>0. size = Len(recent) /\ CacheFits(result, entries, first, recent, seen)
  BY DEF CacheInv
<1>1. /\ result \in Seq(Nodes) /\ entries \in [Keys -> Nat] /\ recent \in Seq(Keys)
      /\ first = IF recent = <<>> THEN 0 ELSE entries[recent[1]]
      /\ CacheKnown(result, entries, recent)
      /\ Ring(result, Order(entries, recent), Len(recent))
      /\ Results(result, entries, seen)
  BY <1>0 DEF CacheFits
<1>2. DOMAIN recent = 1 .. Len(recent) /\ DOMAIN result = 1 .. Len(result) /\ Len(recent) \in Nat
  BY <1>1
<1>3. IsInjective(recent)
  BY <1>1, <1>2 DEF IsInjective, CacheKnown
<1>4. ASSUME NEW i \in DOMAIN recent
      PROVE  /\ At(i) \in DOMAIN result /\ result[At(i)].key = recent[i]
             /\ result[At(i)].next = At(Following(i))
             /\ result[At(Following(i))].previous = At(i)
  <2>1. i \in 1 .. Len(recent) /\ After(i, Len(recent)) = Following(i) /\ Following(i) \in 1 .. Len(recent)
    BY <1>2, AfterIsAPlace DEF After, Following
  <2>2. \A j \in 1 .. Len(recent) : Order(entries, recent)[j] = At(j)
    BY DEF Order, At
  <2>3. result[At(i)].next = At(Following(i)) /\ result[At(Following(i))].previous = At(i)
    BY <1>1, <2>1, <2>2 DEF Ring
  <2> QED
    BY <1>1, <1>2, <2>1, <2>3 DEF CacheKnown, At
<1>5. \A k \in Keys : entries[k] # 0 <=> k \in ToSet(recent)
  BY <1>1, <1>2 DEF CacheKnown, ToSet
<1>6. first = IF recent = <<>> THEN 0 ELSE At(1)
  BY <1>1 DEF At
<1> QED
  BY <1>0, <1>1, <1>2, <1>3, <1>4, <1>5, <1>6 DEF UsedEntriesAreKept, Results

(* react-cache: through reads, settled results, new limits and clean-ups,  *)
(* looked at after each deletion, the circular list has the keys in the    *)
(* order of their last use, the map has exactly the entries of the list,   *)
(* and a status that was seen stays, unless it was pending.                *)
THEOREM UsedEntriesStay == CacheSpec => []UsedEntriesAreKept
  BY CacheStarts, CacheSteps, CacheIsKept, PTL DEF CacheSpec
-----------------------------------------------------------------------------
UpToDate(state, us, value) ==
  \/ state.value = value /\ \A i \in DOMAIN us : ~AppliesTo(state, us[i])
  \/ \E i \in DOMAIN us :
       /\ AppliesTo(state, us[i]) /\ us[i].value = value
       /\ \A j \in DOMAIN us : j > i => ~AppliesTo(state, us[j])

SourcesOrNone == Sources \cup {NoSource}
States == [source : SourcesOrNone, value : Int]
UpdatesOf == [kind : {"set", "event"}, source : Sources, value : Int, urgent : BOOLEAN]
Trees == [state : States, base : States, rest : Seq(UpdatesOf), seen : Nat]

SubscriptionTypeOK ==
  /\ external \in [Sources -> Int]
  /\ life \in {"new", "mounted", "gone"}
  /\ shownState \in States /\ baseState \in States
  /\ updates \in Seq(UpdatesOf)
  /\ rendered = <<>> \/ \E r \in Trees : rendered = <<r>>
  /\ listeners \in SUBSET Sources
  /\ switchedOver \in BOOLEAN

LifeFits ==
  /\ life = "new" => listeners = {} /\ updates = <<>>
  /\ life = "mounted" => listeners \ Stubborn = {shownState.source} \ (Stubborn \cup {NoSource})
  /\ life = "mounted" /\ shownState.source # NoSource => shownState.source \in listeners
  /\ life = "gone" => updates = <<>> /\ rendered = <<>> /\ listeners \subseteq Stubborn

ShownFits ==
  life = "mounted" /\ ~switchedOver =>
    /\ baseState.source = shownState.source
    /\ UpToDate(baseState, updates, CurrentValue(shownState.source))
    /\ updates = <<>> => baseState = shownState

Behind(r) == SubSeq(updates, r.seen + 1, Len(updates))

NewsFit(r) ==
  \A i \in DOMAIN updates : i > r.seen =>
    /\ updates[i].kind = "event" /\ updates[i].source \in listeners
    /\ (\A j \in DOMAIN updates : j > i => updates[j].source # updates[i].source)
         => updates[i].value = external[updates[i].source]

RenderedFits ==
  rendered # <<>> =>
    LET r == rendered[1]
    IN  /\ r.seen <= Len(updates)
        /\ NewsFit(r)
        /\ r.rest = <<>> => r.base = r.state
        /\ ~switchedOver /\ r.state.source = NoSource /\ (life = "new" \/ shownState.source # NoSource)
             => r.state.value = 0
        /\ life = "new" => r.rest = <<>>
        /\ life = "mounted" /\ ~switchedOver /\ r.state.source = shownState.source =>
             /\ r.base.source = shownState.source
             /\ UpToDate(r.base, r.rest \o Behind(r), CurrentValue(shownState.source))

SubscriptionInv == SubscriptionTypeOK /\ LifeFits /\ ShownFits /\ RenderedFits
-----------------------------------------------------------------------------
(* The updates at some places change the value alone, to that of the last  *)
(* one that applies.                                                       *)
LEMMA TheLastOneCounts ==
  ASSUME NEW state \in States, NEW us \in Seq(UpdatesOf), NEW places \in SUBSET DOMAIN us
  PROVE  /\ ApplyAll(state, us, places) \in States
         /\ ApplyAll(state, us, places).source = state.source
         /\ (\A i \in places : ~AppliesTo(state, us[i])) => ApplyAll(state, us, places) = state
         /\ \A i \in places :
              AppliesTo(state, us[i]) /\ (\A j \in places : j > i => ~AppliesTo(state, us[j]))
                => ApplyAll(state, us, places).value = us[i].value
<1> DEFINE those == {i \in places : AppliesTo(state, us[i])}
<1>1. Len(us) \in Nat /\ DOMAIN us = 1 .. Len(us) /\ \A i \in DOMAIN us : us[i] \in UpdatesOf
  OBVIOUS
<1>2. ASSUME those # {}
      PROVE  Max(those) \in those /\ \A k \in those : k <= Max(those)
  BY <1>1, <1>2, PlacesHaveBounds
<1>3. those = {} => ApplyAll(state, us, places) = state
  BY DEF ApplyAll
<1>4. those # {} => ApplyAll(state, us, places) = [state EXCEPT !.value = us[Max(those)].value]
  BY DEF ApplyAll
<1>5. those # {} => us[Max(those)] \in UpdatesOf
  BY <1>1, <1>2
<1>6. ASSUME NEW i \in places, AppliesTo(state, us[i]), \A j \in places : j > i => ~AppliesTo(state, us[j])
      PROVE  Max(those) = i
  <2>1. i \in those /\ Max(those) \in those /\ i <= Max(those)
    BY <1>2, <1>6
  <2>2. ~(Max(those) > i)
    BY <1>6, <2>1
  <2> QED
    BY <1>1, <2>1, <2>2
<1> HIDE DEF those
<1>7. ApplyAll(state, us, places) \in States /\ ApplyAll(state, us, places).source = state.source
  BY <1>3, <1>4, <1>5 DEF States, UpdatesOf
<1>8. \A i \in places :
        AppliesTo(state, us[i]) /\ (\A j \in places : j > i => ~AppliesTo(state, us[j]))
          => ApplyAll(state, us, places).value = us[i].value
  <2> SUFFICES ASSUME NEW i \in places, AppliesTo(state, us[i]),
                      \A j \in places : j > i => ~AppliesTo(state, us[j])
               PROVE  ApplyAll(state, us, places).value = us[i].value
    OBVIOUS
  <2>1. Max(those) = i /\ those # {}
    BY <1>6 DEF those
  <2> QED
    BY <1>4, <2>1 DEF States
<1> QED
  BY <1>3, <1>7, <1>8 DEF those

(* Whether an update applies depends on the source alone.                  *)
LEMMA SourceDecides ==
  ASSUME NEW one, NEW other, one.source = other.source
  PROVE  \A u : AppliesTo(one, u) <=> AppliesTo(other, u)
  BY DEF AppliesTo

LEMMA WhatIsLeft ==
  ASSUME NEW us \in Seq(UpdatesOf), NEW b \in 0 .. Len(us)
  PROVE  /\ SubSeq(us, b + 1, Len(us)) \in Seq(UpdatesOf)
         /\ DOMAIN SubSeq(us, b + 1, Len(us)) = 1 .. (Len(us) - b)
         /\ \A k \in 1 .. (Len(us) - b) : SubSeq(us, b + 1, Len(us))[k] = us[b + k]
  OBVIOUS

(* The updates up to a place applied, the others are left.                 *)
LEMMA AppliedInPart ==
  ASSUME NEW state \in States, NEW us \in Seq(UpdatesOf), NEW value,
         NEW b \in 0 .. Len(us), UpToDate(state, us, value)
  PROVE  UpToDate(ApplyAll(state, us, 1 .. b), SubSeq(us, b + 1, Len(us)), value)
<1> DEFINE now == ApplyAll(state, us, 1 .. b)
           rest == SubSeq(us, b + 1, Len(us))
<1>1. Len(us) \in Nat /\ DOMAIN us = 1 .. Len(us) /\ 1 .. b \in SUBSET DOMAIN us
  OBVIOUS
<1>2. /\ now \in States /\ now.source = state.source
      /\ (\A i \in 1 .. b : ~AppliesTo(state, us[i])) => now = state
      /\ \A i \in 1 .. b :
           AppliesTo(state, us[i]) /\ (\A j \in 1 .. b : j > i => ~AppliesTo(state, us[j]))
             => now.value = us[i].value
  BY <1>1, TheLastOneCounts
<1>3. \A u : AppliesTo(now, u) <=> AppliesTo(state, u)
  BY <1>2, SourceDecides
<1>4. DOMAIN rest = 1 .. (Len(us) - b) /\ \A k \in 1 .. (Len(us) - b) : rest[k] = us[b + k]
  BY <1>1
<1> HIDE DEF now, rest
<1>5. CASE state.value = value /\ \A i \in DOMAIN us : ~AppliesTo(state, us[i])
  <2>1. now = state
    BY <1>1, <1>2, <1>5
  <2>2. \A k \in DOMAIN rest : b + k \in DOMAIN us /\ rest[k] = us[b + k]
    BY <1>1, <1>4
  <2>3. \A k \in DOMAIN rest : ~AppliesTo(now, rest[k])
    BY <1>5, <2>1, <2>2
  <2>4. UpToDate(now, rest, value)
    BY <1>5, <2>1, <2>3 DEF UpToDate
  <2> QED
    BY <2>4 DEF now, rest
<1>6. CASE \E i \in DOMAIN us :
             /\ AppliesTo(state, us[i]) /\ us[i].value = value
             /\ \A j \in DOMAIN us : j > i => ~AppliesTo(state, us[j])
  <2> PICK i \in DOMAIN us :
             /\ AppliesTo(state, us[i]) /\ us[i].value = value
             /\ \A j \in DOMAIN us : j > i => ~AppliesTo(state, us[j])
    BY <1>6
  <2>1. CASE i <= b
    <3>1. i \in 1 .. b /\ \A j \in 1 .. b : j > i => ~AppliesTo(state, us[j])
      BY <1>1, <2>1
    <3>2. now.value = value
      BY <1>2, <3>1
    <3>3. \A k \in DOMAIN rest : b + k \in DOMAIN us /\ b + k > i /\ rest[k] = us[b + k]
      BY <1>1, <1>4, <2>1
    <3>4. \A k \in DOMAIN rest : ~AppliesTo(now, rest[k])
      BY <1>3, <3>3
    <3>5. UpToDate(now, rest, value)
      BY <3>2, <3>4 DEF UpToDate
    <3> QED
      BY <3>5 DEF now, rest
  <2>2. CASE i > b
    <3>1. i - b \in DOMAIN rest /\ rest[i - b] = us[i]
      <4>1. i - b \in 1 .. (Len(us) - b) /\ b + (i - b) = i
        BY <1>1, <2>2
      <4> QED
        BY <1>4, <4>1
    <3>2. \A k \in DOMAIN rest : k > i - b => b + k \in DOMAIN us /\ b + k > i /\ rest[k] = us[b + k]
      BY <1>1, <1>4, <2>2
    <3>3. \A k \in DOMAIN rest : k > i - b => ~AppliesTo(now, rest[k])
      BY <1>3, <3>2
    <3>4. AppliesTo(now, rest[i - b]) /\ rest[i - b].value = value
      BY <1>3, <3>1
    <3>5. UpToDate(now, rest, value)
      BY <3>1, <3>3, <3>4 DEF UpToDate
    <3> QED
      BY <3>5 DEF now, rest
  <2> QED
    BY <1>1, <2>1, <2>2
<1> QED
  BY <1>5, <1>6 DEF UpToDate

(* All updates applied, the value is the current one.                      *)
LEMMA AppliedInFull ==
  ASSUME NEW state, NEW value, UpToDate(state, <<>>, value)
  PROVE  state.value = value
  BY DEF UpToDate

(* One more update: it applies and is current, or it does not apply.       *)
LEMMA OneMoreUpdate ==
  ASSUME NEW state \in States, NEW us \in Seq(UpdatesOf), NEW u \in UpdatesOf, NEW value,
         \/ AppliesTo(state, u) /\ u.value = value
         \/ ~AppliesTo(state, u) /\ UpToDate(state, us, value)
  PROVE  UpToDate(state, Append(us, u), value)
<1> DEFINE more == Append(us, u)
           n == Len(us)
<1>1. n \in Nat /\ DOMAIN us = 1 .. n
  OBVIOUS
<1>2. DOMAIN more = 1 .. (n + 1) /\ more[n + 1] = u /\ \A i \in 1 .. n : more[i] = us[i]
  OBVIOUS
<1> HIDE DEF more, n
<1>3. CASE AppliesTo(state, u) /\ u.value = value
  <2>1. n + 1 \in DOMAIN more /\ \A j \in DOMAIN more : ~(j > n + 1)
    BY <1>1, <1>2
  <2>2. UpToDate(state, more, value)
    BY <1>2, <1>3, <2>1 DEF UpToDate
  <2> QED
    BY <2>2 DEF more
<1>4. CASE ~AppliesTo(state, u) /\ UpToDate(state, us, value)
  <2>1. \A j \in DOMAIN more : j = n + 1 \/ (j \in DOMAIN us /\ more[j] = us[j])
    BY <1>1, <1>2
  <2>2. \A i \in DOMAIN us : i \in DOMAIN more /\ more[i] = us[i]
    BY <1>1, <1>2
  <2>3. \A j \in DOMAIN more : AppliesTo(state, more[j]) => j \in DOMAIN us /\ AppliesTo(state, us[j])
    BY <1>2, <1>4, <2>1
  <2>4. UpToDate(state, more, value)
    BY <1>4, <2>2, <2>3 DEF UpToDate
  <2> QED
    BY <2>4 DEF more
<1> QED
  BY <1>3, <1>4
-----------------------------------------------------------------------------
(* What a callback and a subscription add is made of the right parts.      *)
LEMMA CatchUpIsTyped ==
  ASSUME SubscriptionTypeOK, NEW state \in States
  PROVE  CatchUp(state) \in Seq(UpdatesOf)
<1>1. CASE state.source = NoSource \/ state.value = CurrentValue(state.source)
  BY <1>1 DEF CatchUp
<1>2. CASE ~(state.source = NoSource \/ state.value = CurrentValue(state.source))
  <2> DEFINE u == [kind |-> "set", source |-> state.source, value |-> CurrentValue(state.source), urgent |-> TRUE]
  <2>1. u \in UpdatesOf
    BY <1>2 DEF States, SourcesOrNone, UpdatesOf, CurrentValue, SubscriptionTypeOK
  <2>2. CatchUp(state) = <<u>>
    BY <1>2 DEF CatchUp
  <2> HIDE DEF u
  <2> QED
    BY <2>1, <2>2
<1> QED
  BY <1>1, <1>2

LEMMA ValuesAreTyped ==
  ASSUME SubscriptionTypeOK, NEW s \in SourcesOrNone
  PROVE  CurrentValue(s) \in Int /\ FromSource(s) \in States
  BY DEF SubscriptionTypeOK, SourcesOrNone, States, CurrentValue, FromSource

(* The parts of a render: what is left begins with the first update that   *)
(* was left out, and the base state has all before it.                     *)
LEMMA RenderKeeps ==
  ASSUME SubscriptionInv, NEW s \in SourcesOrNone, NEW all \in BOOLEAN, RenderSubscription(s, all)
  PROVE  \E r \in Trees, b \in 0 .. Len(updates) :
           /\ rendered' = <<r>> /\ r.seen = Len(updates)
           /\ r.rest = SubSeq(updates, b + 1, Len(updates))
           /\ r.state.source = s
           /\ r.rest = <<>> => r.base = r.state
           /\ r.state.source = NoSource /\ (life = "new" \/ baseState.source # NoSource) => r.state.value = 0
           /\ life = "mounted" /\ s = baseState.source => r.base = ApplyAll(baseState, updates, 1 .. b)
<1> DEFINE late == {i \in DOMAIN updates : ~all /\ ~updates[i].urgent}
           n == Len(updates)
           b == IF late = {} THEN n ELSE Min(late) - 1
           applied == {i \in DOMAIN updates : all \/ updates[i].urgent}
           full == ApplyAll(baseState, updates, applied)
           begun == ApplyAll(baseState, updates, 1 .. b)
           state == IF life = "new" THEN FromSource(s) ELSE getDerivedStateFromProps(s, full)
           base == IF late = {} THEN state ELSE begun
           rest == SubSeq(updates, b + 1, n)
           r == [state |-> state, seen |-> n, rest |-> rest, base |-> base]
<1>1. /\ updates \in Seq(UpdatesOf) /\ n \in Nat /\ DOMAIN updates = 1 .. n
      /\ baseState \in States
  BY DEF SubscriptionInv, SubscriptionTypeOK
<1>2. rendered' = <<r>>
  BY DEF RenderSubscription
<1>3. late # {} => Min(late) \in 1 .. n
  BY <1>1, PlacesHaveBounds
<1>4. late = {} => applied = 1 .. n
  BY <1>1
<1>5. applied \in SUBSET DOMAIN updates
  OBVIOUS
<1>6. b \in 0 .. n /\ (late # {} => b + 1 <= n)
  <2> HIDE DEF late, n
  <2> QED
    BY <1>1, <1>3
<1>7. 1 .. b \in SUBSET DOMAIN updates
  <2> HIDE DEF b, n
  <2> QED
    BY <1>1, <1>6
<1> HIDE DEF late, n, applied
<1>8. full \in States /\ full.source = baseState.source
  BY <1>1, <1>5, TheLastOneCounts
<1> HIDE DEF b
<1>9. begun \in States
  BY <1>1, <1>7, TheLastOneCounts
<1> HIDE DEF full, begun
<1>10. FromSource(s) \in States /\ FromSource(s).source = s /\ (s = NoSource => FromSource(s).value = 0)
  BY ValuesAreTyped DEF SubscriptionInv, FromSource, CurrentValue
<1>11. /\ state \in States /\ state.source = s
       /\ s = NoSource /\ (life = "new" \/ baseState.source # NoSource) => state.value = 0
       /\ life = "mounted" /\ s = baseState.source => state = full
  BY <1>8, <1>10 DEF getDerivedStateFromProps
<1>12. rest \in Seq(UpdatesOf) /\ Len(rest) = IF b + 1 <= n THEN n - b ELSE 0
  BY <1>1, <1>6 DEF n
<1>13. rest = <<>> => late = {}
  <2> HIDE DEF rest
  <2> QED
    BY <1>1, <1>6, <1>12
<1>14. late = {} => full = begun
  BY <1>4 DEF full, begun, b
<1> HIDE DEF state, rest
<1>15. r \in Trees
  BY <1>1, <1>9, <1>11, <1>12 DEF Trees
<1>16. rest = SubSeq(updates, b + 1, Len(updates)) /\ b \in 0 .. Len(updates) /\ n = Len(updates)
  BY <1>6 DEF rest, n
<1>17. /\ r.rest = rest /\ r.seen = n /\ r.state = state /\ r.base = base
  OBVIOUS
<1>18. begun = ApplyAll(baseState, updates, 1 .. b)
  BY DEF begun
<1>19. rest = <<>> => base = state
  BY <1>13
<1>20. life = "mounted" /\ s = baseState.source => base = begun
  BY <1>11, <1>14
<1> HIDE DEF base, r
<1> QED
  BY <1>2, <1>11, <1>15, <1>16, <1>17, <1>18, <1>19, <1>20
-----------------------------------------------------------------------------
(* Behind a render that is complete there are events, the last of each     *)
(* source with its current value: at the subscription the component knows  *)
(* of every change it was told of, and CatchUp of those it was not.        *)
LEMMA NewsAreCurrent ==
  ASSUME SubscriptionInv, NEW r \in Trees, rendered = <<r>>,
         NEW state \in States,
         state.source = NoSource => state.value = 0
  PROVE  UpToDate(state, Behind(r) \o CatchUp(state), CurrentValue(state.source))
<1> DEFINE n == Len(updates)
           us == Behind(r)
           value == CurrentValue(state.source)
<1>1. updates \in Seq(UpdatesOf) /\ n \in Nat /\ DOMAIN updates = 1 .. n /\ r.seen \in Nat
  BY DEF SubscriptionInv, SubscriptionTypeOK, Trees
<1>2. r.seen <= n /\ NewsFit(r)
  BY DEF SubscriptionInv, RenderedFits
<1>3. /\ us \in Seq(UpdatesOf)
      /\ DOMAIN us = 1 .. (n - r.seen)
      /\ \A k \in 1 .. (n - r.seen) : us[k] = updates[r.seen + k]
  <2> DEFINE b == r.seen
  <2>1. b \in 0 .. Len(updates)
    BY <1>1, <1>2
  <2>2. us = SubSeq(updates, b + 1, Len(updates))
    BY DEF Behind
  <2> HIDE DEF b, us
  <2>3. /\ us \in Seq(UpdatesOf)
        /\ DOMAIN us = 1 .. (Len(updates) - b)
        /\ \A k \in 1 .. (Len(updates) - b) : us[k] = updates[b + k]
    BY <1>1, <2>1, <2>2, WhatIsLeft
  <2> QED
    BY <2>3 DEF b
<1> HIDE DEF n, us, value
<1>4. \A k \in DOMAIN us : r.seen + k \in DOMAIN updates /\ r.seen + k > r.seen /\ us[k] = updates[r.seen + k]
  BY <1>1, <1>2, <1>3
<1>5. \A k \in DOMAIN us : us[k].kind = "event" /\ us[k] \in UpdatesOf
  BY <1>1, <1>2, <1>4 DEF NewsFit
<1>6. ASSUME NEW k \in DOMAIN us, \A j \in DOMAIN us : j > k => us[j].source # us[k].source
      PROVE  us[k].value = external[us[k].source]
  <2>1. \A j \in DOMAIN updates : j > r.seen + k => updates[j].source # updates[r.seen + k].source
    <3> SUFFICES ASSUME NEW j \in DOMAIN updates, j > r.seen + k
                 PROVE  updates[j].source # updates[r.seen + k].source
      OBVIOUS
    <3>1. j - r.seen \in DOMAIN us /\ j - r.seen > k /\ r.seen + (j - r.seen) = j
      BY <1>1, <1>2, <1>3
    <3>2. us[j - r.seen] = updates[j]
      BY <1>4, <3>1
    <3> QED
      BY <1>4, <1>6, <3>1, <3>2
  <2> QED
    BY <1>2, <1>4, <2>1 DEF NewsFit
<1>7. CASE state.source # NoSource /\ state.value # value
  <2> DEFINE u == [kind |-> "set", source |-> state.source, value |-> value, urgent |-> TRUE]
  <2>1. CatchUp(state) = <<u>>
    BY <1>7 DEF CatchUp, value
  <2>2. u \in UpdatesOf
    BY <1>7 DEF States, SourcesOrNone, UpdatesOf, CurrentValue, SubscriptionInv, SubscriptionTypeOK, value
  <2>3. AppliesTo(state, u) /\ u.value = value
    BY DEF AppliesTo
  <2> HIDE DEF u
  <2>4. us \o <<u>> = Append(us, u)
    BY <1>3, <2>2, AppendIsConcat
  <2>5. UpToDate(state, Append(us, u), value)
    BY <1>3, <2>2, <2>3, OneMoreUpdate
  <2> QED
    BY <2>1, <2>4, <2>5 DEF us, value
<1>8. CASE state.source = NoSource \/ state.value = value
  <2>1. CatchUp(state) = <<>>
    BY <1>8 DEF CatchUp, value
  <2>2. us \o <<>> = us
    BY <1>3, ConcatEmptySeq
  <2>3. UpToDate(state, us, value)
    <3>1. CASE \A i \in DOMAIN us : ~AppliesTo(state, us[i])
      <4>1. state.value = value
        BY <1>8 DEF CurrentValue, value
      <4> QED
        BY <3>1, <4>1 DEF UpToDate
    <3>2. CASE ~(\A i \in DOMAIN us : ~AppliesTo(state, us[i]))
      <4> DEFINE those == {i \in DOMAIN us : AppliesTo(state, us[i])}
      <4>1. those \in SUBSET (1 .. (n - r.seen)) /\ those # {} /\ n - r.seen \in Nat
        BY <1>1, <1>2, <1>3, <3>2
      <4>2. Max(those) \in those /\ \A k \in those : k <= Max(those)
        BY <4>1, PlacesHaveBounds
      <4> PICK i \in DOMAIN us : AppliesTo(state, us[i]) /\ \A k \in those : k <= i
        BY <4>2
      <4>3. \A j \in DOMAIN us : j > i => ~AppliesTo(state, us[j])
        BY <1>3
      <4>4. \A j \in DOMAIN us : AppliesTo(state, us[j]) <=> us[j].source = state.source
        BY <1>5 DEF AppliesTo
      <4>5. us[i].value = external[us[i].source] /\ us[i].source = state.source
        BY <1>6, <4>3, <4>4
      <4>6. us[i].source # NoSource
        BY <1>5, SubscriptionAssumption DEF UpdatesOf
      <4>7. us[i].value = value
        BY <4>5, <4>6 DEF value, CurrentValue
      <4> QED
        BY <4>3, <4>7 DEF UpToDate
    <3> QED
      BY <3>1, <3>2
  <2> QED
    BY <2>1, <2>2, <2>3 DEF us, value
<1> QED
  BY <1>7, <1>8
-----------------------------------------------------------------------------
(* The invariant of a subscription holds at the start ...                  *)
LEMMA SubscriptionStarts == SubscriptionInit => SubscriptionInv
<1> SUFFICES ASSUME SubscriptionInit PROVE SubscriptionInv
  OBVIOUS
<1> USE DEF SubscriptionInit
<1>1. SubscriptionTypeOK
  <2>1. shownState \in States
    BY DEF States, SourcesOrNone
  <2>2. <<>> \in Seq(UpdatesOf)
    OBVIOUS
  <2>3. external \in [Sources -> Int]
    OBVIOUS
  <2> QED
    BY <2>1, <2>2, <2>3 DEF SubscriptionTypeOK
<1>2. LifeFits /\ ShownFits /\ RenderedFits
  BY DEF LifeFits, ShownFits, RenderedFits
<1> QED
  BY <1>1, <1>2 DEF SubscriptionInv

LEMMA RenderFits ==
  ASSUME SubscriptionInv, NEW s \in SourcesOrNone, NEW all \in BOOLEAN, RenderSubscription(s, all)
  PROVE  SubscriptionInv'
<1> PICK r \in Trees, b \in 0 .. Len(updates) :
           /\ rendered' = <<r>> /\ r.seen = Len(updates)
           /\ r.rest = SubSeq(updates, b + 1, Len(updates))
           /\ r.state.source = s
           /\ r.rest = <<>> => r.base = r.state
           /\ r.state.source = NoSource /\ (life = "new" \/ baseState.source # NoSource) => r.state.value = 0
           /\ life = "mounted" /\ s = baseState.source => r.base = ApplyAll(baseState, updates, 1 .. b)
  BY RenderKeeps
<1>1. /\ life # "gone"
      /\ UNCHANGED <<external, life, shownState, baseState, updates, listeners, switchedOver>>
  BY DEF RenderSubscription
<1>2. SubscriptionTypeOK'
  BY <1>1 DEF SubscriptionInv, SubscriptionTypeOK
<1>3. LifeFits' /\ ShownFits'
  BY <1>1 DEF SubscriptionInv, LifeFits, ShownFits, CurrentValue
<1>4. /\ updates \in Seq(UpdatesOf) /\ baseState \in States
      /\ Len(updates) \in Nat /\ DOMAIN updates = 1 .. Len(updates)
      /\ r.rest \in Seq(UpdatesOf) /\ r.base \in States
  BY DEF SubscriptionInv, SubscriptionTypeOK, Trees
<1>5. NewsFit(r)'
  <2>1. \A i \in DOMAIN updates : ~(i > r.seen)
    BY <1>4
  <2> QED
    BY <1>1, <2>1 DEF NewsFit
<1>6. life = "new" => r.rest = <<>>
  <2>1. life = "new" => updates = <<>>
    BY DEF SubscriptionInv, LifeFits
  <2>2. DOMAIN r.rest = 1 .. (Len(updates) - b)
    BY <1>4, WhatIsLeft
  <2>3. updates = <<>> => Len(updates) = 0 /\ b = 0
    BY <1>4
  <2> QED
    BY <1>4, <2>1, <2>2, <2>3
<1>7. ~switchedOver /\ r.state.source = NoSource /\ (life = "new" \/ shownState.source # NoSource)
        => r.state.value = 0
  BY <1>1 DEF SubscriptionInv, ShownFits, SubscriptionTypeOK
<1>8. ASSUME life = "mounted", ~switchedOver, r.state.source = shownState.source
      PROVE  /\ r.base.source = shownState.source
             /\ UpToDate(r.base, r.rest \o Behind(r), CurrentValue(shownState.source))
  <2>1. /\ baseState.source = shownState.source
        /\ UpToDate(baseState, updates, CurrentValue(shownState.source))
    BY <1>8 DEF SubscriptionInv, ShownFits
  <2>2. r.base = ApplyAll(baseState, updates, 1 .. b)
    BY <1>8, <2>1
  <2>3. r.base.source = shownState.source
    <3>1. 1 .. b \in SUBSET DOMAIN updates
      BY <1>4
    <3> QED
      BY <1>4, <2>1, <2>2, <3>1, TheLastOneCounts
  <2>4. UpToDate(r.base, r.rest, CurrentValue(shownState.source))
    BY <1>4, <2>1, <2>2, AppliedInPart
  <2>5. Behind(r) = <<>>
    BY <1>4 DEF Behind
  <2>6. r.rest \o Behind(r) = r.rest
    BY <1>4, <2>5, ConcatEmptySeq
  <2> QED
    BY <2>3, <2>4, <2>6
<1>9. RenderedFits'
  <2>1. rendered'[1] = r /\ r.seen <= Len(updates)
    BY <1>4
  <2>2. Behind(r)' = Behind(r) /\ CurrentValue(shownState.source)' = CurrentValue(shownState.source)
    BY <1>1 DEF Behind, CurrentValue
  <2> QED
    BY <1>1, <1>5, <1>6, <1>7, <1>8, <2>1, <2>2 DEF RenderedFits
<1> QED
  BY <1>2, <1>3, <1>9 DEF SubscriptionInv

LEMMA CommitFits ==
  ASSUME SubscriptionInv, CommitSubscription
  PROVE  SubscriptionInv'
<1> PICK r \in Trees : rendered = <<r>>
  BY DEF SubscriptionInv, SubscriptionTypeOK, CommitSubscription
<1> DEFINE left == r.rest \o Behind(r)
           subscribes == life = "new" \/ r.state.source # shownState.source
           freed == IF life = "new" THEN listeners ELSE Unsubscribed(listeners, shownState.source)
<1>1. /\ rendered' = <<>> /\ life' = "mounted" /\ shownState' = r.state /\ baseState' = r.base
      /\ listeners' = IF subscribes THEN freed \cup ({r.state.source} \ {NoSource}) ELSE listeners
      /\ updates' = IF subscribes THEN left \o CatchUp(r.state) ELSE left
      /\ switchedOver' = (switchedOver \/ (r.rest # <<>> /\ subscribes))
      /\ UNCHANGED external
  <2>1. rendered[1] = r
    OBVIOUS
  <2> QED
    BY <2>1 DEF CommitSubscription, Behind
<1>2. /\ SubscriptionTypeOK /\ updates \in Seq(UpdatesOf) /\ Len(updates) \in Nat
      /\ r.state \in States /\ r.base \in States /\ r.rest \in Seq(UpdatesOf) /\ r.seen \in Nat
      /\ shownState \in States
  BY DEF SubscriptionInv, SubscriptionTypeOK, Trees
<1>3. /\ r.seen <= Len(updates)
      /\ r.rest = <<>> => r.base = r.state
      /\ ~switchedOver /\ r.state.source = NoSource /\ (life = "new" \/ shownState.source # NoSource)
           => r.state.value = 0
      /\ life = "new" => r.rest = <<>>
      /\ life = "mounted" /\ ~switchedOver /\ r.state.source = shownState.source =>
           /\ r.base.source = shownState.source
           /\ UpToDate(r.base, left, CurrentValue(shownState.source))
  <2>1. rendered # <<>> /\ rendered[1] = r
    OBVIOUS
  <2> QED
    BY <2>1 DEF SubscriptionInv, RenderedFits
<1>4. life \in {"new", "mounted"}
  BY DEF SubscriptionInv, SubscriptionTypeOK, LifeFits
<1>5. Behind(r) \in Seq(UpdatesOf)
  <2>1. r.seen \in 0 .. Len(updates)
    BY <1>2, <1>3
  <2> QED
    BY <1>2, <2>1, WhatIsLeft DEF Behind
<1>6. left \in Seq(UpdatesOf) /\ CatchUp(r.state) \in Seq(UpdatesOf)
  BY <1>2, <1>5, CatchUpIsTyped
<1>7. SubscriptionTypeOK'
  <2>1. updates' \in Seq(UpdatesOf)
    BY <1>1, <1>6
  <2>2. listeners' \in SUBSET Sources
    BY <1>1, <1>2 DEF SubscriptionTypeOK, States, SourcesOrNone, Unsubscribed
  <2>3. switchedOver' \in BOOLEAN
    BY <1>1, <1>2 DEF SubscriptionTypeOK
  <2> QED
    BY <1>1, <1>2, <2>1, <2>2, <2>3 DEF SubscriptionTypeOK
<1>8. LifeFits'
  <2>1. /\ life = "new" => listeners = {}
        /\ life = "mounted" => listeners \ Stubborn = {shownState.source} \ (Stubborn \cup {NoSource})
        /\ life = "mounted" /\ shownState.source # NoSource => shownState.source \in listeners
    BY DEF SubscriptionInv, LifeFits
  <2>2. listeners' \ Stubborn = {r.state.source} \ (Stubborn \cup {NoSource})
    BY <1>1, <1>4, <2>1 DEF Unsubscribed
  <2>3. r.state.source # NoSource => r.state.source \in listeners'
    BY <1>1, <1>4, <2>1
  <2> QED
    BY <1>1, <2>2, <2>3 DEF LifeFits
<1>9. ShownFits'
  <2> SUFFICES ASSUME ~switchedOver'
               PROVE  /\ r.base.source = r.state.source
                      /\ UpToDate(r.base, updates', CurrentValue(r.state.source))
                      /\ updates' = <<>> => r.base = r.state
    <3>1. CurrentValue(shownState.source)' = CurrentValue(r.state.source)
      BY <1>1 DEF CurrentValue
    <3> QED
      BY <1>1, <3>1 DEF ShownFits
  <2>1. ~switchedOver /\ ~(r.rest # <<>> /\ subscribes)
    BY <1>1, <1>2 DEF SubscriptionTypeOK
  <2>2. CASE subscribes
    <3>1. r.rest = <<>> /\ r.base = r.state
      BY <1>3, <2>1, <2>2
    <3>2. left = Behind(r)
      BY <1>5, <3>1, ConcatEmptySeq
    <3>3. r.state.source = NoSource => r.state.value = 0
      BY <1>3, <2>1, <2>2
    <3>4. UpToDate(r.state, Behind(r) \o CatchUp(r.state), CurrentValue(r.state.source))
      BY <1>2, <3>3, NewsAreCurrent
    <3> QED
      BY <1>1, <2>2, <3>1, <3>2, <3>4
  <2>3. CASE ~subscribes
    <3>1. updates' = left /\ life = "mounted" /\ r.state.source = shownState.source
      BY <1>1, <1>4, <2>3
    <3>2. left = <<>> => r.rest = <<>>
      BY <1>2, <1>5, ConcatEmptySeq
    <3> QED
      BY <1>3, <2>1, <3>1, <3>2
  <2> QED
    BY <2>2, <2>3
<1>10. RenderedFits'
  BY <1>1 DEF RenderedFits
<1> QED
  BY <1>7, <1>8, <1>9, <1>10 DEF SubscriptionInv

LEMMA UnmountFits ==
  ASSUME SubscriptionInv, Unmount
  PROVE  SubscriptionInv'
<1>1. /\ life = "mounted" /\ life' = "gone"
      /\ listeners' = Unsubscribed(listeners, shownState.source)
      /\ updates' = <<>> /\ rendered' = <<>>
      /\ UNCHANGED <<external, shownState, baseState, switchedOver>>
  BY DEF Unmount
<1>2. SubscriptionTypeOK'
  <2>1. updates' \in Seq(UpdatesOf) /\ listeners' \in SUBSET Sources
    BY <1>1 DEF SubscriptionInv, SubscriptionTypeOK, Unsubscribed
  <2> QED
    BY <1>1, <2>1 DEF SubscriptionInv, SubscriptionTypeOK
<1>3. LifeFits'
  <2>1. listeners \ Stubborn = {shownState.source} \ (Stubborn \cup {NoSource})
    BY <1>1 DEF SubscriptionInv, LifeFits
  <2>2. listeners' \subseteq Stubborn
    BY <1>1, <2>1 DEF Unsubscribed
  <2> QED
    BY <1>1, <2>2 DEF LifeFits
<1>4. ShownFits' /\ RenderedFits'
  BY <1>1 DEF ShownFits, RenderedFits
<1> QED
  BY <1>2, <1>3, <1>4 DEF SubscriptionInv

LEMMA ChangeFits ==
  ASSUME SubscriptionInv, NEW s \in Sources, NEW v \in 1 .. MaxChanges, NEW urgent \in BOOLEAN,
         SourceChanges(s, v, urgent)
  PROVE  SubscriptionInv'
<1> DEFINE u == [kind |-> "event", source |-> s, value |-> v, urgent |-> urgent]
<1>0. u \in UpdatesOf /\ u.kind = "event" /\ u.source = s /\ u.value = v
  BY SubscriptionAssumption DEF UpdatesOf
<1>1. /\ external' = [external EXCEPT ![s] = v]
      /\ updates' = IF s \in listeners /\ life # "gone" THEN Append(updates, u) ELSE updates
      /\ UNCHANGED <<life, shownState, baseState, rendered, listeners, switchedOver>>
  BY DEF SourceChanges
<1> HIDE DEF u
<1>2. /\ external \in [Sources -> Int] /\ listeners \in SUBSET Sources
      /\ updates \in Seq(UpdatesOf) /\ Len(updates) \in Nat /\ DOMAIN updates = 1 .. Len(updates)
      /\ shownState \in States /\ baseState \in States /\ NoSource \notin Sources
  BY SubscriptionAssumption DEF SubscriptionInv, SubscriptionTypeOK
<1>3. /\ external'[s] = v
      /\ \A other \in Sources : other # s => external'[other] = external[other]
  BY <1>1, <1>2
<1>4. updates' \in Seq(UpdatesOf) /\ Len(updates') \in Nat /\ Len(updates) <= Len(updates')
  BY <1>0, <1>1, <1>2
<1>5. SubscriptionTypeOK'
  <2>1. external' \in [Sources -> Int]
    BY <1>1, <1>2
  <2> QED
    BY <1>1, <1>4, <2>1 DEF SubscriptionInv, SubscriptionTypeOK
<1>6. LifeFits'
  BY <1>1 DEF SubscriptionInv, LifeFits
<1>7. /\ life = "mounted" /\ shownState.source = s => s \in listeners
      /\ life = "gone" => rendered = <<>>
  BY <1>2 DEF SubscriptionInv, LifeFits
<1>8. shownState.source # s => CurrentValue(shownState.source)' = CurrentValue(shownState.source)
  BY <1>1, <1>2, <1>3 DEF CurrentValue, States, SourcesOrNone
<1>9. shownState.source = s => CurrentValue(shownState.source)' = v
  BY <1>1, <1>2, <1>3 DEF CurrentValue
<1>10. ASSUME NEW state \in States, NEW us \in Seq(UpdatesOf), life = "mounted",
              state.source = shownState.source,
              UpToDate(state, us, CurrentValue(shownState.source))
       PROVE  UpToDate(state, IF s \in listeners THEN Append(us, u) ELSE us, CurrentValue(shownState.source)')
  <2> DEFINE now == CurrentValue(shownState.source)'
  <2>1. shownState.source = s => now = v
    BY <1>9
  <2>2. shownState.source # s => now = CurrentValue(shownState.source)
    BY <1>8
  <2> HIDE DEF now
  <2>3. AppliesTo(state, u) <=> shownState.source = s
    BY <1>0, <1>10 DEF AppliesTo
  <2>4. UpToDate(state, IF s \in listeners THEN Append(us, u) ELSE us, now)
    <3>1. CASE shownState.source = s
      <4>1. UpToDate(state, Append(us, u), now)
        BY <1>0, <2>1, <2>3, <3>1, OneMoreUpdate
      <4> QED
        BY <1>7, <1>10, <3>1, <4>1
    <3>2. CASE shownState.source # s
      <4>1. UpToDate(state, us, now)
        BY <1>10, <2>2, <3>2
      <4>2. UpToDate(state, Append(us, u), now)
        BY <1>0, <2>3, <3>2, <4>1, OneMoreUpdate
      <4> QED
        BY <4>1, <4>2
    <3> QED
      BY <3>1, <3>2
  <2> QED
    BY <2>4 DEF now
<1>11. ShownFits'
  <2> SUFFICES ASSUME life = "mounted", ~switchedOver
               PROVE  /\ baseState.source = shownState.source
                      /\ UpToDate(baseState, updates', CurrentValue(shownState.source)')
                      /\ updates' = <<>> => baseState = shownState
    BY <1>1 DEF ShownFits
  <2>1. /\ baseState.source = shownState.source
        /\ UpToDate(baseState, updates, CurrentValue(shownState.source))
        /\ updates = <<>> => baseState = shownState
    BY DEF SubscriptionInv, ShownFits
  <2>2. UpToDate(baseState, updates', CurrentValue(shownState.source)')
    BY <1>1, <1>2, <1>10, <2>1
  <2>3. updates' = <<>> => updates = <<>>
    BY <1>0, <1>1, <1>2
  <2> QED
    BY <2>1, <2>2, <2>3
<1>12. ASSUME NEW r \in Trees, rendered = <<r>>
       PROVE  /\ r.seen <= Len(updates')
              /\ NewsFit(r)'
              /\ life = "mounted" /\ ~switchedOver /\ r.state.source = shownState.source =>
                   UpToDate(r.base, r.rest \o Behind(r)', CurrentValue(shownState.source)')
  <2>1. /\ r.seen <= Len(updates) /\ NewsFit(r)
        /\ life = "mounted" /\ ~switchedOver /\ r.state.source = shownState.source =>
             /\ r.base.source = shownState.source
             /\ UpToDate(r.base, r.rest \o Behind(r), CurrentValue(shownState.source))
    <3>1. rendered # <<>> /\ rendered[1] = r
      BY <1>12
    <3> QED
      BY <3>1 DEF SubscriptionInv, RenderedFits
  <2>2. r.seen \in Nat /\ r.base \in States /\ r.rest \in Seq(UpdatesOf) /\ life # "gone"
    BY <1>7, <1>12 DEF Trees
  <2>3. r.seen \in 0 .. Len(updates)
    BY <1>2, <2>1, <2>2
  <2>4. Behind(r) \in Seq(UpdatesOf)
    BY <1>2, <2>3, WhatIsLeft DEF Behind
  <2>5. CASE s \notin listeners
    <3>1. updates' = updates /\ Behind(r)' = Behind(r)
      BY <1>1, <2>5 DEF Behind
    <3>2. NewsFit(r)'
      <4> SUFFICES ASSUME NEW i \in DOMAIN updates, i > r.seen
                   PROVE  /\ updates[i].kind = "event" /\ updates[i].source \in listeners
                          /\ (\A j \in DOMAIN updates : j > i => updates[j].source # updates[i].source)
                               => updates[i].value = external'[updates[i].source]
        BY <1>1, <3>1 DEF NewsFit
      <4>1. /\ updates[i].kind = "event" /\ updates[i].source \in listeners
            /\ (\A j \in DOMAIN updates : j > i => updates[j].source # updates[i].source)
                 => updates[i].value = external[updates[i].source]
        BY <2>1 DEF NewsFit
      <4>2. external'[updates[i].source] = external[updates[i].source]
        BY <1>2, <1>3, <2>5, <4>1
      <4> QED
        BY <4>1, <4>2
    <3>3. r.rest \o Behind(r) \in Seq(UpdatesOf)
      BY <2>2, <2>4
    <3> QED
      BY <1>10, <2>1, <2>2, <2>5, <3>1, <3>2, <3>3
  <2>6. CASE s \in listeners
    <3>1. updates' = Append(updates, u)
      BY <1>1, <2>2, <2>6
    <3>2. /\ DOMAIN updates' = 1 .. (Len(updates) + 1) /\ Len(updates') = Len(updates) + 1
          /\ updates'[Len(updates) + 1] = u /\ \A i \in 1 .. Len(updates) : updates'[i] = updates[i]
      BY <1>0, <1>2, <3>1
    <3>3. NewsFit(r)'
      <4> SUFFICES ASSUME NEW i \in DOMAIN updates', i > r.seen
                   PROVE  /\ updates'[i].kind = "event" /\ updates'[i].source \in listeners
                          /\ (\A j \in DOMAIN updates' : j > i => updates'[j].source # updates'[i].source)
                               => updates'[i].value = external'[updates'[i].source]
        BY <1>1 DEF NewsFit
      <4>1. CASE i = Len(updates) + 1
        BY <1>0, <1>3, <2>6, <3>2, <4>1
      <4>2. CASE i # Len(updates) + 1
        <5>1. i \in DOMAIN updates /\ updates'[i] = updates[i]
          BY <1>2, <3>2, <4>2
        <5>2. /\ updates[i].kind = "event" /\ updates[i].source \in listeners
              /\ (\A j \in DOMAIN updates : j > i => updates[j].source # updates[i].source)
                   => updates[i].value = external[updates[i].source]
          BY <2>1, <5>1 DEF NewsFit
        <5> SUFFICES ASSUME \A j \in DOMAIN updates' : j > i => updates'[j].source # updates[i].source
                     PROVE  updates[i].value = external'[updates[i].source]
          BY <5>1, <5>2
        <5>3. \A j \in DOMAIN updates : j \in DOMAIN updates' /\ updates'[j] = updates[j]
          BY <1>2, <3>2
        <5>4. \A j \in DOMAIN updates : j > i => updates[j].source # updates[i].source
          BY <5>3
        <5>5. Len(updates) + 1 \in DOMAIN updates' /\ Len(updates) + 1 > i
          BY <1>2, <3>2, <5>1
        <5>6. updates[i].source # s
          BY <1>0, <3>2, <5>5
        <5>7. external'[updates[i].source] = external[updates[i].source]
          BY <1>2, <1>3, <5>2, <5>6
        <5> QED
          BY <5>2, <5>4, <5>7
      <4> QED
        BY <4>1, <4>2
    <3>4. Behind(r)' = Append(Behind(r), u)
      <4> DEFINE b == r.seen
                 n == Len(updates)
                 m == Len(updates')
                 old == SubSeq(updates, b + 1, n)
                 new == SubSeq(updates', b + 1, m)
      <4>1. b \in 0 .. n /\ b \in 0 .. m /\ m = n + 1 /\ n \in Nat
        BY <1>2, <2>3, <3>2
      <4>2. /\ old \in Seq(UpdatesOf) /\ DOMAIN old = 1 .. (n - b)
            /\ \A k \in 1 .. (n - b) : old[k] = updates[b + k]
        BY <1>2, <4>1, WhatIsLeft
      <4>3. /\ new \in Seq(UpdatesOf) /\ DOMAIN new = 1 .. (m - b)
            /\ \A k \in 1 .. (m - b) : new[k] = updates'[b + k]
        BY <1>4, <4>1, WhatIsLeft
      <4>4. /\ \A k \in 1 .. (n - b) : b + k \in 1 .. n
            /\ updates'[n + 1] = u /\ \A i \in 1 .. n : updates'[i] = updates[i]
        BY <3>2, <4>1
      <4>5. Behind(r) = old /\ Behind(r)' = new
        BY DEF Behind
      <4> HIDE DEF b, n, m, old, new
      <4>6. Len(old) = n - b /\ Len(new) = n - b + 1 /\ n - b \in Nat
        BY <4>1, <4>2, <4>3
      <4>7. \A k \in 1 .. (n - b) : new[k] = old[k]
        <5> SUFFICES ASSUME NEW k \in 1 .. (n - b) PROVE new[k] = old[k]
          OBVIOUS
        <5>1. k \in 1 .. (m - b)
          BY <4>1
        <5> QED
          BY <4>2, <4>3, <4>4, <5>1
      <4>8. new[n - b + 1] = u
        <5>1. n - b + 1 \in 1 .. (m - b) /\ b + (n - b + 1) = n + 1
          BY <4>1
        <5> QED
          BY <4>3, <4>4, <5>1
      <4>9. new = Append(old, u)
        <5>1. Append(old, u) \in Seq(UpdatesOf) /\ Len(Append(old, u)) = n - b + 1
          BY <1>0, <4>2, <4>6
        <5>2. \A k \in 1 .. (n - b + 1) : new[k] = Append(old, u)[k]
          BY <1>0, <4>2, <4>6, <4>7, <4>8
        <5> QED
          BY <4>3, <4>6, <5>1, <5>2, SeqEqual
      <4> QED
        BY <4>5, <4>9
    <3>5. r.rest \o Behind(r)' = Append(r.rest \o Behind(r), u)
      <4> DEFINE rest == r.rest
                 old == Behind(r)
      <4>1. rest \in Seq(UpdatesOf) /\ old \in Seq(UpdatesOf) /\ <<u>> \in Seq(UpdatesOf)
        BY <1>0, <2>2, <2>4
      <4> HIDE DEF rest, old
      <4>2. Append(old, u) = old \o <<u>>
        BY <1>0, <4>1, AppendIsConcat
      <4>3. Append(rest \o old, u) = (rest \o old) \o <<u>>
        BY <1>0, <4>1, AppendIsConcat
      <4>4. rest \o (old \o <<u>>) = (rest \o old) \o <<u>>
        BY <4>1, ConcatAssociative
      <4> QED
        BY <3>4, <4>2, <4>3, <4>4 DEF rest, old
    <3>6. r.rest \o Behind(r) \in Seq(UpdatesOf)
      BY <2>2, <2>4
    <3>7. r.seen <= Len(updates')
      BY <1>2, <2>1, <2>2, <3>2
    <3> QED
      BY <1>10, <2>1, <2>2, <2>6, <3>3, <3>5, <3>6, <3>7
  <2> QED
    BY <2>5, <2>6
<1>13. RenderedFits'
  <2> SUFFICES ASSUME rendered # <<>> PROVE RenderedFits'
    BY <1>1 DEF RenderedFits
  <2> PICK r \in Trees : rendered = <<r>>
    BY DEF SubscriptionInv, SubscriptionTypeOK
  <2>1. rendered[1] = r /\ rendered'[1] = r
    BY <1>1
  <2>2. /\ r.rest = <<>> => r.base = r.state
        /\ ~switchedOver /\ r.state.source = NoSource /\ (life = "new" \/ shownState.source # NoSource)
             => r.state.value = 0
        /\ life = "new" => r.rest = <<>>
        /\ life = "mounted" /\ ~switchedOver /\ r.state.source = shownState.source =>
             r.base.source = shownState.source
    BY <2>1 DEF SubscriptionInv, RenderedFits
  <2>3. /\ r.seen <= Len(updates')
        /\ NewsFit(r)'
        /\ life = "mounted" /\ ~switchedOver /\ r.state.source = shownState.source =>
             UpToDate(r.base, r.rest \o Behind(r)', CurrentValue(shownState.source)')
    BY <1>12
  <2> QED
    BY <1>1, <2>1, <2>2, <2>3 DEF RenderedFits
<1> QED
  BY <1>5, <1>6, <1>11, <1>13 DEF SubscriptionInv

(* ... and every step keeps it.                                            *)
LEMMA SubscriptionKeepsFitting == SubscriptionInv /\ [SubscriptionNext]_subscriptionVars => SubscriptionInv'
<1> SUFFICES ASSUME SubscriptionInv, [SubscriptionNext]_subscriptionVars
             PROVE  SubscriptionInv'
  OBVIOUS
<1>1. ASSUME NEW s \in Sources \cup {NoSource}, NEW all \in BOOLEAN, RenderSubscription(s, all)
      PROVE  SubscriptionInv'
  BY <1>1, RenderFits DEF SourcesOrNone
<1>2. CASE ThrowAway
  <2>1. /\ rendered' = <<>>
        /\ UNCHANGED <<external, life, shownState, baseState, updates, listeners, switchedOver>>
    BY <1>2 DEF ThrowAway
  <2>2. SubscriptionTypeOK' /\ LifeFits'
    BY <2>1 DEF SubscriptionInv, SubscriptionTypeOK, LifeFits
  <2>3. ShownFits' /\ RenderedFits'
    BY <2>1 DEF SubscriptionInv, ShownFits, RenderedFits, CurrentValue
  <2> QED
    BY <2>2, <2>3 DEF SubscriptionInv
<1>3. CASE CommitSubscription
  BY <1>3, CommitFits
<1>4. CASE Unmount
  BY <1>4, UnmountFits
<1>5. ASSUME NEW s \in Sources, NEW v \in 1 .. MaxChanges, NEW urgent \in BOOLEAN, SourceChanges(s, v, urgent)
      PROVE  SubscriptionInv'
  BY <1>5, ChangeFits
<1>6. CASE UNCHANGED subscriptionVars
  BY <1>6 DEF subscriptionVars, SubscriptionInv, SubscriptionTypeOK, LifeFits, ShownFits, RenderedFits,
             NewsFit, Behind, CurrentValue
<1> QED
  BY <1>1, <1>2, <1>3, <1>4, <1>5, <1>6 DEF SubscriptionNext

LEMMA FittingIsShown == SubscriptionInv => ShowsItsSource
<1> SUFFICES ASSUME SubscriptionInv PROVE ShowsItsSource
  OBVIOUS
<1>1. life = "mounted" /\ updates = <<>> /\ ~switchedOver => shownState = FromSource(shownState.source)
  <2> SUFFICES ASSUME life = "mounted", updates = <<>>, ~switchedOver
               PROVE  shownState = FromSource(shownState.source)
    OBVIOUS
  <2>1. baseState = shownState /\ UpToDate(baseState, <<>>, CurrentValue(shownState.source))
    BY DEF SubscriptionInv, ShownFits
  <2>2. shownState.value = CurrentValue(shownState.source)
    BY <2>1, AppliedInFull
  <2> QED
    BY <2>2 DEF SubscriptionInv, SubscriptionTypeOK, States, FromSource
<1> QED
  BY <1>1 DEF SubscriptionInv, LifeFits, ShowsItsSource

(* The component of create-subscription listens to the source it shows and *)
(* to no other it could have left, shows its current value once nothing    *)
(* waits (unless the source changed in a render that left updates out),    *)
(* and is not updated after it is gone: however renders, commits and       *)
(* changes of the sources interleave.                                      *)
THEOREM SourceIsShown == SubscriptionSpec => []ShowsItsSource
  BY SubscriptionStarts, SubscriptionKeepsFitting, FittingIsShown, PTL DEF SubscriptionSpec

-----------------------------------------------------------------------------
(* The interactions of the code above the n-th call.                       *)
Under(n) == IF n = Len(running) THEN interactionsRef ELSE running[n + 1].prev

IsPending(i) == \E l \in TraceLevels : i \in pendingInteractionMap[l]
Performs(m) == running[m].kind \in {"render", "commit"}
IsWrapped(m) == running[m].kind = "wrapped"

Holds(m, i) ==
  \/ running[m].kind = "trace" /\ running[m].what = i
  \/ IsWrapped(m) /\ i \in wrapped[running[m].what].interactions
  \/ Performs(m) /\ IsPending(i)

Held(i, n) == \E m \in 1 .. n : Holds(m, i)

CountsFit ==
  /\ \A i \in Known : count[i] = Outstanding(i)
  /\ \A i \in Known : completed[i] = (IF count[i] = 0 THEN 1 ELSE 0)

CallsFit ==
  /\ \A m \in DOMAIN running : running[m].kind = "trace" => running[m].what \in Known
  /\ \A m \in DOMAIN running : IsWrapped(m) => running[m].what \in DOMAIN wrapped /\ ~wrapped[running[m].what].hasRun
  /\ \A m, n \in DOMAIN running : IsWrapped(m) /\ IsWrapped(n) /\ running[m].what = running[n].what => m = n
  /\ \A m, n \in DOMAIN running : Performs(m) /\ Performs(n) => m = n
  /\ Inside("commit") => rendering = 0

LevelsFit ==
  /\ rendering # 0 => \A i \in memoizedInteractions : IsPending(i)
  /\ \A l \in WorkLevels : work[l] \subseteq pendingInteractionMap[l]

InteractionsFit ==
  /\ Under(0) = {}
  /\ \A n \in DOMAIN running : running[n].kind # "again" => \A i \in Under(n) : Held(i, n)

TracingFits == TracingTypeOK /\ CountsFit /\ CallsFit /\ LevelsFit /\ InteractionsFit
-----------------------------------------------------------------------------
(* The three kinds of work that Outstanding counts.                        *)
Traces(i) == {n \in DOMAIN running : running[n].kind = "trace" /\ running[n].what = i}
Wraps(i) == {w \in DOMAIN wrapped : i \in wrapped[w].interactions /\ ~wrapped[w].hasRun}
LevelsWith(i) == {l \in TraceLevels : i \in pendingInteractionMap[l]}

LEMMA SeqDomain ==
  ASSUME NEW S, NEW s \in Seq(S)
  PROVE  /\ Len(s) \in Nat /\ DOMAIN s = 1 .. Len(s) /\ IsFiniteSet(DOMAIN s)
         /\ \A n \in DOMAIN s : s[n] \in S
BY FS_Interval

LEMMA FunctionsAreSeqs ==
  ASSUME NEW T, NEW n \in Nat, NEW f \in [1 .. n -> T]
  PROVE  f \in Seq(T) /\ Len(f) = n /\ DOMAIN f = 1 .. n
OBVIOUS

(* Outstanding: a sum of three natural numbers.                            *)
LEMMA OutstandingIsSum ==
  ASSUME TracingTypeOK, NEW i
  PROVE  /\ IsFiniteSet(Traces(i)) /\ IsFiniteSet(Wraps(i)) /\ IsFiniteSet(LevelsWith(i))
         /\ Cardinality(Traces(i)) \in Nat /\ Cardinality(Wraps(i)) \in Nat /\ Cardinality(LevelsWith(i)) \in Nat
         /\ Outstanding(i) = Cardinality(Traces(i)) + Cardinality(Wraps(i)) + Cardinality(LevelsWith(i))
<1>1. IsFiniteSet(DOMAIN running) /\ IsFiniteSet(DOMAIN wrapped) /\ IsFiniteSet(TraceLevels)
  BY SeqDomain, TraceLevelsAssumption DEF TracingTypeOK
<1>2. Traces(i) \in SUBSET DOMAIN running /\ Wraps(i) \in SUBSET DOMAIN wrapped /\ LevelsWith(i) \in SUBSET TraceLevels
  BY DEF Traces, Wraps, LevelsWith
<1>3. IsFiniteSet(Traces(i)) /\ IsFiniteSet(Wraps(i)) /\ IsFiniteSet(LevelsWith(i))
  BY <1>1, <1>2, FS_Subset
<1>4. Cardinality(Traces(i)) \in Nat /\ Cardinality(Wraps(i)) \in Nat /\ Cardinality(LevelsWith(i)) \in Nat
  BY <1>3, FS_CardinalityType
<1> QED
  BY <1>3, <1>4 DEF Outstanding, Traces, Wraps, LevelsWith

(* Held: a call that holds an interaction is work for it.                  *)
LEMMA HeldIsOutstanding ==
  ASSUME TracingTypeOK, CallsFit, NEW i, NEW n \in 0 .. Len(running), Held(i, n)
  PROVE  Outstanding(i) > 0
<1>1. PICK m \in 1 .. n : Holds(m, i)
  BY DEF Held
<1>2. m \in DOMAIN running
  BY SeqDomain DEF TracingTypeOK
<1>3. Traces(i) # {} \/ Wraps(i) # {} \/ LevelsWith(i) # {}
  <2>1. CASE running[m].kind = "trace" /\ running[m].what = i
    BY <2>1, <1>2 DEF Traces
  <2>2. CASE IsWrapped(m) /\ i \in wrapped[running[m].what].interactions
    BY <2>2, <1>2 DEF Wraps, CallsFit
  <2>3. CASE Performs(m) /\ IsPending(i)
    BY <2>3 DEF LevelsWith, IsPending
  <2> QED
    BY <1>1, <2>1, <2>2, <2>3 DEF Holds
<1>4. Cardinality(Traces(i)) # 0 \/ Cardinality(Wraps(i)) # 0 \/ Cardinality(LevelsWith(i)) # 0
  BY <1>3, OutstandingIsSum, FS_EmptySet
<1> QED
  BY <1>4, OutstandingIsSum

(* Enter, Leave: the calls below stay as they are, with what they run in.  *)
LEMMA EnterStack ==
  ASSUME TracingTypeOK, NEW kind, NEW what, NEW is, Enter(kind, what, is)
  PROVE  /\ Len(running) \in Nat /\ Len(running') = Len(running) + 1
         /\ DOMAIN running = 1 .. Len(running) /\ DOMAIN running' = 1 .. Len(running) + 1
         /\ \A n \in 1 .. Len(running) : running'[n] = running[n]
         /\ running'[Len(running) + 1] = [kind |-> kind, what |-> what, prev |-> interactionsRef]
         /\ \A n \in 0 .. Len(running) : Under(n)' = Under(n)
         /\ \A n \in Nat : n = Len(running) + 1 => Under(n)' = is
<1> DEFINE frame == [kind |-> kind, what |-> what, prev |-> interactionsRef]
<1>1. /\ Len(running) \in Nat /\ Len(running') = Len(running) + 1
      /\ DOMAIN running = 1 .. Len(running) /\ DOMAIN running' = 1 .. Len(running) + 1
      /\ \A n \in 1 .. Len(running) : running'[n] = running[n]
      /\ running'[Len(running) + 1] = frame
  <2>1. PICK S : running \in Seq(S)
    BY DEF TracingTypeOK
  <2>2. running \in Seq(S \cup {frame}) /\ frame \in S \cup {frame} /\ running' = Append(running, frame)
    BY <2>1 DEF Enter
  <2> HIDE DEF frame
  <2> QED
    BY <2>2, AppendProperties, SeqDomain
<1>2. \A n \in 0 .. Len(running) : Under(n)' = Under(n)
  <2> SUFFICES ASSUME NEW n \in 0 .. Len(running) PROVE Under(n)' = Under(n)
    OBVIOUS
  <2>1. CASE n = Len(running)
    BY <2>1, <1>1 DEF Under
  <2>2. CASE n # Len(running)
    <3>0. Len(running) \in Nat /\ Len(running') = Len(running) + 1
      BY ONLY <1>1
    <3>1. n + 1 \in 1 .. Len(running) /\ n # Len(running')
      BY ONLY <2>2, <3>0, n \in 0 .. Len(running)
    <3> QED
      BY <2>2, <3>1, <1>1 DEF Under
  <2> QED
    BY <2>1, <2>2
<1>3. \A n \in Nat : n = Len(running) + 1 => Under(n)' = is
  <2>1. interactionsRef' = is
    BY DEF Enter
  <2>2. Len(running') = Len(running) + 1
    BY ONLY <1>1
  <2> QED
    BY ONLY <2>1, <2>2 DEF Under
<1> QED
  BY <1>1, <1>2, <1>3

LEMMA LeaveStack ==
  ASSUME TracingTypeOK, running # <<>>, Leave
  PROVE  /\ Len(running) \in Nat \ {0} /\ Len(running') = Len(running) - 1
         /\ DOMAIN running = 1 .. Len(running) /\ DOMAIN running' = 1 .. Len(running) - 1
         /\ \A n \in 1 .. Len(running) - 1 : running'[n] = running[n]
         /\ \A n \in 0 .. Len(running) - 1 : Under(n)' = Under(n)
         /\ running' \in Seq([kind : CallKinds, what : Nat, prev : SUBSET Known])
         /\ interactionsRef' \subseteq Known
<1> DEFINE Frames == [kind : CallKinds, what : Nat, prev : SUBSET Known]
<1>1. running \in Seq(Frames) /\ running' = SubSeq(running, 1, Len(running) - 1)
  BY DEF TracingTypeOK, Leave, Front
<1>2. interactionsRef' = running[Len(running)].prev
  BY DEF Leave, Last
<1>3. Len(running) \in Nat \ {0} /\ running[Len(running)] \in Frames
  <2> HIDE DEF Frames
  <2>1. Len(running) \in Nat \ {0}
    BY <1>1, EmptySeq, SeqDomain
  <2> QED
    BY <1>1, <2>1, ElementOfSeq
<1>4. running' \in Seq(Frames) /\ Len(running') = Len(running) - 1 /\ DOMAIN running' = 1 .. Len(running) - 1
      /\ \A n \in 1 .. Len(running) - 1 : running'[n] = running[n]
  <2> HIDE DEF Frames
  <2> DEFINE k == Len(running) - 1
  <2>1. \A n \in 1 .. k : running[n] \in Frames
    BY <1>1, <1>3, SeqDomain
  <2>2. running' = [n \in 1 .. k |-> running[n]] /\ k \in Nat
    BY <1>1, <1>3 
  <2> HIDE DEF k
  <2>3. running' \in [1 .. k -> Frames]
    BY <2>1, <2>2
  <2>4. running' \in Seq(Frames) /\ Len(running') = k /\ DOMAIN running' = 1 .. k
    BY <2>2, <2>3
  <2> QED
    BY <2>2, <2>4 DEF k
<1>5. \A n \in 0 .. Len(running) - 1 : Under(n)' = Under(n)
  <2> SUFFICES ASSUME NEW n \in 0 .. Len(running) - 1 PROVE Under(n)' = Under(n)
    OBVIOUS
  <2>1. CASE n = Len(running) - 1
    BY <2>1, <1>2, <1>3, <1>4 DEF Under
  <2>2. CASE n # Len(running) - 1
    BY <2>2, <1>3, <1>4 DEF Under
  <2> QED
    BY <2>1, <2>2
<1>6. interactionsRef' \subseteq Known
  BY <1>2, <1>3
<1> QED
  BY <1>1, <1>3, <1>4, <1>5, <1>6, SeqDomain

(* Minus, Plus: sequences of integers as long as before.                   *)
LEMMA PlusMinus ==
  ASSUME NEW c \in Seq(Int), NEW is
  PROVE  /\ Plus(c, is) \in Seq(Int) /\ Len(Plus(c, is)) = Len(c) /\ DOMAIN Plus(c, is) = DOMAIN c
         /\ Minus(c, is) \in Seq(Int) /\ Len(Minus(c, is)) = Len(c) /\ DOMAIN Minus(c, is) = DOMAIN c
         /\ \A i \in DOMAIN c : Plus(c, is)[i] = (IF i \in is THEN c[i] + 1 ELSE c[i])
         /\ \A i \in DOMAIN c : Minus(c, is)[i] = (IF i \in is THEN c[i] - 1 ELSE c[i])
<1>1. Len(c) \in Nat /\ DOMAIN c = 1 .. Len(c) /\ \A i \in DOMAIN c : c[i] \in Int
  BY SeqDomain
<1>2. Plus(c, is) \in [1 .. Len(c) -> Int] /\ Minus(c, is) \in [1 .. Len(c) -> Int]
  BY <1>1 DEF Plus, Minus
<1>3. /\ \A i \in DOMAIN c : Plus(c, is)[i] = (IF i \in is THEN c[i] + 1 ELSE c[i])
      /\ \A i \in DOMAIN c : Minus(c, is)[i] = (IF i \in is THEN c[i] - 1 ELSE c[i])
  BY DEF Plus, Minus
<1>4. \A f \in [1 .. Len(c) -> Int] : f \in Seq(Int) /\ Len(f) = Len(c) /\ DOMAIN f = 1 .. Len(c)
  BY <1>1
<1> QED
  BY <1>1, <1>2, <1>3, <1>4

(* What the invariant says of the counts, when the work left for some      *)
(* interactions becomes one less.                                          *)
LEMMA FinishFits ==
  ASSUME TracingTypeOK, CountsFit, NEW is, is \subseteq Known, Finish(is),
         \A i \in Known : Outstanding(i) \in Nat /\ Outstanding(i)' \in Nat,
         \A i \in Known : Outstanding(i)' = IF i \in is THEN Outstanding(i) - 1 ELSE Outstanding(i)
  PROVE  /\ Known' = Known /\ count' \in Seq(Int) /\ completed' \in Seq(Int) /\ Len(completed') = Len(count')
         /\ CountsFit'
<1> DEFINE last == {i \in is : count[i] = 1}
<1>1. count' = Minus(count, is) /\ completed' = Plus(completed, last)
  BY DEF Finish
<1>2. count \in Seq(Int) /\ completed \in Seq(Int) /\ Len(completed) = Len(count) /\ DOMAIN completed = DOMAIN count
  BY SeqDomain DEF TracingTypeOK
<1>3. /\ Known' = Known /\ count' \in Seq(Int) /\ completed' \in Seq(Int) /\ Len(completed') = Len(count')
      /\ \A i \in Known : count'[i] = IF i \in is THEN count[i] - 1 ELSE count[i]
      /\ \A i \in Known : completed'[i] = IF i \in last THEN completed[i] + 1 ELSE completed[i]
  <2> HIDE DEF last
  <2>1. /\ count' \in Seq(Int) /\ Len(count') = Len(count) /\ DOMAIN count' = DOMAIN count
        /\ \A i \in DOMAIN count : count'[i] = IF i \in is THEN count[i] - 1 ELSE count[i]
    <3>1. count \in Seq(Int)
      BY <1>2
    <3> QED
      BY <1>1, <3>1, PlusMinus
  <2>2. /\ completed' \in Seq(Int) /\ Len(completed') = Len(completed)
        /\ \A i \in DOMAIN completed : completed'[i] = IF i \in last THEN completed[i] + 1 ELSE completed[i]
    <3>1. completed \in Seq(Int)
      BY <1>2
    <3> QED
      BY <1>1, <3>1, PlusMinus
  <2> QED
    BY <1>2, <2>1, <2>2 DEF Known
<1>4. ASSUME NEW i \in Known
      PROVE  count'[i] = Outstanding(i)' /\ completed'[i] = (IF count'[i] = 0 THEN 1 ELSE 0)
  <2>1. count[i] = Outstanding(i) /\ completed[i] = (IF count[i] = 0 THEN 1 ELSE 0)
    BY DEF CountsFit
  <2>2. count'[i] = Outstanding(i)'
    BY <1>3, <2>1
  <2>3. count[i] \in Nat /\ count'[i] \in Nat
    BY <2>1, <2>2
  <2> QED
    BY <1>3, <2>1, <2>2, <2>3
<1> QED
  BY <1>3, <1>4 DEF CountsFit

(* The same, when no work begins or ends.                                  *)
LEMMA CountsStay ==
  ASSUME CountsFit, UNCHANGED <<count, completed>>,
         \A i \in Known : Outstanding(i)' = Outstanding(i)
  PROVE  CountsFit'
<1>1. Known' = Known
  BY DEF Known
<1>2. \A i \in Known : count'[i] = Outstanding(i)' /\ completed'[i] = (IF count'[i] = 0 THEN 1 ELSE 0)
  BY DEF CountsFit
<1> QED
  BY <1>1, <1>2 DEF CountsFit

(* Code that does not run under dead interactions: they are all held.      *)
LEMMA InteractionsAreHeld ==
  ASSUME TracingTypeOK, InteractionsFit, ~Innermost("again"), NEW i \in interactionsRef
  PROVE  Held(i, Len(running))
<1>1. Len(running) \in Nat /\ DOMAIN running = 1 .. Len(running)
  BY SeqDomain DEF TracingTypeOK
<1>2. Under(Len(running)) = interactionsRef
  BY DEF Under
<1>3. Len(running) # 0 /\ running # <<>>
  BY <1>1, <1>2 DEF InteractionsFit
<1>4. running[Len(running)].kind # "again"
  BY <1>3 DEF Innermost, Last
<1> QED
  BY <1>1, <1>2, <1>3, <1>4 DEF InteractionsFit

LEMMA FitsAfterEnter ==
  ASSUME TracingTypeOK, InteractionsFit, NEW kind, NEW what, NEW is, Enter(kind, what, is),
         \A m \in 1 .. Len(running) : \A i : Holds(m, i) => Holds(m, i)',
         kind # "again" => \A i \in is : \E m \in 1 .. Len(running) + 1 : Holds(m, i)'
  PROVE  InteractionsFit'
<1> DEFINE k == Len(running)
<1>1. /\ k \in Nat /\ DOMAIN running = 1 .. k /\ DOMAIN running' = 1 .. k + 1
      /\ \A n \in 1 .. k : running'[n] = running[n]
      /\ running'[k + 1].kind = kind
      /\ \A n \in 0 .. k : Under(n)' = Under(n)
      /\ \A n \in Nat : n = k + 1 => Under(n)' = is
  <2>1. running'[k + 1] = [kind |-> kind, what |-> what, prev |-> interactionsRef]
    BY EnterStack
  <2>2. running'[k + 1].kind = kind
    BY <2>1
  <2> QED
    BY <2>2, EnterStack
<1> HIDE DEF k
<1>2. Under(0)' = {}
  BY <1>1 DEF InteractionsFit
<1>3. ASSUME NEW n \in 1 .. k + 1, running'[n].kind # "again", NEW i, i \in Under(n)'
      PROVE  Held(i, n)'
  <2>1. CASE n = k + 1
    BY <2>1, <1>1, <1>3 DEF Held, k
  <2>2. CASE n # k + 1
    <3>1. n \in 1 .. k
      BY <2>2, <1>1
    <3>2. Held(i, n)
      BY <3>1, <1>1, <1>3 DEF InteractionsFit
    <3> QED
      BY <3>1, <3>2, <1>1 DEF Held, k
  <2> QED
    BY <2>1, <2>2
<1> QED
  BY <1>1, <1>2, <1>3 DEF InteractionsFit

LEMMA FitsAfterLeave ==
  ASSUME TracingTypeOK, InteractionsFit, running # <<>>, Leave,
         \A m \in 1 .. Len(running) - 1 : \A i : Holds(m, i) => Holds(m, i)'
  PROVE  InteractionsFit'
<1> DEFINE k == Len(running) - 1
<1>1. /\ k \in Nat /\ DOMAIN running = 1 .. k + 1 /\ DOMAIN running' = 1 .. k
      /\ \A n \in 1 .. k : running'[n] = running[n]
      /\ \A n \in 0 .. k : Under(n)' = Under(n)
  BY LeaveStack
<1> HIDE DEF k
<1>2. Under(0)' = {}
  BY <1>1 DEF InteractionsFit
<1>3. ASSUME NEW n \in 1 .. k, running'[n].kind # "again", NEW i, i \in Under(n)'
      PROVE  Held(i, n)'
  <2>1. Held(i, n)
    BY <1>1, <1>3 DEF InteractionsFit
  <2> QED
    BY <2>1, <1>1 DEF Held, k
<1> QED
  BY <1>1, <1>2, <1>3 DEF InteractionsFit

LEMMA FitsInPlace ==
  ASSUME TracingTypeOK, InteractionsFit, UNCHANGED <<running, interactionsRef>>,
         \A m \in 1 .. Len(running) : \A i : Holds(m, i) => Holds(m, i)'
  PROVE  InteractionsFit'
<1>1. Len(running) \in Nat /\ DOMAIN running = 1 .. Len(running)
  BY SeqDomain DEF TracingTypeOK
<1>2. \A n : Under(n)' = Under(n)
  BY DEF Under
<1>3. ASSUME NEW n \in DOMAIN running, NEW i, Held(i, n)
      PROVE  Held(i, n)'
  BY <1>1, <1>3 DEF Held
<1> QED
  BY <1>2, <1>3 DEF InteractionsFit
-----------------------------------------------------------------------------
Functions == [interactions : SUBSET Known, hasRun : BOOLEAN]
Calls == [kind : CallKinds, what : Nat, prev : SUBSET Known]

LEMMA SeqOfMore ==
  ASSUME NEW S, NEW T, S \subseteq T, NEW s \in Seq(S)
  PROVE  s \in Seq(T)
OBVIOUS

LEMMA AppendTyped ==
  ASSUME NEW S, NEW s \in Seq(S), NEW x \in S
  PROVE  Append(s, x) \in Seq(S)
OBVIOUS

LEMMA FunctionsTyped ==
  ASSUME TracingTypeOK
  PROVE  /\ Len(wrapped) \in Nat /\ DOMAIN wrapped = 1 .. Len(wrapped)
         /\ \A w \in DOMAIN wrapped : wrapped[w] \in Functions /\ wrapped[w].interactions \subseteq Known
<1>1. wrapped \in Seq(Functions)
  BY DEF TracingTypeOK, Functions
<1>2. /\ Len(wrapped) \in Nat /\ DOMAIN wrapped = 1 .. Len(wrapped)
      /\ \A w \in DOMAIN wrapped : wrapped[w] \in Functions
  BY <1>1, SeqDomain
<1>3. \A f \in Functions : f.interactions \subseteq Known
  BY DEF Functions
<1> QED
  BY <1>2, <1>3

(* The sum stays when its sets do.                                         *)
LEMMA OutstandingStays ==
  ASSUME NEW i, Traces(i)' = Traces(i), Wraps(i)' = Wraps(i), LevelsWith(i)' = LevelsWith(i)
  PROVE  Outstanding(i)' = Outstanding(i)
BY DEF Outstanding, Traces, Wraps, LevelsWith

(* A call of any kind but trace leaves the counted calls as they are.      *)
LEMMA EnterKeepsTraces ==
  ASSUME TracingTypeOK, NEW kind, NEW what, NEW is, Enter(kind, what, is), NEW i, kind # "trace" \/ what # i
  PROVE  Traces(i)' = Traces(i)
<1> DEFINE k == Len(running)
<1>1. /\ k \in Nat /\ DOMAIN running = 1 .. k /\ DOMAIN running' = 1 .. k + 1
      /\ \A n \in 1 .. k : running'[n] = running[n]
      /\ running'[k + 1] = [kind |-> kind, what |-> what, prev |-> interactionsRef]
  BY EnterStack
<1>2. running'[k + 1].kind = kind /\ running'[k + 1].what = what
  BY <1>1
<1> HIDE DEF k
<1>3. ASSUME NEW n PROVE n \in Traces(i)' <=> n \in Traces(i)
  <2>1. CASE n \in 1 .. k
    BY <2>1, <1>1 DEF Traces
  <2>2. CASE n = k + 1
    BY <2>2, <1>1, <1>2 DEF Traces
  <2>3. CASE n \notin 1 .. k + 1
    BY <2>3, <1>1 DEF Traces
  <2> QED
    BY <1>1, <2>1, <2>2, <2>3
<1> QED
  BY <1>3

LEMMA LeaveKeepsTraces ==
  ASSUME TracingTypeOK, running # <<>>, Leave, NEW i, Last(running).kind # "trace" \/ Last(running).what # i
  PROVE  Traces(i)' = Traces(i)
<1> DEFINE k == Len(running) - 1
<1>1. /\ k \in Nat /\ DOMAIN running = 1 .. k + 1 /\ DOMAIN running' = 1 .. k
      /\ \A n \in 1 .. k : running'[n] = running[n]
  BY LeaveStack
<1>2. running[k + 1].kind # "trace" \/ running[k + 1].what # i
  BY <1>1 DEF Last
<1> HIDE DEF k
<1>3. ASSUME NEW n PROVE n \in Traces(i)' <=> n \in Traces(i)
  <2>1. CASE n \in 1 .. k
    BY <2>1, <1>1 DEF Traces
  <2>2. CASE n = k + 1
    BY <2>2, <1>1, <1>2 DEF Traces
  <2>3. CASE n \notin 1 .. k + 1
    BY <2>3, <1>1 DEF Traces
  <2> QED
    BY <1>1, <2>1, <2>2, <2>3
<1> QED
  BY <1>3

(* Enter, Leave: the types of the stack.                                   *)
LEMMA EnterTyped ==
  ASSUME TracingTypeOK, Known \subseteq Known', NEW kind \in CallKinds, NEW what \in Nat, NEW is, is \subseteq Known',
         Enter(kind, what, is)
  PROVE  running' \in Seq([kind : CallKinds, what : Nat, prev : SUBSET Known']) /\ interactionsRef' \subseteq Known'
<1> DEFINE frame == [kind |-> kind, what |-> what, prev |-> interactionsRef]
           Calls1 == [kind : CallKinds, what : Nat, prev : SUBSET Known']
<1>1. running \in Seq(Calls) /\ running' = Append(running, frame) /\ interactionsRef' = is
  BY DEF TracingTypeOK, Calls, Enter
<1>2. Calls \subseteq Calls1
  BY DEF Calls
<1>3. frame \in Calls1
  BY DEF TracingTypeOK
<1> HIDE DEF frame
<1>4. running' \in Seq(Calls1)
  <2> HIDE DEF Calls1
  <2>1. running \in Seq(Calls1)
    BY <1>1, <1>2, SeqOfMore
  <2> QED
    BY <1>1, <1>3, <2>1, AppendTyped
<1> QED
  BY <1>1, <1>4

(* Enter, Leave: what the calls are about.                                 *)
LEMMA CallsFitAfterEnter ==
  ASSUME TracingTypeOK, CallsFit, NEW kind, NEW what, NEW is, Enter(kind, what, is),
         wrapped' = wrapped, Known \subseteq Known',
         kind = "trace" => what \in Known',
         kind = "wrapped" => /\ what \in DOMAIN wrapped /\ ~wrapped[what].hasRun
                             /\ \A m \in DOMAIN running : IsWrapped(m) => running[m].what # what,
         kind \in {"render", "commit"} => \A m \in DOMAIN running : ~Performs(m),
         rendering' = 0 \/ ~Inside("commit")'
  PROVE  CallsFit'
<1> DEFINE k == Len(running)
<1>1. /\ k \in Nat /\ DOMAIN running = 1 .. k /\ DOMAIN running' = 1 .. k + 1
      /\ \A n \in 1 .. k : running'[n] = running[n]
      /\ running'[k + 1] = [kind |-> kind, what |-> what, prev |-> interactionsRef]
  BY EnterStack
<1>2. running'[k + 1].kind = kind /\ running'[k + 1].what = what
  BY <1>1
<1> HIDE DEF k
<1>3. \A m \in DOMAIN running' : m \in DOMAIN running \/ m = k + 1
  BY <1>1
<1>4. \A m \in DOMAIN running : /\ m \in DOMAIN running' /\ running'[m] = running[m]
                                /\ (IsWrapped(m)' <=> IsWrapped(m)) /\ (Performs(m)' <=> Performs(m))
  BY <1>1 DEF IsWrapped, Performs
<1>5. \A m \in DOMAIN running' : m = k + 1 => (IsWrapped(m)' <=> kind = "wrapped") /\ (Performs(m)' <=> kind \in {"render", "commit"})
  BY <1>2 DEF IsWrapped, Performs
<1>6. \A m \in DOMAIN running' : running'[m].kind = "trace" => running'[m].what \in Known'
  BY <1>2, <1>3, <1>4 DEF CallsFit
<1>7. \A m \in DOMAIN running' : IsWrapped(m)' => running'[m].what \in DOMAIN wrapped' /\ ~wrapped'[running'[m].what].hasRun
  BY <1>2, <1>3, <1>4, <1>5 DEF CallsFit
<1>8. \A m, n \in DOMAIN running' : IsWrapped(m)' /\ IsWrapped(n)' /\ running'[m].what = running'[n].what => m = n
  BY <1>2, <1>3, <1>4, <1>5 DEF CallsFit
<1>9. \A m, n \in DOMAIN running' : Performs(m)' /\ Performs(n)' => m = n
  BY <1>3, <1>4, <1>5 DEF CallsFit
<1> QED
  BY <1>6, <1>7, <1>8, <1>9 DEF CallsFit

LEMMA CallsFitAfterLeave ==
  ASSUME TracingTypeOK, CallsFit, running # <<>>, Leave, Known' = Known, rendering' = rendering,
         DOMAIN wrapped' = DOMAIN wrapped,
         \A m \in 1 .. Len(running) - 1 : IsWrapped(m) => wrapped'[running[m].what] = wrapped[running[m].what]
  PROVE  CallsFit'
<1> DEFINE k == Len(running) - 1
<1>1. /\ k \in Nat /\ DOMAIN running = 1 .. k + 1 /\ DOMAIN running' = 1 .. k
      /\ \A n \in 1 .. k : running'[n] = running[n]
  BY LeaveStack
<1> HIDE DEF k
<1>2. \A m \in DOMAIN running' : /\ m \in DOMAIN running /\ running'[m] = running[m]
                                 /\ (IsWrapped(m)' <=> IsWrapped(m)) /\ (Performs(m)' <=> Performs(m))
  BY <1>1 DEF IsWrapped, Performs
<1>3. \A m \in DOMAIN running' : IsWrapped(m)' => running'[m].what \in DOMAIN wrapped' /\ ~wrapped'[running'[m].what].hasRun
  BY <1>1, <1>2 DEF CallsFit, k
<1>4. Inside("commit")' => Inside("commit")
  BY <1>2 DEF Inside
<1> QED
  BY <1>2, <1>3, <1>4 DEF CallsFit

(* The types, when no interaction is new.                                  *)
LEMMA TypedAfterLeave ==
  ASSUME TracingTypeOK, running # <<>>, Leave, Known' = Known,
         count' \in Seq(Int), completed' \in Seq(Int), Len(completed') = Len(count'),
         wrapped' \in Seq(Functions), pendingInteractionMap' \in [TraceLevels -> SUBSET Known],
         UNCHANGED <<memoizedInteractions, work, rendering, scheduled>>
  PROVE  TracingTypeOK'
<1>1. running' \in Seq([kind : CallKinds, what : Nat, prev : SUBSET Known]) /\ interactionsRef' \subseteq Known
  BY LeaveStack
<1> QED
  BY <1>1 DEF TracingTypeOK, Functions, WorkLevels

LEMMA TypedAfterEnter ==
  ASSUME TracingTypeOK, UNCHANGED <<count, wrapped, pendingInteractionMap, scheduled, completed>>,
         NEW kind \in CallKinds, NEW what \in Nat, NEW is, is \subseteq Known, Enter(kind, what, is),
         memoizedInteractions' \subseteq Known, rendering' \in TraceLevels \cup {0},
         WorkLevels' \subseteq TraceLevels, work' \in [WorkLevels' -> SUBSET Known]
  PROVE  TracingTypeOK'
<1>1. Known' = Known
  BY DEF Known
<1>2. running' \in Seq([kind : CallKinds, what : Nat, prev : SUBSET Known']) /\ interactionsRef' \subseteq Known'
  BY <1>1, EnterTyped
<1> QED
  BY <1>1, <1>2 DEF TracingTypeOK

(* Trace: a new interaction, which its own call holds.                     *)
LEMMA TraceKeepsInvariant ==
  ASSUME TracingFits, Trace
  PROVE  TracingFits'
<1> USE DEF TracingFits
<1> DEFINE k == Len(running)
<1>0. /\ count \in Seq(Int) /\ completed \in Seq(Int) /\ Len(completed) = Len(count) /\ Len(count) \in Nat
      /\ Known = 1 .. Len(count) /\ DOMAIN completed = 1 .. Len(count)
  BY SeqDomain DEF TracingTypeOK, Known
<1> PICK new \in Nat : new = Len(count) + 1
  BY <1>0
<1>1. /\ count' = Append(count, 1) /\ completed' = Append(completed, 0) /\ ~Innermost("again")
      /\ Enter("trace", new, interactionsRef \cup {new})
      /\ UNCHANGED <<wrapped, pendingInteractionMap, memoizedInteractions, work, rendering, scheduled>>
  BY DEF Trace
<1>2. /\ count' \in Seq(Int) /\ completed' \in Seq(Int) /\ Len(completed') = Len(count')
      /\ Known' = Known \cup {new} /\ new \notin Known /\ new \in Nat
      /\ \A i \in Known : count'[i] = count[i] /\ completed'[i] = completed[i]
      /\ count'[new] = 1 /\ completed'[new] = 0
  BY <1>0, <1>1, AppendProperties DEF Known
<1>3. TracingTypeOK'
  <2>1. interactionsRef' \subseteq Known' /\ memoizedInteractions' \subseteq Known'
    BY <1>1, <1>2 DEF TracingTypeOK, Enter
  <2>2. wrapped' \in Seq([interactions : SUBSET Known', hasRun : BOOLEAN])
    <3>1. Functions \subseteq [interactions : SUBSET Known', hasRun : BOOLEAN]
      BY <1>2 DEF Functions
    <3>2. wrapped' \in Seq(Functions)
      BY <1>1 DEF TracingTypeOK, Functions
    <3> QED
      BY <3>1, <3>2, SeqOfMore
  <2>3. running' \in Seq([kind : CallKinds, what : Nat, prev : SUBSET Known'])
    <3>1. Known \subseteq Known' /\ interactionsRef \cup {new} \subseteq Known' /\ "trace" \in CallKinds
      BY <1>2 DEF TracingTypeOK, CallKinds
    <3> QED
      BY <1>1, <1>2, <3>1, EnterTyped
  <2>4. pendingInteractionMap' \in [TraceLevels -> SUBSET Known'] /\ work' \in [WorkLevels' -> SUBSET Known']
        /\ WorkLevels' \subseteq TraceLevels /\ rendering' \in TraceLevels \cup {0} /\ scheduled' \in Nat
    BY <1>1, <1>2 DEF TracingTypeOK, WorkLevels
  <2> QED
    BY <1>2, <2>1, <2>2, <2>3, <2>4 DEF TracingTypeOK
<1>4. /\ k \in Nat /\ DOMAIN running = 1 .. k /\ DOMAIN running' = 1 .. k + 1
      /\ \A n \in 1 .. k : running'[n] = running[n]
      /\ running'[k + 1].kind = "trace" /\ running'[k + 1].what = new
  <2>1. running'[k + 1] = [kind |-> "trace", what |-> new, prev |-> interactionsRef]
    BY <1>1, EnterStack
  <2>2. running'[k + 1].kind = "trace" /\ running'[k + 1].what = new
    BY <2>1
  <2> QED
    BY <1>1, <2>2, EnterStack
<1> HIDE DEF k
<1>5. \A i : Wraps(i)' = Wraps(i) /\ LevelsWith(i)' = LevelsWith(i)
  BY <1>1 DEF Wraps, LevelsWith
<1>6. CountsFit'
  <2>1. ASSUME NEW i \in Known
        PROVE  count'[i] = Outstanding(i)' /\ completed'[i] = (IF count'[i] = 0 THEN 1 ELSE 0)
    <3>1. Traces(i)' = Traces(i)
      BY <1>1, <1>2, EnterKeepsTraces
    <3> QED
      BY <3>1, <1>2, <1>5, OutstandingStays DEF CountsFit
  <2>2. Traces(new)' = {k + 1} /\ Wraps(new)' = {} /\ LevelsWith(new)' = {}
    <3>1. \A n \in 1 .. k : running[n].kind = "trace" => running[n].what \in Known
      BY <1>4 DEF CallsFit
    <3>2. Traces(new)' = {k + 1}
      <4>1. ASSUME NEW n PROVE n \in Traces(new)' <=> n = k + 1
        <5>1. CASE n \in 1 .. k
          BY <5>1, <1>4, <1>2, <3>1 DEF Traces
        <5>2. CASE n = k + 1
          BY <5>2, <1>4 DEF Traces
        <5>3. CASE n \notin 1 .. k + 1
          BY <5>3, <1>4 DEF Traces
        <5> QED
          BY <1>4, <5>1, <5>2, <5>3
      <4> QED
        BY <4>1
    <3>3. \A w \in DOMAIN wrapped : wrapped[w].interactions \subseteq Known
      BY FunctionsTyped
    <3>4. Wraps(new) = {} /\ LevelsWith(new) = {}
      BY <1>2, <3>3 DEF Wraps, LevelsWith, TracingTypeOK
    <3> QED
      BY <3>2, <3>4, <1>5
  <2>3. Outstanding(new)' = 1
    <3>1. Outstanding(new)' = Cardinality({k + 1}) + Cardinality({}) + Cardinality({})
      BY <2>2 DEF Outstanding, Traces, Wraps, LevelsWith
    <3> QED
      <4>1. Cardinality({k + 1}) = 1
        BY FS_Singleton, Zenon
      <4>2. Cardinality({}) = 0
        BY FS_EmptySet, Zenon
      <4> QED
        BY <3>1, <4>1, <4>2
  <2> QED
    BY <1>2, <2>1, <2>3 DEF CountsFit
<1>7. CallsFit'
  <2>1. Inside("commit")' => Inside("commit")
    BY <1>4 DEF Inside
  <2>2. rendering' = 0 \/ ~Inside("commit")'
    BY <2>1, <1>1 DEF CallsFit
  <2> QED
    BY <2>2, <1>1, <1>2, CallsFitAfterEnter
<1>8. LevelsFit'
  BY <1>1 DEF LevelsFit, IsPending, WorkLevels
<1>9. InteractionsFit'
  <2>1. \A m \in 1 .. k : \A i : Holds(m, i) => Holds(m, i)'
    BY <1>1, <1>4 DEF Holds, IsWrapped, Performs, IsPending
  <2>2. ASSUME NEW i \in interactionsRef \cup {new}
        PROVE  \E m \in 1 .. k + 1 : Holds(m, i)'
    <3>1. CASE i = new
      BY <3>1, <1>4 DEF Holds
    <3>2. CASE i \in interactionsRef
      BY <3>2, <1>1, <1>4, <2>1, InteractionsAreHeld DEF Held, k
    <3> QED
      BY <3>1, <3>2
  <2> QED
    BY <2>1, <2>2, <1>1, FitsAfterEnter DEF k
<1> QED
  BY <1>3, <1>6, <1>7, <1>8, <1>9

(* The end of a trace: one call less for its interaction.                  *)
LEMMA TraceEndKeepsInvariant ==
  ASSUME TracingFits, TraceEnd
  PROVE  TracingFits'
<1> USE DEF TracingFits
<1>1. /\ running # <<>> /\ Leave /\ Last(running).kind = "trace"
      /\ Finish({Last(running).what})
      /\ UNCHANGED <<wrapped, pendingInteractionMap, memoizedInteractions, work, rendering, scheduled>>
  BY DEF TraceEnd, Innermost
<1> PICK k : k = Len(running)
  OBVIOUS
<1>2. /\ k \in Nat \ {0} /\ DOMAIN running = 1 .. k /\ DOMAIN running' = 1 .. k - 1
      /\ \A n \in 1 .. k - 1 : running'[n] = running[n]
  BY <1>1, LeaveStack
<1>3. running[k].kind = "trace"
  BY <1>1 DEF Last
<1> PICK done : done = running[k].what
  OBVIOUS
<1>4. done = Last(running).what /\ done \in Known
  BY <1>2, <1>3 DEF Last, CallsFit
<1>5. ASSUME NEW i \in Known
      PROVE  /\ Outstanding(i) \in Nat /\ Outstanding(i)' \in Nat
             /\ Outstanding(i)' = IF i \in {done} THEN Outstanding(i) - 1 ELSE Outstanding(i)
  <2>1. Wraps(i)' = Wraps(i) /\ LevelsWith(i)' = LevelsWith(i)
    BY <1>1 DEF Wraps, LevelsWith
  <2>2. Outstanding(i) \in Nat
    BY OutstandingIsSum
  <2>3. CASE i # done
    <3>1. Traces(i)' = Traces(i)
      BY <2>3, <1>1, <1>4, LeaveKeepsTraces
    <3> QED
      BY <2>1, <2>2, <2>3, <3>1, OutstandingStays
  <2>4. CASE i = done
    <3>1. Traces(i)' = Traces(i) \ {k} /\ k \in Traces(i)
      <4>1. ASSUME NEW n PROVE n \in Traces(i)' <=> n \in Traces(i) /\ n # k
        <5>1. CASE n \in 1 .. k - 1
          BY <5>1, <1>2 DEF Traces
        <5>2. CASE n \notin 1 .. k - 1
          BY <5>2, <1>2 DEF Traces
        <5> QED
          BY <5>1, <5>2
      <4> QED
        BY <2>4, <4>1, <1>2, <1>3 DEF Traces
    <3>2. Cardinality(Traces(i)') = Cardinality(Traces(i)) - 1
      BY <3>1, OutstandingIsSum, FS_RemoveElement
    <3>3. Outstanding(i)' = Cardinality(Traces(i)') + Cardinality(Wraps(i)) + Cardinality(LevelsWith(i))
      BY <2>1 DEF Outstanding, Traces, Wraps, LevelsWith
    <3>4. Traces(i) # {} /\ Cardinality(Traces(i)) # 0
      BY <3>1, OutstandingIsSum, FS_EmptySet
    <3> QED
      BY <2>4, <3>2, <3>3, <3>4, OutstandingIsSum
  <2> QED
    BY <2>3, <2>4
<1>6. /\ Known' = Known /\ count' \in Seq(Int) /\ completed' \in Seq(Int) /\ Len(completed') = Len(count')
      /\ CountsFit'
  <2>1. {done} \subseteq Known /\ Finish({done})
    BY <1>1, <1>4
  <2> QED
    BY <2>1, <1>5, FinishFits
<1>7. TracingTypeOK'
  <2>1. wrapped' \in Seq(Functions) /\ pendingInteractionMap' \in [TraceLevels -> SUBSET Known]
    BY <1>1 DEF TracingTypeOK, Functions
  <2> QED
    BY <1>1, <1>6, <2>1, TypedAfterLeave
<1>8. CallsFit'
  BY <1>1, <1>6, CallsFitAfterLeave
<1>9. LevelsFit'
  BY <1>1 DEF LevelsFit, IsPending, WorkLevels
<1>10. InteractionsFit'
  <2>1. \A m \in 1 .. k - 1 : \A i : Holds(m, i) => Holds(m, i)'
    BY <1>1, <1>2 DEF Holds, IsWrapped, Performs, IsPending
  <2> QED
    BY <2>1, <1>1, FitsAfterLeave
<1> QED
  BY <1>6, <1>7, <1>8, <1>9, <1>10

(* Wrap: the new function is work for all interactions it is made in.      *)
LEMMA WrapKeepsInvariant ==
  ASSUME TracingFits, Wrap
  PROVE  TracingFits'
<1> USE DEF TracingFits
<1>1. /\ ~Innermost("again")
      /\ wrapped' = Append(wrapped, [interactions |-> interactionsRef, hasRun |-> FALSE])
      /\ count' = Plus(count, interactionsRef)
      /\ UNCHANGED <<interactionsRef, running, pendingInteractionMap, memoizedInteractions, work,
                     rendering, scheduled, completed>>
  BY DEF Wrap
<1> PICK w : w = Len(wrapped) + 1
  OBVIOUS
<1>2. /\ w \in Nat /\ DOMAIN wrapped = 1 .. w - 1 /\ DOMAIN wrapped' = 1 .. w
      /\ \A v \in 1 .. w - 1 : wrapped'[v] = wrapped[v]
      /\ wrapped'[w].interactions = interactionsRef /\ ~wrapped'[w].hasRun
      /\ wrapped' \in Seq(Functions)
  <2> DEFINE new == [interactions |-> interactionsRef, hasRun |-> FALSE]
  <2>1. wrapped \in Seq(Functions) /\ new \in Functions
    BY DEF TracingTypeOK, Functions
  <2>2. new.interactions = interactionsRef /\ new.hasRun = FALSE
    OBVIOUS
  <2>3. wrapped' = Append(wrapped, new)
    BY <1>1
  <2> HIDE DEF new
  <2>4. /\ wrapped' \in Seq(Functions) /\ Len(wrapped') = w /\ w \in Nat
        /\ \A v \in 1 .. w - 1 : wrapped'[v] = wrapped[v]
        /\ wrapped'[w] = new
    BY <2>1, <2>3, AppendProperties, SeqDomain
  <2> QED
    BY <2>2, <2>4, SeqDomain, FunctionsTyped
<1>3. /\ Known' = Known /\ count' \in Seq(Int) /\ Len(count') = Len(count)
      /\ \A i \in Known : count'[i] = IF i \in interactionsRef THEN count[i] + 1 ELSE count[i]
  BY <1>1, PlusMinus DEF Known, TracingTypeOK
<1>4. TracingTypeOK'
  BY <1>1, <1>2, <1>3 DEF TracingTypeOK, WorkLevels, Functions
<1>5. ASSUME NEW i \in Known
      PROVE  Outstanding(i)' = IF i \in interactionsRef THEN Outstanding(i) + 1 ELSE Outstanding(i)
  <2>1. Traces(i)' = Traces(i) /\ LevelsWith(i)' = LevelsWith(i)
    BY <1>1 DEF Traces, LevelsWith
  <2>2. Wraps(i)' = IF i \in interactionsRef THEN Wraps(i) \cup {w} ELSE Wraps(i)
    <3>1. ASSUME NEW v PROVE v \in Wraps(i)' <=> v \in Wraps(i) \/ (v = w /\ i \in interactionsRef)
      <4>1. CASE v \in 1 .. w - 1
        BY <4>1, <1>2 DEF Wraps
      <4>2. CASE v = w
        BY <4>2, <1>2 DEF Wraps
      <4>3. CASE v \notin 1 .. w
        BY <4>3, <1>2 DEF Wraps
      <4> QED
        BY <1>2, <4>1, <4>2, <4>3
    <3> QED
      BY <3>1
  <2>3. w \notin Wraps(i)
    BY <1>2 DEF Wraps
  <2>4. Cardinality(Wraps(i)') = IF i \in interactionsRef THEN Cardinality(Wraps(i)) + 1 ELSE Cardinality(Wraps(i))
    BY <2>2, <2>3, OutstandingIsSum, FS_AddElement
  <2>5. Outstanding(i)' = Cardinality(Traces(i)) + Cardinality(Wraps(i)') + Cardinality(LevelsWith(i))
    BY <2>1 DEF Outstanding, Traces, Wraps, LevelsWith
  <2> QED
    BY <2>4, <2>5, OutstandingIsSum
<1>6. CountsFit'
  <2>1. ASSUME NEW i \in Known
        PROVE  count'[i] = Outstanding(i)' /\ completed'[i] = (IF count'[i] = 0 THEN 1 ELSE 0)
    <3>1. count[i] = Outstanding(i) /\ completed'[i] = (IF count[i] = 0 THEN 1 ELSE 0) /\ count[i] \in Nat
      BY <1>1, OutstandingIsSum DEF CountsFit
    <3>2. i \in interactionsRef => Outstanding(i) > 0
      <4>1. Len(running) \in Nat
        BY SeqDomain DEF TracingTypeOK
      <4> QED
        BY <4>1, <1>1, InteractionsAreHeld, HeldIsOutstanding
    <3> QED
      BY <1>3, <1>5, <3>1, <3>2
  <2> QED
    BY <1>3, <2>1 DEF CountsFit
<1>7. CallsFit'
  BY <1>1, <1>2, <1>3 DEF CallsFit, IsWrapped, Performs, Inside
<1>8. LevelsFit'
  BY <1>1 DEF LevelsFit, IsPending, WorkLevels
<1>9. InteractionsFit'
  <2>1. ASSUME NEW m \in 1 .. Len(running), NEW i, Holds(m, i) PROVE Holds(m, i)'
    <3>1. m \in DOMAIN running
      BY SeqDomain DEF TracingTypeOK
    <3>2. IsWrapped(m) => wrapped'[running[m].what] = wrapped[running[m].what]
      BY <3>1, <1>2 DEF CallsFit
    <3> QED
      BY <2>1, <3>2, <1>1 DEF Holds, IsWrapped, Performs, IsPending
  <2> QED
    BY <2>1, <1>1, FitsInPlace
<1> QED
  BY <1>4, <1>6, <1>7, <1>8, <1>9

(* Calls that no work depends on: they enter and leave.                    *)
LEMMA CallWrappedKeepsInvariant ==
  ASSUME TracingFits, NEW w \in DOMAIN wrapped, CallWrapped(w)
  PROVE  TracingFits'
<1> USE DEF TracingFits
<1> PICK kind : kind = IF wrapped[w].hasRun THEN "again" ELSE "wrapped"
  OBVIOUS
<1> PICK is : is = wrapped[w].interactions
  OBVIOUS
<1>1. /\ ~\E n \in DOMAIN running : running[n].kind = "wrapped" /\ running[n].what = w
      /\ Enter(kind, w, is)
      /\ UNCHANGED <<count, wrapped, pendingInteractionMap, memoizedInteractions, work, rendering,
                     scheduled, completed>>
  BY DEF CallWrapped
<1>2. kind \in {"again", "wrapped"} /\ is \subseteq Known /\ w \in Nat
  BY FunctionsTyped
<1>3. kind = "wrapped" => ~wrapped[w].hasRun
  OBVIOUS
<1> PICK k : k = Len(running)
  OBVIOUS
<1>4. /\ k \in Nat /\ DOMAIN running = 1 .. k /\ DOMAIN running' = 1 .. k + 1
      /\ \A n \in 1 .. k : running'[n] = running[n]
      /\ running'[k + 1] = [kind |-> kind, what |-> w, prev |-> interactionsRef]
  BY <1>1, EnterStack
<1>5. TracingTypeOK'
  <2>1. kind \in CallKinds
    BY <1>2 DEF CallKinds
  <2>2. /\ memoizedInteractions' \subseteq Known /\ rendering' \in TraceLevels \cup {0}
        /\ WorkLevels' \subseteq TraceLevels /\ work' \in [WorkLevels' -> SUBSET Known]
    BY <1>1 DEF TracingTypeOK, WorkLevels
  <2> QED
    BY <1>1, <1>2, <2>1, <2>2, TypedAfterEnter
<1>6. CountsFit'
  <2>1. \A i \in Known : Outstanding(i)' = Outstanding(i)
    <3> SUFFICES ASSUME NEW i \in Known PROVE Outstanding(i)' = Outstanding(i)
      OBVIOUS
    <3>1. Traces(i)' = Traces(i)
      BY <1>1, <1>2, EnterKeepsTraces
    <3>2. Wraps(i)' = Wraps(i) /\ LevelsWith(i)' = LevelsWith(i)
      BY <1>1 DEF Wraps, LevelsWith
    <3> QED
      BY <3>1, <3>2, OutstandingStays
  <2> QED
    BY <2>1, <1>1, CountsStay
<1>7. CallsFit'
  <2>1. Inside("commit")' => Inside("commit")
    <3>1. running'[k + 1].kind = kind
      BY <1>4
    <3> QED
      BY <3>1, <1>2, <1>4 DEF Inside
  <2>2. rendering' = 0 \/ ~Inside("commit")'
    BY <2>1, <1>1 DEF CallsFit
  <2>3. Known' = Known /\ \A m \in DOMAIN running : IsWrapped(m) => running[m].what # w
    BY <1>1 DEF IsWrapped, Known
  <2> QED
    BY <2>2, <2>3, <1>1, <1>2, <1>3, CallsFitAfterEnter
<1>8. LevelsFit'
  BY <1>1 DEF LevelsFit, IsPending, WorkLevels
<1>9. InteractionsFit'
  <2>1. \A m \in 1 .. k : \A i : Holds(m, i) => Holds(m, i)'
    BY <1>1, <1>4 DEF Holds, IsWrapped, Performs, IsPending
  <2>2. kind # "again" => \A i \in is : \E m \in 1 .. k + 1 : Holds(m, i)'
    <3>1. running'[k + 1].kind = kind /\ running'[k + 1].what = w
      BY <1>4
    <3>2. k + 1 \in 1 .. k + 1
      BY <1>4
    <3> QED
      BY <3>1, <3>2, <1>1, <1>2 DEF Holds, IsWrapped
  <2> QED
    BY <2>1, <2>2, <1>1, FitsAfterEnter
<1> QED
  BY <1>5, <1>6, <1>7, <1>8, <1>9

LEMMA AgainOrSliceEndKeepsInvariant ==
  ASSUME TracingFits, AgainEnd \/ SliceEnd
  PROVE  TracingFits'
<1> USE DEF TracingFits
<1>1. /\ running # <<>> /\ Leave /\ Last(running).kind # "trace"
      /\ UNCHANGED <<count, wrapped, pendingInteractionMap, memoizedInteractions, work, rendering,
                     scheduled, completed>>
  BY DEF AgainEnd, SliceEnd, Innermost
<1>2. Known' = Known
  BY <1>1 DEF Known
<1>3. TracingTypeOK'
  <2>1. /\ count' \in Seq(Int) /\ completed' \in Seq(Int) /\ Len(completed') = Len(count')
        /\ wrapped' \in Seq(Functions) /\ pendingInteractionMap' \in [TraceLevels -> SUBSET Known]
    BY <1>1 DEF TracingTypeOK, Functions
  <2> QED
    BY <1>1, <1>2, <2>1, TypedAfterLeave
<1>4. CountsFit'
  <2>1. \A i \in Known : Outstanding(i)' = Outstanding(i)
    <3> SUFFICES ASSUME NEW i \in Known PROVE Outstanding(i)' = Outstanding(i)
      OBVIOUS
    <3>1. Traces(i)' = Traces(i)
      BY <1>1, LeaveKeepsTraces
    <3>2. Wraps(i)' = Wraps(i) /\ LevelsWith(i)' = LevelsWith(i)
      BY <1>1 DEF Wraps, LevelsWith
    <3> QED
      BY <3>1, <3>2, OutstandingStays
  <2> QED
    BY <2>1, <1>1, CountsStay
<1>5. CallsFit'
  BY <1>1, <1>2, CallsFitAfterLeave
<1>6. LevelsFit'
  BY <1>1 DEF LevelsFit, IsPending, WorkLevels
<1>7. InteractionsFit'
  <2>1. \A n \in 1 .. Len(running) - 1 : running'[n] = running[n]
    BY <1>1, LeaveStack
  <2>2. \A m \in 1 .. Len(running) - 1 : \A i : Holds(m, i) => Holds(m, i)'
    BY <1>1, <2>1 DEF Holds, IsWrapped, Performs, IsPending
  <2> QED
    BY <2>2, <1>1, FitsAfterLeave
<1> QED
  BY <1>3, <1>4, <1>5, <1>6, <1>7

(* A function that has run, or never will: its interactions have one less. *)
LEMMA FunctionIsDone ==
  ASSUME TracingTypeOK, NEW w \in DOMAIN wrapped, ~wrapped[w].hasRun,
         wrapped' = [wrapped EXCEPT ![w].hasRun = TRUE], pendingInteractionMap' = pendingInteractionMap
  PROVE  /\ wrapped' \in Seq(Functions) /\ DOMAIN wrapped' = DOMAIN wrapped
         /\ \A v \in DOMAIN wrapped : v # w => wrapped'[v] = wrapped[v]
         /\ wrapped'[w].interactions = wrapped[w].interactions
         /\ \A i \in Known : Traces(i)' = Traces(i) =>
              /\ Outstanding(i) \in Nat /\ Outstanding(i)' \in Nat
              /\ Outstanding(i)' = IF i \in wrapped[w].interactions THEN Outstanding(i) - 1 ELSE Outstanding(i)
<1>1. wrapped \in Seq(Functions) /\ wrapped[w] \in Functions
  BY FunctionsTyped DEF TracingTypeOK, Functions
<1>2. [wrapped[w] EXCEPT !.hasRun = TRUE] \in Functions
  BY <1>1 DEF Functions
<1>3. /\ wrapped' \in Seq(Functions) /\ DOMAIN wrapped' = DOMAIN wrapped
      /\ \A v \in DOMAIN wrapped : v # w => wrapped'[v] = wrapped[v]
      /\ wrapped'[w] = [wrapped[w] EXCEPT !.hasRun = TRUE]
  <2> DEFINE new == [wrapped[w] EXCEPT !.hasRun = TRUE]
  <2>1. new \in Functions /\ wrapped' = [wrapped EXCEPT ![w] = new]
    BY <1>2
  <2> HIDE DEF new
  <2> QED
    BY <1>1, <2>1, SeqDomain DEF new
<1>4. wrapped'[w].interactions = wrapped[w].interactions /\ wrapped'[w].hasRun
  BY <1>1, <1>3 DEF Functions
<1>5. ASSUME NEW i \in Known, Traces(i)' = Traces(i)
      PROVE  /\ Outstanding(i) \in Nat /\ Outstanding(i)' \in Nat
             /\ Outstanding(i)' = IF i \in wrapped[w].interactions THEN Outstanding(i) - 1 ELSE Outstanding(i)
  <2>1. LevelsWith(i)' = LevelsWith(i)
    BY DEF LevelsWith
  <2>2. Wraps(i)' = Wraps(i) \ {w} /\ (w \in Wraps(i) <=> i \in wrapped[w].interactions)
    BY <1>3, <1>4 DEF Wraps
  <2>3. Cardinality(Wraps(i)') = IF i \in wrapped[w].interactions THEN Cardinality(Wraps(i)) - 1 ELSE Cardinality(Wraps(i))
    BY <2>2, OutstandingIsSum, FS_RemoveElement
  <2>4. i \in wrapped[w].interactions => Cardinality(Wraps(i)) # 0
    BY <2>2, OutstandingIsSum, FS_EmptySet
  <2>5. Outstanding(i)' = Cardinality(Traces(i)) + Cardinality(Wraps(i)') + Cardinality(LevelsWith(i))
    BY <1>5, <2>1 DEF Outstanding, Traces, Wraps, LevelsWith
  <2> QED
    BY <2>3, <2>4, <2>5, OutstandingIsSum
<1> QED
  BY <1>3, <1>4, <1>5

LEMMA WrappedEndKeepsInvariant ==
  ASSUME TracingFits, WrappedEnd
  PROVE  TracingFits'
<1> USE DEF TracingFits
<1> PICK k : k = Len(running)
  OBVIOUS
<1> PICK w : w = running[k].what
  OBVIOUS
<1>1. /\ running # <<>> /\ Leave /\ running[k].kind = "wrapped" /\ w = Last(running).what
      /\ Finish(wrapped[w].interactions)
      /\ wrapped' = [wrapped EXCEPT ![w].hasRun = TRUE]
      /\ UNCHANGED <<pendingInteractionMap, memoizedInteractions, work, rendering, scheduled>>
  BY DEF WrappedEnd, Innermost, Last
<1>2. /\ k \in Nat \ {0} /\ DOMAIN running = 1 .. k /\ DOMAIN running' = 1 .. k - 1
      /\ \A n \in 1 .. k - 1 : running'[n] = running[n]
  BY <1>1, LeaveStack
<1>3. w \in DOMAIN wrapped /\ ~wrapped[w].hasRun /\ IsWrapped(k)
  <2>1. IsWrapped(k) /\ k \in DOMAIN running
    BY <1>1, <1>2 DEF IsWrapped
  <2>2. \A m \in DOMAIN running : IsWrapped(m) => running[m].what \in DOMAIN wrapped /\ ~wrapped[running[m].what].hasRun
    BY DEF CallsFit
  <2> QED
    BY <2>1, <2>2
<1>4. \A i \in Known : Traces(i)' = Traces(i)
  BY <1>1, LeaveKeepsTraces DEF Last
<1>5. /\ wrapped' \in Seq(Functions) /\ DOMAIN wrapped' = DOMAIN wrapped
      /\ \A v \in DOMAIN wrapped : v # w => wrapped'[v] = wrapped[v]
  BY <1>1, <1>3, FunctionIsDone
<1>6. /\ Known' = Known /\ count' \in Seq(Int) /\ completed' \in Seq(Int) /\ Len(completed') = Len(count')
      /\ CountsFit'
  <2>1. \A i \in Known : /\ Outstanding(i) \in Nat /\ Outstanding(i)' \in Nat
                         /\ Outstanding(i)' = IF i \in wrapped[w].interactions THEN Outstanding(i) - 1 ELSE Outstanding(i)
    BY <1>1, <1>3, <1>4, FunctionIsDone
  <2>2. wrapped[w].interactions \subseteq Known
    BY <1>3, FunctionsTyped
  <2> QED
    BY <2>1, <2>2, <1>1, FinishFits
<1>7. TracingTypeOK'
  <2>1. pendingInteractionMap' \in [TraceLevels -> SUBSET Known]
    BY <1>1 DEF TracingTypeOK
  <2> QED
    BY <2>1, <1>1, <1>5, <1>6, TypedAfterLeave
<1>8. \A m \in 1 .. k - 1 : IsWrapped(m) => wrapped'[running[m].what] = wrapped[running[m].what]
  <2>1. \A m \in 1 .. k - 1 : IsWrapped(m) => running[m].what \in DOMAIN wrapped /\ running[m].what # w
    BY <1>2, <1>3 DEF CallsFit
  <2> QED
    BY <2>1, <1>5
<1>9. CallsFit'
  BY <1>1, <1>5, <1>6, <1>8, CallsFitAfterLeave
<1>10. LevelsFit'
  BY <1>1 DEF LevelsFit, IsPending, WorkLevels
<1>11. InteractionsFit'
  <2>1. \A m \in 1 .. k - 1 : \A i : Holds(m, i) => Holds(m, i)'
    BY <1>1, <1>2, <1>8 DEF Holds, IsWrapped, Performs, IsPending
  <2> QED
    BY <2>1, <1>1, FitsAfterLeave
<1> QED
  BY <1>6, <1>7, <1>9, <1>10, <1>11

LEMMA CancelKeepsInvariant ==
  ASSUME TracingFits, NEW w \in DOMAIN wrapped, Cancel(w)
  PROVE  TracingFits'
<1> USE DEF TracingFits
<1>1. /\ ~wrapped[w].hasRun
      /\ ~\E n \in DOMAIN running : running[n].kind = "wrapped" /\ running[n].what = w
      /\ Finish(wrapped[w].interactions)
      /\ wrapped' = [wrapped EXCEPT ![w].hasRun = TRUE]
      /\ UNCHANGED <<interactionsRef, running, pendingInteractionMap, memoizedInteractions, work,
                     rendering, scheduled>>
  BY DEF Cancel
<1>2. \A i \in Known : Traces(i)' = Traces(i)
  BY <1>1 DEF Traces
<1>3. /\ wrapped' \in Seq(Functions) /\ DOMAIN wrapped' = DOMAIN wrapped
      /\ \A v \in DOMAIN wrapped : v # w => wrapped'[v] = wrapped[v]
  BY <1>1, FunctionIsDone
<1>4. /\ Known' = Known /\ count' \in Seq(Int) /\ completed' \in Seq(Int) /\ Len(completed') = Len(count')
      /\ CountsFit'
  <2>1. \A i \in Known : /\ Outstanding(i) \in Nat /\ Outstanding(i)' \in Nat
                         /\ Outstanding(i)' = IF i \in wrapped[w].interactions THEN Outstanding(i) - 1 ELSE Outstanding(i)
    BY <1>1, <1>2, FunctionIsDone
  <2>2. wrapped[w].interactions \subseteq Known
    BY FunctionsTyped
  <2> QED
    BY <2>1, <2>2, <1>1, FinishFits
<1>5. TracingTypeOK'
  BY <1>1, <1>3, <1>4 DEF TracingTypeOK, Functions, WorkLevels
<1>6. \A m \in DOMAIN running : IsWrapped(m) => wrapped'[running[m].what] = wrapped[running[m].what]
  BY <1>1, <1>3 DEF CallsFit, IsWrapped
<1>7. CallsFit'
  BY <1>1, <1>3, <1>4, <1>6 DEF CallsFit, IsWrapped, Performs, Inside
<1>8. LevelsFit'
  BY <1>1 DEF LevelsFit, IsPending, WorkLevels
<1>9. InteractionsFit'
  <2>1. DOMAIN running = 1 .. Len(running)
    BY SeqDomain DEF TracingTypeOK
  <2>2. \A m \in 1 .. Len(running) : \A i : Holds(m, i) => Holds(m, i)'
    BY <2>1, <1>1, <1>6 DEF Holds, IsWrapped, Performs, IsPending
  <2> QED
    BY <2>2, <1>1, FitsInPlace
<1> QED
  BY <1>4, <1>5, <1>7, <1>8, <1>9

(* scheduleWorkToRoot: the level is work for the interactions of now.      *)
LEMMA ScheduleTracedKeepsInvariant ==
  ASSUME TracingFits, NEW l \in TraceLevels, ScheduleTraced(l)
  PROVE  TracingFits'
<1> USE DEF TracingFits
<1>1. /\ ~Innermost("again")
      /\ scheduled' = scheduled + 1
      /\ work' = [m \in WorkLevels \cup {l} |-> (IF m \in WorkLevels THEN work[m] ELSE {})
                                               \cup (IF m = l THEN interactionsRef ELSE {})]
      /\ count' = Plus(count, interactionsRef \ pendingInteractionMap[l])
      /\ pendingInteractionMap' = [pendingInteractionMap EXCEPT ![l] = @ \cup interactionsRef]
      /\ rendering' \in {0, rendering}
      /\ UNCHANGED <<interactionsRef, wrapped, running, memoizedInteractions, completed>>
  BY DEF ScheduleTraced
<1>2. /\ pendingInteractionMap'[l] = pendingInteractionMap[l] \cup interactionsRef
      /\ \A m \in TraceLevels : m # l => pendingInteractionMap'[m] = pendingInteractionMap[m]
      /\ pendingInteractionMap' \in [TraceLevels -> SUBSET Known]
  BY <1>1 DEF TracingTypeOK
<1>3. /\ WorkLevels' = WorkLevels \cup {l}
      /\ work'[l] = (IF l \in WorkLevels THEN work[l] ELSE {}) \cup interactionsRef
      /\ \A m \in WorkLevels : m # l => work'[m] = work[m]
      /\ work' \in [WorkLevels' -> SUBSET Known]
  <2>1. WorkLevels' = WorkLevels \cup {l}
    BY <1>1 DEF WorkLevels
  <2> QED
    BY <1>1, <2>1 DEF TracingTypeOK
<1>4. /\ Known' = Known /\ count' \in Seq(Int) /\ Len(count') = Len(count)
      /\ \A i \in Known : count'[i] = IF i \in interactionsRef \ pendingInteractionMap[l] THEN count[i] + 1 ELSE count[i]
  <2> PICK new : new = interactionsRef \ pendingInteractionMap[l]
    OBVIOUS
  <2>0. count \in Seq(Int)
    BY DEF TracingTypeOK
  <2>1. count' = Plus(count, new)
    BY <1>1
  <2>2. /\ count' \in Seq(Int) /\ Len(count') = Len(count) /\ DOMAIN count' = DOMAIN count
        /\ \A i \in DOMAIN count : count'[i] = IF i \in new THEN count[i] + 1 ELSE count[i]
    <3>1. /\ Plus(count, new) \in Seq(Int) /\ Len(Plus(count, new)) = Len(count) /\ DOMAIN Plus(count, new) = DOMAIN count
          /\ \A i \in DOMAIN count : Plus(count, new)[i] = IF i \in new THEN count[i] + 1 ELSE count[i]
      BY ONLY <2>0, PlusMinus
    <3> QED
      BY <2>1, <3>1
  <2> QED
    BY <2>2 DEF Known
<1>5. TracingTypeOK'
  <2>1. rendering' \in TraceLevels \cup {0} /\ scheduled' \in Nat /\ WorkLevels' \subseteq TraceLevels
    BY <1>1, <1>3 DEF TracingTypeOK
  <2> QED
    BY <2>1, <1>1, <1>2, <1>3, <1>4 DEF TracingTypeOK
<1>6. ASSUME NEW i \in Known
      PROVE  Outstanding(i)' = IF i \in interactionsRef \ pendingInteractionMap[l] THEN Outstanding(i) + 1 ELSE Outstanding(i)
  <2>1. Traces(i)' = Traces(i) /\ Wraps(i)' = Wraps(i)
    BY <1>1 DEF Traces, Wraps
  <2>2. LevelsWith(i)' = IF i \in interactionsRef THEN LevelsWith(i) \cup {l} ELSE LevelsWith(i)
    BY <1>2 DEF LevelsWith
  <2>3. l \in LevelsWith(i) <=> i \in pendingInteractionMap[l]
    BY DEF LevelsWith
  <2>4. Cardinality(LevelsWith(i)') =
          IF i \in interactionsRef \ pendingInteractionMap[l] THEN Cardinality(LevelsWith(i)) + 1 ELSE Cardinality(LevelsWith(i))
    BY <2>2, <2>3, OutstandingIsSum, FS_AddElement
  <2>5. Outstanding(i)' = Cardinality(Traces(i)) + Cardinality(Wraps(i)) + Cardinality(LevelsWith(i)')
    BY <2>1 DEF Outstanding, Traces, Wraps, LevelsWith
  <2> QED
    BY <2>4, <2>5, OutstandingIsSum
<1>7. CountsFit'
  <2>1. ASSUME NEW i \in Known
        PROVE  count'[i] = Outstanding(i)' /\ completed'[i] = (IF count'[i] = 0 THEN 1 ELSE 0)
    <3>1. count[i] = Outstanding(i) /\ completed'[i] = (IF count[i] = 0 THEN 1 ELSE 0) /\ count[i] \in Nat
      BY <1>1, OutstandingIsSum DEF CountsFit
    <3>2. i \in interactionsRef => Outstanding(i) > 0
      <4>1. Len(running) \in Nat
        BY SeqDomain DEF TracingTypeOK
      <4> QED
        BY <4>1, <1>1, InteractionsAreHeld, HeldIsOutstanding
    <3> QED
      BY <1>4, <1>6, <3>1, <3>2
  <2> QED
    BY <1>4, <2>1 DEF CountsFit
<1>8. CallsFit'
  BY <1>1, <1>4 DEF CallsFit, IsWrapped, Performs, Inside
<1>9. \A i : IsPending(i) => IsPending(i)'
  BY <1>2 DEF IsPending
<1>10. LevelsFit'
  <2>1. rendering' # 0 => \A i \in memoizedInteractions' : IsPending(i)'
    BY <1>1, <1>9 DEF LevelsFit
  <2>2. \A m \in WorkLevels' : work'[m] \subseteq pendingInteractionMap'[m]
    <3> SUFFICES ASSUME NEW m \in WorkLevels' PROVE work'[m] \subseteq pendingInteractionMap'[m]
      OBVIOUS
    <3>1. CASE m = l
      BY <3>1, <1>2, <1>3 DEF LevelsFit
    <3>2. CASE m # l
      BY <3>2, <1>2, <1>3 DEF LevelsFit, TracingTypeOK
    <3> QED
      BY <3>1, <3>2
  <2> QED
    BY <2>1, <2>2 DEF LevelsFit
<1>11. InteractionsFit'
  <2>1. \A m \in 1 .. Len(running) : \A i : Holds(m, i) => Holds(m, i)'
    BY <1>1, <1>9 DEF Holds, IsWrapped, Performs
  <2> QED
    BY <2>1, <1>1, FitsInPlace
<1> QED
  BY <1>5, <1>7, <1>8, <1>10, <1>11

(* A slice, a commit: what they run under is pending.                      *)
LEMMA RenderSliceKeepsInvariant ==
  ASSUME TracingFits, NEW l \in TraceLevels, RenderSlice(l)
  PROVE  TracingFits'
<1> USE DEF TracingFits
<1> PICK is : is = IF l = rendering THEN memoizedInteractions
                   ELSE UNION {pendingInteractionMap[m] : m \in {m \in TraceLevels : m <= l}}
  OBVIOUS
<1>1. /\ ~Inside("render") /\ ~Inside("commit") /\ memoizedInteractions' = is /\ rendering' = l
      /\ Enter("render", l, is)
      /\ UNCHANGED <<count, wrapped, pendingInteractionMap, work, scheduled, completed>>
  BY DEF RenderSlice
<1>2. l \in Nat \ {0}
  BY TraceLevelsAssumption
<1>3. is \subseteq Known /\ \A i \in is : IsPending(i)
  <2>1. CASE l = rendering
    BY <2>1, <1>2 DEF TracingTypeOK, LevelsFit
  <2>2. CASE l # rendering
    BY <2>2 DEF TracingTypeOK, IsPending
  <2> QED
    BY <2>1, <2>2
<1> PICK k : k = Len(running)
  OBVIOUS
<1>4. /\ k \in Nat /\ DOMAIN running = 1 .. k /\ DOMAIN running' = 1 .. k + 1
      /\ \A n \in 1 .. k : running'[n] = running[n]
      /\ running'[k + 1] = [kind |-> "render", what |-> l, prev |-> interactionsRef]
  BY <1>1, EnterStack
<1>5. TracingTypeOK'
  <2>1. /\ WorkLevels' \subseteq TraceLevels /\ work' \in [WorkLevels' -> SUBSET Known]
        /\ "render" \in CallKinds /\ rendering' \in TraceLevels \cup {0} /\ memoizedInteractions' \subseteq Known
    BY <1>1, <1>3 DEF TracingTypeOK, WorkLevels, CallKinds
  <2> QED
    BY <2>1, <1>1, <1>2, <1>3, TypedAfterEnter
<1>6. CountsFit'
  <2>1. \A i \in Known : Outstanding(i)' = Outstanding(i)
    <3> SUFFICES ASSUME NEW i \in Known PROVE Outstanding(i)' = Outstanding(i)
      OBVIOUS
    <3>1. Traces(i)' = Traces(i)
      BY <1>1, EnterKeepsTraces
    <3>2. Wraps(i)' = Wraps(i) /\ LevelsWith(i)' = LevelsWith(i)
      BY <1>1 DEF Wraps, LevelsWith
    <3> QED
      BY <3>1, <3>2, OutstandingStays
  <2> QED
    BY <2>1, <1>1, CountsStay
<1>7. CallsFit'
  <2>1. running'[k + 1].kind = "render"
    BY <1>4
  <2>2. ~Inside("commit")'
    BY <2>1, <1>1, <1>4 DEF Inside
  <2>3. \A m \in DOMAIN running : ~Performs(m)
    BY <1>1 DEF Inside, Performs
  <2>4. Known' = Known
    BY <1>1 DEF Known
  <2> QED
    BY <2>2, <2>3, <2>4, <1>1, CallsFitAfterEnter
<1>8. LevelsFit'
  BY <1>1, <1>3 DEF LevelsFit, IsPending, WorkLevels
<1>9. InteractionsFit'
  <2>1. \A m \in 1 .. k : \A i : Holds(m, i) => Holds(m, i)'
    BY <1>1, <1>4 DEF Holds, IsWrapped, Performs, IsPending
  <2>2. \A i \in is : \E m \in 1 .. k + 1 : Holds(m, i)'
    <3>1. running'[k + 1].kind = "render" /\ k + 1 \in 1 .. k + 1
      BY <1>4
    <3> QED
      BY <3>1, <1>1, <1>3 DEF Holds, Performs, IsPending
  <2> QED
    BY <2>1, <2>2, <1>1, FitsAfterEnter
<1> QED
  BY <1>5, <1>6, <1>7, <1>8, <1>9

LEMMA CommitTracedKeepsInvariant ==
  ASSUME TracingFits, CommitTraced
  PROVE  TracingFits'
<1> USE DEF TracingFits
<1>1. /\ rendering # 0 /\ ~Inside("render") /\ ~Inside("commit")
      /\ work' = Restrict(work, {l \in WorkLevels : l > rendering})
      /\ Enter("commit", rendering, memoizedInteractions)
      /\ rendering' = 0
      /\ UNCHANGED <<count, wrapped, pendingInteractionMap, memoizedInteractions, scheduled, completed>>
  BY DEF CommitTraced
<1>2. rendering \in Nat
  BY TraceLevelsAssumption DEF TracingTypeOK
<1>3. memoizedInteractions \subseteq Known /\ \A i \in memoizedInteractions : IsPending(i)
  BY <1>1 DEF TracingTypeOK, LevelsFit
<1> PICK k : k = Len(running)
  OBVIOUS
<1>4. /\ k \in Nat /\ DOMAIN running = 1 .. k /\ DOMAIN running' = 1 .. k + 1
      /\ \A n \in 1 .. k : running'[n] = running[n]
      /\ running'[k + 1] = [kind |-> "commit", what |-> rendering, prev |-> interactionsRef]
  BY <1>1, EnterStack
<1>5. /\ WorkLevels' \subseteq WorkLevels
      /\ \A m \in WorkLevels' : work'[m] = work[m]
      /\ work' \in [WorkLevels' -> SUBSET Known]
  <2>1. work' = [m \in {l \in WorkLevels : l > rendering} |-> work[m]]
    BY <1>1 DEF Restrict
  <2>2. WorkLevels' = {l \in WorkLevels : l > rendering}
    BY <2>1 DEF WorkLevels
  <2> QED
    BY <2>1, <2>2 DEF TracingTypeOK
<1>6. TracingTypeOK'
  <2>1. /\ WorkLevels' \subseteq TraceLevels /\ work' \in [WorkLevels' -> SUBSET Known]
        /\ "commit" \in CallKinds /\ rendering' \in TraceLevels \cup {0} /\ memoizedInteractions' \subseteq Known
    BY <1>1, <1>3, <1>5 DEF TracingTypeOK, CallKinds
  <2> QED
    BY <2>1, <1>1, <1>2, <1>3, TypedAfterEnter
<1>7. CountsFit'
  <2>1. \A i \in Known : Outstanding(i)' = Outstanding(i)
    <3> SUFFICES ASSUME NEW i \in Known PROVE Outstanding(i)' = Outstanding(i)
      OBVIOUS
    <3>1. Traces(i)' = Traces(i)
      BY <1>1, EnterKeepsTraces
    <3>2. Wraps(i)' = Wraps(i) /\ LevelsWith(i)' = LevelsWith(i)
      BY <1>1 DEF Wraps, LevelsWith
    <3> QED
      BY <3>1, <3>2, OutstandingStays
  <2> QED
    BY <2>1, <1>1, CountsStay
<1>8. CallsFit'
  <2>1. \A m \in DOMAIN running : ~Performs(m)
    BY <1>1 DEF Inside, Performs
  <2>2. Known' = Known
    BY <1>1 DEF Known
  <2> QED
    BY <2>1, <2>2, <1>1, CallsFitAfterEnter
<1>9. LevelsFit'
  BY <1>1, <1>5 DEF LevelsFit
<1>10. InteractionsFit'
  <2>1. \A m \in 1 .. k : \A i : Holds(m, i) => Holds(m, i)'
    BY <1>1, <1>4 DEF Holds, IsWrapped, Performs, IsPending
  <2>2. \A i \in memoizedInteractions : \E m \in 1 .. k + 1 : Holds(m, i)'
    <3>1. running'[k + 1].kind = "commit" /\ k + 1 \in 1 .. k + 1
      BY <1>4
    <3> QED
      BY <3>1, <1>1, <1>3 DEF Holds, Performs, IsPending
  <2> QED
    BY <2>1, <2>2, <1>1, FitsAfterEnter
<1> QED
  BY <1>6, <1>7, <1>8, <1>9, <1>10

(* The least level: it has work.                                           *)
LEMMA LevelsWithWorkAreNotDone ==
  ASSUME TracingTypeOK, NEW l \in WorkLevels
  PROVE  ~IsDone(l)
<1>1. WorkLevels \in SUBSET Nat /\ l \in Nat /\ \A n \in WorkLevels : n \in Nat
  BY TraceLevelsAssumption DEF TracingTypeOK
<1>2. IsWellFoundedOn(OpToRel(<, Nat), Nat)
  BY NatLessThanWellFounded
<1>3. PICK m \in WorkLevels : \A n \in WorkLevels : ~(<<n, m>> \in OpToRel(<, Nat))
  BY <1>1, <1>2, WFMin, Zenon
<1>4. \A n \in Nat : <<n, m>> \in OpToRel(<, Nat) <=> n < m
  BY <1>1, <1>3, Zenon DEF OpToRel
<1>5. \A n \in WorkLevels : m <= n
  <2> SUFFICES ASSUME NEW n \in WorkLevels PROVE m <= n
    OBVIOUS
  <2>1. m \in Nat /\ n \in Nat
    BY <1>1
  <2>2. ~(n < m)
    BY <2>1, <1>3, <1>4
  <2> QED
    BY <2>1, <2>2
<1>6. Min(WorkLevels) \in WorkLevels /\ Min(WorkLevels) <= l
  BY <1>5 DEF Min
<1>7. Min(WorkLevels) \in Nat
  BY <1>1, <1>6
<1>8. ~(l < Min(WorkLevels))
  BY <1>1, <1>6, <1>7
<1> QED
  BY <1>8 DEF IsDone

(* The end of a commit: the levels before all work are done with.          *)
LEMMA CommitTracedEndKeepsInvariant ==
  ASSUME TracingFits, CommitTracedEnd
  PROVE  TracingFits'
<1> USE DEF TracingFits
<1> PICK done : done = {l \in TraceLevels : IsDone(l)}
  OBVIOUS
<1> DEFINE Left(i) == Cardinality({l \in done : i \in pendingInteractionMap[l]})
<1> PICK gone : gone = [i \in Known |-> Left(i)]
  OBVIOUS
<1>1. /\ running # <<>> /\ Last(running).kind = "commit" /\ Leave
      /\ pendingInteractionMap' = [l \in TraceLevels |-> IF l \in done THEN {} ELSE pendingInteractionMap[l]]
      /\ count' = [i \in Known |-> count[i] - gone[i]]
      /\ completed' = Plus(completed, {i \in Known : gone[i] > 0 /\ count[i] = gone[i]})
      /\ UNCHANGED <<wrapped, memoizedInteractions, work, rendering, scheduled>>
  BY DEF CommitTracedEnd, Innermost
<1> PICK k : k = Len(running)
  OBVIOUS
<1>2. /\ k \in Nat \ {0} /\ DOMAIN running = 1 .. k /\ DOMAIN running' = 1 .. k - 1
      /\ \A n \in 1 .. k - 1 : running'[n] = running[n]
  BY <1>1, LeaveStack
<1>3. running[k].kind = "commit" /\ \A m \in 1 .. k - 1 : ~Performs(m)
  <2>1. running[k].kind = "commit"
    BY <1>1 DEF Last
  <2>2. k \in DOMAIN running /\ Performs(k)
    BY <2>1, <1>2 DEF Performs
  <2>3. \A m \in DOMAIN running : Performs(m) => m = k
    BY <2>2 DEF CallsFit
  <2> QED
    BY <2>1, <2>3, <1>2
<1>4. rendering = 0
  BY <1>2, <1>3 DEF CallsFit, Inside
<1>5. ASSUME NEW i \in Known
      PROVE  /\ gone[i] \in Nat /\ Outstanding(i) \in Nat /\ Outstanding(i)' \in Nat
             /\ Outstanding(i)' = Outstanding(i) - gone[i]
  <2> PICK D : D = {l \in done : i \in pendingInteractionMap[l]}
    OBVIOUS
  <2>1. D = LevelsWith(i) \cap done /\ D \subseteq LevelsWith(i)
    BY DEF LevelsWith
  <2>2. IsFiniteSet(D) /\ Cardinality(D) \in Nat
    BY <2>1, OutstandingIsSum, FS_Subset, FS_CardinalityType
  <2>3. gone[i] = Cardinality(D)
    OBVIOUS
  <2>4. LevelsWith(i)' = LevelsWith(i) \ done
    BY <1>1 DEF LevelsWith
  <2>5. IsFiniteSet(LevelsWith(i)') /\ Cardinality(LevelsWith(i)') = Cardinality(LevelsWith(i)) - Cardinality(D)
    <3>1. IsFiniteSet(LevelsWith(i))
      BY OutstandingIsSum
    <3>2. /\ IsFiniteSet(LevelsWith(i) \ done)
          /\ Cardinality(LevelsWith(i) \ done) = Cardinality(LevelsWith(i)) - Cardinality(LevelsWith(i) \cap done)
      BY ONLY <3>1, FS_Difference
    <3> QED
      BY <2>1, <2>4, <3>2
  <2>6. Cardinality(LevelsWith(i)') \in Nat
    BY <2>5, FS_CardinalityType
  <2>7. Traces(i)' = Traces(i)
    BY <1>1, LeaveKeepsTraces
  <2>8. Wraps(i)' = Wraps(i)
    BY <1>1 DEF Wraps
  <2>9. Outstanding(i)' = Cardinality(Traces(i)) + Cardinality(Wraps(i)) + Cardinality(LevelsWith(i)')
    BY <2>7, <2>8 DEF Outstanding, Traces, Wraps, LevelsWith
  <2> QED
    BY <2>2, <2>3, <2>5, <2>6, <2>9, OutstandingIsSum
<1> HIDE DEF Left
<1>6. /\ count \in Seq(Int) /\ completed \in Seq(Int) /\ Len(completed) = Len(count) /\ Len(count) \in Nat
      /\ Known = 1 .. Len(count) /\ DOMAIN completed = Known
  BY SeqDomain DEF TracingTypeOK, Known
<1>7. /\ Known' = Known /\ count' \in Seq(Int) /\ Len(count') = Len(count)
      /\ \A i \in Known : count'[i] = count[i] - gone[i]
  <2>1. \A i \in 1 .. Len(count) : count[i] \in Int /\ gone[i] \in Int
    BY <1>5, <1>6, SeqDomain
  <2>2. count' \in [1 .. Len(count) -> Int]
    BY <1>1, <1>6, <2>1
  <2>3. count' \in Seq(Int) /\ Len(count') = Len(count) /\ DOMAIN count' = 1 .. Len(count)
    BY <1>6, <2>2, FunctionsAreSeqs
  <2> QED
    BY <1>1, <1>6, <2>3 DEF Known
<1>8. /\ completed' \in Seq(Int) /\ Len(completed') = Len(count')
      /\ \A i \in Known : completed'[i] = IF gone[i] > 0 /\ count[i] = gone[i] THEN completed[i] + 1 ELSE completed[i]
  <2> PICK complete : complete = {i \in Known : gone[i] > 0 /\ count[i] = gone[i]}
    OBVIOUS
  <2>0. completed \in Seq(Int)
    BY <1>6
  <2>1. /\ Plus(completed, complete) \in Seq(Int) /\ Len(Plus(completed, complete)) = Len(completed)
        /\ \A i \in DOMAIN completed : Plus(completed, complete)[i] = IF i \in complete THEN completed[i] + 1 ELSE completed[i]
    BY ONLY <2>0, PlusMinus
  <2>2. completed' = Plus(completed, complete)
    BY <1>1
  <2> QED
    BY <2>1, <2>2, <1>6, <1>7
<1>9. CountsFit'
  <2>1. ASSUME NEW i \in Known
        PROVE  count'[i] = Outstanding(i)' /\ completed'[i] = (IF count'[i] = 0 THEN 1 ELSE 0)
    <3>1. count[i] = Outstanding(i) /\ completed[i] = (IF count[i] = 0 THEN 1 ELSE 0)
      BY DEF CountsFit
    <3> QED
      BY <1>5, <1>7, <1>8, <3>1
  <2> QED
    BY <1>7, <2>1 DEF CountsFit
<1>10. TracingTypeOK'
  <2>1. wrapped' \in Seq(Functions) /\ pendingInteractionMap' \in [TraceLevels -> SUBSET Known]
    BY <1>1 DEF TracingTypeOK, Functions
  <2> QED
    BY <2>1, <1>1, <1>7, <1>8, TypedAfterLeave
<1>11. CallsFit'
  BY <1>1, <1>7, CallsFitAfterLeave
<1>12. LevelsFit'
  <2>1. \A l \in WorkLevels : l \notin done /\ l \in TraceLevels
    BY LevelsWithWorkAreNotDone DEF TracingTypeOK
  <2>2. rendering' = 0 /\ work' = work /\ WorkLevels' = WorkLevels
    BY <1>1, <1>4 DEF WorkLevels
  <2> QED
    BY <2>1, <2>2, <1>1 DEF LevelsFit
<1>13. InteractionsFit'
  <2>1. \A m \in 1 .. k - 1 : \A i : Holds(m, i) => Holds(m, i)'
    BY <1>1, <1>2, <1>3 DEF Holds, IsWrapped, Performs
  <2> QED
    BY <2>1, <1>1, FitsAfterLeave
<1> QED
  BY <1>9, <1>10, <1>11, <1>12, <1>13

-----------------------------------------------------------------------------
LEMMA TracingFitsInit ==
  ASSUME TracingInit
  PROVE  TracingFits
<1>1. Known = {} /\ DOMAIN running = {} /\ Len(running) = 0 /\ WorkLevels = {}
  BY DEF TracingInit, Known, WorkLevels
<1>2. TracingTypeOK
  BY <1>1 DEF TracingInit, TracingTypeOK
<1>3. CountsFit
  BY <1>1 DEF CountsFit
<1>4. CallsFit
  BY <1>1 DEF CallsFit, Inside
<1>5. LevelsFit
  BY <1>1 DEF LevelsFit, TracingInit
<1>6. InteractionsFit
  BY <1>1 DEF InteractionsFit, TracingInit, Under
<1> QED
  BY <1>2, <1>3, <1>4, <1>5, <1>6 DEF TracingFits

LEMMA TracingFitsNext ==
  ASSUME TracingFits, [TracingNext]_tracingVars
  PROVE  TracingFits'
<1>1. CASE UNCHANGED tracingVars
  <2> USE <1>1 DEF tracingVars, TracingFits
  <2>1. TracingTypeOK'
    BY DEF TracingTypeOK, Known, WorkLevels
  <2>2. CountsFit'
    <3>1. \A i : Outstanding(i)' = Outstanding(i)
      BY DEF Outstanding
    <3> QED
      BY <3>1, CountsStay
  <2>3. CallsFit'
    BY DEF CallsFit, Known, IsWrapped, Performs, Inside
  <2>4. LevelsFit'
    BY DEF LevelsFit, WorkLevels, IsPending
  <2>5. InteractionsFit'
    <3>1. \A m \in 1 .. Len(running) : \A i : Holds(m, i) => Holds(m, i)'
      BY DEF Holds, IsPending, IsWrapped, Performs
    <3> QED
      BY <3>1, FitsInPlace
  <2> QED
    BY <2>1, <2>2, <2>3, <2>4, <2>5
<1>2. ASSUME NEW w \in DOMAIN wrapped, CallWrapped(w) \/ Cancel(w) PROVE TracingFits'
  BY <1>2, CallWrappedKeepsInvariant, CancelKeepsInvariant
<1>3. ASSUME NEW l \in TraceLevels, ScheduleTraced(l) \/ RenderSlice(l) PROVE TracingFits'
  BY <1>3, ScheduleTracedKeepsInvariant, RenderSliceKeepsInvariant
<1> QED
  BY <1>1, <1>2, <1>3, TraceKeepsInvariant, TraceEndKeepsInvariant, WrapKeepsInvariant, WrappedEndKeepsInvariant,
     AgainOrSliceEndKeepsInvariant, CommitTracedKeepsInvariant, CommitTracedEndKeepsInvariant
  DEF TracingNext

LEMMA TracingFitsIsEnough ==
  ASSUME TracingFits
  PROVE  InteractionsComplete
<1> USE DEF TracingFits
<1>1. Len(running) \in Nat
  BY SeqDomain DEF TracingTypeOK
<1>2. ~Innermost("again") => \A i \in interactionsRef : count[i] > 0
  <2> SUFFICES ASSUME ~Innermost("again"), NEW i \in interactionsRef PROVE count[i] > 0
    OBVIOUS
  <2>1. Outstanding(i) > 0
    BY <1>1, InteractionsAreHeld, HeldIsOutstanding
  <2> QED
    BY <2>1 DEF CountsFit, TracingTypeOK
<1>3. \A l \in WorkLevels : \A i \in work[l] : count[i] > 0
  <2> SUFFICES ASSUME NEW l \in WorkLevels, NEW i \in work[l] PROVE count[i] > 0
    OBVIOUS
  <2>1. l \in TraceLevels /\ i \in pendingInteractionMap[l] /\ i \in Known
    BY DEF TracingTypeOK, LevelsFit
  <2>2. LevelsWith(i) # {}
    BY <2>1 DEF LevelsWith
  <2>3. Cardinality(LevelsWith(i)) # 0
    BY <2>2, OutstandingIsSum, FS_EmptySet
  <2>4. count[i] = Outstanding(i)
    BY <2>1 DEF CountsFit
  <2> QED
    BY <2>3, <2>4, OutstandingIsSum
<1>4. running = <<>> => interactionsRef = {}
  BY DEF InteractionsFit, Under
<1> QED
  BY <1>2, <1>3, <1>4 DEF InteractionsComplete, CountsFit

(* The variables of tracing keep their types, however calls are nested.    *)
THEOREM TracingTypeCorrect == TracingSpec => []TracingTypeOK
<1>1. TracingInit => TracingFits
  BY TracingFitsInit
<1>2. TracingFits /\ [TracingNext]_tracingVars => TracingFits'
  BY TracingFitsNext
<1>3. TracingFits => TracingTypeOK
  BY DEF TracingFits
<1> QED
  BY <1>1, <1>2, <1>3, PTL DEF TracingSpec

(* __count of Tracing.js is exact: it is the work that is left for an      *)
(* interaction, it is zero from the moment it completes, once, and no code *)
(* runs and no level waits under an interaction that has completed.        *)
THEOREM CountsAreExact == TracingSpec => []InteractionsComplete
<1>1. TracingInit => TracingFits
  BY TracingFitsInit
<1>2. TracingFits /\ [TracingNext]_tracingVars => TracingFits'
  BY TracingFitsNext
<1>3. TracingFits => InteractionsComplete
  BY TracingFitsIsEnough
<1> QED
  BY <1>1, <1>2, <1>3, PTL DEF TracingSpec
=============================================================================
