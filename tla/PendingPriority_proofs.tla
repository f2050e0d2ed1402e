----------------------- MODULE PendingPriority_proofs -----------------------
(***************************************************************************)
(* What each function of PendingPriority does to levels that are sound, in *)
(* the terms in which its callers need it: for the levels of one root      *)
(* (Parts_proofs) and for the scheduler (RootScheduler_proofs).            *)
(*                                                                         *)
(* What the ranges do is said first, so that the functions, which change   *)
(* several of them at once, never have to be expanded together with them.  *)
(***************************************************************************)
EXTENDS PendingPriority, TLAPS

(* The invariant with its type, of any root.                               *)
IsPinged(root) == root.latestPingedTime # NoWork

Sound(root) ==
  /\ root \in Levels
  /\ IsRange(root.pending)
  /\ IsRange(root.suspended)
  /\ IsPinged(root) => IsPriorityLevelSuspended(root, root.latestPingedTime)
  /\ root.pending.earliest # NoWork \/ IsPinged(root)
       => root.nextExpirationTimeToWorkOn # NoWork

(* Sound, but for the level that is found last.                            *)
SoundButNext(root) ==
  /\ root \in Levels
  /\ IsRange(root.pending)
  /\ IsRange(root.suspended)
  /\ IsPinged(root) => IsPriorityLevelSuspended(root, root.latestPingedTime)

(* Extend, Withdraw and DropBefore keep the two ends of a range in order.  *)
LEMMA ExtendIsRange ==
  ASSUME NEW range \in Ranges, IsRange(range), NEW t \in Nat, t # NoWork
  PROVE  /\ Extend(range, t) \in Ranges
         /\ IsRange(Extend(range, t))
         /\ Extend(range, t).earliest # NoWork
         /\ Extend(range, t).earliest <= t /\ t <= Extend(range, t).latest
         /\ range.latest <= Extend(range, t).latest
         /\ range.earliest # NoWork => Extend(range, t).earliest <= range.earliest
  BY DEF Ranges, IsRange, Extend, NoWork

LEMMA WithdrawIsRange ==
  ASSUME NEW range \in Ranges, IsRange(range), NEW t \in Nat, t # NoWork
  PROVE  /\ Withdraw(range, t) \in Ranges
         /\ IsRange(Withdraw(range, t))
         /\ range.latest = t \/ Withdraw(range, t).latest = range.latest
         /\ range.earliest = t \/ Withdraw(range, t).earliest = range.earliest
  BY DEF Ranges, IsRange, Withdraw, NoWork, NoLevels

LEMMA DropBeforeIsRange ==
  ASSUME NEW range \in Ranges, IsRange(range), NEW t \in Nat
  PROVE  /\ DropBefore(range, t) \in Ranges
         /\ IsRange(DropBefore(range, t))
  BY DEF Ranges, IsRange, DropBefore, NoWork, NoLevels

(* findNextExpirationTimeToWorkOn completes what is sound but for it, and  *)
(* touches nothing else.                                                   *)
LEMMA FindNextKeeps ==
  ASSUME NEW root \in Levels, NEW completed \in Nat
  PROVE  LET found == FindNext(root, completed)
         IN /\ found \in Levels
            /\ found.pending = root.pending /\ found.suspended = root.suspended
            /\ found.latestPingedTime = root.latestPingedTime
            /\ root.pending.earliest # NoWork \/ IsPinged(root)
                 => found.nextExpirationTimeToWorkOn # NoWork
<1>1. NextTimeToWorkOn(root, completed) \in Nat
  BY DEF Levels, Ranges, NextTimeToWorkOn, NoWork
<1>2. root.pending.earliest # NoWork \/ IsPinged(root)
        => NextTimeToWorkOn(root, completed) # NoWork
  BY DEF NextTimeToWorkOn, IsPinged
<1> QED
  BY <1>1, <1>2 DEF FindNext, Levels, Ranges, IsPinged

LEMMA FindNextIsSound ==
  ASSUME NEW root, SoundButNext(root), NEW completed \in Nat
  PROVE  Sound(FindNext(root, completed))
  BY FindNextKeeps DEF Sound, SoundButNext, IsPriorityLevelSuspended, IsPinged

LEMMA MarkPendingIsSound ==
  ASSUME NEW root, SoundButNext(root), NEW t \in Nat, t # NoWork
  PROVE  Sound(MarkPending(root, t))
<1> DEFINE marked == [root EXCEPT !.didError = FALSE, !.pending = Extend(root.pending, t)]
<1>1. /\ Extend(root.pending, t) \in Ranges /\ IsRange(Extend(root.pending, t))
  BY ExtendIsRange DEF SoundButNext, Levels
<1>2. SoundButNext(marked)
  BY <1>1 DEF SoundButNext, Levels, IsPinged, IsPriorityLevelSuspended
<1> QED
  BY <1>2, FindNextIsSound DEF MarkPending

(* clearPing keeps a ping only for a level later than the one suspended    *)
(* now, and that level was within the range that is extended here.         *)
LEMMA MarkSuspendedIsSound ==
  ASSUME NEW root, SoundButNext(root), NEW t \in Nat, t # NoWork
  PROVE  Sound(MarkSuspended(root, t))
<1> DEFINE pinged == ClearPing(root.latestPingedTime, t)
           pending == Withdraw(root.pending, t)
           suspended == Extend(root.suspended, t)
           marked == [root EXCEPT !.didError = FALSE, !.latestPingedTime = pinged,
                                  !.pending = pending, !.suspended = suspended]
<1>1. /\ root \in Levels /\ root.pending \in Ranges /\ root.suspended \in Ranges
      /\ root.latestPingedTime \in Nat
      /\ IsRange(root.pending) /\ IsRange(root.suspended)
  BY DEF SoundButNext, Levels
<1>2. pending \in Ranges /\ IsRange(pending)
  BY <1>1, WithdrawIsRange
<1>3. /\ suspended \in Ranges /\ IsRange(suspended) /\ suspended.earliest # NoWork
      /\ suspended.earliest <= t /\ root.suspended.latest <= suspended.latest
  BY <1>1, ExtendIsRange
<1>4. pinged \in Nat
  BY <1>1 DEF ClearPing, NoWork
<1>5. pinged # NoWork =>
        suspended.earliest <= pinged /\ pinged <= suspended.latest
  BY <1>1, <1>3 DEF ClearPing, SoundButNext, IsPinged, IsPriorityLevelSuspended, Ranges, NoWork
<1>6. marked \in Levels /\ marked.pending = pending /\ marked.suspended = suspended
      /\ marked.latestPingedTime = pinged
  BY <1>1, <1>2, <1>3, <1>4 DEF Levels
<1>7. SoundButNext(marked)
  BY <1>2, <1>3, <1>5, <1>6 DEF SoundButNext, IsPinged, IsPriorityLevelSuspended
<1> QED
  BY <1>7, FindNextIsSound DEF MarkSuspended

LEMMA MarkPingedIsSound ==
  ASSUME NEW root, SoundButNext(root), NEW t \in Nat, t # NoWork,
         IsPriorityLevelSuspended(root, t)
  PROVE  Sound(MarkPinged(root, t))
<1> DEFINE pinged == IF root.latestPingedTime < t THEN t ELSE root.latestPingedTime
           marked == [root EXCEPT !.didError = FALSE, !.latestPingedTime = pinged]
<1>1. SoundButNext(marked)
  BY DEF SoundButNext, Levels, Ranges, IsPinged, IsPriorityLevelSuspended, NoWork
<1> QED
  BY <1>1, FindNextIsSound DEF MarkPinged

(* The cases of markCommittedPriorityLevels: the suspended levels and the  *)
(* ping are cleared together, or left together.                            *)
LEMMA MarkCommittedIsSound ==
  ASSUME NEW root, SoundButNext(root), NEW remaining \in Nat
  PROVE  Sound(MarkCommitted(root, remaining))
<1> DEFINE flushed == [root EXCEPT !.didError = FALSE,
                                   !.pending = DropBefore(root.pending, remaining)]
           unsuspended == [flushed EXCEPT !.suspended = NoLevels,
                                          !.latestPingedTime = NoWork]
           again(r) == FindNext(MarkPending(r, remaining), NoWork)
<1>1. DropBefore(root.pending, remaining) \in Ranges
      /\ IsRange(DropBefore(root.pending, remaining))
  BY DropBeforeIsRange DEF SoundButNext, Levels
<1>2. NoLevels \in Ranges /\ IsRange(NoLevels) /\ NoWork \in Nat
  BY DEF NoLevels, Ranges, IsRange, NoWork
<1>3. SoundButNext(flushed)
  BY <1>1 DEF SoundButNext, Levels, IsPinged, IsPriorityLevelSuspended
<1>4. SoundButNext(unsuspended)
  BY <1>2, <1>3 DEF SoundButNext, Levels, IsPinged
<1>5. SoundButNext([unsuspended EXCEPT !.pending = NoLevels])
  BY <1>2, <1>4 DEF SoundButNext, Levels, IsPinged
<1>6. ASSUME NEW r, SoundButNext(r), remaining # NoWork
      PROVE  Sound(again(r))
  BY <1>2, <1>6, MarkPendingIsSound, FindNextIsSound DEF Sound, SoundButNext
<1>7. Sound(FindNext(flushed, NoWork))
  BY <1>2, <1>3, FindNextIsSound
<1>8. Sound(FindNext([unsuspended EXCEPT !.pending = NoLevels], NoWork))
  BY <1>2, <1>5, FindNextIsSound
<1> HIDE DEF flushed, unsuspended, again
<1>9. \/ MarkCommitted(root, remaining) = FindNext([unsuspended EXCEPT !.pending = NoLevels], NoWork)
      \/ remaining # NoWork /\ MarkCommitted(root, remaining) = again(flushed)
      \/ remaining # NoWork /\ MarkCommitted(root, remaining) = again(unsuspended)
      \/ MarkCommitted(root, remaining) = FindNext(flushed, NoWork)
  BY DEF MarkCommitted, IsMoreUrgentThanSuspended, flushed, unsuspended, again
<1> QED
  BY <1>3, <1>4, <1>6, <1>7, <1>8, <1>9

-----------------------------------------------------------------------------
(* The levels are among those there are; the callers of the functions keep *)
(* to the levels that the clock can yield.                                 *)
RangesIn(T) == [earliest : T, latest : T]

LevelsIn(T) ==
  [pending : RangesIn(T), suspended : RangesIn(T), latestPingedTime : T,
   didError : BOOLEAN, nextExpirationTimeToWorkOn : T, expirationTime : T]

LEMMA LevelsInAreLevels ==
  ASSUME NEW T \in SUBSET Nat, NEW root \in LevelsIn(T)
  PROVE  root \in Levels
  BY DEF LevelsIn, RangesIn, Levels, Ranges

LEMMA RangesStayIn ==
  ASSUME NEW T \in SUBSET Nat, NoWork \in T, NEW range \in RangesIn(T), NEW t \in T
  PROVE  /\ Extend(range, t) \in RangesIn(T)
         /\ Withdraw(range, t) \in RangesIn(T)
         /\ DropBefore(range, t) \in RangesIn(T)
         /\ NoLevels \in RangesIn(T)
  BY DEF RangesIn, Extend, Withdraw, DropBefore, NoLevels

LEMMA FindNextStaysIn ==
  ASSUME NEW T \in SUBSET Nat, NoWork \in T, NEW root \in LevelsIn(T), NEW completed \in Nat
  PROVE  FindNext(root, completed) \in LevelsIn(T)
<1>1. NextTimeToWorkOn(root, completed) \in T
  BY DEF LevelsIn, RangesIn, NextTimeToWorkOn
<1> QED
  BY <1>1 DEF FindNext, LevelsIn, RangesIn

LEMMA MarkPendingStaysIn ==
  ASSUME NEW T \in SUBSET Nat, NoWork \in T, NEW root \in LevelsIn(T), NEW t \in T
  PROVE  MarkPending(root, t) \in LevelsIn(T)
<1> DEFINE marked == [root EXCEPT !.didError = FALSE, !.pending = Extend(root.pending, t)]
<1>1. Extend(root.pending, t) \in RangesIn(T) /\ t \in Nat
  BY RangesStayIn DEF LevelsIn
<1>2. marked \in LevelsIn(T)
  BY <1>1 DEF LevelsIn
<1> QED
  BY <1>1, <1>2, FindNextStaysIn DEF MarkPending

LEMMA MarkSuspendedStaysIn ==
  ASSUME NEW T \in SUBSET Nat, NoWork \in T, NEW root \in LevelsIn(T), NEW t \in T
  PROVE  MarkSuspended(root, t) \in LevelsIn(T)
<1> DEFINE marked == [root EXCEPT !.didError = FALSE,
                        !.latestPingedTime = ClearPing(root.latestPingedTime, t),
                        !.pending = Withdraw(root.pending, t),
                        !.suspended = Extend(root.suspended, t)]
<1>1. /\ Withdraw(root.pending, t) \in RangesIn(T) /\ Extend(root.suspended, t) \in RangesIn(T)
      /\ ClearPing(root.latestPingedTime, t) \in T /\ t \in Nat
  BY RangesStayIn DEF LevelsIn, ClearPing
<1>2. marked \in LevelsIn(T)
  BY <1>1 DEF LevelsIn
<1> QED
  BY <1>1, <1>2, FindNextStaysIn DEF MarkSuspended

LEMMA MarkPingedStaysIn ==
  ASSUME NEW T \in SUBSET Nat, NoWork \in T, NEW root \in LevelsIn(T), NEW t \in T
  PROVE  MarkPinged(root, t) \in LevelsIn(T)
<1> DEFINE marked == [root EXCEPT !.didError = FALSE,
                        !.latestPingedTime = IF root.latestPingedTime < t
                                             THEN t ELSE root.latestPingedTime]
<1>1. marked \in LevelsIn(T) /\ t \in Nat
  BY DEF LevelsIn
<1> QED
  BY <1>1, FindNextStaysIn DEF MarkPinged

LEMMA MarkCommittedStaysIn ==
  ASSUME NEW T \in SUBSET Nat, NoWork \in T, NEW root \in LevelsIn(T), NEW t \in T
  PROVE  MarkCommitted(root, t) \in LevelsIn(T)
<1> DEFINE flushed == [root EXCEPT !.didError = FALSE,
                                   !.pending = DropBefore(root.pending, t)]
           unsuspended == [flushed EXCEPT !.suspended = NoLevels,
                                          !.latestPingedTime = NoWork]
           again(r) == FindNext(MarkPending(r, t), NoWork)
<1>1. DropBefore(root.pending, t) \in RangesIn(T) /\ NoLevels \in RangesIn(T) /\ NoWork \in Nat
  BY RangesStayIn DEF LevelsIn, NoWork
<1>2. flushed \in LevelsIn(T)
  BY <1>1 DEF LevelsIn
<1>3. unsuspended \in LevelsIn(T)
  BY <1>1, <1>2 DEF LevelsIn
<1>4. [unsuspended EXCEPT !.pending = NoLevels] \in LevelsIn(T)
  BY <1>1, <1>3 DEF LevelsIn
<1>5. ASSUME NEW r \in LevelsIn(T) PROVE again(r) \in LevelsIn(T)
  BY <1>1, MarkPendingStaysIn, FindNextStaysIn
<1>6. FindNext(flushed, NoWork) \in LevelsIn(T)
  BY <1>1, <1>2, FindNextStaysIn
<1>7. FindNext([unsuspended EXCEPT !.pending = NoLevels], NoWork) \in LevelsIn(T)
  BY <1>1, <1>4, FindNextStaysIn
<1> HIDE DEF flushed, unsuspended, again
<1>8. \/ MarkCommitted(root, t) = FindNext([unsuspended EXCEPT !.pending = NoLevels], NoWork)
      \/ MarkCommitted(root, t) = again(flushed)
      \/ MarkCommitted(root, t) = again(unsuspended)
      \/ MarkCommitted(root, t) = FindNext(flushed, NoWork)
  BY DEF MarkCommitted, IsMoreUrgentThanSuspended, flushed, unsuspended, again
<1> QED
  BY <1>2, <1>3, <1>5, <1>6, <1>7, <1>8

-----------------------------------------------------------------------------
(* What a root knows of: the levels between the ends of its two ranges.    *)
Knows(root, l) ==
  /\ \/ root.pending.earliest # NoWork /\ root.pending.earliest <= l
     \/ root.suspended.earliest # NoWork /\ root.suspended.earliest <= l
  /\ l <= root.pending.latest \/ l <= root.suspended.latest

KnowsMore(before, after) == \A l \in Nat : Knows(before, l) => Knows(after, l)

(* A synchronous level was suspended together with a later one: the root   *)
(* may then be told to work on it, pinged, at a later time.                *)
SyncIsHeld(root) == root.suspended.earliest = Sync /\ root.suspended.latest > Sync

HasSync(root) == Sync \in {root.pending.earliest, root.suspended.earliest}

(* findNextExpirationTimeToWorkOn: what the expiration time says of the    *)
(* level to work on.                                                       *)
TimesAgree(root) ==
  /\ root.expirationTime = NoWork <=> root.nextExpirationTimeToWorkOn = NoWork
  /\ root.nextExpirationTimeToWorkOn = Sync => root.expirationTime = Sync
  /\ HasSync(root) /\ root.expirationTime # NoWork => root.expirationTime = Sync

LEMMA FindNextAgrees ==
  ASSUME NEW root, SoundButNext(root), NEW completed \in Nat
  PROVE  LET found == FindNext(root, completed)
         IN /\ TimesAgree(found)
            /\ root.pending.earliest # NoWork
                 => found.nextExpirationTimeToWorkOn = root.pending.earliest
            /\ root.pending.earliest = NoWork /\ IsPinged(root)
                 => found.nextExpirationTimeToWorkOn = root.latestPingedTime
            /\ root.pending.earliest = NoWork /\ ~IsPinged(root)
                 => /\ found.nextExpirationTimeToWorkOn \in {NoWork, root.suspended.latest}
                    /\ completed = NoWork \/ root.suspended.latest > completed
                         => found.nextExpirationTimeToWorkOn = root.suspended.latest
<1> DEFINE next == NextTimeToWorkOn(root, completed)
           found == FindNext(root, completed)
<1>1. /\ root \in Levels /\ root.pending \in Ranges /\ root.suspended \in Ranges
      /\ root.latestPingedTime \in Nat
      /\ IsRange(root.pending) /\ IsRange(root.suspended)
  BY DEF SoundButNext, Levels
<1>2. next \in Nat
  BY <1>1 DEF Ranges, NextTimeToWorkOn, NoWork
<1>3. /\ found.pending = root.pending /\ found.suspended = root.suspended
      /\ found.nextExpirationTimeToWorkOn = next
      /\ found.expirationTime =
           IF next # NoWork /\ root.suspended.earliest # NoWork /\ root.suspended.earliest < next
           THEN root.suspended.earliest ELSE next
  BY <1>1 DEF FindNext, Levels
<1>4. /\ root.pending.earliest # NoWork => next = root.pending.earliest
      /\ root.pending.earliest = NoWork /\ IsPinged(root) => next = root.latestPingedTime
      /\ root.pending.earliest = NoWork /\ ~IsPinged(root)
           => /\ next \in {NoWork, root.suspended.latest}
              /\ completed = NoWork \/ root.suspended.latest > completed
                   => next = root.suspended.latest
  BY DEF NextTimeToWorkOn, IsPinged
<1> HIDE DEF next, found
<1>5. TimesAgree(found)
  <2>1. found.expirationTime = NoWork <=> next = NoWork
    BY <1>1, <1>2, <1>3 DEF Ranges, NoWork
  <2>2. next = Sync => found.expirationTime = Sync
    BY <1>1, <1>2, <1>3 DEF Ranges, NoWork, Sync
  <2>3. HasSync(found) /\ next # NoWork => found.expirationTime = Sync
    BY <1>1, <1>2, <1>3, <1>4 DEF Ranges, NoWork, Sync, HasSync
  <2> QED
    BY <1>3, <2>1, <2>2, <2>3 DEF TimesAgree
<1> QED
  BY <1>3, <1>4, <1>5 DEF found

(* A level that is marked pending is known from then on, and is worked on. *)
LEMMA MarkPendingAdds ==
  ASSUME NEW root, Sound(root), NEW t \in Nat, t # NoWork
  PROVE  LET after == MarkPending(root, t)
         IN /\ Sound(after) /\ TimesAgree(after)
            /\ after.expirationTime # NoWork /\ after.pending.earliest # NoWork
            /\ after.suspended = root.suspended /\ root.pending.latest <= after.pending.latest
            /\ KnowsMore(root, after) /\ Knows(after, t)
            /\ HasSync(root) \/ t = Sync => HasSync(after)
            /\ after.pending.earliest = Sync => root.pending.earliest = Sync \/ t = Sync
            /\ after.nextExpirationTimeToWorkOn = after.pending.earliest
<1> DEFINE pending == Extend(root.pending, t)
           marked == [root EXCEPT !.didError = FALSE, !.pending = pending]
           after == MarkPending(root, t)
<1>1. /\ SoundButNext(root) /\ root \in Levels
      /\ root.pending \in Ranges /\ root.suspended \in Ranges
      /\ IsRange(root.pending) /\ IsRange(root.suspended)
  BY DEF Sound, SoundButNext, Levels
<1>2. /\ pending \in Ranges /\ IsRange(pending) /\ pending.earliest # NoWork
      /\ pending.earliest <= t /\ t <= pending.latest
      /\ root.pending.latest <= pending.latest
      /\ root.pending.earliest # NoWork => pending.earliest <= root.pending.earliest
  BY <1>1, ExtendIsRange
<1>3. pending.earliest \in {t, root.pending.earliest}
  BY <1>1 DEF Extend, Ranges
<1>4. SoundButNext(marked) /\ marked.pending = pending /\ marked.suspended = root.suspended
  BY <1>1, <1>2 DEF SoundButNext, Levels, IsPinged, IsPriorityLevelSuspended
<1>5. Sound(after)
  BY <1>1, MarkPendingIsSound
<1>10. after = FindNext(marked, t)
  BY DEF MarkPending
<1> HIDE DEF pending, marked, after
<1>11. after.pending = pending /\ after.suspended = root.suspended
  BY <1>4, <1>10, FindNextKeeps DEF SoundButNext
<1>6. /\ TimesAgree(after) /\ after.pending = pending /\ after.suspended = root.suspended
      /\ after.nextExpirationTimeToWorkOn = pending.earliest
  BY <1>2, <1>4, <1>10, <1>11, FindNextAgrees
<1>7. after.expirationTime # NoWork
  BY <1>2, <1>6 DEF TimesAgree
<1>8. KnowsMore(root, after) /\ Knows(after, t)
  BY <1>1, <1>2, <1>6 DEF KnowsMore, Knows, Ranges, NoWork
<1>9. HasSync(root) \/ t = Sync => HasSync(after)
  BY <1>1, <1>2, <1>3, <1>6 DEF HasSync, Ranges, NoWork, Sync
<1> QED
  BY <1>2, <1>3, <1>5, <1>6, <1>7, <1>8, <1>9 DEF after

(* A ping makes the root work on something, and leaves what it knows.      *)
LEMMA MarkPingedAdds ==
  ASSUME NEW root, Sound(root), NEW t \in Nat, t # NoWork,
         IsPriorityLevelSuspended(root, t)
  PROVE  LET after == MarkPinged(root, t)
         IN /\ Sound(after) /\ TimesAgree(after)
            /\ after.expirationTime # NoWork
            /\ after.pending = root.pending /\ after.suspended = root.suspended
            /\ KnowsMore(root, after) /\ Knows(after, t)
            /\ HasSync(root) \/ t = Sync => HasSync(after)
<1> DEFINE pinged == IF root.latestPingedTime < t THEN t ELSE root.latestPingedTime
           marked == [root EXCEPT !.didError = FALSE, !.latestPingedTime = pinged]
           after == MarkPinged(root, t)
<1>1. /\ SoundButNext(root) /\ root \in Levels
      /\ root.pending \in Ranges /\ root.suspended \in Ranges
      /\ IsRange(root.pending) /\ IsRange(root.suspended)
      /\ root.latestPingedTime \in Nat
  BY DEF Sound, SoundButNext, Levels
<1>2. Sound(after)
  BY <1>1, MarkPingedIsSound
<1>8. pinged \in Nat /\ pinged # NoWork /\ pinged \in {t, root.latestPingedTime}
  BY <1>1 DEF NoWork
<1>9. /\ marked \in Levels /\ marked.latestPingedTime = pinged
      /\ marked.pending = root.pending /\ marked.suspended = root.suspended
  BY <1>1, <1>8 DEF Levels
<1>3. SoundButNext(marked) /\ IsPinged(marked)
  BY <1>1, <1>8, <1>9 DEF SoundButNext, IsPinged, IsPriorityLevelSuspended
<1>10. after = FindNext(marked, t)
  BY DEF MarkPinged
<1> HIDE DEF pinged, marked, after
<1>11. after.pending = root.pending /\ after.suspended = root.suspended
  BY <1>9, <1>10, FindNextKeeps
<1>12. TimesAgree(after)
  BY <1>3, <1>10, FindNextAgrees
<1>13. after.nextExpirationTimeToWorkOn # NoWork
  BY <1>3, <1>9, <1>10, FindNextKeeps
<1>4. /\ TimesAgree(after) /\ after.pending = root.pending /\ after.suspended = root.suspended
      /\ after.nextExpirationTimeToWorkOn # NoWork
  BY <1>11, <1>12, <1>13
<1>5. after.expirationTime # NoWork
  BY <1>4 DEF TimesAgree
<1>6. KnowsMore(root, after) /\ Knows(after, t)
  BY <1>1, <1>4 DEF KnowsMore, Knows, IsPriorityLevelSuspended, Ranges, NoWork
<1>7. HasSync(root) \/ t = Sync => HasSync(after)
  BY <1>1, <1>4 DEF HasSync, IsPriorityLevelSuspended, Ranges, NoWork, Sync
<1> QED
  BY <1>2, <1>4, <1>5, <1>6, <1>7 DEF after

(* Suspending a level: the root has nothing to work on only if it has      *)
(* nothing pending and no level beyond the one suspended.                  *)
LEMMA MarkSuspendedAdds ==
  ASSUME NEW root, Sound(root), NEW t \in Nat, t # NoWork
  PROVE  LET after == MarkSuspended(root, t)
         IN /\ Sound(after) /\ TimesAgree(after)
            /\ KnowsMore(root, after)
            /\ after.expirationTime = NoWork =>
                 /\ after.pending = NoLevels /\ after.suspended.earliest # NoWork
                 /\ ~HasLowerPriorityWork(root, t)
<1> DEFINE pinged == ClearPing(root.latestPingedTime, t)
           pending == Withdraw(root.pending, t)
           suspended == Extend(root.suspended, t)
           marked == [root EXCEPT !.didError = FALSE, !.latestPingedTime = pinged,
                                  !.pending = pending, !.suspended = suspended]
           after == MarkSuspended(root, t)
<1>1. /\ SoundButNext(root) /\ root \in Levels
      /\ root.pending \in Ranges /\ root.suspended \in Ranges
      /\ root.latestPingedTime \in Nat
      /\ IsRange(root.pending) /\ IsRange(root.suspended)
  BY DEF Sound, SoundButNext, Levels
<1>2. /\ pending \in Ranges /\ IsRange(pending)
      /\ root.pending.latest = t \/ pending.latest = root.pending.latest
      /\ root.pending.earliest = t \/ pending.earliest = root.pending.earliest
  BY <1>1, WithdrawIsRange
<1>3. /\ suspended \in Ranges /\ IsRange(suspended) /\ suspended.earliest # NoWork
      /\ suspended.earliest <= t /\ t <= suspended.latest
      /\ root.suspended.latest <= suspended.latest
      /\ root.suspended.earliest # NoWork => suspended.earliest <= root.suspended.earliest
  BY <1>1, ExtendIsRange
<1>4. /\ pinged \in Nat
      /\ pinged # NoWork => suspended.earliest <= pinged /\ pinged <= suspended.latest
      /\ root.latestPingedTime > t => pinged # NoWork
  BY <1>1, <1>3 DEF ClearPing, SoundButNext, IsPinged, IsPriorityLevelSuspended, Ranges, NoWork
<1>5. /\ marked \in Levels /\ marked.pending = pending /\ marked.suspended = suspended
      /\ marked.latestPingedTime = pinged
  BY <1>1, <1>2, <1>3, <1>4 DEF Levels
<1>6. SoundButNext(marked)
  BY <1>2, <1>3, <1>4, <1>5 DEF SoundButNext, IsPinged, IsPriorityLevelSuspended
<1>7. Sound(after)
  BY <1>1, MarkSuspendedIsSound
<1>8. after = FindNext(marked, t)
  BY DEF MarkSuspended
<1> HIDE DEF pinged, pending, suspended, marked, after
<1>12. after.pending = pending /\ after.suspended = suspended
  BY <1>5, <1>8, FindNextKeeps
<1>9. /\ TimesAgree(after) /\ after.pending = pending /\ after.suspended = suspended
      /\ pending.earliest # NoWork => after.nextExpirationTimeToWorkOn = pending.earliest
      /\ pending.earliest = NoWork /\ pinged # NoWork
           => after.nextExpirationTimeToWorkOn = pinged
      /\ pending.earliest = NoWork /\ pinged = NoWork /\ suspended.latest > t
           => after.nextExpirationTimeToWorkOn = suspended.latest
  BY <1>5, <1>6, <1>8, <1>12, FindNextAgrees DEF IsPinged
<1>10. KnowsMore(root, after)
  <2> SUFFICES ASSUME NEW l \in Nat, Knows(root, l) PROVE Knows(after, l)
    BY DEF KnowsMore
  <2>1. \/ after.pending.earliest # NoWork /\ after.pending.earliest <= l
        \/ after.suspended.earliest # NoWork /\ after.suspended.earliest <= l
    BY <1>1, <1>2, <1>3, <1>9 DEF Knows, Ranges, NoWork
  <2>2. l <= after.pending.latest \/ l <= after.suspended.latest
    BY <1>1, <1>2, <1>3, <1>9 DEF Knows, Ranges, NoWork
  <2> QED
    BY <2>1, <2>2 DEF Knows
<1>11. ASSUME after.expirationTime = NoWork
       PROVE  /\ after.pending = NoLevels /\ after.suspended.earliest # NoWork
              /\ ~HasLowerPriorityWork(root, t)
  <2>1. after.nextExpirationTimeToWorkOn = NoWork
    BY <1>9, <1>11 DEF TimesAgree
  <2>2. pending.earliest = NoWork /\ pinged = NoWork /\ ~(suspended.latest > t)
    BY <1>3, <1>9, <2>1 DEF Ranges, NoWork
  <2>3. pending = NoLevels
    BY <1>2, <2>2 DEF Ranges, IsRange, NoLevels, NoWork
  <2>4. ~(root.pending.latest > t)
    BY <1>1, <1>2, <2>2 DEF Ranges, IsRange, NoWork
  <2>5. ~(root.suspended.latest > t)
    BY <1>1, <1>3, <2>2 DEF Ranges
  <2> QED
    BY <1>3, <1>4, <1>9, <2>2, <2>3, <2>4, <2>5 DEF HasLowerPriorityWork
<1> QED
  BY <1>7, <1>9, <1>10, <1>11 DEF after

LEMMA DropBeforeDrops ==
  ASSUME NEW range \in Ranges, IsRange(range), NEW t \in Nat, t # NoWork
  PROVE  LET after == DropBefore(range, t)
         IN /\ after.earliest = NoWork \/ t <= after.earliest
            /\ t <= range.latest => after.latest = range.latest
            /\ range.earliest = NoWork => after = NoLevels
            /\ after.earliest # NoWork => range.earliest # NoWork
  BY DEF Ranges, IsRange, DropBefore, NoWork, NoLevels

(* A commit that leaves some levels in the tree: the root knows of all of  *)
(* them, although it is told only the earliest, and has a level to work    *)
(* on.  If it was only waiting for promises, it still is.                  *)
LEMMA MarkCommittedLeaves ==
  ASSUME NEW root, Sound(root),
         NEW left \in SUBSET Nat, NoWork \notin left, \A l \in left : Knows(root, l),
         NEW t \in left, \A l \in left : t <= l
  PROVE  LET after == MarkCommitted(root, t)
         IN /\ Sound(after) /\ TimesAgree(after)
            /\ after.expirationTime # NoWork
            /\ \A l \in left : Knows(after, l)
            /\ after.pending.earliest = Sync => Sync \in left
            /\ after.nextExpirationTimeToWorkOn = Sync => Sync \in left \/ SyncIsHeld(after)
            /\ root.pending.earliest = NoWork =>
                 after.pending = NoLevels /\ after.suspended = root.suspended
<1> DEFINE dropped == DropBefore(root.pending, t)
           flushed == [root EXCEPT !.didError = FALSE, !.pending = dropped]
           unsuspended == [flushed EXCEPT !.suspended = NoLevels,
                                          !.latestPingedTime = NoWork]
           again(r) == FindNext(MarkPending(r, t), NoWork)
           good(after) ==
            /\ TimesAgree(after)
            /\ after.expirationTime # NoWork
            /\ \A l \in left : Knows(after, l)
            /\ after.pending.earliest = Sync => Sync \in left
            /\ after.nextExpirationTimeToWorkOn = Sync => Sync \in left \/ SyncIsHeld(after)
            /\ root.pending.earliest = NoWork =>
                 after.pending = NoLevels /\ after.suspended = root.suspended
<1>0. /\ t \in Nat /\ t # NoWork /\ Knows(root, t) /\ NoWork \in Nat
      /\ SoundButNext(root) /\ root \in Levels
      /\ root.pending \in Ranges /\ root.suspended \in Ranges
      /\ root.latestPingedTime \in Nat
      /\ IsRange(root.pending) /\ IsRange(root.suspended)
      /\ NoLevels \in Ranges /\ IsRange(NoLevels) /\ NoLevels.earliest = NoWork
      /\ NoLevels.latest = NoWork
  BY DEF Sound, SoundButNext, Levels, NoWork, NoLevels, Ranges, IsRange
<1>1. Sound(MarkCommitted(root, t))
  BY <1>0, MarkCommittedIsSound
<1>2. /\ dropped \in Ranges /\ IsRange(dropped)
      /\ dropped.earliest = NoWork \/ t <= dropped.earliest
      /\ t <= root.pending.latest => dropped.latest = root.pending.latest
      /\ root.pending.earliest = NoWork => dropped = NoLevels
      /\ dropped.earliest # NoWork => root.pending.earliest # NoWork
  BY <1>0, DropBeforeIsRange, DropBeforeDrops
<1>3. /\ Sound(flushed) /\ flushed.pending = dropped /\ flushed.suspended = root.suspended
      /\ flushed.latestPingedTime = root.latestPingedTime
  BY <1>2 DEF Sound, Levels, IsPinged, IsPriorityLevelSuspended
<1>4. Sound(unsuspended) /\ unsuspended.pending = dropped /\ unsuspended.suspended = NoLevels
  BY <1>0, <1>2, <1>3 DEF Sound, Levels, IsPinged, IsPriorityLevelSuspended
<1>5. \/ /\ root.suspended.earliest = NoWork
         /\ MarkCommitted(root, t) = again(flushed)
      \/ /\ t > root.suspended.latest
         /\ MarkCommitted(root, t) = again(unsuspended)
      \/ /\ root.suspended.earliest # NoWork /\ t < root.suspended.earliest
         /\ MarkCommitted(root, t) = again(flushed)
      \/ /\ root.suspended.earliest # NoWork
         /\ ~(t > root.suspended.latest) /\ ~(t < root.suspended.earliest)
         /\ MarkCommitted(root, t) = FindNext(flushed, NoWork)
  BY <1>0 DEF MarkCommitted, IsMoreUrgentThanSuspended
<1> HIDE DEF dropped, flushed, unsuspended
<1>6. ASSUME NEW r, Sound(r), r.pending = dropped,
             \A l \in left : l <= dropped.latest \/ l <= r.suspended.latest,
             root.pending.earliest # NoWork
      PROVE  good(again(r))
  <2> DEFINE m == MarkPending(r, t)
             after == FindNext(m, NoWork)
  <2>1. /\ Sound(m)
        /\ m.pending.earliest # NoWork
        /\ m.suspended = r.suspended /\ dropped.latest <= m.pending.latest
        /\ Knows(m, t)
        /\ m.pending.earliest = Sync => dropped.earliest = Sync \/ t = Sync
    BY <1>0, <1>6, MarkPendingAdds
  <2>2. SoundButNext(m) /\ m \in Levels /\ m.pending \in Ranges /\ m.suspended \in Ranges
    BY <2>1 DEF Sound, SoundButNext, Levels
  <2> HIDE DEF m
  <2>3. after.pending = m.pending /\ after.suspended = m.suspended
    BY <1>0, <2>2, FindNextKeeps
  <2>4. /\ TimesAgree(after)
        /\ after.nextExpirationTimeToWorkOn = m.pending.earliest
    BY <1>0, <2>1, <2>2, FindNextAgrees
  <2> HIDE DEF after
  <2>5. after.expirationTime # NoWork
    BY <2>1, <2>4 DEF TimesAgree
  <2>6. ASSUME NEW l \in left PROVE Knows(after, l)
    <3>1. l \in Nat /\ t <= l
      OBVIOUS
    <3>2. \/ after.pending.earliest # NoWork /\ after.pending.earliest <= l
          \/ after.suspended.earliest # NoWork /\ after.suspended.earliest <= l
      BY <1>0, <2>1, <2>2, <2>3, <3>1 DEF Knows, Ranges
    <3>3. l <= after.pending.latest \/ l <= after.suspended.latest
      BY <1>2, <1>6, <2>1, <2>2, <2>3, <3>1 DEF Ranges
    <3> QED
      BY <3>2, <3>3 DEF Knows
  <2>7. after.pending.earliest = Sync => Sync \in left
    BY <1>0, <1>2, <2>1, <2>3 DEF Ranges, Sync, NoWork
  <2>8. after.nextExpirationTimeToWorkOn = Sync => Sync \in left
    BY <2>3, <2>4, <2>7
  <2> QED
    BY <1>6, <2>4, <2>5, <2>6, <2>7, <2>8 DEF after, m
<1>7. ASSUME root.suspended.earliest = NoWork PROVE good(again(flushed))
  <2>1. root.suspended.latest = NoWork
    BY <1>0, <1>7 DEF IsRange
  <2>2. root.pending.earliest # NoWork
    BY <1>0, <1>7 DEF Knows
  <2>3. ASSUME NEW l \in left PROVE l <= dropped.latest
    BY <1>0, <1>2, <2>1, <2>3 DEF Knows, Ranges, NoWork
  <2> QED
    BY <1>3, <1>6, <2>2, <2>3
<1>8. ASSUME t > root.suspended.latest PROVE good(again(unsuspended))
  <2>1. ASSUME NEW l \in left PROVE l <= dropped.latest
    BY <1>0, <1>2, <1>8, <2>1 DEF Knows, Ranges
  <2>2. root.pending.earliest # NoWork
    <3>1. t <= root.pending.latest
      BY <1>0, <1>8 DEF Knows, Ranges
    <3> QED
      BY <1>0, <3>1 DEF IsRange, Ranges, NoWork
  <2> QED
    BY <1>4, <1>6, <2>1, <2>2
<1>9. ASSUME root.suspended.earliest # NoWork, t < root.suspended.earliest
      PROVE  good(again(flushed))
  <2>1. root.pending.earliest # NoWork
    BY <1>0, <1>9 DEF Knows, Ranges
  <2>2. ASSUME NEW l \in left PROVE l <= dropped.latest \/ l <= root.suspended.latest
    BY <1>0, <1>2, <2>2 DEF Knows, Ranges
  <2> QED
    BY <1>3, <1>6, <2>1, <2>2
<1>10. ASSUME root.suspended.earliest # NoWork,
              ~(t > root.suspended.latest), ~(t < root.suspended.earliest)
       PROVE  good(FindNext(flushed, NoWork))
  <2> DEFINE after == FindNext(flushed, NoWork)
  <2>0. SoundButNext(flushed) /\ flushed \in Levels
    BY <1>3 DEF Sound, SoundButNext
  <2>1. after.pending = dropped /\ after.suspended = root.suspended
    BY <1>0, <1>3, <2>0, FindNextKeeps
  <2>2. /\ TimesAgree(after)
        /\ dropped.earliest # NoWork => after.nextExpirationTimeToWorkOn = dropped.earliest
        /\ dropped.earliest = NoWork /\ root.latestPingedTime # NoWork
             => after.nextExpirationTimeToWorkOn = root.latestPingedTime
        /\ dropped.earliest = NoWork /\ root.latestPingedTime = NoWork
             => after.nextExpirationTimeToWorkOn = root.suspended.latest
    BY <1>0, <1>3, <2>0, FindNextAgrees DEF IsPinged
  <2> HIDE DEF after
  <2>3. after.nextExpirationTimeToWorkOn # NoWork
    BY <1>0, <1>10, <2>2 DEF Ranges, NoWork
  <2>4. after.expirationTime # NoWork
    BY <2>2, <2>3 DEF TimesAgree
  <2>5. ASSUME NEW l \in left PROVE Knows(after, l)
    BY <1>0, <1>2, <1>10, <2>1, <2>5 DEF Knows, Ranges
  <2>6. after.pending.earliest = Sync => Sync \in left
    BY <1>0, <1>2, <2>1 DEF Ranges, Sync, NoWork
  <2>7. ASSUME after.nextExpirationTimeToWorkOn = Sync PROVE Sync \in left \/ SyncIsHeld(after)
    <3>1. CASE dropped.earliest # NoWork
      BY <2>1, <2>2, <2>6, <2>7, <3>1
    <3>2. CASE dropped.earliest = NoWork /\ root.latestPingedTime # NoWork
      <4>1. root.suspended.earliest = Sync
        BY <1>0, <1>10, <2>2, <2>7, <3>2
           DEF Sound, IsPinged, IsPriorityLevelSuspended, Ranges, Sync, NoWork
      <4>2. t = Sync \/ root.suspended.latest > Sync
        BY <1>0, <1>10, <4>1 DEF Ranges, Sync, NoWork
      <4> QED
        BY <2>1, <4>1, <4>2 DEF SyncIsHeld
    <3>3. CASE dropped.earliest = NoWork /\ root.latestPingedTime = NoWork
      BY <1>0, <1>10, <2>2, <2>7, <3>3 DEF Ranges, Sync, NoWork
    <3> QED
      BY <3>1, <3>2, <3>3
  <2> QED
    BY <1>2, <2>1, <2>2, <2>4, <2>5, <2>6, <2>7 DEF after
<1> HIDE DEF again, good
<1>11. good(MarkCommitted(root, t))
  BY <1>5, <1>7, <1>8, <1>9, <1>10
<1> QED
  BY <1>1, <1>11 DEF good

(* A commit that leaves nothing.                                           *)
LEMMA MarkCommittedClears ==
  ASSUME NEW root, Sound(root)
  PROVE  LET after == MarkCommitted(root, NoWork)
         IN /\ Sound(after)
            /\ after.expirationTime = NoWork /\ after.nextExpirationTimeToWorkOn = NoWork
            /\ after.pending = NoLevels
<1> DEFINE cleared == [root EXCEPT !.didError = FALSE, !.pending = NoLevels,
                                   !.suspended = NoLevels, !.latestPingedTime = NoWork]
           after == FindNext(cleared, NoWork)
<1>1. MarkCommitted(root, NoWork) = after
  BY DEF MarkCommitted, Sound, Levels
<1>3. /\ NoLevels.earliest = NoWork /\ NoLevels.latest = NoWork /\ NoWork \in Nat
      /\ NoLevels \in Ranges /\ IsRange(NoLevels)
  BY DEF NoLevels, NoWork, Ranges, IsRange
<1>7. /\ cleared \in Levels
      /\ cleared.pending = NoLevels /\ cleared.suspended = NoLevels
      /\ cleared.latestPingedTime = NoWork
  BY <1>3 DEF Sound, Levels
<1>2. /\ SoundButNext(cleared) /\ cleared \in Levels
      /\ cleared.pending = NoLevels /\ cleared.suspended = NoLevels
      /\ cleared.latestPingedTime = NoWork
  BY <1>3, <1>7 DEF SoundButNext, IsPinged
<1> HIDE DEF cleared
<1>4. after.pending = NoLevels
  BY <1>2, <1>3, FindNextKeeps
<1>5. TimesAgree(after) /\ after.nextExpirationTimeToWorkOn = NoWork
  BY <1>2, <1>3, FindNextAgrees DEF IsPinged
<1>6. Sound(after)
  BY <1>2, <1>3, FindNextIsSound
<1> HIDE DEF after
<1> QED
  BY <1>1, <1>4, <1>5, <1>6 DEF TimesAgree
=============================================================================
