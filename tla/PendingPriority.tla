-------------------------- MODULE PendingPriority --------------------------
(***************************************************************************)
(* react-reconciler/src/ReactFiberPendingPriority.js: the levels of work   *)
(* of a root, as functions from the root before a call to the root after.  *)
(*                                                                         *)
(* A level is an expiration time; a smaller one is more urgent, NoWork is  *)
(* no work at all.  Of the levels that wait to be rendered, and of those   *)
(* that have been suspended, a root remembers the earliest and the latest. *)
(***************************************************************************)
EXTENDS Integers

NoWork == 0
Sync == 1

NoLevels == [earliest |-> NoWork, latest |-> NoWork]

Ranges == [earliest : Nat, latest : Nat]

IsRange(range) ==
  /\ range.earliest <= range.latest
  /\ range.earliest = NoWork => range.latest = NoWork

Levels ==
  [pending : Ranges,      \* earliestPendingTime and latestPendingTime
   suspended : Ranges,    \* earliestSuspendedTime and latestSuspendedTime
   latestPingedTime : Nat,
   didError : BOOLEAN,
   nextExpirationTimeToWorkOn : Nat,
   expirationTime : Nat]

NewLevels ==
  [pending |-> NoLevels, suspended |-> NoLevels, latestPingedTime |-> NoWork,
   didError |-> FALSE,
   nextExpirationTimeToWorkOn |-> NoWork, expirationTime |-> NoWork]

-----------------------------------------------------------------------------
(* Mutation: a range only grows towards more urgent levels.                *)
ExtendForward(range, t) ==
  IF range.earliest = NoWork THEN [earliest |-> t, latest |-> t]
  ELSE IF range.earliest > t THEN [range EXCEPT !.earliest = t]
  ELSE range

Extend(range, t) ==
  IF range.earliest = NoWork THEN [earliest |-> t, latest |-> t]
  ELSE IF range.earliest > t THEN [range EXCEPT !.earliest = t]
  ELSE IF range.latest < t   THEN [range EXCEPT !.latest = t]
  ELSE range

(* What is between the two ends is forgotten with the end it hides behind. *)
(* Mutation: the other end is not moved.                                   *)
WithdrawEnd(range, t) ==
  IF range.earliest = t THEN [range EXCEPT !.earliest = NoWork]
  ELSE IF range.latest = t THEN [range EXCEPT !.latest = NoWork] ELSE range

Withdraw(range, t) ==
  IF range.earliest = t
  THEN IF range.latest = t THEN NoLevels ELSE [range EXCEPT !.earliest = range.latest]
  ELSE IF range.latest = t THEN [range EXCEPT !.latest = range.earliest] ELSE range

DropBefore(range, t) ==
  IF range.latest = NoWork     THEN range
  ELSE IF range.latest < t     THEN NoLevels
  ELSE IF range.earliest < t   THEN [range EXCEPT !.earliest = range.latest]
  ELSE range

(* findNextExpirationTimeToWorkOn, the last step of every mark function.   *)
NextTimeToWorkOn(root, completed) ==
  IF root.pending.earliest # NoWork THEN root.pending.earliest
  ELSE IF root.latestPingedTime # NoWork THEN root.latestPingedTime
  ELSE IF completed = NoWork \/ root.suspended.latest > completed
       THEN root.suspended.latest
  ELSE NoWork

FindNext(root, completed) ==
  LET next == NextTimeToWorkOn(root, completed)
      isHeldUp == next # NoWork /\ root.suspended.earliest # NoWork
                    /\ root.suspended.earliest < next
  IN [root EXCEPT !.nextExpirationTimeToWorkOn = next,
                  !.expirationTime = IF isHeldUp THEN root.suspended.earliest ELSE next]

MarkPending(root, t) ==
  FindNext([root EXCEPT !.didError = FALSE, !.pending = Extend(root.pending, t)], t)

ClearPing(pinged, t) == IF pinged <= t THEN NoWork ELSE pinged

MarkSuspended(root, t) ==
  FindNext([root EXCEPT !.didError = FALSE,
                        !.latestPingedTime = ClearPing(root.latestPingedTime, t),
                        !.pending = Withdraw(root.pending, t),
                        !.suspended = Extend(root.suspended, t)], t)

MarkPinged(root, t) ==
  FindNext([root EXCEPT !.didError = FALSE,
                        !.latestPingedTime = IF root.latestPingedTime < t
                                             THEN t ELSE root.latestPingedTime], t)

IsMoreUrgentThanSuspended(root, t) == t < root.suspended.earliest

(* markCommittedPriorityLevels: "remaining" is the earliest level left in  *)
(* the finished tree; is it one of those suspended, or a pending one?      *)
MarkCommitted(root, remaining) ==
  LET flushed == [root EXCEPT !.didError = FALSE,
                              !.pending = DropBefore(root.pending, remaining)]
      unsuspended == [flushed EXCEPT !.suspended = NoLevels,
                                     !.latestPingedTime = NoWork]
      pendingAgain(r) == FindNext(MarkPending(r, remaining), NoWork)
  IN IF remaining = NoWork
     THEN FindNext([unsuspended EXCEPT !.pending = NoLevels], NoWork)
     ELSE IF root.suspended.earliest = NoWork THEN pendingAgain(flushed)
     ELSE IF remaining > root.suspended.latest THEN pendingAgain(unsuspended)
     ELSE IF IsMoreUrgentThanSuspended(root, remaining) THEN pendingAgain(flushed)
     ELSE FindNext(flushed, NoWork)

HasLowerPriorityWork(root, t) ==
  \/ root.pending.latest > t
  \/ root.suspended.latest > t
  \/ root.latestPingedTime > t

IsPriorityLevelSuspended(root, t) ==
  /\ root.suspended.earliest # NoWork
  /\ root.suspended.earliest <= t /\ t <= root.suspended.latest

(* findEarliestOutstandingPriorityLevel, for the level being rendered.     *)
EarliestOutstanding(root, t) ==
  LET earlier(a, b) == IF a = NoWork \/ (b # NoWork /\ b < a) THEN b ELSE a
  IN earlier(earlier(t, root.pending.earliest), root.suspended.earliest)

(* didExpireAtExpirationTime: flush everything up to now in one batch.     *)
DidExpireAt(root, now) ==
  IF root.expirationTime # NoWork /\ now >= root.expirationTime
  THEN [root EXCEPT !.nextExpirationTimeToWorkOn = now]
  ELSE root
=============================================================================
