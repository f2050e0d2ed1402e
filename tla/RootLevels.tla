----------------------------- MODULE RootLevels -----------------------------
(***************************************************************************)
(* What the levels of one root go through: the functions of                *)
(* PendingPriority, called by the rest of the reconciler in any order and  *)
(* with any level, under the few conditions its callers establish.         *)
(***************************************************************************)
EXTENDS PendingPriority

CONSTANT Times     \* the levels there can be

ASSUME TimesAssumption == Times \subseteq Nat \ {NoWork} /\ Sync \in Times

VARIABLE levels

Init == levels = NewLevels

(* scheduleWork, and retrySuspendedRoot once the suspension has timed out. *)
Schedule(t) == levels' = MarkPending(levels, t)

(* renderRoot gives up the level: it waits, or it failed and less urgent   *)
(* work may repair it.                                                     *)
Suspend(t) == levels' = MarkSuspended(levels, t)

(* renderRoot failed and nothing is left that could repair it: once more,  *)
(* synchronously.                                                          *)
RetrySynchronously(t) ==
  levels' = [levels EXCEPT !.didError = TRUE, !.nextExpirationTimeToWorkOn = t,
                           !.expirationTime = Sync]

(* retrySuspendedRoot pings a level that is known to be suspended.         *)
Ping(t) ==
  /\ IsPriorityLevelSuspended(levels, t)
  /\ levels' = MarkPinged(levels, t)

(* commitRoot, with the earliest level left in the tree, and onCommit with *)
(* the earliest level left once the lifecycles have run.                   *)
Commit(remaining) == levels' = MarkCommitted(levels, remaining)

Expire(now) == levels' = DidExpireAt(levels, now)

(* The root is scheduled (addRootToSchedule, onCommit) or unscheduled      *)
(* (onUncaughtError, completeRoot of a deferred batch).                    *)
SetExpirationTime(t) == levels' = [levels EXCEPT !.expirationTime = t]

Next ==
  \/ \E t \in Times : Schedule(t) \/ Suspend(t) \/ RetrySynchronously(t) \/ Ping(t)
  \/ \E t \in Times \cup {NoWork} : Commit(t) \/ SetExpirationTime(t)
  \/ \E t \in Times : Expire(t)

Spec == Init /\ [][Next]_levels
-----------------------------------------------------------------------------
TypeOK == levels \in Levels

(* Each function tests one end of a range for NoWork and then relies on    *)
(* the other: the ends are set together, cleared together and in order.    *)
RangesAgree == IsRange(levels.pending) /\ IsRange(levels.suspended)

(* A ping is only remembered for a level that is still suspended, although *)
(* the range is cleared by commits and the ping by later suspensions.      *)
PingIsSuspended ==
  levels.latestPingedTime # NoWork =>
    IsPriorityLevelSuspended(levels, levels.latestPingedTime)

(* The root always has a level to work on while it knows of work that can  *)
(* be rendered.                                                            *)
WorkIsNext ==
  levels.pending.earliest # NoWork \/ levels.latestPingedTime # NoWork =>
    levels.nextExpirationTimeToWorkOn # NoWork

LevelsInv == TypeOK /\ RangesAgree /\ PingIsSuspended /\ WorkIsNext

(* Whatever is rendered, suspended and pinged, only a commit makes a root  *)
(* forget work: the ends of what it knows to be pending or suspended never *)
(* move towards each other otherwise, although suspending a level takes it *)
(* out of one range and the rest of that range keeps only its far end.     *)
LatestKnown(root) ==
  IF root.pending.latest > root.suspended.latest THEN root.pending.latest
                                                 ELSE root.suspended.latest

IsNoEarlier(root, t) ==
  /\ root.pending.earliest = NoWork \/ t <= root.pending.earliest
  /\ root.suspended.earliest = NoWork \/ t <= root.suspended.earliest

OnlyCommitsForget ==
  [][\/ \E remaining \in Times \cup {NoWork} : Commit(remaining)
     \/ /\ LatestKnown(levels') >= LatestKnown(levels)
        /\ \A t \in Times : IsNoEarlier(levels', t) => IsNoEarlier(levels, t)]_levels

(* A commit does not forget the level that is left in the tree: in each    *)
(* of the cases of markCommittedPriorityLevels it ends up pending, or is   *)
(* within the levels that stay suspended.                                  *)
RemainingIsKnown ==
  [][\A t \in Times : Commit(t) =>
       \/ levels'.pending.earliest <= t /\ t <= levels'.pending.latest
       \/ IsPriorityLevelSuspended(levels', t)]_levels
=============================================================================
