---------------------------- MODULE MC_Scheduler ----------------------------
(* Timeouts in proportion to the source's -1, 250, 5000 and 2^30 - 1, close *)
(* enough for a user-blocking callback to expire while others wait.         *)
EXTENDS Scheduler

MCTimeout == Immediate :> -1 @@ UserBlocking :> 1 @@ Normal :> 3 @@ Idle :> 6
MCCustomTimeouts == {1}
MCHandlerPriorities == {Immediate}
MCRequestTimes == -1..9
=============================================================================
