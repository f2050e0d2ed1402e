------------------------ MODULE MC_SchedulerHostDOM ------------------------
(* A display that runs at up to twice the assumed rate, and requests with  *)
(* every kind of timeout: negative, already past, to come.                 *)
EXTENDS SchedulerHostDOM

MCRequestTimes == {-2, 0, 3, 6}
=============================================================================
