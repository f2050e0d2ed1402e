---------------------------- MODULE HostCallback ----------------------------
(***************************************************************************)
(* What the scheduler may expect of the environment it runs in: the        *)
(* contract behind requestHostCallback and cancelHostCallback, the pair    *)
(* every branch of scheduler/src/Scheduler.js (lines 483-704) assigns.     *)
(*                                                                         *)
(* At most one request stands at a time, and a later one replaces it.  The *)
(* host serves it by calling flushWork once; while the call runs, nothing  *)
(* else runs, but the call itself may leave a new request behind.          *)
(***************************************************************************)
EXTENDS Integers

CONSTANT RequestTimes    \* the absolute timeouts the scheduler may ask for

ASSUME RequestTimesAssumption == RequestTimes \subseteq Int

VARIABLES
  now,        \* what getCurrentTime() returns
  request,    \* {} or {t}: flushWork is wanted, and t is its timeout
  flush       \* "none", or the didTimeout flag flushWork was called with

hostVars == <<request, flush>>

HostTypeOK ==
  /\ now \in Nat
  /\ request \in SUBSET RequestTimes
  /\ \A s, t \in request : s = t
  /\ flush \in {"none", "timedOut", "inFrame"}

HostInit == request = {} /\ flush = "none"

(* requestHostCallback(flushWork, t), after cancelHostCallback() or not.   *)
Request(t) == request' = {t}

(* The host calls flushWork(didTimeout).  It claims a timeout only for a   *)
(* request whose timeout has passed.                                       *)
Invoke(didTimeout) ==
  /\ flush = "none"
  /\ request # {}
  /\ didTimeout => \A t \in request : t <= now
  /\ flush' = IF didTimeout THEN "timedOut" ELSE "inFrame"
  /\ request' = {}

(* flushWork returns to the host, or throws through it.                    *)
Return == flush # "none" /\ flush' = "none"

-----------------------------------------------------------------------------
(* The contract as a specification of its own.                             *)
Advance == now' \in Nat /\ now' >= now /\ UNCHANGED hostVars

Init == now = 0 /\ HostInit

Next ==
  \/ Advance
  \/ UNCHANGED <<now, flush>> /\ \E t \in RequestTimes : Request(t)
  \/ UNCHANGED now /\ \E didTimeout \in BOOLEAN : Invoke(didTimeout)
  \/ UNCHANGED <<now, request>> /\ Return

Spec == Init /\ [][Next]_<<now, request, flush>>
=============================================================================
