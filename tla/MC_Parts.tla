------------------------------ MODULE MC_Parts ------------------------------
(***************************************************************************)
(* The small components, each of which works alone, in one model: the      *)
(* initial state chooses the one that moves.                               *)
(***************************************************************************)
EXTENDS RootLevels, Batches, Tracing, Cache, Subscription, UpdateQueue

CONSTANTS Parts, A, B      \* the components that move, sources of values

VARIABLE part

PartsInit ==
  /\ part \in Parts
  /\ part # "cache" => LIMIT = Max(Limits)
  /\ Init /\ BatchesInit /\ TracingInit /\ CacheInit /\ SubscriptionInit /\ QueueInit

PartsNext ==
  \/ part = "levels"       /\ Next /\ UNCHANGED <<part, batchVars, tracingVars, cacheVars, subscriptionVars, queueVars>>
  \/ part = "batches"      /\ BatchesNext /\ UNCHANGED <<part, levels, tracingVars, cacheVars, subscriptionVars, queueVars>>
  \/ part = "tracing"      /\ TracingNext /\ UNCHANGED <<part, levels, batchVars, cacheVars, subscriptionVars, queueVars>>
  \/ part = "cache"        /\ CacheNext /\ UNCHANGED <<part, levels, batchVars, tracingVars, subscriptionVars, queueVars>>
  \/ part = "subscription" /\ SubscriptionNext /\ UNCHANGED <<part, levels, batchVars, tracingVars, cacheVars, queueVars>>
  \/ part = "queue"        /\ QueueNext /\ UNCHANGED <<part, levels, batchVars, tracingVars, cacheVars, subscriptionVars>>

PartsVars == <<part, levels, batchVars, tracingVars, cacheVars, subscriptionVars, queueVars>>

PartsSpec == PartsInit /\ [][PartsNext]_PartsVars
=============================================================================
