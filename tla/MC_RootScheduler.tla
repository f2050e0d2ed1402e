-------------------------- MODULE MC_RootScheduler --------------------------
EXTENDS RootScheduler
CONSTANTS r1, r2

(* One root that suspends, two roots that do everything else.              *)
Suspending == [roots |-> {r1}, behaviours |-> {"suspend", "throw"}, delays |-> {2},
               updates |-> 1]
Failing == [roots |-> {r1, r2}, delays |-> {1, 3}, updates |-> 3,
            behaviours |-> {"throw", "crash", "updateInRender", "deferUpdates"}]
MCApplications == {Suspending, Failing}

(* One root whose slices are too short, and one that waits for a promise.  *)
MCStarving == {[roots |-> {r1}, behaviours |-> {"throw", "updateInRender"},
                delays |-> {1, 2}, updates |-> 3]}
MCWaiting == {[roots |-> {r1}, behaviours |-> {"suspend"}, delays |-> {1}, updates |-> 1]}
=============================================================================
