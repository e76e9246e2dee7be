------------------------ MODULE MCSessionLifecycle ------------------------
(* Instances of SessionLifecycle for TLC. *)
EXTENDS SessionRefinement

CONSTANTS w1, l1, l2, l3

\* All launches reopen the same workspace.
MCOneWorkspace == [l \in Launches |-> w1]

\* Every launch may reuse every session, or only sessions of its own mode.
MCAllCompatible == Launches \X Launches
MCOneMode == {<<l1, l1>>, <<l2, l2>>, <<l1, l2>>}

\* Under fairness: two launches and a stop, or a third launch, which may find both
\* threads of the pool taken.  The launches are interchangeable (MCAllCompatible),
\* so the session that is stopped is the first one's.  No agent attaches.  Only
\* requests, stops and agents are kept back, to which no fairness is given.
MCScenario ==
    /\ stops' # stops => job'[Stopper].target = l1
    /\ stops' = 0 \/ launchState'[l3] = "absent"
    /\ leases' = {}
MCFairSpec == Init /\ [][Next /\ MCScenario]_vars /\ Fairness
===========================================================================
