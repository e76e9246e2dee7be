-------------------------- MODULE MCNetworkPolicy ---------------------------
(* A small instance of NetworkPolicy: two sessions whose subnets collide. *)
EXTENDS NetworkPolicy

CONSTANTS p1, p2, lan, resolver, web

MCPlans    == {p1, p2}
MCSubnet   == [p \in MCPlans |-> "10.16.1.0"]
MCAddr     == {lan, resolver, web}
MCGlobal   == {web}
MCApproved == {resolver}

MCScenario(plans, faults, stops, crashes, names) ==
    [plans |-> plans, faults |-> faults, stops |-> stops, crashes |-> crashes, names |-> names]

\* One session with every kind of event, or two with one event.
MCScenarios == { MCScenario({p1}, 1, 2, 1, 1), MCScenario(MCPlans, 1, 0, 0, 0),
                 MCScenario(MCPlans, 0, 1, 0, 0), MCScenario(MCPlans, 0, 0, 1, 0) }
=============================================================================
