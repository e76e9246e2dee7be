SPECIFICATION Spec
CONSTANTS
    p1 = p1
    p2 = p2
    lan = lan
    resolver = resolver
    web = web
    Plans <- MCPlans
    Subnet <- MCSubnet
    Addr <- MCAddr
    Global <- MCGlobal
    Approved <- MCApproved
    Scenarios <- MCScenarios
CHECK_DEADLOCK FALSE
INVARIANTS AttestedEnforced RulesOutliveContainer RemovedIsGone
PROPERTIES ForeignKept
