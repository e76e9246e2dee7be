--------------------------- MODULE NetworkPolicy ---------------------------
(***************************************************************************)
(* The host side of a session's sandbox: NetworkPolicyApplier (network.py) *)
(* creating a labelled docker network, installing and verifying iptables   *)
(* chains, and removing both, one external command per step.               *)
(*                                                                         *)
(* A plan is what one session derives from its id.  It has a worker (run:  *)
(* apply, start the container, commit, roll back on failure) and a cleaner *)
(* (stop, or the retirement after a restart), which interleave with each   *)
(* other and with the processes of other plans.  SessionLifecycle treats   *)
(* the same resources as one network and one rule set per session.         *)
(***************************************************************************)
EXTENDS Naturals, SequencesExt

CONSTANTS
    Plans,         \* firewall plans, one per session
    Subnet,        \* Subnet[p]: derived from the session id, may collide
    Addr,          \* destinations
    Global,        \* the globally reachable ones: none of IPV4_DENY_CIDRS
    Approved,      \* approved_dns_endpoints
    Scenarios      \* bounds: which sessions start, and how often commands time
                   \* out, users stop, the launcher dies, names are taken

ASSUME AddressAssumption == Global \subseteq Addr /\ Approved \subseteq Addr
ASSUME ScenariosAssumption ==
    Scenarios \subseteq [plans : SUBSET Plans, faults : Nat, stops : Nat, crashes : Nat, names : Nat]

VARIABLES
    nets,      \* docker networks: <<plan name, label>>
    pending,   \* plan -> a timed-out command the daemon may still carry out:
               \* none, a create, or a run; "over" after a late create
    fw,        \* iptables: chain -> sequence of rules
    running,   \* networks a session's container is attached to
    row,       \* notebook_sessions.state
    loc,       \* control state and local variables of every process
    budget     \* the environment events still to come

vars == <<nets, pending, fw, running, row, loc, budget>>

Procs      == Plans \X {"worker", "cleaner"}
Worker(p)  == <<p, "worker">>
Cleaner(p) == <<p, "cleaner">>
Own(p)     == <<p, "own">>       \* labelled with network_plan_identity
Foreign(p) == <<p, "foreign">>   \* the same name under another label
Named(p)   == nets \cap {Own(p), Foreign(p)}
Egress(p)  == <<p, "egress">>    \* _chain_name
Input(p)   == <<p, "input">>
Ports      == {"dns", "other"}

DockerUser == <<"hook", "DOCKER-USER">>
HostInput  == <<"hook", "INPUT">>
Accept     == <<"verdict", "ACCEPT">>
Reject     == <<"verdict", "REJECT">>
Return     == <<"verdict", "RETURN">>

-----------------------------------------------------------------------------
(* The commands of a plan *)

Rule(src, dst, ports, target) ==
    [src |-> src, dst |-> dst, ports |-> ports, target |-> target]
AnyRule(dst, ports, target) == Rule(Plans, dst, ports, target)
NoRule == AnyRule({}, {}, Return)

\* -s <subnet>, and for packets to the host -i <bridge> as well: a colliding
\* subnet is another plan's too, a bridge is not.
EgressJump(p) == Rule({o \in Plans : Subnet[o] = Subnet[p]}, Addr, Ports, Egress(p))
InputJump(p)  == Rule({p}, Addr, Ports, Input(p))
Command(op, chain, rule) == [op |-> op, chain |-> chain, rule |-> rule]

\* Mutant: port 53 is rejected only after the general destination rules.
EgressRulesDnsLast ==
    << AnyRule(Approved, {"dns"}, Accept), AnyRule(Addr \ Global, Ports, Reject),
       AnyRule(Addr, Ports, Return), AnyRule(Addr, {"dns"}, Reject) >>

\* The body of the egress chain; the first rule that matches decides.
EgressRules ==
    << AnyRule(Approved, {"dns"}, Accept), AnyRule(Addr, {"dns"}, Reject),
       AnyRule(Addr \ Global, Ports, Reject), AnyRule(Addr, Ports, Return) >>

\* The body of the chain for packets to the host itself.
InputRules == << AnyRule(Approved, {"dns"}, Accept), AnyRule(Addr, Ports, Reject) >>

\* A chain is made and flushed, its body appended, and the jump to it inserted.
Added(chain, rules, hook, jump) ==
    [i \in DOMAIN rules |-> Command("A", chain, rules[i])] \o << Command("I", hook, jump) >>
Fill(chain, rules, hook, jump) ==
    << Command("N", chain, NoRule), Command("F", chain, NoRule) >> \o Added(chain, rules, hook, jump)

\* firewall_rule_argv
RuleCommands(p) ==
    Fill(Egress(p), EgressRules, DockerUser, EgressJump(p))
    \o Fill(Input(p), InputRules, HostInput, InputJump(p))

\* firewall_verification_argv, after its `ip link show`: what was appended and
\* inserted, in the same order.
CheckCommands(p) ==
    LET added == Added(Egress(p), EgressRules, DockerUser, EgressJump(p))
                 \o Added(Input(p), InputRules, HostInput, InputJump(p))
    IN  [i \in DOMAIN added |-> [added[i] EXCEPT !.op = "C"]]

\* The commands of remove, after the network is gone.
RemoveCommands(p) ==
    << Command("D", DockerUser, EgressJump(p)),
       Command("D", HostInput, InputJump(p)),
       Command("F", Egress(p), NoRule), Command("X", Egress(p), NoRule),
       Command("F", Input(p), NoRule), Command("X", Input(p), NoRule) >>

-----------------------------------------------------------------------------
(* iptables, as these commands use it *)

Chains == DOMAIN fw
Hooks  == {DockerUser, HostInput}

Exists(target) == target \in Chains \cup {Accept, Reject, Return}
Referenced(chain) == \E c \in Chains : \E i \in DOMAIN fw[c] : fw[c][i].target = chain

Works(c) ==
    CASE c.op = "N" -> c.chain \notin Chains
      [] c.op = "F" -> c.chain \in Chains
      [] c.op \in {"A", "I"} -> c.chain \in Chains /\ Exists(c.rule.target)
      [] c.op \in {"C", "D"} -> c.chain \in Chains /\ c.rule \in Range(fw[c.chain])
      [] c.op = "X" -> c.chain \in Chains /\ fw[c.chain] = <<>> /\ ~Referenced(c.chain)

After(c) ==
    CASE c.op = "N" -> [x \in Chains \cup {c.chain} |-> IF x = c.chain THEN <<>> ELSE fw[x]]
      [] c.op = "F" -> [fw EXCEPT ![c.chain] = <<>>]
      [] c.op = "A" -> [fw EXCEPT ![c.chain] = Append(@, c.rule)]
      [] c.op = "I" -> [fw EXCEPT ![c.chain] = <<c.rule>> \o @]
      [] c.op = "D" -> [fw EXCEPT ![c.chain] = RemoveFirst(@, c.rule)]
      [] c.op = "X" -> Restrict(fw, Chains \ {c.chain})
      [] c.op = "C" -> fw

\* The diagnostics of a failing command say that its target is absent.  When
\* the chain a deleted rule jumps to is missing, versions word this differently.
SaysAbsent(c) == c.op \in {"D", "F", "X"} /\ (c.op # "D" => c.chain \notin Chains)
MayNotSayAbsent(c) == ~SaysAbsent(c) \/ (c.op = "D" /\ c.rule.target \notin Chains)

Spend(what) == budget[what] > 0 /\ budget' = [budget EXCEPT ![what] = @ - 1]
Faulted     == Spend("faults")

\* _run of one iptables command: "ok", "absent" or "fail".  A command that times
\* out is killed before or after it took effect.
Outcome(c, r) ==
    \/ r = "ok" /\ Works(c) /\ fw' = After(c) /\ UNCHANGED budget
    \/ r = "absent" /\ ~Works(c) /\ SaysAbsent(c) /\ UNCHANGED <<fw, budget>>
    \/ r = "fail" /\ ~Works(c) /\ MayNotSayAbsent(c) /\ UNCHANGED <<fw, budget>>
    \/ r = "fail" /\ Faulted /\ (fw' = fw \/ (Works(c) /\ fw' = After(c)))

-----------------------------------------------------------------------------
(* Packets from a plan's network to an address *)

Matches(rule, p, a, port) == p \in rule.src /\ a \in rule.dst /\ port \in rule.ports

\* What a chain decides: the target of its first matching rule.
ChainVerdict(chain, p, a, port) ==
    LET hits == {i \in DOMAIN fw[chain] : Matches(fw[chain][i], p, a, port)}
    IN  IF hits = {} THEN Return ELSE fw[chain][Min(hits)].target

\* What a hook decides: the first chain it jumps to that does not return.
Verdict(hook, p, a, port) ==
    LET Decides(i) == IF Matches(fw[hook][i], p, a, port)
                      THEN ChainVerdict(fw[hook][i].target, p, a, port) ELSE Return
        firm == {i \in DOMAIN fw[hook] : Decides(i) # Return}
    IN  IF firm = {} THEN Accept ELSE Decides(Min(firm))

\* classify_destination, for an address that is no exception
Classify(a) == IF a \in Global THEN Accept ELSE Reject

\* The policy: DNS to the approved resolvers only, other traffic by destination,
\* and to the host itself nothing but DNS.
Policy(hook, a, port) ==
    IF port = "dns" THEN (IF a \in Approved THEN Accept ELSE Reject)
    ELSE IF hook = HostInput THEN Reject ELSE Classify(a)

Packets == Hooks \X Addr \X Ports
Decision(p, k) == Verdict(k[1], p, k[2], k[3])

\* Nothing the policy rejects gets through.
Sealed(p) == \A k \in Packets : Policy(k[1], k[2], k[3]) = Reject => Decision(p, k) = Reject

\* Every packet is treated as the policy says.
Enforced(p) == \A k \in Packets : Decision(p, k) = Policy(k[1], k[2], k[3])

Begin(pc, kind) ==
    [pc |-> pc, at |-> 1, seen |-> "unknown", kind |-> kind, failed |-> FALSE, read |-> "none"]

Init ==
    /\ nets = {} /\ running = {}
    /\ pending = [p \in Plans |-> "none"]
    /\ fw = [c \in Hooks |-> <<>>]
    /\ budget \in Scenarios
    /\ row = [p \in Plans |-> IF p \in budget.plans THEN "starting" ELSE "absent"]
    /\ loc = [q \in Procs |-> IF q[1] \in budget.plans /\ q[2] = "worker"
                              THEN Begin("create", "apply") ELSE Begin("idle", "stop")]

At(q, pc)  == loc[q].pc = pc
Become(q, l) == loc' = [loc EXCEPT ![q] = l]
Goto(q, pc)  == Become(q, [loc[q] EXCEPT !.pc = pc, !.at = 1])
Turn(q, pc, kind) == Become(q, [Begin(pc, kind) EXCEPT !.seen = loc[q].seen])

\* apply: `docker network create` fails for a taken name or an overlapping
\* subnet.  A timeout kills the client, never the daemon's work.
Create(q) == LET p == q[1] IN
    /\ At(q, "create")
    /\ \/ /\ Named(p) = {} /\ \A o \in Plans : Subnet[o] = Subnet[p] => Own(o) \notin nets
          /\ nets' = nets \cup {Own(p)}
          /\ Goto(q, "rule")
          /\ UNCHANGED <<pending, budget>>
       \/ /\ Named(p) # {} \/ \E o \in Plans : Subnet[o] = Subnet[p] /\ Own(o) \in nets
          /\ Turn(q, "inspect", "reconcile")
          /\ UNCHANGED <<nets, pending, budget>>
       \/ /\ Faulted
          /\ pending' \in {pending, [pending EXCEPT ![p] = "create"]}
          /\ Turn(q, "inspect", "reconcile")
          /\ UNCHANGED nets
    /\ UNCHANGED <<fw, running, row>>

\* The daemon finishes a create whose client has gone.
LateCreate(p) ==
    /\ pending[p] = "create"
    /\ pending' = [pending EXCEPT ![p] = "over"]
    /\ nets' = IF Named(p) = {} /\ \A o \in Plans : Subnet[o] = Subnet[p] => Own(o) \notin nets
               THEN nets \cup {Own(p)} ELSE nets
    /\ UNCHANGED <<fw, running, row, loc, budget>>

\* apply: one firewall command; any failure removes everything again.
InstallRule(q) == LET cs == RuleCommands(q[1]) IN
    /\ At(q, "rule")
    /\ \E r \in {"ok", "absent", "fail"} :
          /\ Outcome(cs[loc[q].at], r)
          /\ IF r # "ok" THEN Turn(q, "inspect", "cleanup")
             ELSE IF loc[q].at = Len(cs) THEN Goto(q, "link")
             ELSE Become(q, [loc[q] EXCEPT !.at = @ + 1])
    /\ UNCHANGED <<nets, pending, running, row>>

\* A check that fails: apply cleans up, DockerRuntime.start only raises.
Unverified(q) == IF loc[q].kind = "apply" THEN Turn(q, "inspect", "cleanup")
                                         ELSE Turn(q, "confirm", "rollback")

\* verify: the bridge exists in this network namespace.
CheckLink(q) ==
    /\ At(q, "link")
    /\ \/ Own(q[1]) \in nets /\ Goto(q, "check") /\ UNCHANGED budget
       \/ Own(q[1]) \notin nets /\ Unverified(q) /\ UNCHANGED budget
       \/ Faulted /\ Unverified(q)
    /\ UNCHANGED <<nets, pending, fw, running, row>>

\* verify, and once more in DockerRuntime.start: each rule is still there.
CheckRule(q) == LET cs == CheckCommands(q[1]) IN
    /\ At(q, "check")
    /\ \E r \in {"ok", "absent", "fail"} :
          /\ Outcome(cs[loc[q].at], r)
          /\ IF r # "ok" THEN Unverified(q)
             ELSE IF loc[q].at < Len(cs) THEN Become(q, [loc[q] EXCEPT !.at = @ + 1])
             ELSE IF loc[q].kind = "apply" THEN Turn(q, "link", "start")
             ELSE Goto(q, "run")
    /\ UNCHANGED <<nets, pending, running, row>>

\* DockerRuntime.start: `docker run --network <name>`.
Run(q) == LET p == q[1] IN
    /\ At(q, "run")
    /\ \/ /\ Named(p) # {} /\ Goto(q, "commit")
          /\ running' = running \cup Named(p)
          /\ UNCHANGED <<pending, budget>>
       \/ /\ Named(p) = {} /\ Turn(q, "confirm", "rollback")
          /\ UNCHANGED <<running, pending, budget>>
       \/ /\ Faulted /\ Turn(q, "confirm", "rollback") /\ UNCHANGED running
          /\ pending' \in {pending, [pending EXCEPT ![p] = "run"]}
    /\ UNCHANGED <<nets, fw, row>>

\* The daemon starts a container whose `docker run` has timed out.
LateRun(p) ==
    /\ pending[p] = "run"
    /\ pending' = [pending EXCEPT ![p] = "none"]
    /\ running' = running \cup Named(p)
    /\ UNCHANGED <<nets, fw, row, loc, budget>>

\* The readiness gates, then starting -> ready unless a stop came first.
Commit(q) == LET p == q[1] IN
    /\ At(q, "commit")
    /\ \/ row[p] = "starting" /\ row' = [row EXCEPT ![p] = "ready"] /\ Goto(q, "up") /\ UNCHANGED budget
       \/ row[p] # "starting" /\ Turn(q, "confirm", "rollback") /\ UNCHANGED <<row, budget>>
       \/ Faulted /\ Turn(q, "confirm", "rollback") /\ UNCHANGED row
    /\ UNCHANGED <<nets, pending, fw, running>>

-----------------------------------------------------------------------------
(* remove and its callers *)

\* _stop_and_confirm_runtime; without confirmation the network stays.
Confirm(q) == LET p == q[1] IN
    /\ At(q, "confirm")
    /\ \/ running' = running \ {Own(p), Foreign(p)} /\ Goto(q, "inspect") /\ UNCHANGED budget
       \/ /\ Faulted /\ UNCHANGED running
          /\ Become(q, [loc[q] EXCEPT !.pc = "settle", !.failed = TRUE])
    /\ UNCHANGED <<nets, pending, fw, row>>

\* Mutant: a network that could not be removed no longer ends the cleanup.
GiveUpAndStrip(q) ==
    IF loc[q].kind = "reconcile" THEN Turn(q, "confirm", "rollback")
    ELSE Become(q, [loc[q] EXCEPT !.pc = "strip", !.failed = TRUE])

\* The network could not be removed: the rules stay with it, and the error
\* goes to apply (which raises into the rollback) or to remove's caller.
GiveUp(q) ==
    IF loc[q].kind \in {"reconcile", "cleanup"} THEN Turn(q, "confirm", "rollback")
    ELSE Become(q, [loc[q] EXCEPT !.pc = "settle", !.failed = TRUE])

\* The network is gone: reconciliation ends, remove goes on to the rules.
NetworkGone(q, saw) ==
    IF loc[q].kind = "reconcile"
    THEN Become(q, [Begin("confirm", "rollback") EXCEPT !.seen = saw])
    ELSE Become(q, [loc[q] EXCEPT !.pc = "strip", !.at = 1, !.seen = saw])

\* _inspect_network_identity: only a network with this plan's label is removed.
Inspect(q) == LET p == q[1] IN
    /\ At(q, "inspect")
    /\ \/ Named(p) = {} /\ NetworkGone(q, "absent") /\ UNCHANGED budget
       \/ Own(p) \in nets /\ Goto(q, "rm") /\ UNCHANGED budget
       \/ Foreign(p) \in nets /\ GiveUp(q) /\ UNCHANGED budget
       \/ Faulted /\ GiveUp(q)
    /\ UNCHANGED <<nets, pending, fw, running, row>>

\* Mutant: the network is removed by its name.
RemoveByName(q) == LET p == q[1] IN
    /\ At(q, "rm")
    /\ \/ Named(p) \cap running = {} /\ nets' = nets \ Named(p) /\ NetworkGone(q, "own") /\ UNCHANGED budget
       \/ Named(p) \cap running # {} /\ GiveUp(q) /\ UNCHANGED <<nets, budget>>
    /\ UNCHANGED <<pending, fw, running, row>>

\* _remove_verified_network, by id: refused while a container is attached.
RemoveNetwork(q) == LET p == q[1] IN
    /\ At(q, "rm")
    /\ \/ Own(p) \notin running /\ nets' = nets \ {Own(p)} /\ NetworkGone(q, "own") /\ UNCHANGED budget
       \/ Own(p) \in running /\ GiveUp(q) /\ UNCHANGED <<nets, budget>>
       \/ /\ Faulted /\ GiveUp(q)
          /\ nets' \in {nets, IF Own(p) \in running THEN nets ELSE nets \ {Own(p)}}
    /\ UNCHANGED <<pending, fw, running, row>>

\* Mutant: a timed-out or refused command counts as done.
StripUnchecked(q) == LET cs == RemoveCommands(q[1]) IN
    /\ At(q, "strip")
    /\ \E r \in {"ok", "absent", "fail"} :
          /\ Outcome(cs[loc[q].at], r)
          /\ IF loc[q].at < Len(cs) THEN Become(q, [loc[q] EXCEPT !.at = @ + 1])
             ELSE IF loc[q].kind = "cleanup" THEN Turn(q, "confirm", "rollback")
             ELSE Goto(q, "settle")
    /\ UNCHANGED <<nets, pending, running, row>>

\* remove: every command is tried, failures are collected.
Strip(q) == LET cs == RemoveCommands(q[1]) IN
    /\ At(q, "strip")
    /\ \E r \in {"ok", "absent", "fail"} :
          /\ Outcome(cs[loc[q].at], r)
          /\ LET bad == loc[q].failed \/ r = "fail" IN
             IF loc[q].at < Len(cs) THEN Become(q, [loc[q] EXCEPT !.at = @ + 1, !.failed = bad])
             ELSE IF loc[q].kind = "cleanup" THEN Turn(q, "confirm", "rollback")
             ELSE Become(q, [loc[q] EXCEPT !.pc = "settle", !.failed = bad])
    /\ UNCHANGED <<nets, pending, running, row>>

\* The rollback reads the row it is about to settle.
RollbackRead(q) ==
    /\ At(q, "settle") /\ loc[q].kind = "rollback"
    /\ Become(q, [loc[q] EXCEPT !.pc = "record", !.read = row[q[1]]])
    /\ UNCHANGED <<nets, pending, fw, running, row, budget>>

\* The caller records the outcome; a failure leaves the row in stopping.
Settle(q) == LET p == q[1]
                 kind == loc[q].kind
                 expected == CASE kind = "stop" -> {"stopping"}
                               [] kind = "retire" -> {"starting"}
                               [] kind = "rollback" -> {"starting", "stopping"} \cap {loc[q].read}
                 final == IF kind = "stop" THEN "stopped" ELSE "failed" IN
    /\ At(q, IF kind = "rollback" THEN "record" ELSE "settle")
    /\ row' = IF row[p] \notin expected THEN row
              ELSE [row EXCEPT ![p] = IF loc[q].failed THEN "stopping" ELSE final]
    /\ Goto(q, IF q[2] = "worker" THEN "done" ELSE "idle")
    /\ UNCHANGED <<nets, pending, fw, running, budget>>

-----------------------------------------------------------------------------
(* The environment *)

\* stop: the row leaves starting or ready first.
Stop(p) ==
    /\ At(Cleaner(p), "idle")
    /\ row[p] \in {"starting", "ready", "stopping"}
    /\ row[p] = "starting" => ~At(Worker(p), "dead")  \* startup retires it first
    /\ row' = [row EXCEPT ![p] = "stopping"]
    /\ Spend("stops")
    /\ Turn(Cleaner(p), "confirm", "stop")
    /\ UNCHANGED <<nets, pending, fw, running>>

\* The launcher dies; a create or a run it had sent may still be carried out.
Crash ==
    /\ Spend("crashes")
    /\ loc' = [q \in Procs |-> IF q[2] = "worker" THEN [loc[q] EXCEPT !.pc = "dead"]
                               ELSE [loc[q] EXCEPT !.pc = "idle"]]
    /\ pending' \in [Plans -> {"none", "create", "run", "over"}]
    /\ \A p \in Plans : pending'[p] # pending[p] =>
          pending'[p] \in {"create", "run"} /\ At(Worker(p), pending'[p])
    /\ UNCHANGED <<nets, fw, running, row>>

\* reconcile_starting_sessions, after a restart
Retire(p) ==
    /\ At(Worker(p), "dead") /\ At(Cleaner(p), "idle") /\ row[p] = "starting"
    /\ Turn(Cleaner(p), "confirm", "retire")
    /\ UNCHANGED <<nets, pending, fw, running, row, budget>>

\* Somebody else creates a network of the same name.
TakeName(p) ==
    /\ Named(p) = {} /\ row[p] # "absent"
    /\ Spend("names")
    /\ nets' = nets \cup {Foreign(p)}
    /\ UNCHANGED <<pending, fw, running, row, loc>>

ProcStep(q) ==
    \/ Create(q) \/ InstallRule(q) \/ CheckLink(q) \/ CheckRule(q) \/ Run(q) \/ Commit(q)
    \/ Confirm(q) \/ Inspect(q) \/ RemoveNetwork(q) \/ Strip(q)
    \/ RollbackRead(q) \/ Settle(q)

Next ==
    \/ \E q \in Procs : ProcStep(q)
    \/ \E p \in Plans : LateCreate(p) \/ LateRun(p) \/ Stop(p) \/ Retire(p) \/ TakeName(p)
    \/ Crash

Spec == Init /\ [][Next]_vars

-----------------------------------------------------------------------------
(* Properties *)

\* A network that apply attested lets nothing through that the policy rejects,
\* as long as nobody stops its session; and it lets everything else through,
\* unless another session on the same subnet has rules of its own there.
AttestedEnforced ==
    \A p \in Plans :
        /\ row[p] \in {"starting", "ready"}
        /\ loc[Worker(p)].kind = "start" /\ loc[Worker(p)].pc \in {"run", "commit", "up"}
        => /\ Sealed(p)
           /\ Enforced(p) \/ \E o \in Plans \ {p} : Subnet[o] = Subnet[p] /\ Referenced(Egress(o))

\* A container loses its rules only to a stop that looked for the network before
\* it was created: otherwise the attached network refuses to go and the rules
\* stay with it (remove's order, and its early end).
RulesOutliveContainer ==
    \A p \in Plans : Own(p) \in running /\ ~Sealed(p) => loc[Cleaner(p)].seen = "absent"

\* When remove reported success to the last process at work on a plan, network,
\* chains and jumps are gone, also after a crash between any two commands and
\* with stop removing the same things; only a create that outlives its timeout
\* can bring the network back.
RemovedIsGone ==
    \A p \in Plans :
        /\ row[p] \in {"failed", "stopped"}
        /\ row[p] = "stopped" =>
              (At(Worker(p), "up") \/ (At(Worker(p), "done") /\ ~loc[Worker(p)].failed))
        => /\ Own(p) \in nets => pending[p] = "over"
           /\ {Egress(p), Input(p)} \cap Chains = {}

\* No step removes a network with another label, even when the name changes
\* hands between inspect and rm (_remove_owned_network).
ForeignKept == [][\A p \in Plans : Foreign(p) \in nets => Foreign(p) \in nets']_vars
=============================================================================
