---------------------------- MODULE HostProofs ------------------------------
(***************************************************************************)
(* Proofs about the two components that act on the host: NetworkPolicy,    *)
(* for any set of plans, subnets and addresses and any number of failures, *)
(* stops, crashes and taken names; and, at the end, CommandRunner, which   *)
(* runs its commands.                                                      *)
(***************************************************************************)
EXTENDS NetworkPolicy, CommandRunner, SequenceTheorems, WellFoundedInduction, TLAPS

-----------------------------------------------------------------------------
(* The invariant of NetworkPolicy *)

Past    == {"rule", "link", "check", "run", "commit", "up"}
Forward == Past \cup {"create"}
Back    == {"confirm", "inspect", "rm", "strip", "settle"}
Labels  == Forward \cup Back \cup {"idle", "dead", "record", "done"}
Kinds   == {"apply", "start", "reconcile", "cleanup", "rollback", "stop", "retire"}
RowStates == {"absent", "starting", "ready", "stopping", "stopped", "failed"}
Pendings  == {"none", "create", "run", "over"}

Locals  == [pc : Labels, at : Nat, seen : {"unknown", "own", "absent"}, kind : Kinds,
            failed : BOOLEAN, read : RowStates \cup {"none"}]
LocType == loc \in [Procs -> Locals]
RowType == row \in [Plans -> RowStates] /\ pending \in [Plans -> Pendings]

\* What a worker's label says about its locals.
WorkerInv(p) == LET w == loc[Worker(p)] IN
    /\ w.pc \in {"create", "rule"} => w.kind = "apply"
    /\ w.pc \in {"link", "check"} => w.kind \in {"apply", "start"}
    /\ w.pc \in {"run", "commit", "up"} => w.kind = "start"
    /\ w.pc \in {"inspect", "rm"} => w.kind \in {"reconcile", "cleanup", "rollback"}
    /\ w.pc = "strip" => w.kind \in {"cleanup", "rollback"} /\ w.at \in 1..6 /\ w.seen # "unknown"
    /\ w.pc \in {"confirm", "settle", "record", "done"} => w.kind = "rollback"
    /\ w.pc \in Forward => w.seen = "unknown"
    /\ w.pc = "rule" => w.at \in 1..12
    /\ w.pc = "check" => w.at \in 1..8

\* What a cleaner's label says about its locals, and that a session is retired
\* only after its worker has died.
CleanerInv(p) == LET c == loc[Cleaner(p)] IN
    /\ c.pc \in Back \cup {"idle"}
    /\ c.pc # "idle" => c.kind \in {"stop", "retire"}
    /\ c.pc # "idle" /\ c.kind = "retire" => At(Worker(p), "dead")
    /\ c.pc = "strip" => c.at \in 1..6 /\ c.seen # "unknown"

\* The plan's own network is gone for good: only a late create brings it back.
Lost(p) == Own(p) \in nets => pending[p] = "over"
Gone(p) == Lost(p) /\ {Egress(p), Input(p)} \cap Chains = {}

\* Where the plan's network is.
NetInv(p) == LET w == loc[Worker(p)]
                 c == loc[Cleaner(p)] IN
    /\ Own(p) \in running => Own(p) \in nets /\ pending[p] \notin {"create", "over"}
    /\ Own(p) \in running => w.pc \notin Forward \ {"commit", "up"}
    /\ pending[p] # "none" => w.pc \notin Forward
    /\ w.pc = "create" => Own(p) \notin nets /\ c.seen # "own" /\ c.pc # "rm"
    /\ w.seen # "unknown" => Lost(p)
    /\ c.seen = "own" => Lost(p)

\* While a row is starting or ready and its worker lives, no cleaner has begun
\* and the network the worker created is there.
RowInv(p) ==
    row[p] \in {"starting", "ready"} /\ ~At(Worker(p), "dead") =>
        /\ At(Cleaner(p), "idle") /\ loc[Cleaner(p)].seen = "unknown"
        /\ loc[Worker(p)].pc \in Past => Own(p) \in nets

\* What the chains and the hooks may hold.
EgressSet == {EgressRules[i] : i \in 1..4}
InputSet  == {InputRules[i] : i \in 1..2}
Bodies    == {Egress(p) : p \in Plans} \cup {Input(p) : p \in Plans}

FwInv ==
    /\ fw = [c \in DOMAIN fw |-> fw[c]]
    /\ Hooks \subseteq Chains /\ Chains \subseteq Hooks \cup Bodies
    /\ fw[DockerUser] \in Seq({EgressJump(p) : p \in Plans})
    /\ fw[HostInput] \in Seq({InputJump(p) : p \in Plans})
    /\ \A p \in Plans :
          /\ EgressJump(p) \in Range(fw[DockerUser]) => Egress(p) \in Chains
          /\ InputJump(p) \in Range(fw[HostInput]) => Input(p) \in Chains
          /\ Egress(p) \in Chains => fw[Egress(p)] \in Seq(EgressSet)
          /\ Input(p) \in Chains => fw[Input(p)] \in Seq(InputSet)

\* The first k of the twelve commands of a plan have taken effect, and nothing
\* of it has been removed.
Filled(k, from, size) == IF k <= from THEN 0 ELSE IF k >= from + size THEN size ELSE k - from

Installed(p, k) ==
    /\ Egress(p) \in Chains <=> k >= 1
    /\ k >= 1 => /\ Len(fw[Egress(p)]) = Filled(k, 2, 4)
                 /\ \A i \in 1..Filled(k, 2, 4) : fw[Egress(p)][i] = EgressRules[i]
    /\ k >= 7 => EgressJump(p) \in Range(fw[DockerUser])
    /\ Input(p) \in Chains <=> k >= 8
    /\ k >= 8 => /\ Len(fw[Input(p)]) = Filled(k, 9, 2)
                 /\ \A i \in 1..Filled(k, 9, 2) : fw[Input(p)][i] = InputRules[i]
    /\ k >= 12 => InputJump(p) \in Range(fw[HostInput])

\* The plan's network is there and no cleaner has looked for it in vain: nobody
\* has begun to strip its rules.
Guarded(p) == Own(p) \in nets /\ loc[Cleaner(p)].seen # "absent"

\* How far the rules of a plan are installed.
Attached(p) ==
    loc[Worker(p)].pc \in Past \ {"rule"} \/ pending[p] = "run" \/ Own(p) \in running

RuleInv(p) ==
    /\ At(Worker(p), "create") => Installed(p, 0)
    /\ \A k \in 0..11 :
          Guarded(p) /\ At(Worker(p), "rule") /\ loc[Worker(p)].at = k + 1 => Installed(p, k)
    /\ Guarded(p) /\ Attached(p) => Installed(p, 12)

\* What a removal without failure has removed so far, unless the plan's worker
\* may be installing at the same time.
Cleaned(q) == LET p == q[1] IN
    /\ At(q, "strip") => Lost(p)
    /\ At(q, "strip") /\ ~loc[q].failed /\ loc[q].at > 4 => Egress(p) \notin Chains
    /\ loc[q].pc \in {"settle", "record", "done"} /\ ~loc[q].failed => Gone(p)

CleanInv(p) ==
    /\ Cleaned(Worker(p))
    /\ loc[Cleaner(p)].kind = "retire" \/ At(Worker(p), "up") => Cleaned(Cleaner(p))
    /\ row[p] = "failed" => Gone(p) /\ loc[Worker(p)].pc \in {"done", "dead"}
    /\ row[p] = "stopped" /\ At(Worker(p), "up") => Gone(p)

PlanInv(p) == WorkerInv(p) /\ CleanerInv(p) /\ NetInv(p) /\ RowInv(p) /\ RuleInv(p) /\ CleanInv(p)

NetworkInv == LocType /\ RowType /\ FwInv /\ \A p \in Plans : PlanInv(p)

-----------------------------------------------------------------------------
(* Sequences *)

\* A set of naturals has a least element, and Min returns it.
LEMMA MinIsLeast ==
    ASSUME NEW S \in SUBSET Nat, S # {}
    PROVE  Min(S) \in S /\ \A y \in S : Min(S) <= y
<1> DEFINE R == {ss \in Nat \X Nat : ss[1] < ss[2]}
<1>1. OpToRel(<, Nat) = R
  BY DEF OpToRel
<1>2. IsWellFoundedOn(R, Nat)
  BY <1>1, NatLessThanWellFounded, Zenon
<1>3. \A x, y \in Nat : <<y, x>> \in R <=> y < x
  OBVIOUS
<1> HIDE DEF R
<1>4. PICK x \in S : \A y \in S : ~ (<<y, x>> \in R)
  BY <1>2, WFMin, Zenon
<1>5. \A y \in S : x <= y
  <2> TAKE y \in S
  <2>1. x \in Nat /\ y \in Nat
    OBVIOUS
  <2>2. ~(y < x)
    BY <1>3, <1>4, <2>1, Zenon
  <2> QED BY <2>1, <2>2
<1> QED BY <1>5 DEF Min

\* Deleting the first occurrence of an element keeps every other element.
LEMMA RemoveFirstKeepsOthers ==
    ASSUME NEW R, NEW s \in Seq(R), NEW e, e \in Range(s)
    PROVE  /\ RemoveFirst(s, e) \in Seq(R)
           /\ Range(RemoveFirst(s, e)) \subseteq Range(s)
           /\ \A x \in Range(s) : x # e => x \in Range(RemoveFirst(s, e))
<1> DEFINE I == {i \in 1..Len(s) : s[i] = e}
           k == Min(I)
           t == RemoveAt(s, k)
<1>1. I \in SUBSET Nat /\ I # {}
  BY DEF Range
<1>2. k \in 1..Len(s) /\ s[k] = e
  BY <1>1, MinIsLeast
<1>3. RemoveFirst(s, e) = t
  BY <1>1 DEF RemoveFirst, SelectInSeq
<1> HIDE DEF k
<1> DEFINE a == SubSeq(s, 1, k - 1)
           b == SubSeq(s, k + 1, Len(s))
<1>4. a \in Seq(R) /\ Len(a) = k - 1 /\ \A i \in 1..(k - 1) : a[i] = s[i]
  BY <1>2
<1>5. b \in Seq(R) /\ Len(b) = Len(s) - k /\ \A i \in 1..(Len(s) - k) : b[i] = s[k + i]
  BY <1>2
<1>6. t = a \o b
  BY DEF RemoveAt
<1> HIDE DEF I, a, b, t
<1>7. t \in Seq(R) /\ Len(t) = Len(s) - 1
  BY <1>2, <1>4, <1>5, <1>6
<1>8. ASSUME NEW i \in 1..(Len(s) - 1) PROVE t[i] = IF i < k THEN s[i] ELSE s[i + 1]
  <2>1. t[i] = IF i <= Len(a) THEN a[i] ELSE b[i - Len(a)]
    BY <1>2, <1>4, <1>5, <1>6, ConcatProperties
  <2>2. CASE i < k
    BY <1>2, <1>4, <2>1, <2>2
  <2>3. CASE i >= k
    <3>1. i - (k - 1) \in 1..(Len(s) - k) /\ k + (i - (k - 1)) = i + 1 /\ ~(i <= Len(a))
      BY <1>2, <1>4, <2>3
    <3>2. b[i - (k - 1)] = s[i + 1]
      BY <1>5, <3>1
    <3> QED BY <1>2, <1>4, <2>1, <2>3, <3>1, <3>2
  <2> QED BY <1>2, <2>2, <2>3
<1>9. ASSUME NEW i \in 1..Len(s), i # k PROVE s[i] \in Range(t)
  <2>1. CASE i < k
    <3>1. i \in DOMAIN t /\ t[i] = s[i]
      BY <1>2, <1>7, <1>8, <2>1
    <3> QED BY <3>1 DEF Range
  <2>2. CASE i > k
    <3>1. i - 1 \in DOMAIN t /\ t[i - 1] = s[i]
      BY <1>2, <1>7, <1>8, <2>2
    <3> QED BY <3>1 DEF Range
  <2> QED BY <1>2, <1>9, <2>1, <2>2
<1>10. \A x \in Range(s) : x # e => x \in Range(t)
  BY <1>2, <1>9 DEF Range
<1>11. Range(t) \subseteq Range(s)
  BY <1>2, <1>7, <1>8 DEF Range
<1> QED BY <1>3, <1>7, <1>10, <1>11

\* Appending or inserting one element adds it and keeps the others.
LEMMA AppendRange ==
    ASSUME NEW R, NEW s \in Seq(R), NEW e \in R
    PROVE  /\ Append(s, e) \in Seq(R) /\ Range(Append(s, e)) = Range(s) \cup {e}
           /\ <<e>> \o s \in Seq(R) /\ Range(<<e>> \o s) = Range(s) \cup {e}
<1> DEFINE a == Append(s, e)
           b == <<e>> \o s
<1>1. /\ a \in Seq(R) /\ Len(a) = Len(s) + 1 /\ a[Len(s) + 1] = e
      /\ \A i \in 1..Len(s) : a[i] = s[i]
  OBVIOUS
<1>2. /\ b \in Seq(R) /\ Len(b) = Len(s) + 1 /\ b[1] = e
      /\ \A i \in 1..Len(s) : b[i + 1] = s[i]
  <2>1. <<e>> \in Seq(R) /\ Len(<<e>>) = 1 /\ <<e>>[1] = e
    OBVIOUS
  <2>2. b \in Seq(R) /\ Len(b) = Len(s) + 1
    BY <2>1
  <2>3. \A i \in 1..(1 + Len(s)) : b[i] = IF i <= 1 THEN e ELSE s[i - 1]
    BY <2>1, ConcatProperties
  <2> HIDE DEF b
  <2> QED BY <2>2, <2>3
<1> HIDE DEF a, b
<1>3. Range(a) = Range(s) \cup {e}
  <2>1. \A i \in DOMAIN a : a[i] \in Range(s) \cup {e}
    BY <1>1 DEF Range
  <2>2. \A i \in DOMAIN s : i \in DOMAIN a /\ s[i] = a[i]
    BY <1>1
  <2>3. Len(s) + 1 \in DOMAIN a
    BY <1>1
  <2> QED BY <1>1, <2>1, <2>2, <2>3 DEF Range
<1>4. Range(b) = Range(s) \cup {e}
  <2>1. ASSUME NEW i \in DOMAIN b PROVE b[i] \in Range(s) \cup {e}
    <3>1. CASE i = 1
      BY <1>2, <3>1
    <3>2. CASE i # 1
      <4>1. i - 1 \in 1..Len(s) /\ i = (i - 1) + 1
        BY <1>2, <3>2
      <4> QED BY <1>2, <4>1 DEF Range
    <3> QED BY <3>1, <3>2
  <2>2. \A i \in DOMAIN s : i + 1 \in DOMAIN b /\ s[i] = b[i + 1]
    BY <1>2
  <2>3. 1 \in DOMAIN b
    BY <1>2
  <2> QED BY <1>2, <2>1, <2>2, <2>3 DEF Range
<1> QED BY <1>1, <1>2, <1>3, <1>4 DEF a, b

\* The elements of a concatenation.
LEMMA CatFacts ==
    ASSUME NEW S, NEW f \in Seq(S), NEW g \in Seq(S)
    PROVE  /\ f \o g \in Seq(S) /\ Len(f \o g) = Len(f) + Len(g)
           /\ \A i \in 1..Len(f) : (f \o g)[i] = f[i]
           /\ \A i \in 1..Len(g) : (f \o g)[Len(f) + i] = g[i]
<1> DEFINE h == f \o g
<1>1. /\ h \in Seq(S) /\ Len(h) = Len(f) + Len(g)
      /\ \A i \in 1..(Len(f) + Len(g)) : h[i] = IF i <= Len(f) THEN f[i] ELSE g[i - Len(f)]
  BY ConcatProperties
<1> HIDE DEF h
<1>2. Len(f) \in Nat /\ Len(g) \in Nat
  OBVIOUS
<1>3. \A i \in 1..Len(f) : h[i] = f[i]
  BY <1>1, <1>2
<1>4. ASSUME NEW i \in 1..Len(g) PROVE h[Len(f) + i] = g[i]
  <2>1. Len(f) + i \in 1..(Len(f) + Len(g)) /\ ~(Len(f) + i <= Len(f)) /\ (Len(f) + i) - Len(f) = i
    BY <1>2
  <2> QED BY <1>1, <2>1
<1> QED BY <1>1, <1>3, <1>4 DEF h

-----------------------------------------------------------------------------
(* The commands *)

\* Chains of different plans or purposes, hooks and verdicts are all different.
LEMMA Names ==
    /\ \A p, o \in Plans : /\ Egress(p) = Egress(o) <=> p = o
                           /\ Input(p) = Input(o) <=> p = o
                           /\ Egress(p) # Input(o)
                           /\ Own(p) = Own(o) <=> p = o
                           /\ Own(p) # Foreign(o)
                           /\ Worker(p) = Worker(o) <=> p = o
                           /\ Cleaner(p) = Cleaner(o) <=> p = o
                           /\ Worker(p) # Cleaner(o)
    /\ \A p \in Plans : /\ Egress(p) \notin Hooks \cup {Accept, Reject, Return}
                        /\ Input(p) \notin Hooks \cup {Accept, Reject, Return}
                        /\ Worker(p) \in Procs /\ Worker(p)[1] = p /\ Worker(p)[2] = "worker"
                        /\ Cleaner(p) \in Procs /\ Cleaner(p)[1] = p /\ Cleaner(p)[2] = "cleaner"
    /\ DockerUser # HostInput /\ Accept # Reject /\ Accept # Return /\ Reject # Return
    /\ Hooks = {DockerUser, HostInput}
BY DEF Egress, Input, Own, Foreign, Worker, Cleaner, Hooks, DockerUser, HostInput, Accept,
       Reject, Return, Procs

\* Every process is the worker or the cleaner of its plan.
LEMMA ProcCases ==
    \A q \in Procs : q[1] \in Plans /\ (q = Worker(q[1]) \/ q = Cleaner(q[1]))
BY DEF Procs, Worker, Cleaner

\* Jumps tell their chains.
LEMMA Jumps ==
    \A p, o \in Plans : /\ EgressJump(p).target = Egress(p) /\ InputJump(p).target = Input(p)
                        /\ EgressJump(p) = EgressJump(o) => p = o
                        /\ InputJump(p) = InputJump(o) => p = o
<1>1. \A p \in Plans : EgressJump(p).target = Egress(p) /\ InputJump(p).target = Input(p)
  BY DEF EgressJump, InputJump, Rule
<1> QED BY <1>1, Names

\* The bodies of the chains, rule by rule.
LEMMA RuleSeqs ==
    /\ EgressRules \in Seq(EgressSet) /\ Len(EgressRules) = 4 /\ DOMAIN EgressRules = 1..4
    /\ InputRules \in Seq(InputSet) /\ Len(InputRules) = 2 /\ DOMAIN InputRules = 1..2
    /\ \A i \in 1..4 : EgressRules[i] \in EgressSet
    /\ \A i \in 1..2 : InputRules[i] \in InputSet
<1>1. \A i \in 1..4 : EgressRules[i] \in EgressSet
  BY DEF EgressSet
<1>2. \A i \in 1..2 : InputRules[i] \in InputSet
  BY DEF InputSet
<1>3. Len(EgressRules) = 4 /\ EgressRules \in Seq(EgressSet)
  BY <1>1 DEF EgressRules
<1>4. Len(InputRules) = 2 /\ InputRules \in Seq(InputSet)
  BY <1>2 DEF InputRules
<1> QED BY <1>1, <1>2, <1>3, <1>4

RuleSet == EgressSet \cup InputSet \cup {NoRule}
           \cup {EgressJump(p) : p \in Plans} \cup {InputJump(p) : p \in Plans}
CommandSet == [op : {"N", "F", "A", "I"}, chain : Hooks \cup Bodies, rule : RuleSet]

\* What Added returns.
LEMMA AddedIs ==
    ASSUME NEW chain \in Bodies, NEW rules \in Seq(RuleSet), NEW hook \in Hooks, NEW jump \in RuleSet
    PROVE  /\ Added(chain, rules, hook, jump) \in Seq(CommandSet)
           /\ Len(Added(chain, rules, hook, jump)) = Len(rules) + 1
           /\ \A i \in 1..Len(rules) :
                 Added(chain, rules, hook, jump)[i] = Command("A", chain, rules[i])
           /\ Added(chain, rules, hook, jump)[Len(rules) + 1] = Command("I", hook, jump)
<1> DEFINE S == CommandSet
           f == [i \in DOMAIN rules |-> Command("A", chain, rules[i])]
           g == << Command("I", hook, jump) >>
<1>1. Len(rules) \in Nat /\ DOMAIN rules = 1..Len(rules) /\ \A i \in 1..Len(rules) : rules[i] \in RuleSet
  OBVIOUS
<1>2. f \in Seq(S) /\ Len(f) = Len(rules)
  <2>1. \A i \in 1..Len(rules) : Command("A", chain, rules[i]) \in S
    BY <1>1 DEF Command, CommandSet
  <2>2. f \in [1..Len(rules) -> S]
    BY <1>1, <2>1
  <2> HIDE DEF f, S
  <2> QED BY <1>1, <2>2
<1>3. g \in Seq(S) /\ Len(g) = 1 /\ g[1] = Command("I", hook, jump)
  BY DEF Command, CommandSet
<1>4. \A i \in 1..Len(rules) : f[i] = Command("A", chain, rules[i])
  BY <1>1
<1>5. Added(chain, rules, hook, jump) = f \o g
  BY DEF Added
<1> HIDE DEF f, g, S
<1> DEFINE h == f \o g
<1>6. /\ h \in Seq(S) /\ Len(h) = Len(f) + Len(g)
      /\ \A i \in 1..Len(f) : h[i] = f[i]
      /\ \A i \in 1..Len(g) : h[Len(f) + i] = g[i]
  <2>1. f \in Seq(S) /\ g \in Seq(S)
    BY <1>2, <1>3
  <2> QED BY <2>1, CatFacts
<1> HIDE DEF h
<1>7. Len(h) = Len(rules) + 1
  BY <1>2, <1>3, <1>6
<1>8. h[Len(rules) + 1] = Command("I", hook, jump)
  BY <1>2, <1>3, <1>6
<1>9. \A i \in 1..Len(rules) : h[i] = Command("A", chain, rules[i])
  BY <1>2, <1>4, <1>6
<1> QED BY <1>5, <1>6, <1>7, <1>8, <1>9 DEF S, h

\* What Fill returns.
LEMMA FillIs ==
    ASSUME NEW chain \in Bodies, NEW rules \in Seq(RuleSet), NEW hook \in Hooks, NEW jump \in RuleSet
    PROVE  /\ Fill(chain, rules, hook, jump) \in Seq(CommandSet)
           /\ Len(Fill(chain, rules, hook, jump)) = Len(rules) + 3
           /\ Fill(chain, rules, hook, jump)[1] = Command("N", chain, NoRule)
           /\ Fill(chain, rules, hook, jump)[2] = Command("F", chain, NoRule)
           /\ \A i \in 1..Len(rules) :
                 Fill(chain, rules, hook, jump)[i + 2] = Command("A", chain, rules[i])
           /\ Fill(chain, rules, hook, jump)[Len(rules) + 3] = Command("I", hook, jump)
<1> DEFINE S == CommandSet
           f == << Command("N", chain, NoRule), Command("F", chain, NoRule) >>
           g == Added(chain, rules, hook, jump)
           n == Len(rules)
<1>1. n \in Nat
  OBVIOUS
<1>2. /\ f \in Seq(S) /\ Len(f) = 2
      /\ f[1] = Command("N", chain, NoRule) /\ f[2] = Command("F", chain, NoRule)
  BY DEF Command, CommandSet, RuleSet
<1>3. /\ g \in Seq(S)
      /\ Len(g) = n + 1 /\ \A i \in 1..n : g[i] = Command("A", chain, rules[i])
      /\ g[n + 1] = Command("I", hook, jump)
  BY AddedIs
<1>4. Fill(chain, rules, hook, jump) = f \o g
  BY DEF Fill
<1> HIDE DEF f, g, S, n
<1> DEFINE h == f \o g
<1>7. /\ h \in Seq(S) /\ Len(h) = Len(f) + Len(g)
      /\ \A i \in 1..Len(f) : h[i] = f[i]
      /\ \A i \in 1..Len(g) : h[Len(f) + i] = g[i]
  <2>1. f \in Seq(S) /\ g \in Seq(S)
    BY <1>2, <1>3
  <2> QED BY <2>1, CatFacts
<1> HIDE DEF h
<1>8. Len(h) = n + 3 /\ h[1] = f[1] /\ h[2] = f[2]
  BY <1>1, <1>2, <1>3, <1>7
<1>9. h[n + 3] = g[n + 1]
  <2>1. n + 1 \in 1..Len(g) /\ Len(f) + (n + 1) = n + 3
    BY <1>1, <1>2, <1>3
  <2> QED BY <1>7, <2>1
<1>10. ASSUME NEW i \in 1..n PROVE h[i + 2] = g[i]
  <2>1. i \in 1..Len(g) /\ Len(f) + i = i + 2
    BY <1>1, <1>2, <1>3
  <2> QED BY <1>7, <2>1
<1>11. Fill(chain, rules, hook, jump) = h
  BY <1>4 DEF h
<1> QED BY <1>2, <1>3, <1>7, <1>8, <1>9, <1>10, <1>11 DEF S, n

\* firewall_rule_argv: twelve commands, by their position.
LEMMA RuleCommandsAre ==
    ASSUME NEW p \in Plans
    PROVE  /\ Len(RuleCommands(p)) = 12
           /\ RuleCommands(p)[1] = Command("N", Egress(p), NoRule)
           /\ RuleCommands(p)[2] = Command("F", Egress(p), NoRule)
           /\ \A i \in 1..4 : RuleCommands(p)[i + 2] = Command("A", Egress(p), EgressRules[i])
           /\ RuleCommands(p)[7] = Command("I", DockerUser, EgressJump(p))
           /\ RuleCommands(p)[8] = Command("N", Input(p), NoRule)
           /\ RuleCommands(p)[9] = Command("F", Input(p), NoRule)
           /\ \A i \in 1..2 : RuleCommands(p)[i + 9] = Command("A", Input(p), InputRules[i])
           /\ RuleCommands(p)[12] = Command("I", HostInput, InputJump(p))
<1> DEFINE f == Fill(Egress(p), EgressRules, DockerUser, EgressJump(p))
           g == Fill(Input(p), InputRules, HostInput, InputJump(p))
           h == f \o g
<1>1. /\ Egress(p) \in Bodies /\ Input(p) \in Bodies /\ DockerUser \in Hooks /\ HostInput \in Hooks
      /\ EgressJump(p) \in RuleSet /\ InputJump(p) \in RuleSet
      /\ EgressSet \subseteq RuleSet /\ InputSet \subseteq RuleSet
  BY Names DEF Bodies, RuleSet
<1>2. EgressRules \in Seq(RuleSet) /\ InputRules \in Seq(RuleSet)
  BY <1>1, RuleSeqs, SeqMonotonic
<1>3. /\ f \in Seq(CommandSet) /\ Len(f) = 7
      /\ f[1] = Command("N", Egress(p), NoRule) /\ f[2] = Command("F", Egress(p), NoRule)
      /\ \A i \in 1..4 : f[i + 2] = Command("A", Egress(p), EgressRules[i])
      /\ f[7] = Command("I", DockerUser, EgressJump(p))
  <2>1. /\ f \in Seq(CommandSet) /\ Len(f) = Len(EgressRules) + 3
        /\ f[1] = Command("N", Egress(p), NoRule) /\ f[2] = Command("F", Egress(p), NoRule)
        /\ \A i \in 1..Len(EgressRules) : f[i + 2] = Command("A", Egress(p), EgressRules[i])
        /\ f[Len(EgressRules) + 3] = Command("I", DockerUser, EgressJump(p))
    BY <1>1, <1>2, FillIs
  <2>2. Len(EgressRules) = 4 /\ Len(EgressRules) + 3 = 7
    BY RuleSeqs
  <2> HIDE DEF f
  <2> QED BY <2>1, <2>2
<1>4. /\ g \in Seq(CommandSet) /\ Len(g) = 5
      /\ g[1] = Command("N", Input(p), NoRule) /\ g[2] = Command("F", Input(p), NoRule)
      /\ \A i \in 1..2 : g[i + 2] = Command("A", Input(p), InputRules[i])
      /\ g[5] = Command("I", HostInput, InputJump(p))
  <2>1. /\ g \in Seq(CommandSet) /\ Len(g) = Len(InputRules) + 3
        /\ g[1] = Command("N", Input(p), NoRule) /\ g[2] = Command("F", Input(p), NoRule)
        /\ \A i \in 1..Len(InputRules) : g[i + 2] = Command("A", Input(p), InputRules[i])
        /\ g[Len(InputRules) + 3] = Command("I", HostInput, InputJump(p))
    BY <1>1, <1>2, FillIs
  <2>2. Len(InputRules) = 2 /\ Len(InputRules) + 3 = 5
    BY RuleSeqs
  <2> HIDE DEF g
  <2> QED BY <2>1, <2>2
<1>5. RuleCommands(p) = h
  BY DEF RuleCommands
<1> HIDE DEF f, g
<1>6. /\ Len(h) = 12 /\ \A i \in 1..7 : h[i] = f[i]
      /\ \A i \in 1..5 : h[7 + i] = g[i]
  <2>1. f \in Seq(CommandSet) /\ g \in Seq(CommandSet)
    BY <1>3, <1>4
  <2>2. /\ Len(h) = Len(f) + Len(g) /\ \A i \in 1..Len(f) : h[i] = f[i]
        /\ \A i \in 1..Len(g) : h[Len(f) + i] = g[i]
    BY <2>1, CatFacts
  <2> HIDE DEF h
  <2> QED BY <1>3, <1>4, <2>2
<1> HIDE DEF h
<1>7. /\ h[1] = f[1] /\ h[2] = f[2] /\ h[7] = f[7] /\ \A i \in 1..4 : h[i + 2] = f[i + 2]
      /\ h[8] = g[1] /\ h[9] = g[2] /\ h[12] = g[5]
  BY <1>6
<1>8. ASSUME NEW i \in 1..2 PROVE h[i + 9] = g[i + 2]
  <2>1. i + 2 \in 1..5 /\ 7 + (i + 2) = i + 9
    OBVIOUS
  <2> QED BY <1>6, <2>1
<1> QED BY <1>3, <1>4, <1>5, <1>6, <1>7, <1>8

\* firewall_verification_argv: eight commands that only look.
LEMMA CheckCommandsAre ==
    ASSUME NEW p \in Plans
    PROVE  /\ Len(CheckCommands(p)) = 8
           /\ \A i \in 1..8 : CheckCommands(p)[i].op = "C"
<1> DEFINE f == Added(Egress(p), EgressRules, DockerUser, EgressJump(p))
           g == Added(Input(p), InputRules, HostInput, InputJump(p))
           h == f \o g
<1>1. /\ Egress(p) \in Bodies /\ Input(p) \in Bodies /\ DockerUser \in Hooks /\ HostInput \in Hooks
      /\ EgressJump(p) \in RuleSet /\ InputJump(p) \in RuleSet
      /\ EgressSet \subseteq RuleSet /\ InputSet \subseteq RuleSet
  BY Names DEF Bodies, RuleSet
<1>2. EgressRules \in Seq(RuleSet) /\ InputRules \in Seq(RuleSet)
  BY <1>1, RuleSeqs, SeqMonotonic
<1>3. f \in Seq(CommandSet) /\ Len(f) = 5 /\ g \in Seq(CommandSet) /\ Len(g) = 3
  <2>1. /\ f \in Seq(CommandSet) /\ Len(f) = Len(EgressRules) + 1
        /\ g \in Seq(CommandSet) /\ Len(g) = Len(InputRules) + 1
    BY <1>1, <1>2, AddedIs
  <2> HIDE DEF f, g
  <2> QED BY <2>1, RuleSeqs
<1>4. CheckCommands(p) = [i \in DOMAIN h |-> [h[i] EXCEPT !.op = "C"]]
  BY DEF CheckCommands
<1> HIDE DEF f, g
<1>5. h \in Seq(CommandSet) /\ Len(h) = 8
  <2>1. h \in Seq(CommandSet) /\ Len(h) = Len(f) + Len(g)
    BY <1>3, CatFacts
  <2> HIDE DEF h
  <2> QED BY <1>3, <2>1
<1> HIDE DEF h
<1>6. DOMAIN h = 1..8 /\ \A i \in 1..8 : h[i] \in CommandSet
  <2>1. h \in [1..Len(h) -> CommandSet]
    BY <1>5, LenProperties
  <2> QED BY <1>5, <2>1
<1>7. \A i \in 1..8 : CheckCommands(p)[i].op = "C"
  BY <1>4, <1>6 DEF CommandSet
<1>8. CheckCommands(p) \in [1..8 -> CommandSet \cup {[h[i] EXCEPT !.op = "C"] : i \in 1..8}]
  BY <1>4, <1>6
<1>9. Len(CheckCommands(p)) = 8
  BY <1>8
<1> QED BY <1>7, <1>9

\* The commands of remove, by their position.
LEMMA RemoveCommandsAre ==
    ASSUME NEW p \in Plans
    PROVE  /\ Len(RemoveCommands(p)) = 6
           /\ RemoveCommands(p)[1] = Command("D", DockerUser, EgressJump(p))
           /\ RemoveCommands(p)[2] = Command("D", HostInput, InputJump(p))
           /\ RemoveCommands(p)[3] = Command("F", Egress(p), NoRule)
           /\ RemoveCommands(p)[4] = Command("X", Egress(p), NoRule)
           /\ RemoveCommands(p)[5] = Command("F", Input(p), NoRule)
           /\ RemoveCommands(p)[6] = Command("X", Input(p), NoRule)
BY DEF RemoveCommands

\* A command of a plan works on its own chains and on its own jumps.
Removal(p, c) ==
    \/ c.op = "C"
    \/ c.op = "F" /\ c.chain \in {Egress(p), Input(p)}
    \/ c.op = "X" /\ c.chain \in {Egress(p), Input(p)}
    \/ c.op = "D" /\ c.chain = DockerUser /\ c.rule = EgressJump(p)
    \/ c.op = "D" /\ c.chain = HostInput /\ c.rule = InputJump(p)

PlanCommand(p, c) ==
    \/ Removal(p, c)
    \/ c.op = "N" /\ c.chain \in {Egress(p), Input(p)}
    \/ c.op = "A" /\ c.chain = Egress(p) /\ c.rule \in EgressSet
    \/ c.op = "A" /\ c.chain = Input(p) /\ c.rule \in InputSet
    \/ c.op = "I" /\ c.chain = DockerUser /\ c.rule = EgressJump(p)
    \/ c.op = "I" /\ c.chain = HostInput /\ c.rule = InputJump(p)

\* What apply and remove run are commands of the plan.
LEMMA CommandsOfPlan ==
    ASSUME NEW p \in Plans
    PROVE  /\ \A i \in 1..12 : PlanCommand(p, RuleCommands(p)[i])
           /\ \A i \in 1..8 : Removal(p, CheckCommands(p)[i])
           /\ \A i \in 1..6 : Removal(p, RemoveCommands(p)[i])
<1>1. /\ Removal(p, Command("D", DockerUser, EgressJump(p)))
      /\ Removal(p, Command("D", HostInput, InputJump(p)))
      /\ Removal(p, Command("F", Egress(p), NoRule)) /\ Removal(p, Command("F", Input(p), NoRule))
      /\ Removal(p, Command("X", Egress(p), NoRule)) /\ Removal(p, Command("X", Input(p), NoRule))
  BY DEF Removal, Command
<1>2. /\ PlanCommand(p, Command("N", Egress(p), NoRule)) /\ PlanCommand(p, Command("N", Input(p), NoRule))
      /\ PlanCommand(p, Command("F", Egress(p), NoRule)) /\ PlanCommand(p, Command("F", Input(p), NoRule))
      /\ PlanCommand(p, Command("I", DockerUser, EgressJump(p)))
      /\ PlanCommand(p, Command("I", HostInput, InputJump(p)))
  BY <1>1 DEF PlanCommand, Command
<1>3. ASSUME NEW i \in 1..12 PROVE PlanCommand(p, RuleCommands(p)[i])
  <2> DEFINE c == RuleCommands(p)[i]
  <2>1. CASE i \in {1, 2, 7, 8, 9, 12}
    <3>1. c \in {Command("N", Egress(p), NoRule), Command("F", Egress(p), NoRule),
                 Command("I", DockerUser, EgressJump(p)), Command("N", Input(p), NoRule),
                 Command("F", Input(p), NoRule), Command("I", HostInput, InputJump(p))}
      BY <2>1, RuleCommandsAre
    <3> HIDE DEF c
    <3>2. PlanCommand(p, c)
      BY <1>2, <3>1
    <3> QED BY <3>2 DEF c
  <2>2. CASE i \in 3..6
    <3>1. i - 2 \in 1..4 /\ (i - 2) + 2 = i
      BY <2>2
    <3>2. RuleCommands(p)[i] = Command("A", Egress(p), EgressRules[i - 2])
      BY <3>1, RuleCommandsAre
    <3> QED BY <3>1, <3>2, RuleSeqs DEF PlanCommand, Command
  <2>3. CASE i \in 10..11
    <3>1. i - 9 \in 1..2 /\ (i - 9) + 9 = i
      BY <2>3
    <3>2. RuleCommands(p)[i] = Command("A", Input(p), InputRules[i - 9])
      BY <3>1, RuleCommandsAre
    <3> QED BY <3>1, <3>2, RuleSeqs DEF PlanCommand, Command
  <2> QED BY <2>1, <2>2, <2>3
<1>4. \A i \in 1..8 : Removal(p, CheckCommands(p)[i])
  BY CheckCommandsAre DEF Removal
<1>5. ASSUME NEW i \in 1..6 PROVE Removal(p, RemoveCommands(p)[i])
  <2> DEFINE c == RemoveCommands(p)[i]
  <2>1. c \in {Command("D", DockerUser, EgressJump(p)), Command("D", HostInput, InputJump(p)),
               Command("F", Egress(p), NoRule), Command("F", Input(p), NoRule),
               Command("X", Egress(p), NoRule), Command("X", Input(p), NoRule)}
    BY RemoveCommandsAre
  <2> HIDE DEF c
  <2>2. Removal(p, c)
    BY <1>1, <2>1
  <2> QED BY <2>2 DEF c
<1> QED BY <1>3, <1>4, <1>5

-----------------------------------------------------------------------------
(* What the commands do to the rules *)

\* The rules of a plan are as before the step.
Same(p) ==
    /\ Egress(p) \in DOMAIN fw' <=> Egress(p) \in DOMAIN fw
    /\ Input(p) \in DOMAIN fw' <=> Input(p) \in DOMAIN fw
    /\ Egress(p) \in DOMAIN fw => fw'[Egress(p)] = fw[Egress(p)]
    /\ Input(p) \in DOMAIN fw => fw'[Input(p)] = fw[Input(p)]
    /\ EgressJump(p) \in Range(fw'[DockerUser]) <=> EgressJump(p) \in Range(fw[DockerUser])
    /\ InputJump(p) \in Range(fw'[HostInput]) <=> InputJump(p) \in Range(fw[HostInput])

\* The step makes no chain of the plan.
Shrinks(p) ==
    /\ Egress(p) \in DOMAIN fw' => Egress(p) \in DOMAIN fw
    /\ Input(p) \in DOMAIN fw' => Input(p) \in DOMAIN fw

\* A new chain is empty and nothing else changes.
LEMMA NewChain ==
    ASSUME FwInv, NEW p \in Plans, NEW c, c.op = "N", c.chain \in {Egress(p), Input(p)},
           Works(c), fw' = After(c)
    PROVE  /\ FwInv' /\ \A o \in Plans \ {p} : Same(o)
           /\ c.chain \notin DOMAIN fw /\ DOMAIN fw' = DOMAIN fw \cup {c.chain}
           /\ fw'[c.chain] = <<>> /\ \A x \in DOMAIN fw : fw'[x] = fw[x]
<1>1. c.chain \notin DOMAIN fw
  BY DEF Works, Chains
<1>2. fw' = [x \in DOMAIN fw \cup {c.chain} |-> IF x = c.chain THEN <<>> ELSE fw[x]]
  BY DEF After, Chains
<1>3. /\ DOMAIN fw' = DOMAIN fw \cup {c.chain} /\ fw'[c.chain] = <<>>
      /\ \A x \in DOMAIN fw : fw'[x] = fw[x]
  BY <1>1, <1>2
<1>4. fw' = [x \in DOMAIN fw' |-> fw'[x]]
  BY <1>2
<1> HIDE DEF Works, After
<1>5. fw'[DockerUser] = fw[DockerUser] /\ fw'[HostInput] = fw[HostInput]
  BY <1>3, Names DEF FwInv, Chains
<1>6. \A o \in Plans \ {p} : Same(o)
  BY <1>3, <1>5, Names DEF Same, FwInv, Chains
<1>7. FwInv'
  <2>1. Hooks \subseteq DOMAIN fw' /\ DOMAIN fw' \subseteq Hooks \cup Bodies
    BY <1>3 DEF FwInv, Chains, Bodies
  <2>2. ASSUME NEW o \in Plans
        PROVE  /\ Egress(o) \in DOMAIN fw' => fw'[Egress(o)] \in Seq(EgressSet)
               /\ Input(o) \in DOMAIN fw' => fw'[Input(o)] \in Seq(InputSet)
    <3>1. <<>> \in Seq(EgressSet) /\ <<>> \in Seq(InputSet)
      OBVIOUS
    <3>2. \A x \in DOMAIN fw' : fw'[x] = <<>> \/ (x \in DOMAIN fw /\ fw'[x] = fw[x])
      BY <1>3
    <3>3. /\ Egress(o) \in DOMAIN fw => fw[Egress(o)] \in Seq(EgressSet)
          /\ Input(o) \in DOMAIN fw => fw[Input(o)] \in Seq(InputSet)
      BY DEF FwInv, Chains
    <3> QED BY <3>1, <3>2, <3>3
  <2>3. \A o \in Plans : /\ Egress(o) \in DOMAIN fw => Egress(o) \in DOMAIN fw'
                         /\ Input(o) \in DOMAIN fw => Input(o) \in DOMAIN fw'
    BY <1>3
  <2>4. /\ fw'[DockerUser] \in Seq({EgressJump(o) : o \in Plans})
        /\ fw'[HostInput] \in Seq({InputJump(o) : o \in Plans})
        /\ \A o \in Plans : /\ EgressJump(o) \in Range(fw'[DockerUser]) => Egress(o) \in DOMAIN fw'
                            /\ InputJump(o) \in Range(fw'[HostInput]) => Input(o) \in DOMAIN fw'
    BY <1>5, <2>3 DEF FwInv, Chains
  <2> QED BY <1>4, <2>1, <2>2, <2>4 DEF FwInv, Chains
<1> QED BY <1>1, <1>3, <1>6, <1>7

\* Flushing or appending to a chain of the plan changes that chain only.
LEMMA BodyChange ==
    ASSUME FwInv, NEW p \in Plans, NEW c, NEW s,
           \/ c.chain = Egress(p) /\ s \in Seq(EgressSet)
           \/ c.chain = Input(p) /\ s \in Seq(InputSet),
           c.chain \in DOMAIN fw, fw' = [fw EXCEPT ![c.chain] = s]
    PROVE  /\ FwInv' /\ (\A o \in Plans \ {p} : Same(o)) /\ Shrinks(p)
           /\ DOMAIN fw' = DOMAIN fw /\ fw'[c.chain] = s
           /\ \A x \in DOMAIN fw \ {c.chain} : fw'[x] = fw[x]
<1>1. /\ DOMAIN fw' = DOMAIN fw /\ fw'[c.chain] = s
      /\ \A x \in DOMAIN fw \ {c.chain} : fw'[x] = fw[x]
  BY DEF FwInv
<1>2. fw' = [x \in DOMAIN fw' |-> fw'[x]]
  BY DEF FwInv
<1>3. fw'[DockerUser] = fw[DockerUser] /\ fw'[HostInput] = fw[HostInput]
  BY <1>1, Names DEF FwInv, Chains
<1>4. \A o \in Plans \ {p} : Same(o)
  BY <1>1, <1>3, Names DEF Same, FwInv, Chains
<1>5. Shrinks(p)
  BY <1>1 DEF Shrinks
<1>6. ASSUME NEW o \in Plans
      PROVE  /\ Egress(o) \in DOMAIN fw' => fw'[Egress(o)] \in Seq(EgressSet)
             /\ Input(o) \in DOMAIN fw' => fw'[Input(o)] \in Seq(InputSet)
  BY <1>1, Names DEF FwInv, Chains
<1>7. FwInv'
  BY <1>1, <1>2, <1>3, <1>6 DEF FwInv, Chains
<1> QED BY <1>1, <1>4, <1>5, <1>7

\* Inserting or deleting a jump of the plan changes that hook only.
LEMMA HookChange ==
    ASSUME FwInv, NEW p \in Plans, NEW c, NEW s,
           \/ /\ c.chain = DockerUser /\ s \in Seq({EgressJump(o) : o \in Plans})
              /\ EgressJump(p) \in Range(s) => Egress(p) \in Chains
              /\ \A o \in Plans \ {p} : EgressJump(o) \in Range(s) <=> EgressJump(o) \in Range(fw[DockerUser])
           \/ /\ c.chain = HostInput /\ s \in Seq({InputJump(o) : o \in Plans})
              /\ InputJump(p) \in Range(s) => Input(p) \in Chains
              /\ \A o \in Plans \ {p} : InputJump(o) \in Range(s) <=> InputJump(o) \in Range(fw[HostInput]),
           fw' = [fw EXCEPT ![c.chain] = s]
    PROVE  /\ FwInv' /\ (\A o \in Plans \ {p} : Same(o)) /\ Shrinks(p)
           /\ DOMAIN fw' = DOMAIN fw /\ fw'[c.chain] = s
           /\ \A x \in DOMAIN fw \ {c.chain} : fw'[x] = fw[x]
<1>1. /\ DOMAIN fw' = DOMAIN fw /\ fw'[c.chain] = s
      /\ \A x \in DOMAIN fw \ {c.chain} : fw'[x] = fw[x]
  BY Names DEF FwInv, Chains
<1>2. fw' = [x \in DOMAIN fw' |-> fw'[x]]
  BY DEF FwInv
<1>3. /\ DockerUser \in DOMAIN fw /\ HostInput \in DOMAIN fw
      /\ \A o \in Plans : /\ Egress(o) \in DOMAIN fw => fw'[Egress(o)] = fw[Egress(o)]
                          /\ Input(o) \in DOMAIN fw => fw'[Input(o)] = fw[Input(o)]
  BY <1>1, Names DEF FwInv, Chains
<1>4. /\ fw'[DockerUser] \in Seq({EgressJump(o) : o \in Plans})
      /\ fw'[HostInput] \in Seq({InputJump(o) : o \in Plans})
      /\ EgressJump(p) \in Range(fw'[DockerUser]) => Egress(p) \in Chains
      /\ InputJump(p) \in Range(fw'[HostInput]) => Input(p) \in Chains
      /\ \A o \in Plans \ {p} :
            /\ EgressJump(o) \in Range(fw'[DockerUser]) <=> EgressJump(o) \in Range(fw[DockerUser])
            /\ InputJump(o) \in Range(fw'[HostInput]) <=> InputJump(o) \in Range(fw[HostInput])
  BY <1>1, <1>3, Names DEF FwInv
<1>5. \A o \in Plans \ {p} : Same(o)
  BY <1>1, <1>3, <1>4 DEF Same
<1>6. Shrinks(p)
  BY <1>1 DEF Shrinks
<1>7. FwInv'
  BY <1>1, <1>2, <1>3, <1>4 DEF FwInv, Chains
<1> QED BY <1>1, <1>5, <1>6, <1>7

\* A step that leaves the firewall alone.
LEMMA FwKept ==
    ASSUME FwInv, UNCHANGED fw
    PROVE  FwInv' /\ \A o \in Plans : Same(o) /\ Shrinks(o)
<1>1. FwInv'
  BY DEF FwInv, Chains
<1>2. \A o \in Plans : Same(o) /\ Shrinks(o)
  BY DEF Same, Shrinks
<1> QED BY <1>1, <1>2

\* Deleting a chain: it was empty and nothing jumped to it.
LEMMA DeleteChain ==
    ASSUME FwInv, NEW p \in Plans, NEW c, c.op = "X", c.chain \in {Egress(p), Input(p)},
           Works(c), fw' = After(c)
    PROVE  /\ FwInv' /\ (\A o \in Plans \ {p} : Same(o)) /\ Shrinks(p)
           /\ c.chain \notin DOMAIN fw'
<1>1. c.chain \in DOMAIN fw /\ ~Referenced(c.chain)
  BY DEF Works, Chains
<1>2. fw' = [x \in DOMAIN fw \ {c.chain} |-> fw[x]]
  BY DEF After, Chains, Restrict
<1>3. /\ DOMAIN fw' = DOMAIN fw \ {c.chain}
      /\ \A x \in DOMAIN fw \ {c.chain} : fw'[x] = fw[x]
      /\ fw' = [x \in DOMAIN fw' |-> fw'[x]]
  BY <1>2
<1>4. fw'[DockerUser] = fw[DockerUser] /\ fw'[HostInput] = fw[HostInput]
  BY <1>3, Names DEF FwInv, Chains
<1>5. \A o \in Plans \ {p} : Same(o)
  BY <1>3, <1>4, Names DEF Same, FwInv, Chains
<1>6. Shrinks(p)
  BY <1>3 DEF Shrinks
<1>7. /\ EgressJump(p) \in Range(fw[DockerUser]) => c.chain # Egress(p)
      /\ InputJump(p) \in Range(fw[HostInput]) => c.chain # Input(p)
  <2>1. DockerUser \in Chains /\ HostInput \in Chains
    BY Names DEF FwInv
  <2>2. EgressJump(p) \in Range(fw[DockerUser]) => Referenced(Egress(p))
    BY <2>1, Jumps DEF Referenced, Range
  <2>3. InputJump(p) \in Range(fw[HostInput]) => Referenced(Input(p))
    BY <2>1, Jumps DEF Referenced, Range
  <2> QED BY <1>1, <2>2, <2>3
<1>8. ASSUME NEW o \in Plans
      PROVE  /\ EgressJump(o) \in Range(fw'[DockerUser]) => Egress(o) \in DOMAIN fw'
             /\ InputJump(o) \in Range(fw'[HostInput]) => Input(o) \in DOMAIN fw'
             /\ Egress(o) \in DOMAIN fw' => fw'[Egress(o)] \in Seq(EgressSet)
             /\ Input(o) \in DOMAIN fw' => fw'[Input(o)] \in Seq(InputSet)
  <2>1. /\ EgressJump(o) \in Range(fw[DockerUser]) => Egress(o) \in DOMAIN fw
        /\ InputJump(o) \in Range(fw[HostInput]) => Input(o) \in DOMAIN fw
        /\ Egress(o) \in DOMAIN fw => fw[Egress(o)] \in Seq(EgressSet)
        /\ Input(o) \in DOMAIN fw => fw[Input(o)] \in Seq(InputSet)
    BY DEF FwInv, Chains
  <2>2. CASE o = p
    BY <1>3, <1>4, <1>7, <2>1, <2>2, Names
  <2>3. CASE o # p
    BY <1>3, <1>4, <2>1, <2>3, Names
  <2> QED BY <2>2, <2>3
<1>9. Hooks \subseteq DOMAIN fw' /\ DOMAIN fw' \subseteq Hooks \cup Bodies
  BY <1>3, Names DEF FwInv, Chains
<1>10. /\ fw'[DockerUser] \in Seq({EgressJump(o) : o \in Plans})
       /\ fw'[HostInput] \in Seq({InputJump(o) : o \in Plans})
  BY <1>4 DEF FwInv
<1>11. FwInv'
  BY <1>3, <1>8, <1>9, <1>10 DEF FwInv, Chains
<1> QED BY <1>3, <1>5, <1>6, <1>11

\* Deleting a jump: the jumps of the other plans stay.
LEMMA DeleteJump ==
    ASSUME FwInv, NEW p \in Plans, NEW c, c.op = "D",
           \/ c.chain = DockerUser /\ c.rule = EgressJump(p)
           \/ c.chain = HostInput /\ c.rule = InputJump(p),
           Works(c), fw' = After(c)
    PROVE  FwInv' /\ (\A o \in Plans \ {p} : Same(o)) /\ Shrinks(p)
<1> DEFINE s == RemoveFirst(fw[c.chain], c.rule)
<1>1. c.rule \in Range(fw[c.chain])
  BY DEF Works
<1>2. fw' = [fw EXCEPT ![c.chain] = s]
  BY DEF After
<1>3. CASE c.chain = DockerUser /\ c.rule = EgressJump(p)
  <2>1. fw[DockerUser] \in Seq({EgressJump(o) : o \in Plans})
    BY DEF FwInv
  <2>2. /\ s \in Seq({EgressJump(o) : o \in Plans})
        /\ Range(s) \subseteq Range(fw[DockerUser])
        /\ \A x \in Range(fw[DockerUser]) : x # EgressJump(p) => x \in Range(s)
    BY <1>1, <1>3, <2>1, RemoveFirstKeepsOthers
  <2> HIDE DEF s
  <2>3. /\ EgressJump(p) \in Range(s) => Egress(p) \in Chains
        /\ \A o \in Plans \ {p} : EgressJump(o) \in Range(s) <=> EgressJump(o) \in Range(fw[DockerUser])
    BY <2>2, Jumps DEF FwInv
  <2> QED BY <1>2, <1>3, <2>2, <2>3, HookChange
<1>4. CASE c.chain = HostInput /\ c.rule = InputJump(p)
  <2>1. fw[HostInput] \in Seq({InputJump(o) : o \in Plans})
    BY DEF FwInv
  <2>2. /\ s \in Seq({InputJump(o) : o \in Plans})
        /\ Range(s) \subseteq Range(fw[HostInput])
        /\ \A x \in Range(fw[HostInput]) : x # InputJump(p) => x \in Range(s)
    BY <1>1, <1>4, <2>1, RemoveFirstKeepsOthers
  <2> HIDE DEF s
  <2>3. /\ InputJump(p) \in Range(s) => Input(p) \in Chains
        /\ \A o \in Plans \ {p} : InputJump(o) \in Range(s) <=> InputJump(o) \in Range(fw[HostInput])
    BY <2>2, Jumps DEF FwInv
  <2> QED BY <1>2, <1>4, <2>2, <2>3, HookChange
<1> QED BY <1>3, <1>4

\* Inserting a jump: its chain exists, and the jumps of the other plans stay.
LEMMA InsertJump ==
    ASSUME FwInv, NEW p \in Plans, NEW c, c.op = "I",
           \/ c.chain = DockerUser /\ c.rule = EgressJump(p)
           \/ c.chain = HostInput /\ c.rule = InputJump(p),
           Works(c), fw' = After(c)
    PROVE  /\ FwInv' /\ \A o \in Plans \ {p} : Same(o)
           /\ DOMAIN fw' = DOMAIN fw /\ \A x \in DOMAIN fw \ {c.chain} : fw'[x] = fw[x]
           /\ c.rule \in Range(fw'[c.chain])
<1> DEFINE s == <<c.rule>> \o fw[c.chain]
<1>1. Exists(c.rule.target)
  BY DEF Works
<1>2. fw' = [fw EXCEPT ![c.chain] = s]
  BY DEF After
<1>3. CASE c.chain = DockerUser /\ c.rule = EgressJump(p)
  <2>1. /\ fw[DockerUser] \in Seq({EgressJump(o) : o \in Plans})
        /\ c.rule \in {EgressJump(o) : o \in Plans}
    BY <1>3 DEF FwInv
  <2>2. s \in Seq({EgressJump(o) : o \in Plans}) /\ Range(s) = Range(fw[DockerUser]) \cup {c.rule}
    BY <1>3, <2>1, AppendRange
  <2> HIDE DEF s
  <2>3. /\ Egress(p) \in Chains
        /\ \A o \in Plans \ {p} : EgressJump(o) \in Range(s) <=> EgressJump(o) \in Range(fw[DockerUser])
    <3>1. c.rule.target = Egress(p) /\ Egress(p) \notin {Accept, Reject, Return}
      BY <1>3, Jumps, Names
    <3>2. \A o \in Plans \ {p} : EgressJump(o) # c.rule
      BY <1>3, Jumps
    <3> QED BY <1>1, <2>2, <3>1, <3>2 DEF Exists
  <2>4. /\ FwInv' /\ \A o \in Plans \ {p} : Same(o)
        /\ DOMAIN fw' = DOMAIN fw /\ fw'[c.chain] = s
        /\ \A x \in DOMAIN fw \ {c.chain} : fw'[x] = fw[x]
    <3>1. FwInv' /\ (\A o \in Plans \ {p} : Same(o)) /\ Shrinks(p)
      <4>1. s \in Seq({EgressJump(o) : o \in Plans}) /\ (EgressJump(p) \in Range(s) => Egress(p) \in Chains)
        BY <2>2, <2>3
      <4>2. \/ /\ c.chain = DockerUser /\ s \in Seq({EgressJump(o) : o \in Plans})
               /\ EgressJump(p) \in Range(s) => Egress(p) \in Chains
               /\ \A o \in Plans \ {p} : EgressJump(o) \in Range(s) <=> EgressJump(o) \in Range(fw[DockerUser])
            \/ /\ c.chain = HostInput /\ s \in Seq({InputJump(o) : o \in Plans})
               /\ InputJump(p) \in Range(s) => Input(p) \in Chains
               /\ \A o \in Plans \ {p} : InputJump(o) \in Range(s) <=> InputJump(o) \in Range(fw[HostInput])
        BY <1>3, <2>3, <4>1
      <4> QED BY <1>2, <4>2, HookChange
    <3>2. /\ DOMAIN fw' = DOMAIN fw /\ fw'[c.chain] = s
          /\ \A x \in DOMAIN fw \ {c.chain} : fw'[x] = fw[x]
      BY <1>2, <1>3, Names DEF FwInv, Chains
    <3> QED BY <3>1, <3>2
  <2> QED BY <2>2, <2>4
<1>4. CASE c.chain = HostInput /\ c.rule = InputJump(p)
  <2>1. /\ fw[HostInput] \in Seq({InputJump(o) : o \in Plans})
        /\ c.rule \in {InputJump(o) : o \in Plans}
    BY <1>4 DEF FwInv
  <2>2. s \in Seq({InputJump(o) : o \in Plans}) /\ Range(s) = Range(fw[HostInput]) \cup {c.rule}
    BY <1>4, <2>1, AppendRange
  <2> HIDE DEF s
  <2>3. /\ Input(p) \in Chains
        /\ \A o \in Plans \ {p} : InputJump(o) \in Range(s) <=> InputJump(o) \in Range(fw[HostInput])
    <3>1. c.rule.target = Input(p) /\ Input(p) \notin {Accept, Reject, Return}
      BY <1>4, Jumps, Names
    <3>2. \A o \in Plans \ {p} : InputJump(o) # c.rule
      BY <1>4, Jumps
    <3> QED BY <1>1, <2>2, <3>1, <3>2 DEF Exists
  <2>4. /\ FwInv' /\ \A o \in Plans \ {p} : Same(o)
        /\ DOMAIN fw' = DOMAIN fw /\ fw'[c.chain] = s
        /\ \A x \in DOMAIN fw \ {c.chain} : fw'[x] = fw[x]
    <3>1. FwInv' /\ (\A o \in Plans \ {p} : Same(o)) /\ Shrinks(p)
      <4>1. s \in Seq({InputJump(o) : o \in Plans}) /\ (InputJump(p) \in Range(s) => Input(p) \in Chains)
        BY <2>2, <2>3
      <4>2. \/ /\ c.chain = DockerUser /\ s \in Seq({EgressJump(o) : o \in Plans})
               /\ EgressJump(p) \in Range(s) => Egress(p) \in Chains
               /\ \A o \in Plans \ {p} : EgressJump(o) \in Range(s) <=> EgressJump(o) \in Range(fw[DockerUser])
            \/ /\ c.chain = HostInput /\ s \in Seq({InputJump(o) : o \in Plans})
               /\ InputJump(p) \in Range(s) => Input(p) \in Chains
               /\ \A o \in Plans \ {p} : InputJump(o) \in Range(s) <=> InputJump(o) \in Range(fw[HostInput])
        BY <1>4, <2>3, <4>1
      <4> QED BY <1>2, <4>2, HookChange
    <3>2. /\ DOMAIN fw' = DOMAIN fw /\ fw'[c.chain] = s
          /\ \A x \in DOMAIN fw \ {c.chain} : fw'[x] = fw[x]
      BY <1>2, <1>4, Names DEF FwInv, Chains
    <3> QED BY <3>1, <3>2
  <2> QED BY <2>2, <2>4
<1> QED BY <1>3, <1>4

\* A command that takes effect keeps the shape of the firewall and the rules of
\* all other plans; one of remove makes no chain.
LEMMA EffectStep ==
    ASSUME FwInv, NEW p \in Plans, NEW c, PlanCommand(p, c), Works(c), fw' = After(c)
    PROVE  /\ FwInv' /\ \A o \in Plans \ {p} : Same(o)
           /\ Removal(p, c) => Shrinks(p)
           /\ Removal(p, c) /\ c.op = "X" => c.chain \notin DOMAIN fw'
<1>1. CASE c.op = "C"
  <2>1. UNCHANGED fw
    BY <1>1 DEF After
  <2> QED BY <1>1, <2>1, FwKept
<1>2. CASE c.op = "F" /\ c.chain \in {Egress(p), Input(p)}
  <2>1. c.chain \in DOMAIN fw /\ fw' = [fw EXCEPT ![c.chain] = <<>>]
    BY <1>2 DEF Works, After, Chains
  <2>2. <<>> \in Seq(EgressSet) /\ <<>> \in Seq(InputSet)
    OBVIOUS
  <2>3. \/ c.chain = Egress(p) /\ <<>> \in Seq(EgressSet)
        \/ c.chain = Input(p) /\ <<>> \in Seq(InputSet)
    BY <1>2, <2>2
  <2>4. FwInv' /\ (\A o \in Plans \ {p} : Same(o)) /\ Shrinks(p)
    BY <2>1, <2>3, BodyChange
  <2> QED BY <1>2, <2>4
<1>3. CASE c.op = "X" /\ c.chain \in {Egress(p), Input(p)}
  BY <1>3, DeleteChain
<1>4. CASE c.op = "D" /\ (\/ c.chain = DockerUser /\ c.rule = EgressJump(p)
                          \/ c.chain = HostInput /\ c.rule = InputJump(p))
  BY <1>4, DeleteJump
<1>5. CASE c.op = "N" /\ c.chain \in {Egress(p), Input(p)}
  BY <1>5, NewChain DEF Removal
<1>6. CASE c.op = "A" /\ (\/ c.chain = Egress(p) /\ c.rule \in EgressSet
                          \/ c.chain = Input(p) /\ c.rule \in InputSet)
  <2> DEFINE s == Append(fw[c.chain], c.rule)
  <2>1. c.chain \in DOMAIN fw /\ fw' = [fw EXCEPT ![c.chain] = s]
    BY <1>6 DEF Works, After, Chains
  <2>2. \/ c.chain = Egress(p) /\ s \in Seq(EgressSet)
        \/ c.chain = Input(p) /\ s \in Seq(InputSet)
    BY <1>6, <2>1, AppendRange DEF FwInv, Chains
  <2> HIDE DEF s
  <2>3. FwInv' /\ (\A o \in Plans \ {p} : Same(o)) /\ Shrinks(p)
    BY <2>1, <2>2, BodyChange
  <2> QED BY <1>6, <2>3
<1>7. CASE c.op = "I" /\ (\/ c.chain = DockerUser /\ c.rule = EgressJump(p)
                          \/ c.chain = HostInput /\ c.rule = InputJump(p))
  <2>1. FwInv' /\ \A o \in Plans \ {p} : Same(o)
    BY <1>7, InsertJump
  <2> QED BY <1>7, <2>1 DEF Removal
<1> QED BY <1>1, <1>2, <1>3, <1>4, <1>5, <1>6, <1>7 DEF PlanCommand, Removal

\* The same for every outcome of a command, also one that times out; a chain
\* whose deletion does not fail is gone.
LEMMA OutcomeStep ==
    ASSUME FwInv, NEW p \in Plans, NEW c, NEW r, PlanCommand(p, c), Outcome(c, r)
    PROVE  /\ FwInv' /\ \A o \in Plans \ {p} : Same(o)
           /\ Removal(p, c) => Shrinks(p)
           /\ Removal(p, c) /\ c.op = "X" /\ r # "fail" => c.chain \notin DOMAIN fw'
           /\ r = "ok" => Works(c) /\ fw' = After(c)
           /\ c.op = "C" => UNCHANGED fw
<1>1. CASE Works(c) /\ fw' = After(c)
  <2>1. c.op = "C" => UNCHANGED fw
    BY <1>1 DEF After
  <2> QED BY <1>1, <2>1, EffectStep
<1>2. CASE UNCHANGED fw /\ r = "fail"
  BY <1>2, FwKept
<1>3. CASE UNCHANGED fw /\ r = "absent" /\ SaysAbsent(c)
  <2>1. c.op = "X" => c.chain \notin DOMAIN fw'
    BY <1>3 DEF SaysAbsent, Chains
  <2> QED BY <1>3, <2>1, FwKept
<1> QED BY <1>1, <1>2, <1>3 DEF Outcome

\* A plan's rules are as far installed as before when they are the same.
LEMMA SameInstalled ==
    ASSUME NEW p \in Plans, Same(p), NEW k \in 0..12
    PROVE  Installed(p, k)' <=> Installed(p, k)
BY DEF Same, Installed, Chains

\* Each of the twelve commands that takes effect brings the installation one
\* command further.
LEMMA InstallStep ==
    ASSUME FwInv, NEW p \in Plans, NEW k \in 0..11, Installed(p, k),
           Works(RuleCommands(p)[k + 1]), fw' = After(RuleCommands(p)[k + 1])
    PROVE  Installed(p, k + 1)'
<1> DEFINE c == RuleCommands(p)[k + 1]
<1>0. /\ DockerUser \in DOMAIN fw /\ HostInput \in DOMAIN fw /\ DockerUser # HostInput
      /\ Egress(p) # Input(p) /\ Egress(p) \notin {DockerUser, HostInput}
      /\ Input(p) \notin {DockerUser, HostInput}
  BY Names DEF FwInv, Chains
<1>1. CASE k = 0
  <2>1. c = Command("N", Egress(p), NoRule)
    BY <1>1, RuleCommandsAre
  <2>2. /\ DOMAIN fw' = DOMAIN fw \cup {Egress(p)} /\ fw'[Egress(p)] = <<>>
        /\ \A x \in DOMAIN fw : fw'[x] = fw[x]
    <3>1. fw' = [x \in Chains \cup {Egress(p)} |-> IF x = Egress(p) THEN <<>> ELSE fw[x]]
      BY <2>1 DEF Command, After
    <3>2. Egress(p) \notin DOMAIN fw
      BY <1>1 DEF Installed, Chains
    <3> QED BY <3>1, <3>2 DEF Chains
  <2> HIDE DEF c
  <2> QED BY <1>0, <1>1, <2>2 DEF Installed, Filled, Chains
<1>2. CASE k = 7
  <2>1. c = Command("N", Input(p), NoRule)
    BY <1>2, RuleCommandsAre
  <2>2. /\ DOMAIN fw' = DOMAIN fw \cup {Input(p)} /\ fw'[Input(p)] = <<>>
        /\ \A x \in DOMAIN fw : fw'[x] = fw[x]
    <3>1. fw' = [x \in Chains \cup {Input(p)} |-> IF x = Input(p) THEN <<>> ELSE fw[x]]
      BY <2>1 DEF Command, After
    <3>2. Input(p) \notin DOMAIN fw
      BY <1>2 DEF Installed, Chains
    <3> QED BY <3>1, <3>2 DEF Chains
  <2> HIDE DEF c
  <2> QED BY <1>0, <1>2, <2>2 DEF Installed, Filled, Chains
<1>3. CASE k = 1
  <2>1. c = Command("F", Egress(p), NoRule)
    BY <1>3, RuleCommandsAre
  <2>2. fw' = [fw EXCEPT ![Egress(p)] = <<>>]
    BY <2>1 DEF Command, After
  <2>3. /\ DOMAIN fw' = DOMAIN fw /\ fw'[Egress(p)] = <<>>
        /\ \A x \in DOMAIN fw \ {Egress(p)} : fw'[x] = fw[x]
    BY <1>3, <2>2 DEF Installed, Chains
  <2> HIDE DEF c
  <2> QED BY <1>0, <1>3, <2>3 DEF Installed, Filled, Chains
<1>4. CASE k = 8
  <2>1. c = Command("F", Input(p), NoRule)
    BY <1>4, RuleCommandsAre
  <2>2. fw' = [fw EXCEPT ![Input(p)] = <<>>]
    BY <2>1 DEF Command, After
  <2>3. /\ DOMAIN fw' = DOMAIN fw /\ fw'[Input(p)] = <<>>
        /\ \A x \in DOMAIN fw \ {Input(p)} : fw'[x] = fw[x]
    BY <1>4, <2>2 DEF Installed, Chains
  <2> HIDE DEF c
  <2> QED BY <1>0, <1>4, <2>3 DEF Installed, Filled, Chains
<1>5. CASE k \in 2..5
  <2>1. c = Command("A", Egress(p), EgressRules[k - 1])
    <3>1. k - 1 \in 1..4 /\ (k - 1) + 2 = k + 1
      BY <1>5
    <3> QED BY <3>1, RuleCommandsAre
  <2>2. fw' = [fw EXCEPT ![Egress(p)] = Append(fw[Egress(p)], EgressRules[k - 1])]
    BY <2>1 DEF Command, After
  <2>3. /\ DOMAIN fw' = DOMAIN fw /\ fw'[Egress(p)] = Append(fw[Egress(p)], EgressRules[k - 1])
        /\ \A x \in DOMAIN fw \ {Egress(p)} : fw'[x] = fw[x]
    BY <1>5, <2>2 DEF Installed, Chains
  <2>4. /\ fw[Egress(p)] \in Seq(EgressSet) /\ Len(fw[Egress(p)]) = k - 2
        /\ \A i \in 1..(k - 2) : fw[Egress(p)][i] = EgressRules[i]
    BY <1>5 DEF Installed, Filled, FwInv
  <2>5. /\ Len(fw'[Egress(p)]) = k - 1
        /\ \A i \in 1..(k - 1) : fw'[Egress(p)][i] = EgressRules[i]
    BY <1>5, <2>3, <2>4
  <2> HIDE DEF c
  <2> QED BY <1>0, <1>5, <2>3, <2>5 DEF Installed, Filled, Chains
<1>6. CASE k \in 9..10
  <2>1. c = Command("A", Input(p), InputRules[k - 8])
    <3>1. k - 8 \in 1..2 /\ (k - 8) + 9 = k + 1
      BY <1>6
    <3> QED BY <3>1, RuleCommandsAre
  <2>2. fw' = [fw EXCEPT ![Input(p)] = Append(fw[Input(p)], InputRules[k - 8])]
    BY <2>1 DEF Command, After
  <2>3. /\ DOMAIN fw' = DOMAIN fw /\ fw'[Input(p)] = Append(fw[Input(p)], InputRules[k - 8])
        /\ \A x \in DOMAIN fw \ {Input(p)} : fw'[x] = fw[x]
    BY <1>6, <2>2 DEF Installed, Chains
  <2>4. /\ fw[Input(p)] \in Seq(InputSet) /\ Len(fw[Input(p)]) = k - 9
        /\ \A i \in 1..(k - 9) : fw[Input(p)][i] = InputRules[i]
    BY <1>6 DEF Installed, Filled, FwInv
  <2>5. /\ Len(fw'[Input(p)]) = k - 8
        /\ \A i \in 1..(k - 8) : fw'[Input(p)][i] = InputRules[i]
    BY <1>6, <2>3, <2>4
  <2> HIDE DEF c
  <2> QED BY <1>0, <1>6, <2>3, <2>5 DEF Installed, Filled, Chains
<1>7. CASE k = 6
  <2>1. c = Command("I", DockerUser, EgressJump(p))
    BY <1>7, RuleCommandsAre
  <2>2. /\ DOMAIN fw' = DOMAIN fw /\ \A x \in DOMAIN fw \ {DockerUser} : fw'[x] = fw[x]
        /\ EgressJump(p) \in Range(fw'[DockerUser])
    BY <2>1, InsertJump DEF Command
  <2> HIDE DEF c
  <2> QED BY <1>0, <1>7, <2>2 DEF Installed, Filled, Chains
<1>8. CASE k = 11
  <2>1. c = Command("I", HostInput, InputJump(p))
    BY <1>8, RuleCommandsAre
  <2>2. /\ DOMAIN fw' = DOMAIN fw /\ \A x \in DOMAIN fw \ {HostInput} : fw'[x] = fw[x]
        /\ InputJump(p) \in Range(fw'[HostInput])
    BY <2>1, InsertJump DEF Command
  <2> HIDE DEF c
  <2> QED BY <1>0, <1>8, <2>2 DEF Installed, Filled, Chains
<1> QED BY <1>1, <1>2, <1>3, <1>4, <1>5, <1>6, <1>7, <1>8

-----------------------------------------------------------------------------
(* What the rules decide *)

Decides(hook, i, p, a, port) ==
    IF Matches(fw[hook][i], p, a, port) THEN ChainVerdict(fw[hook][i].target, p, a, port) ELSE Return

\* A hook decides what some jump of it decides, or accepts when all return.
LEMMA HookVerdict ==
    ASSUME NEW hook, NEW p, NEW a, NEW port, DOMAIN fw[hook] \subseteq Nat
    PROVE  \/ /\ \A i \in DOMAIN fw[hook] : Decides(hook, i, p, a, port) = Return
              /\ Verdict(hook, p, a, port) = Accept
           \/ \E i \in DOMAIN fw[hook] :
                 /\ Decides(hook, i, p, a, port) # Return
                 /\ Verdict(hook, p, a, port) = Decides(hook, i, p, a, port)
<1> DEFINE firm == {i \in DOMAIN fw[hook] : Decides(hook, i, p, a, port) # Return}
<1>1. Verdict(hook, p, a, port) = IF firm = {} THEN Accept ELSE Decides(hook, Min(firm), p, a, port)
  BY DEF Verdict, Decides
<1>2. firm \in SUBSET Nat
  OBVIOUS
<1>3. CASE firm = {}
  BY <1>1, <1>3
<1>4. CASE firm # {}
  <2>1. Min(firm) \in firm
    BY <1>2, <1>4, MinIsLeast
  <2> QED BY <1>1, <1>4, <2>1
<1> QED BY <1>3, <1>4

\* A chain decides by its first matching rule.
LEMMA FirstMatch ==
    ASSUME NEW chain, NEW p, NEW a, NEW port, DOMAIN fw[chain] \subseteq Nat
    PROVE  \/ /\ \A i \in DOMAIN fw[chain] : ~Matches(fw[chain][i], p, a, port)
              /\ ChainVerdict(chain, p, a, port) = Return
           \/ \E m \in DOMAIN fw[chain] :
                 /\ Matches(fw[chain][m], p, a, port)
                 /\ \A i \in DOMAIN fw[chain] : Matches(fw[chain][i], p, a, port) => m <= i
                 /\ ChainVerdict(chain, p, a, port) = fw[chain][m].target
<1> DEFINE hits == {i \in DOMAIN fw[chain] : Matches(fw[chain][i], p, a, port)}
<1>1. ChainVerdict(chain, p, a, port) = IF hits = {} THEN Return ELSE fw[chain][Min(hits)].target
  BY DEF ChainVerdict
<1>2. hits \in SUBSET Nat
  OBVIOUS
<1>3. CASE hits = {}
  BY <1>1, <1>3
<1>4. CASE hits # {}
  <2>1. Min(hits) \in hits /\ \A i \in hits : Min(hits) <= i
    BY <1>2, <1>4, MinIsLeast
  <2> QED BY <1>1, <1>4, <2>1
<1> QED BY <1>3, <1>4

\* The six rules: what they match and where they send it.
LEMMA RuleFacts ==
    ASSUME NEW p \in Plans, NEW a \in Addr, NEW port \in Ports
    PROVE  /\ Matches(EgressRules[1], p, a, port) <=> a \in Approved /\ port = "dns"
           /\ Matches(EgressRules[2], p, a, port) <=> port = "dns"
           /\ Matches(EgressRules[3], p, a, port) <=> a \notin Global
           /\ Matches(EgressRules[4], p, a, port)
           /\ EgressRules[1].target = Accept /\ EgressRules[2].target = Reject
           /\ EgressRules[3].target = Reject /\ EgressRules[4].target = Return
           /\ Matches(InputRules[1], p, a, port) <=> a \in Approved /\ port = "dns"
           /\ Matches(InputRules[2], p, a, port)
           /\ InputRules[1].target = Accept /\ InputRules[2].target = Reject
BY DEF EgressRules, InputRules, AnyRule, Rule, Matches, Ports

\* Whatever part of an egress chain is there, it accepts nothing but DNS to an
\* approved resolver.
LEMMA PartialEgress ==
    ASSUME FwInv, NEW o \in Plans, Egress(o) \in Chains,
           NEW p \in Plans, NEW a \in Addr, NEW port \in Ports
    PROVE  \/ ChainVerdict(Egress(o), p, a, port) \in {Return, Reject}
           \/ ChainVerdict(Egress(o), p, a, port) = Accept /\ port = "dns" /\ a \in Approved
<1>1. fw[Egress(o)] \in Seq(EgressSet)
  BY DEF FwInv
<1>2. DOMAIN fw[Egress(o)] \subseteq Nat /\ \A m \in DOMAIN fw[Egress(o)] : fw[Egress(o)][m] \in EgressSet
  BY <1>1
<1>3. CASE ChainVerdict(Egress(o), p, a, port) = Return
  BY <1>3
<1>4. CASE \E m \in DOMAIN fw[Egress(o)] :
              /\ Matches(fw[Egress(o)][m], p, a, port)
              /\ ChainVerdict(Egress(o), p, a, port) = fw[Egress(o)][m].target
  <2>1. PICK m \in DOMAIN fw[Egress(o)] :
              /\ Matches(fw[Egress(o)][m], p, a, port)
              /\ ChainVerdict(Egress(o), p, a, port) = fw[Egress(o)][m].target
    BY <1>4
  <2>2. PICK i \in 1..4 : fw[Egress(o)][m] = EgressRules[i]
    BY <1>2 DEF EgressSet
  <2>3. i = 1 \/ i = 2 \/ i = 3 \/ i = 4
    OBVIOUS
  <2> QED BY <2>1, <2>2, <2>3, RuleFacts
<1> QED BY <1>2, <1>3, <1>4, FirstMatch

\* A complete egress chain decides as the policy says, or returns what the
\* policy accepts.
LEMMA FullEgress ==
    ASSUME FwInv, NEW p \in Plans, Installed(p, 12), NEW a \in Addr, NEW port \in Ports
    PROVE  ChainVerdict(Egress(p), p, a, port) =
             IF port = "dns" THEN (IF a \in Approved THEN Accept ELSE Reject)
             ELSE IF a \in Global THEN Return ELSE Reject
<1> DEFINE s == fw[Egress(p)]
<1>1. /\ Egress(p) \in Chains /\ s \in Seq(EgressSet) /\ Len(s) = 4
      /\ \A i \in 1..4 : s[i] = EgressRules[i]
  BY DEF Installed, Filled, FwInv
<1>2. DOMAIN s = 1..4
  BY <1>1
<1> HIDE DEF s
<1>3. Matches(s[4], p, a, port)
  BY <1>1, RuleFacts
<1>4. PICK m \in 1..4 : /\ Matches(s[m], p, a, port)
                        /\ \A i \in 1..4 : Matches(s[i], p, a, port) => m <= i
                        /\ ChainVerdict(Egress(p), p, a, port) = s[m].target
  <2>1. DOMAIN fw[Egress(p)] \subseteq Nat
    BY <1>2 DEF s
  <2> QED BY <1>2, <1>3, <2>1, FirstMatch DEF s
<1>5. port = "dns" /\ a \in Approved => m = 1
  BY <1>1, <1>4, RuleFacts
<1>6. port = "dns" /\ a \notin Approved => m = 2
  <2>1. port = "dns" /\ a \notin Approved => m <= 2 /\ m # 1
    BY <1>1, <1>4, RuleFacts
  <2> QED BY <2>1
<1>7. port # "dns" /\ a \notin Global => m = 3
  <2>1. port # "dns" /\ a \notin Global => m <= 3 /\ m # 1 /\ m # 2
    BY <1>1, <1>4, RuleFacts
  <2> QED BY <2>1
<1>8. port # "dns" /\ a \in Global => m = 4
  <2>1. port # "dns" /\ a \in Global => m # 1 /\ m # 2 /\ m # 3
    BY <1>1, <1>4, RuleFacts
  <2> QED BY <2>1
<1> QED BY <1>1, <1>4, <1>5, <1>6, <1>7, <1>8, RuleFacts

\* A complete input chain decides as the policy says.
LEMMA FullInput ==
    ASSUME FwInv, NEW p \in Plans, Installed(p, 12), NEW a \in Addr, NEW port \in Ports
    PROVE  ChainVerdict(Input(p), p, a, port) = Policy(HostInput, a, port)
<1> DEFINE s == fw[Input(p)]
<1>1. /\ Input(p) \in Chains /\ s \in Seq(InputSet) /\ Len(s) = 2
      /\ \A i \in 1..2 : s[i] = InputRules[i]
  BY DEF Installed, Filled, FwInv
<1>2. DOMAIN s = 1..2
  BY <1>1
<1> HIDE DEF s
<1>3. Matches(s[2], p, a, port)
  BY <1>1, RuleFacts
<1>4. PICK m \in 1..2 : /\ Matches(s[m], p, a, port)
                        /\ \A i \in 1..2 : Matches(s[i], p, a, port) => m <= i
                        /\ ChainVerdict(Input(p), p, a, port) = s[m].target
  <2>1. DOMAIN fw[Input(p)] \subseteq Nat
    BY <1>2 DEF s
  <2> QED BY <1>2, <1>3, <2>1, FirstMatch DEF s
<1>5. port = "dns" /\ a \in Approved => m = 1
  BY <1>1, <1>4, RuleFacts
<1>6. ~(port = "dns" /\ a \in Approved) => m = 2
  <2>1. ~(port = "dns" /\ a \in Approved) => m # 1
    BY <1>1, <1>4, RuleFacts
  <2> QED BY <2>1
<1> QED BY <1>1, <1>4, <1>5, <1>6, RuleFacts DEF Policy

\* The jumps a plan's packets meet: at the host its own, in the forward path
\* those of the plans on its subnet.
LEMMA JumpMatches ==
    ASSUME NEW p \in Plans, NEW o \in Plans, NEW a \in Addr, NEW port \in Ports
    PROVE  /\ Matches(EgressJump(o), p, a, port) <=> Subnet[p] = Subnet[o]
           /\ Matches(InputJump(o), p, a, port) <=> p = o
BY DEF Matches, EgressJump, InputJump, Rule

\* With all rules installed, a packet to the host is treated as the policy says.
LEMMA InputVerdict ==
    ASSUME FwInv, NEW p \in Plans, Installed(p, 12), NEW a \in Addr, NEW port \in Ports
    PROVE  Verdict(HostInput, p, a, port) = Policy(HostInput, a, port)
<1> DEFINE s == fw[HostInput]
<1>1. s \in Seq({InputJump(o) : o \in Plans})
  BY DEF FwInv
<1>2. DOMAIN s \subseteq Nat /\ \A i \in DOMAIN s : \E o \in Plans : s[i] = InputJump(o)
  BY <1>1
<1>3. PICK j \in DOMAIN s : s[j] = InputJump(p)
  BY DEF Installed, Range
<1>4. ASSUME NEW i \in DOMAIN s
      PROVE  Decides(HostInput, i, p, a, port)
               = IF s[i] = InputJump(p) THEN Policy(HostInput, a, port) ELSE Return
  <2>1. PICK o \in Plans : s[i] = InputJump(o)
    BY <1>2
  <2>2. CASE o = p
    BY <2>1, <2>2, JumpMatches, Jumps, FullInput DEF Decides
  <2>3. CASE o # p
    <3>1. ~Matches(fw[HostInput][i], p, a, port) /\ s[i] # InputJump(p)
      BY <2>1, <2>3, JumpMatches, Jumps
    <3> QED BY <3>1 DEF Decides
  <2> QED BY <2>2, <2>3
<1>5. Policy(HostInput, a, port) \in {Accept, Reject}
  BY DEF Policy
<1>6. Decides(HostInput, j, p, a, port) # Return
  BY <1>3, <1>4, <1>5, Names
<1> QED BY <1>2, <1>4, <1>6, HookVerdict

\* What one jump of the forward path decides.
LEMMA EgressDecides ==
    ASSUME FwInv, NEW p \in Plans, Installed(p, 12), NEW a \in Addr, NEW port \in Ports,
           NEW i \in DOMAIN fw[DockerUser]
    PROVE  /\ \/ Decides(DockerUser, i, p, a, port) \in {Return, Reject}
              \/ Decides(DockerUser, i, p, a, port) = Accept /\ port = "dns" /\ a \in Approved
           /\ fw[DockerUser][i] = EgressJump(p) =>
                 Decides(DockerUser, i, p, a, port) = ChainVerdict(Egress(p), p, a, port)
           /\ (\A o \in Plans \ {p} : Subnet[o] = Subnet[p] => ~Referenced(Egress(o))) =>
                 \/ Decides(DockerUser, i, p, a, port) = Return
                 \/ Decides(DockerUser, i, p, a, port) = ChainVerdict(Egress(p), p, a, port)
<1> DEFINE s == fw[DockerUser]
<1>1. s \in Seq({EgressJump(o) : o \in Plans}) /\ DockerUser \in Chains
  BY Names DEF FwInv
<1>2. PICK o \in Plans : s[i] = EgressJump(o)
  BY <1>1
<1>3. Egress(o) \in Chains /\ Referenced(Egress(o))
  <2>1. EgressJump(o) \in Range(s)
    BY <1>2 DEF Range
  <2>2. Egress(o) \in Chains
    BY <2>1 DEF FwInv
  <2>3. Referenced(Egress(o))
    BY <1>1, <1>2, Jumps DEF Referenced
  <2> QED BY <2>2, <2>3
<1>4. /\ Matches(s[i], p, a, port) <=> Subnet[p] = Subnet[o]
      /\ s[i].target = Egress(o)
  BY <1>2, JumpMatches, Jumps
<1>5. Decides(DockerUser, i, p, a, port)
        = IF Subnet[p] = Subnet[o] THEN ChainVerdict(Egress(o), p, a, port) ELSE Return
  BY <1>4 DEF Decides
<1> HIDE DEF s
<1>6. s[i] = EgressJump(p) => o = p
  BY <1>2, Jumps
<1>7. \/ Decides(DockerUser, i, p, a, port) \in {Return, Reject}
      \/ Decides(DockerUser, i, p, a, port) = Accept /\ port = "dns" /\ a \in Approved
  BY <1>3, <1>5, PartialEgress
<1> QED BY <1>3, <1>5, <1>6, <1>7 DEF s

\* With all rules installed, what the policy rejects is rejected in the forward
\* path too, whoever else has rules for the subnet; and all is treated as the
\* policy says if nobody has.
LEMMA EgressVerdict ==
    ASSUME FwInv, NEW p \in Plans, Installed(p, 12), NEW a \in Addr, NEW port \in Ports
    PROVE  /\ Policy(DockerUser, a, port) = Reject => Verdict(DockerUser, p, a, port) = Reject
           /\ (\A o \in Plans \ {p} : Subnet[o] = Subnet[p] => ~Referenced(Egress(o))) =>
                 Verdict(DockerUser, p, a, port) = Policy(DockerUser, a, port)
<1> DEFINE s == fw[DockerUser]
           D(i) == Decides(DockerUser, i, p, a, port)
           V == ChainVerdict(Egress(p), p, a, port)
           Alone == \A o \in Plans \ {p} : Subnet[o] = Subnet[p] => ~Referenced(Egress(o))
<1>1. DOMAIN s \subseteq Nat
  BY DEF FwInv
<1>2. PICK j \in DOMAIN s : s[j] = EgressJump(p)
  BY DEF Installed, Range
<1>3. \A i \in DOMAIN s : /\ D(i) \in {Return, Reject} \/ (D(i) = Accept /\ port = "dns" /\ a \in Approved)
                          /\ Alone => D(i) = Return \/ D(i) = V
  BY EgressDecides
<1>4. D(j) = V
  BY <1>2, EgressDecides
<1>5. V = IF port = "dns" THEN (IF a \in Approved THEN Accept ELSE Reject)
          ELSE IF a \in Global THEN Return ELSE Reject
  BY FullEgress
<1>6. Policy(DockerUser, a, port) = IF port = "dns" THEN (IF a \in Approved THEN Accept ELSE Reject)
                                    ELSE IF a \in Global THEN Accept ELSE Reject
  BY Names DEF Policy, Classify
<1>7. \/ (\A i \in DOMAIN s : D(i) = Return) /\ Verdict(DockerUser, p, a, port) = Accept
      \/ \E i \in DOMAIN s : D(i) # Return /\ Verdict(DockerUser, p, a, port) = D(i)
  BY <1>1, HookVerdict
<1> HIDE DEF D, V, Alone, s
<1>8. Policy(DockerUser, a, port) = Reject => Verdict(DockerUser, p, a, port) = Reject
  <2> SUFFICES ASSUME Policy(DockerUser, a, port) = Reject
               PROVE  Verdict(DockerUser, p, a, port) = Reject
    OBVIOUS
  <2>1. ~(port = "dns" /\ a \in Approved) /\ V = Reject
    BY <1>5, <1>6, Names
  <2>2. D(j) # Return
    BY <1>4, <2>1, Names
  <2> QED BY <1>2, <1>3, <1>7, <2>1, <2>2
<1>9. Alone => Verdict(DockerUser, p, a, port) = Policy(DockerUser, a, port)
  <2> SUFFICES ASSUME Alone PROVE Verdict(DockerUser, p, a, port) = Policy(DockerUser, a, port)
    OBVIOUS
  <2>1. CASE V = Return
    <3>1. \A i \in DOMAIN s : D(i) = Return
      BY <1>3, <2>1
    <3> QED BY <1>5, <1>6, <1>7, <2>1, <3>1, Names
  <2>2. CASE V # Return
    <3>1. V = Policy(DockerUser, a, port)
      BY <1>5, <1>6, <2>2
    <3> QED BY <1>2, <1>3, <1>4, <1>7, <2>2, <3>1
  <2> QED BY <2>1, <2>2
<1> QED BY <1>8, <1>9 DEF Alone

\* The point of the installation: when all twelve commands of a plan have taken
\* effect, nothing the policy rejects gets through, and everything else does
\* unless another plan on the subnet has rules of its own.
LEMMA InstalledSeals ==
    ASSUME FwInv, NEW p \in Plans, Installed(p, 12)
    PROVE  /\ Sealed(p)
           /\ Enforced(p) \/ \E o \in Plans \ {p} : Subnet[o] = Subnet[p] /\ Referenced(Egress(o))
<1>1. ASSUME NEW k \in Packets
      PROVE  /\ Policy(k[1], k[2], k[3]) = Reject => Decision(p, k) = Reject
             /\ (\A o \in Plans \ {p} : Subnet[o] = Subnet[p] => ~Referenced(Egress(o))) =>
                   Decision(p, k) = Policy(k[1], k[2], k[3])
  <2>1. k[1] \in {DockerUser, HostInput} /\ k[2] \in Addr /\ k[3] \in Ports
    BY DEF Packets, Hooks
  <2>2. CASE k[1] = DockerUser
    BY <2>1, <2>2, EgressVerdict DEF Decision
  <2>3. CASE k[1] = HostInput
    BY <2>1, <2>3, InputVerdict DEF Decision
  <2> QED BY <2>1, <2>2, <2>3
<1> QED BY <1>1 DEF Sealed, Enforced

-----------------------------------------------------------------------------
(* One process moves, one plan is concerned *)

\* What the invariant of a plan depends on is as before the step.
Still(p) ==
    /\ loc'[Worker(p)] = loc[Worker(p)] /\ loc'[Cleaner(p)] = loc[Cleaner(p)]
    /\ pending'[p] = pending[p] /\ row'[p] = row[p]
    /\ Own(p) \in nets' <=> Own(p) \in nets
    /\ Own(p) \in running' <=> Own(p) \in running
    /\ Same(p)

\* A plan that a step does not concern keeps its invariant.
LEMMA StillKeeps ==
    ASSUME NEW p \in Plans, Still(p), PlanInv(p)
    PROVE  PlanInv(p)'
<1>1. \A k \in 0..12 : Installed(p, k)' <=> Installed(p, k)
  BY SameInstalled DEF Still
<1>2. Lost(p)' <=> Lost(p)
  BY DEF Still, Lost
<1>3. Gone(p)' <=> Gone(p)
  BY <1>2 DEF Still, Same, Gone, Chains
<1>4. WorkerInv(p)' /\ CleanerInv(p)' /\ NetInv(p)' /\ RowInv(p)'
  BY <1>2 DEF Still, PlanInv, WorkerInv, CleanerInv, NetInv, RowInv, At
<1>5. RuleInv(p)'
  BY <1>1 DEF Still, PlanInv, RuleInv, Guarded, Attached, At
<1>6. CleanInv(p)'
  <2>1. \A q \in {Worker(p), Cleaner(p)} : Cleaned(q)' <=> Cleaned(q)
    <3> TAKE q \in {Worker(p), Cleaner(p)}
    <3>1. q[1] = p /\ loc'[q] = loc[q]
      BY Names DEF Still
    <3>2. Egress(p) \in Chains' <=> Egress(p) \in Chains
      BY DEF Still, Same, Chains
    <3> QED BY <1>2, <1>3, <3>1, <3>2 DEF Cleaned, At
  <2> QED BY <1>3, <2>1 DEF Still, PlanInv, CleanInv, At
<1> QED BY <1>4, <1>5, <1>6 DEF PlanInv

\* A step keeps the invariant if it keeps the types, the shape of the firewall
\* and the invariant of the one plan it concerns.
LEMMA OnePlan ==
    ASSUME NetworkInv, NEW p \in Plans, LocType', RowType', FwInv',
           \A o \in Plans \ {p} : Still(o), PlanInv(p)'
    PROVE  NetworkInv'
<1>1. \A o \in Plans : PlanInv(o)'
  BY StillKeeps DEF NetworkInv
<1> QED BY <1>1 DEF NetworkInv

\* What Become does to the locals.
LEMMA BecomeIs ==
    ASSUME LocType, NEW q \in Procs, NEW l, Become(q, l)
    PROVE  /\ loc'[q] = l /\ \A x \in Procs \ {q} : loc'[x] = loc[x]
           /\ l \in Locals => LocType'
BY DEF Become, LocType

\* What Goto does to the locals.
LEMMA GotoIs ==
    ASSUME LocType, NEW q \in Procs, NEW label \in Labels, Goto(q, label)
    PROVE  /\ loc'[q].pc = label /\ loc'[q].at = 1 /\ loc'[q].seen = loc[q].seen
           /\ loc'[q].kind = loc[q].kind /\ loc'[q].failed = loc[q].failed /\ loc'[q].read = loc[q].read
           /\ \A x \in Procs \ {q} : loc'[x] = loc[x]
           /\ LocType'
<1> DEFINE l == [loc[q] EXCEPT !.pc = label, !.at = 1]
<1>1. loc[q] \in Locals
  BY DEF LocType
<1>2. /\ l \in Locals /\ l.pc = label /\ l.at = 1 /\ l.seen = loc[q].seen
      /\ l.kind = loc[q].kind /\ l.failed = loc[q].failed /\ l.read = loc[q].read
  BY <1>1 DEF Locals
<1>3. Become(q, l)
  BY DEF Goto
<1> HIDE DEF l
<1> QED BY <1>2, <1>3, BecomeIs

\* What Turn does to the locals.
LEMMA TurnIs ==
    ASSUME LocType, NEW q \in Procs, NEW label \in Labels, NEW kind \in Kinds, Turn(q, label, kind)
    PROVE  /\ loc'[q].pc = label /\ loc'[q].at = 1 /\ loc'[q].seen = loc[q].seen
           /\ loc'[q].kind = kind /\ ~loc'[q].failed
           /\ \A x \in Procs \ {q} : loc'[x] = loc[x]
           /\ LocType'
<1> DEFINE l == [Begin(label, kind) EXCEPT !.seen = loc[q].seen]
<1>1. loc[q] \in Locals
  BY DEF LocType
<1>2. /\ l \in Locals /\ l.pc = label /\ l.at = 1 /\ l.seen = loc[q].seen
      /\ l.kind = kind /\ l.failed = FALSE
  BY <1>1 DEF Locals, Begin
<1>3. Become(q, l)
  BY DEF Turn
<1> HIDE DEF l
<1> QED BY <1>2, <1>3, BecomeIs

\* The chains and the installation of a plan whose rules are the same.
LEMMA SameRules ==
    ASSUME NEW p \in Plans, Same(p)
    PROVE  /\ \A k \in 0..12 : Installed(p, k)' <=> Installed(p, k)
           /\ Egress(p) \in Chains' <=> Egress(p) \in Chains
           /\ Input(p) \in Chains' <=> Input(p) \in Chains
<1>1. \A k \in 0..12 : Installed(p, k)' <=> Installed(p, k)
  BY SameInstalled
<1> QED BY <1>1 DEF Same, Chains

\* A step of one of a plan's processes that changes at most the plan's network,
\* container, row, pending command and rules leaves the other plans alone.
LEMMA OthersStill ==
    ASSUME NEW p \in Plans, NEW q \in {Worker(p), Cleaner(p)},
           \A x \in Procs \ {q} : loc'[x] = loc[x],
           \A o \in Plans \ {p} : /\ pending'[o] = pending[o] /\ row'[o] = row[o] /\ Same(o)
                                  /\ Own(o) \in nets' <=> Own(o) \in nets
                                  /\ Own(o) \in running' <=> Own(o) \in running
    PROVE  /\ \A o \in Plans \ {p} : Still(o)
           /\ q = Worker(p) => loc'[Cleaner(p)] = loc[Cleaner(p)]
           /\ q = Cleaner(p) => loc'[Worker(p)] = loc[Worker(p)]
<1>1. \A o \in Plans \ {p} : Worker(o) \in Procs \ {q} /\ Cleaner(o) \in Procs \ {q}
  BY Names
<1>2. \A o \in Plans \ {p} : loc'[Worker(o)] = loc[Worker(o)] /\ loc'[Cleaner(o)] = loc[Cleaner(o)]
  BY <1>1
<1>3. \A o \in Plans \ {p} : Still(o)
  BY <1>2 DEF Still
<1> QED BY <1>3, Names

\* What a step of a plan's process starts from.
LEMMA Before ==
    ASSUME NetworkInv, NEW p \in Plans
    PROVE  /\ LocType /\ RowType /\ FwInv /\ PlanInv(p)
           /\ WorkerInv(p) /\ CleanerInv(p) /\ NetInv(p) /\ RowInv(p) /\ RuleInv(p) /\ CleanInv(p)
           /\ Worker(p) \in Procs /\ Worker(p)[1] = p /\ Cleaner(p) \in Procs /\ Cleaner(p)[1] = p
           /\ loc[Worker(p)] \in Locals /\ loc[Cleaner(p)] \in Locals
           /\ row[p] \in RowStates /\ pending[p] \in Pendings
BY Names DEF NetworkInv, PlanInv, LocType, RowType

\* Only a worker takes the steps of a launch.
LEMMA LaunchIsWorkers ==
    ASSUME NetworkInv, NEW q \in Procs, loc[q].pc \in Forward \cup {"record"}
    PROVE  q = Worker(q[1])
<1>1. q[1] \in Plans /\ (q = Worker(q[1]) \/ q = Cleaner(q[1]))
  BY ProcCases
<1>2. CleanerInv(q[1])
  BY <1>1, Before
<1> QED BY <1>1, <1>2 DEF CleanerInv, Forward, Past, Back

\* A launch that fails turns back to the removal; what the daemon may still
\* carry out is the command that the worker was waiting for.
LEMMA TurnBack ==
    ASSUME NetworkInv, NEW p \in Plans, loc[Worker(p)].pc \in Forward,
           NEW label, NEW kind, Turn(Worker(p), label, kind),
           \/ label = "inspect" /\ kind \in {"reconcile", "cleanup"}
           \/ label = "confirm" /\ kind = "rollback",
           UNCHANGED <<nets, running, row>>, RowType',
           \A o \in Plans \ {p} : pending'[o] = pending[o],
           \/ pending'[p] = pending[p]
           \/ pending'[p] \in {"create", "run"} /\ pending'[p] = loc[Worker(p)].pc,
           FwInv', \A o \in Plans \ {p} : Same(o),
           Same(p) \/ loc[Worker(p)].pc = "rule"
    PROVE  NetworkInv'
<1> DEFINE q == Worker(p)
<1>1. label \in Labels /\ kind \in Kinds
  BY DEF Labels, Back, Kinds
<1>2. /\ loc'[q].pc = label /\ loc'[q].seen = loc[q].seen /\ loc'[q].kind = kind
      /\ (\A x \in Procs \ {q} : loc'[x] = loc[x]) /\ LocType'
  BY <1>1, Before, TurnIs
<1>3. (\A o \in Plans \ {p} : Still(o)) /\ loc'[Cleaner(p)] = loc[Cleaner(p)]
  BY <1>2, OthersStill
<1>4. Same(p) => \A k \in 0..12 : Installed(p, k)' <=> Installed(p, k)
  BY SameRules
<1> USE Before
<1>5. WorkerInv(p)' /\ CleanerInv(p)' /\ RowInv(p)'
  BY <1>2, <1>3 DEF WorkerInv, CleanerInv, RowInv, At, Forward, Past, Back
<1>6. NetInv(p)'
  BY <1>2, <1>3 DEF WorkerInv, NetInv, At, Lost, Forward, Past
<1>7. RuleInv(p)'
  BY <1>2, <1>3, <1>4 DEF NetInv, RuleInv, Guarded, Attached, At, Forward, Past
<1>8. CleanInv(p)'
  BY <1>2, <1>3, Names DEF CleanerInv, CleanInv, Cleaned, At, Forward, Past, Back
<1> QED BY <1>2, <1>3, <1>5, <1>6, <1>7, <1>8, OnePlan DEF PlanInv

\* A launch that goes on past the installation of its rules, with nothing
\* changed but the worker's place.
LEMMA GoOn ==
    ASSUME NetworkInv, NEW p \in Plans, loc[Worker(p)].pc \in {"link", "check"},
           loc'[Worker(p)].pc \in {"link", "check", "run"},
           loc'[Worker(p)].kind \in {"apply", "start"},
           loc'[Worker(p)].pc = "run" => loc'[Worker(p)].kind = "start",
           loc'[Worker(p)].pc = "check" => loc'[Worker(p)].at \in 1..8,
           loc'[Worker(p)].seen = loc[Worker(p)].seen,
           LocType', \A x \in Procs \ {Worker(p)} : loc'[x] = loc[x],
           UNCHANGED <<nets, pending, fw, running, row>>
    PROVE  NetworkInv'
<1> DEFINE q == Worker(p)
<1> USE Before
<1>1. FwInv' /\ \A o \in Plans : Same(o)
  BY FwKept
<1>2. (\A o \in Plans \ {p} : Still(o)) /\ loc'[Cleaner(p)] = loc[Cleaner(p)]
  BY <1>1, OthersStill
<1>3. \A k \in 0..12 : Installed(p, k)' <=> Installed(p, k)
  BY <1>1, SameRules
<1>4. RowType'
  BY DEF RowType
<1>5. WorkerInv(p)' /\ CleanerInv(p)' /\ RowInv(p)'
  BY <1>2 DEF WorkerInv, CleanerInv, RowInv, At, Forward, Past, Back
<1>6. NetInv(p)'
  BY <1>2 DEF NetInv, WorkerInv, At, Lost, Forward, Past
<1>7. RuleInv(p)'
  BY <1>2, <1>3 DEF RuleInv, Guarded, Attached, At, Past
<1>8. CleanInv(p)'
  BY <1>2, Names DEF CleanerInv, CleanInv, Cleaned, At, Back
<1> QED BY <1>1, <1>2, <1>4, <1>5, <1>6, <1>7, <1>8, OnePlan DEF PlanInv

-----------------------------------------------------------------------------
(* The launch, step by step *)

\* Create: the first thing a worker does, before any rule of the plan exists.
LEMMA CreateStep ==
    ASSUME NetworkInv, NEW p \in Plans, Create(Worker(p))
    PROVE  NetworkInv'
<1> DEFINE q == Worker(p)
<1> USE Before
<1>1. loc[q].pc = "create" /\ UNCHANGED <<fw, running, row>> /\ q[1] = p
  BY DEF Create, At
<1>2. FwInv' /\ \A o \in Plans : Same(o)
  BY <1>1, FwKept
<1>3. CASE nets' = nets \cup {Own(p)} /\ Goto(q, "rule") /\ UNCHANGED pending
  <2>1. "rule" \in Labels
    BY DEF Labels, Forward, Past
  <2>2. /\ loc'[q].pc = "rule" /\ loc'[q].at = 1 /\ loc'[q].seen = loc[q].seen
        /\ loc'[q].kind = loc[q].kind /\ (\A x \in Procs \ {q} : loc'[x] = loc[x]) /\ LocType'
    BY <1>3, <2>1, GotoIs
  <2>3. /\ (\A o \in Plans \ {p} : Own(o) \in nets' <=> Own(o) \in nets)
        /\ Own(p) \in nets' /\ Own(p) \notin nets /\ pending[p] = "none"
    BY <1>1, <1>3, Names DEF NetInv, Forward
  <2>4. (\A o \in Plans \ {p} : Still(o)) /\ loc'[Cleaner(p)] = loc[Cleaner(p)]
    BY <1>1, <1>2, <1>3, <2>2, <2>3, OthersStill
  <2>5. (\A k \in 0..12 : Installed(p, k)' <=> Installed(p, k)) /\ Installed(p, 0)
    BY <1>1, <1>2, SameRules DEF RuleInv, At
  <2>6. RowType'
    BY <1>1, <1>3 DEF RowType
  <2>7. WorkerInv(p)' /\ CleanerInv(p)' /\ RowInv(p)'
    BY <1>1, <2>2, <2>3, <2>4 DEF WorkerInv, CleanerInv, RowInv, At, Forward, Past, Back
  <2>8. NetInv(p)'
    BY <1>1, <1>3, <2>2, <2>3, <2>4 DEF WorkerInv, NetInv, At, Lost, Forward, Past
  <2>9. RuleInv(p)'
    BY <1>1, <1>3, <2>2, <2>3, <2>4, <2>5 DEF NetInv, RuleInv, Guarded, Attached, At, Forward, Past
  <2>10. CleanInv(p)'
    BY <1>1, <2>2, <2>4, Names DEF CleanerInv, CleanInv, Cleaned, At, Forward, Past, Back
  <2> QED BY <1>2, <2>2, <2>4, <2>6, <2>7, <2>8, <2>9, <2>10, OnePlan DEF PlanInv
<1>4. CASE /\ Turn(q, "inspect", "reconcile") /\ UNCHANGED nets
           /\ pending' \in {pending, [pending EXCEPT ![p] = "create"]}
  <2>1. /\ RowType' /\ (\A o \in Plans \ {p} : pending'[o] = pending[o])
        /\ pending'[p] = pending[p] \/ pending'[p] = "create"
    BY <1>1, <1>4 DEF RowType, Pendings
  <2> QED BY <1>1, <1>2, <1>4, <2>1, TurnBack DEF Forward
<1> QED BY <1>1, <1>3, <1>4 DEF Create

\* InstallRule: one more command has taken effect, or the launch turns back.
LEMMA InstallRuleStep ==
    ASSUME NetworkInv, NEW p \in Plans, InstallRule(Worker(p))
    PROVE  NetworkInv'
<1> DEFINE q == Worker(p)
           c == RuleCommands(p)[loc[q].at]
<1> USE Before
<1>1. /\ loc[q].pc = "rule" /\ q[1] = p /\ UNCHANGED <<nets, pending, running, row>>
      /\ loc[q].at \in 1..12 /\ Len(RuleCommands(p)) = 12
  BY RuleCommandsAre DEF InstallRule, At, WorkerInv
<1>2. PICK r \in {"ok", "absent", "fail"} :
         /\ Outcome(c, r)
         /\ IF r # "ok" THEN Turn(q, "inspect", "cleanup")
            ELSE IF loc[q].at = 12 THEN Goto(q, "link")
            ELSE Become(q, [loc[q] EXCEPT !.at = @ + 1])
  BY <1>1 DEF InstallRule
<1>3. PlanCommand(p, c)
  BY <1>1, CommandsOfPlan
<1>4. /\ FwInv' /\ (\A o \in Plans \ {p} : Same(o)) /\ (r = "ok" => Works(c) /\ fw' = After(c))
  BY <1>2, <1>3, OutcomeStep
<1>5. RowType'
  BY <1>1 DEF RowType
<1>6. CASE r # "ok"
  BY <1>1, <1>2, <1>4, <1>5, <1>6, TurnBack DEF Forward, Past
<1>7. CASE r = "ok"
  <2>1. /\ (\A x \in Procs \ {q} : loc'[x] = loc[x]) /\ LocType'
        /\ loc'[q].seen = loc[q].seen /\ loc'[q].kind = loc[q].kind
        /\ \/ loc[q].at = 12 /\ loc'[q].pc = "link"
           \/ loc[q].at \in 1..11 /\ loc'[q].pc = "rule" /\ loc'[q].at = loc[q].at + 1
    <3>1. CASE loc[q].at = 12
      <4>1. "link" \in Labels
        BY DEF Labels, Forward, Past
      <4> QED BY <1>2, <1>7, <3>1, <4>1, GotoIs
    <3>2. CASE loc[q].at # 12
      <4> DEFINE l == [loc[q] EXCEPT !.at = @ + 1]
      <4>1. /\ l \in Locals /\ l.pc = loc[q].pc /\ l.at = loc[q].at + 1
            /\ l.seen = loc[q].seen /\ l.kind = loc[q].kind
        BY <1>1 DEF Locals
      <4>2. Become(q, l)
        BY <1>2, <1>7, <3>2
      <4> HIDE DEF l
      <4>3. loc[q].at \in 1..11
        BY <1>1, <3>2
      <4> QED BY <1>1, <4>1, <4>2, <4>3, BecomeIs
    <3> QED BY <3>1, <3>2
  <2>2. (\A o \in Plans \ {p} : Still(o)) /\ loc'[Cleaner(p)] = loc[Cleaner(p)]
    BY <1>1, <1>4, <2>1, OthersStill
  <2>3. ASSUME NEW k \in 0..11, loc[q].at = k + 1, Guarded(p) PROVE Installed(p, k + 1)'
    <3>1. Installed(p, k)
      BY <1>1, <2>3 DEF RuleInv, At
    <3>2. Works(RuleCommands(p)[k + 1]) /\ fw' = After(RuleCommands(p)[k + 1])
      BY <1>4, <1>7, <2>3
    <3> QED BY <3>1, <3>2, InstallStep
  <2>4. WorkerInv(p)' /\ CleanerInv(p)' /\ RowInv(p)'
    BY <1>1, <2>1, <2>2 DEF WorkerInv, CleanerInv, RowInv, At, Forward, Past, Back
  <2>5. NetInv(p)'
    BY <1>1, <2>1, <2>2 DEF WorkerInv, NetInv, At, Lost, Forward, Past
  <2>6. RuleInv(p)'
    <3>1. /\ Guarded(p)' => Guarded(p)
          /\ Attached(p)' => loc[q].at = 12
      BY <1>1, <2>1, <2>2 DEF NetInv, Guarded, Attached, At, Forward, Past
    <3>2. Guarded(p)' /\ Attached(p)' => Installed(p, 12)'
      <4>1. 11 \in 0..11 /\ 12 = 11 + 1
        OBVIOUS
      <4> QED BY <2>3, <3>1, <4>1
    <3>3. ASSUME NEW k \in 0..11, Guarded(p)', At(Worker(p), "rule")', loc'[q].at = k + 1
          PROVE  Installed(p, k)'
      <4>1. loc[q].at = k /\ k \in 1..11
        BY <1>1, <2>1, <3>3, Names DEF At
      <4>2. k - 1 \in 0..11 /\ k = (k - 1) + 1
        BY <4>1
      <4> QED BY <2>3, <3>1, <3>3, <4>1, <4>2
    <3> QED BY <2>1, <3>2, <3>3 DEF RuleInv, At
  <2>7. CleanInv(p)'
    BY <1>1, <2>1, <2>2, Names DEF CleanerInv, CleanInv, Cleaned, At, Back
  <2> QED BY <1>4, <1>5, <2>1, <2>2, <2>4, <2>5, <2>6, <2>7, OnePlan DEF PlanInv
<1> QED BY <1>6, <1>7

\* A check that fails turns the launch back.
LEMMA UnverifiedStep ==
    ASSUME NetworkInv, NEW p \in Plans, loc[Worker(p)].pc \in {"link", "check"},
           Unverified(Worker(p)), UNCHANGED <<nets, pending, fw, running, row>>
    PROVE  NetworkInv'
<1> USE Before
<1>1. FwInv' /\ \A o \in Plans : Same(o)
  BY FwKept
<1>2. RowType'
  BY DEF RowType
<1>3. CASE Turn(Worker(p), "inspect", "cleanup")
  BY <1>1, <1>2, <1>3, TurnBack DEF Forward, Past
<1>4. CASE Turn(Worker(p), "confirm", "rollback")
  BY <1>1, <1>2, <1>4, TurnBack DEF Forward, Past
<1> QED BY <1>3, <1>4 DEF Unverified

\* CheckLink.
LEMMA CheckLinkStep ==
    ASSUME NetworkInv, NEW p \in Plans, CheckLink(Worker(p))
    PROVE  NetworkInv'
<1> DEFINE q == Worker(p)
<1> USE Before
<1>1. loc[q].pc = "link" /\ UNCHANGED <<nets, pending, fw, running, row>>
  BY DEF CheckLink, At
<1>2. CASE Goto(q, "check")
  <2>1. "check" \in Labels /\ 1 \in 1..8
    BY DEF Labels, Forward, Past
  <2>2. /\ loc'[q].pc = "check" /\ loc'[q].at = 1 /\ loc'[q].seen = loc[q].seen
        /\ loc'[q].kind = loc[q].kind /\ (\A x \in Procs \ {q} : loc'[x] = loc[x]) /\ LocType'
    BY <1>2, <2>1, GotoIs
  <2>3. loc'[q].kind \in {"apply", "start"}
    BY <1>1, <2>2 DEF WorkerInv
  <2> QED BY <1>1, <2>1, <2>2, <2>3, GoOn
<1>3. CASE Unverified(q)
  BY <1>1, <1>3, UnverifiedStep
<1> QED BY <1>2, <1>3 DEF CheckLink

\* CheckRule.
LEMMA CheckRuleStep ==
    ASSUME NetworkInv, NEW p \in Plans, CheckRule(Worker(p))
    PROVE  NetworkInv'
<1> DEFINE q == Worker(p)
           c == CheckCommands(p)[loc[q].at]
<1> USE Before
<1>1. /\ loc[q].pc = "check" /\ q[1] = p /\ UNCHANGED <<nets, pending, running, row>>
      /\ loc[q].at \in 1..8 /\ loc[q].kind \in {"apply", "start"} /\ Len(CheckCommands(p)) = 8
  BY CheckCommandsAre DEF CheckRule, At, WorkerInv
<1>2. PICK r \in {"ok", "absent", "fail"} :
         /\ Outcome(c, r)
         /\ IF r # "ok" THEN Unverified(q)
            ELSE IF loc[q].at < 8 THEN Become(q, [loc[q] EXCEPT !.at = @ + 1])
            ELSE IF loc[q].kind = "apply" THEN Turn(q, "link", "start")
            ELSE Goto(q, "run")
  BY <1>1 DEF CheckRule
<1>3. UNCHANGED fw
  <2>1. PlanCommand(p, c) /\ c.op = "C"
    BY <1>1, CommandsOfPlan, CheckCommandsAre DEF PlanCommand
  <2> QED BY <1>2, <2>1, OutcomeStep
<1>4. CASE Unverified(q)
  BY <1>1, <1>3, <1>4, UnverifiedStep
<1>5. CASE loc[q].at < 8 /\ Become(q, [loc[q] EXCEPT !.at = @ + 1])
  <2> DEFINE l == [loc[q] EXCEPT !.at = @ + 1]
  <2>1. l \in Locals /\ l.pc = "check" /\ l.at = loc[q].at + 1 /\ l.seen = loc[q].seen /\ l.kind = loc[q].kind
    BY <1>1 DEF Locals
  <2>2. Become(q, l)
    BY <1>5
  <2> HIDE DEF l
  <2>3. loc'[q] = l /\ (\A x \in Procs \ {q} : loc'[x] = loc[x]) /\ LocType'
    BY <2>1, <2>2, BecomeIs
  <2>4. loc[q].at + 1 \in 1..8
    BY <1>1, <1>5
  <2> QED BY <1>1, <1>3, <2>1, <2>3, <2>4, GoOn
<1>6. CASE Turn(q, "link", "start")
  <2>1. "link" \in Labels /\ "start" \in Kinds
    BY DEF Labels, Forward, Past, Kinds
  <2>2. /\ loc'[q].pc = "link" /\ loc'[q].seen = loc[q].seen /\ loc'[q].kind = "start"
        /\ (\A x \in Procs \ {q} : loc'[x] = loc[x]) /\ LocType'
    BY <1>6, <2>1, TurnIs
  <2> QED BY <1>1, <1>3, <2>2, GoOn
<1>7. CASE loc[q].kind # "apply" /\ Goto(q, "run")
  <2>1. "run" \in Labels
    BY DEF Labels, Forward, Past
  <2>2. /\ loc'[q].pc = "run" /\ loc'[q].seen = loc[q].seen /\ loc'[q].kind = loc[q].kind
        /\ (\A x \in Procs \ {q} : loc'[x] = loc[x]) /\ LocType'
    BY <1>7, <2>1, GotoIs
  <2> QED BY <1>1, <1>3, <1>7, <2>2, GoOn
<1> QED BY <1>2, <1>4, <1>5, <1>6, <1>7

\* Run: a container gets the network whose rules are all installed.
LEMMA RunStep ==
    ASSUME NetworkInv, NEW p \in Plans, Run(Worker(p))
    PROVE  NetworkInv'
<1> DEFINE q == Worker(p)
<1> USE Before
<1>1. loc[q].pc = "run" /\ UNCHANGED <<nets, fw, row>> /\ q[1] = p
  BY DEF Run, At
<1>2. FwInv' /\ \A o \in Plans : Same(o)
  BY <1>1, FwKept
<1>3. CASE Goto(q, "commit") /\ running' = running \cup Named(p) /\ UNCHANGED pending
  <2>1. "commit" \in Labels
    BY DEF Labels, Forward, Past
  <2>2. /\ loc'[q].pc = "commit" /\ loc'[q].seen = loc[q].seen
        /\ loc'[q].kind = loc[q].kind /\ (\A x \in Procs \ {q} : loc'[x] = loc[x]) /\ LocType'
    BY <1>3, <2>1, GotoIs
  <2>3. /\ \A o \in Plans \ {p} : Own(o) \in running' <=> Own(o) \in running
        /\ Own(p) \in running' => Own(p) \in nets
    BY <1>3, Names DEF Named, NetInv
  <2>4. (\A o \in Plans \ {p} : Still(o)) /\ loc'[Cleaner(p)] = loc[Cleaner(p)]
    BY <1>1, <1>2, <1>3, <2>2, <2>3, OthersStill
  <2>5. \A k \in 0..12 : Installed(p, k)' <=> Installed(p, k)
    BY <1>2, SameRules
  <2>6. RowType'
    BY <1>1, <1>3 DEF RowType
  <2>7. WorkerInv(p)' /\ CleanerInv(p)' /\ RowInv(p)'
    BY <1>1, <2>2, <2>4 DEF WorkerInv, CleanerInv, RowInv, At, Forward, Past, Back
  <2>8. NetInv(p)'
    BY <1>1, <1>3, <2>2, <2>3, <2>4 DEF WorkerInv, NetInv, At, Lost, Forward, Past
  <2>9. RuleInv(p)'
    BY <1>1, <1>3, <2>2, <2>4, <2>5 DEF RuleInv, Guarded, Attached, At, Forward, Past
  <2>10. CleanInv(p)'
    BY <1>1, <2>2, <2>4, Names DEF CleanerInv, CleanInv, Cleaned, At, Forward, Past, Back
  <2> QED BY <1>2, <2>2, <2>4, <2>6, <2>7, <2>8, <2>9, <2>10, OnePlan DEF PlanInv
<1>4. CASE /\ Turn(q, "confirm", "rollback") /\ UNCHANGED running
           /\ pending' \in {pending, [pending EXCEPT ![p] = "run"]}
  <2>1. /\ RowType' /\ (\A o \in Plans \ {p} : pending'[o] = pending[o])
        /\ pending'[p] = pending[p] \/ pending'[p] = "run"
    BY <1>1, <1>4 DEF RowType, Pendings
  <2> QED BY <1>1, <1>2, <1>4, <2>1, TurnBack DEF Forward, Past
<1> QED BY <1>1, <1>3, <1>4 DEF Run

\* Commit: a session is ready only while no cleaner has begun.
LEMMA CommitStep ==
    ASSUME NetworkInv, NEW p \in Plans, Commit(Worker(p))
    PROVE  NetworkInv'
<1> DEFINE q == Worker(p)
<1> USE Before
<1>1. loc[q].pc = "commit" /\ UNCHANGED <<nets, pending, fw, running>> /\ q[1] = p
  BY DEF Commit, At
<1>2. FwInv' /\ \A o \in Plans : Same(o)
  BY <1>1, FwKept
<1>3. CASE row[p] = "starting" /\ row' = [row EXCEPT ![p] = "ready"] /\ Goto(q, "up")
  <2>1. "up" \in Labels
    BY DEF Labels, Forward, Past
  <2>2. /\ loc'[q].pc = "up" /\ loc'[q].seen = loc[q].seen
        /\ loc'[q].kind = loc[q].kind /\ (\A x \in Procs \ {q} : loc'[x] = loc[x]) /\ LocType'
    BY <1>3, <2>1, GotoIs
  <2>3. RowType' /\ row'[p] = "ready" /\ \A o \in Plans \ {p} : row'[o] = row[o]
    BY <1>1, <1>3 DEF RowType, RowStates
  <2>4. (\A o \in Plans \ {p} : Still(o)) /\ loc'[Cleaner(p)] = loc[Cleaner(p)]
    BY <1>1, <1>2, <2>2, <2>3, OthersStill
  <2>5. \A k \in 0..12 : Installed(p, k)' <=> Installed(p, k)
    BY <1>2, SameRules
  <2>6. WorkerInv(p)' /\ CleanerInv(p)' /\ RowInv(p)'
    BY <1>1, <1>3, <2>2, <2>3, <2>4 DEF WorkerInv, CleanerInv, RowInv, At, Forward, Past, Back
  <2>7. NetInv(p)'
    BY <1>1, <2>2, <2>4 DEF WorkerInv, NetInv, At, Lost, Forward, Past
  <2>8. RuleInv(p)'
    BY <1>1, <2>2, <2>4, <2>5 DEF RuleInv, Guarded, Attached, At, Forward, Past
  <2>9. CleanInv(p)'
    BY <1>1, <1>3, <2>2, <2>3, <2>4, Names DEF RowInv, CleanInv, Cleaned, At, Forward, Past, Back
  <2> QED BY <1>2, <2>2, <2>3, <2>4, <2>6, <2>7, <2>8, <2>9, OnePlan DEF PlanInv
<1>4. CASE Turn(q, "confirm", "rollback") /\ UNCHANGED row
  <2>1. RowType'
    BY <1>1, <1>4 DEF RowType
  <2> QED BY <1>1, <1>2, <1>4, <2>1, TurnBack DEF Forward, Past
<1> QED BY <1>1, <1>3, <1>4 DEF Commit

-----------------------------------------------------------------------------
(* The removal, step by step *)

\* A process goes on with its removal.
Moves(q) ==
    /\ LocType' /\ \A x \in Procs \ {q} : loc'[x] = loc[x]
    /\ \/ loc'[q].pc \in {"inspect", "rm"} /\ loc'[q].kind = loc[q].kind
       \/ loc'[q].pc = "confirm" /\ loc[q].kind \in {"reconcile", "cleanup"} /\ loc'[q].kind = "rollback"
       \/ /\ loc'[q].pc = "strip" /\ loc[q].kind # "reconcile" /\ loc'[q].kind = loc[q].kind
          /\ loc'[q].at = 1 /\ loc'[q].seen # "unknown"
       \/ /\ loc'[q].pc = "settle" /\ loc[q].kind \notin {"reconcile", "cleanup"}
          /\ loc'[q].kind = loc[q].kind /\ loc'[q].failed

\* GiveUp ends the removal with an error.
LEMMA GiveUpIs ==
    ASSUME LocType, NEW q \in Procs, GiveUp(q)
    PROVE  Moves(q) /\ loc'[q].pc \in {"confirm", "settle"} /\ loc'[q].seen = loc[q].seen
<1>0. loc[q] \in Locals /\ {"confirm", "settle"} \subseteq Labels /\ "rollback" \in Kinds
  BY DEF LocType, Labels, Back, Kinds
<1>1. CASE loc[q].kind \in {"reconcile", "cleanup"}
  <2>1. Turn(q, "confirm", "rollback")
    BY <1>1 DEF GiveUp
  <2> QED BY <1>0, <1>1, <2>1, TurnIs DEF Moves
<1>2. CASE loc[q].kind \notin {"reconcile", "cleanup"}
  <2> DEFINE l == [loc[q] EXCEPT !.pc = "settle", !.failed = TRUE]
  <2>1. l \in Locals /\ l.pc = "settle" /\ l.failed = TRUE /\ l.seen = loc[q].seen /\ l.kind = loc[q].kind
    BY <1>0 DEF Locals
  <2>2. Become(q, l)
    BY <1>2 DEF GiveUp
  <2> HIDE DEF l
  <2>3. loc'[q] = l /\ (\A x \in Procs \ {q} : loc'[x] = loc[x]) /\ LocType'
    BY <2>1, <2>2, BecomeIs
  <2> QED BY <1>2, <2>1, <2>3 DEF Moves
<1> QED BY <1>1, <1>2

\* NetworkGone ends the reconciliation, or goes on to the rules.
LEMMA NetworkGoneIs ==
    ASSUME LocType, NEW q \in Procs, NEW saw \in {"own", "absent"}, NetworkGone(q, saw)
    PROVE  Moves(q) /\ loc'[q].pc \in {"confirm", "strip"} /\ loc'[q].seen = saw
<1>0. loc[q] \in Locals /\ {"confirm", "strip"} \subseteq Labels /\ "rollback" \in Kinds
  BY DEF LocType, Labels, Back, Kinds
<1>1. CASE loc[q].kind = "reconcile"
  <2> DEFINE l == [Begin("confirm", "rollback") EXCEPT !.seen = saw]
  <2>1. l \in Locals /\ l.pc = "confirm" /\ l.seen = saw /\ l.kind = "rollback"
    BY <1>0 DEF Locals, Begin
  <2>2. Become(q, l)
    BY <1>1 DEF NetworkGone
  <2> HIDE DEF l
  <2>3. loc'[q] = l /\ (\A x \in Procs \ {q} : loc'[x] = loc[x]) /\ LocType'
    BY <2>1, <2>2, BecomeIs
  <2> QED BY <1>1, <2>1, <2>3 DEF Moves
<1>2. CASE loc[q].kind # "reconcile"
  <2> DEFINE l == [loc[q] EXCEPT !.pc = "strip", !.at = 1, !.seen = saw]
  <2>1. l \in Locals /\ l.pc = "strip" /\ l.at = 1 /\ l.seen = saw /\ l.kind = loc[q].kind
    BY <1>0 DEF Locals
  <2>2. Become(q, l)
    BY <1>2 DEF NetworkGone
  <2> HIDE DEF l
  <2>3. loc'[q] = l /\ (\A x \in Procs \ {q} : loc'[x] = loc[x]) /\ LocType'
    BY <2>1, <2>2, BecomeIs
  <2> QED BY <1>2, <2>1, <2>3 DEF Moves
<1> QED BY <1>1, <1>2

\* A process that confirms, inspects or removes the network: container and
\* network can only go, the network last, and who has seen it go is right.
LEMMA MoveKeeps ==
    ASSUME NetworkInv, NEW p \in Plans, NEW q \in {Worker(p), Cleaner(p)},
           loc[q].pc \in {"confirm", "inspect", "rm"}, Moves(q), UNCHANGED <<pending, fw, row>>,
           \A o \in Plans \ {p} : /\ Own(o) \in nets' <=> Own(o) \in nets
                                  /\ Own(o) \in running' <=> Own(o) \in running,
           Own(p) \in nets' => Own(p) \in nets,
           Own(p) \in running' => Own(p) \in running /\ Own(p) \in nets',
           loc'[q].pc = "rm" => Own(p) \in nets,
           loc'[q].pc = "strip" => Own(p) \notin nets',
           loc'[q].seen # loc[q].seen => /\ Own(p) \notin nets'
                                         /\ loc'[q].seen = "own" => loc[q].pc = "rm"
    PROVE  NetworkInv'
<1> USE Before
<1>1. FwInv' /\ (\A o \in Plans : Same(o)) /\ RowType' /\ Chains' = Chains
  BY FwKept DEF RowType, Chains
<1>2. /\ \A o \in Plans \ {p} : Still(o)
      /\ q = Worker(p) => loc'[Cleaner(p)] = loc[Cleaner(p)]
      /\ q = Cleaner(p) => loc'[Worker(p)] = loc[Worker(p)]
  BY <1>1, OthersStill DEF Moves
<1>3. \A k \in 0..12 : Installed(p, k)' <=> Installed(p, k)
  BY <1>1, SameRules
<1>4. CASE q = Worker(p)
  <2>1. WorkerInv(p)' /\ CleanerInv(p)' /\ RowInv(p)'
    BY <1>2, <1>4 DEF Moves, WorkerInv, CleanerInv, RowInv, At, Forward, Past, Back
  <2>2. NetInv(p)'
    BY <1>2, <1>4 DEF Moves, NetInv, At, Lost, Forward, Past
  <2>3. RuleInv(p)'
    BY <1>2, <1>3, <1>4 DEF Moves, RuleInv, Guarded, Attached, At, Past
  <2>4. CleanInv(p)'
    BY <1>1, <1>2, <1>4, Names DEF Moves, CleanerInv, CleanInv, Cleaned, At, Lost, Gone, Back
  <2> QED BY <1>1, <1>2, <2>1, <2>2, <2>3, <2>4, OnePlan DEF PlanInv, Moves
<1>5. CASE q = Cleaner(p)
  <2>1. WorkerInv(p)' /\ CleanerInv(p)' /\ RowInv(p)'
    BY <1>2, <1>5 DEF Moves, WorkerInv, CleanerInv, RowInv, At, Back
  <2>2. NetInv(p)'
    BY <1>2, <1>5 DEF Moves, NetInv, CleanerInv, At, Lost, Back
  <2>3. RuleInv(p)'
    BY <1>2, <1>3, <1>5 DEF Moves, RuleInv, Guarded, Attached, At
  <2>4. CleanInv(p)'
    BY <1>1, <1>2, <1>5, Names DEF Moves, CleanInv, Cleaned, At, Lost, Gone
  <2> QED BY <1>1, <1>2, <2>1, <2>2, <2>3, <2>4, OnePlan DEF PlanInv, Moves
<1> QED BY <1>4, <1>5

\* Confirm.
LEMMA ConfirmStep ==
    ASSUME NetworkInv, NEW p \in Plans, NEW q \in {Worker(p), Cleaner(p)}, Confirm(q)
    PROVE  NetworkInv'
<1> USE Before
<1>1. /\ loc[q].pc = "confirm" /\ q[1] = p /\ q \in Procs /\ loc[q] \in Locals
      /\ UNCHANGED <<nets, pending, fw, row>>
  BY DEF Confirm, At
<1>2. loc[q].kind \notin {"reconcile", "cleanup"}
  BY <1>1 DEF WorkerInv, CleanerInv
<1>3. CASE running' = running \ {Own(p), Foreign(p)} /\ Goto(q, "inspect")
  <2>1. "inspect" \in Labels
    BY DEF Labels, Back
  <2>2. Moves(q) /\ loc'[q].pc = "inspect" /\ loc'[q].seen = loc[q].seen
    BY <1>1, <1>3, <2>1, GotoIs DEF Moves
  <2>3. /\ \A o \in Plans \ {p} : Own(o) \in running' <=> Own(o) \in running
        /\ Own(p) \notin running'
    BY <1>3, Names
  <2> QED BY <1>1, <2>2, <2>3, MoveKeeps
<1>4. CASE UNCHANGED running /\ Become(q, [loc[q] EXCEPT !.pc = "settle", !.failed = TRUE])
  <2>1. GiveUp(q)
    BY <1>2, <1>4 DEF GiveUp
  <2>2. Moves(q) /\ loc'[q].pc \in {"confirm", "settle"} /\ loc'[q].seen = loc[q].seen
    BY <1>1, <2>1, GiveUpIs
  <2>3. Own(p) \in running => Own(p) \in nets
    BY DEF NetInv
  <2> QED BY <1>1, <1>4, <2>2, <2>3, MoveKeeps
<1> QED BY <1>1, <1>3, <1>4 DEF Confirm

\* Inspect.
LEMMA InspectStep ==
    ASSUME NetworkInv, NEW p \in Plans, NEW q \in {Worker(p), Cleaner(p)}, Inspect(q)
    PROVE  NetworkInv'
<1> USE Before
<1>1. /\ loc[q].pc = "inspect" /\ q[1] = p /\ q \in Procs /\ UNCHANGED <<nets, pending, fw, running, row>>
      /\ (Own(p) \in running => Own(p) \in nets)
  BY DEF Inspect, At, NetInv
<1>2. CASE Named(p) = {} /\ NetworkGone(q, "absent")
  <2>1. Moves(q) /\ loc'[q].pc \in {"confirm", "strip"} /\ loc'[q].seen = "absent"
    BY <1>1, <1>2, NetworkGoneIs
  <2>2. Own(p) \notin nets
    BY <1>2 DEF Named
  <2> QED BY <1>1, <2>1, <2>2, MoveKeeps
<1>3. CASE Own(p) \in nets /\ Goto(q, "rm")
  <2>1. "rm" \in Labels
    BY DEF Labels, Back
  <2>2. Moves(q) /\ loc'[q].pc = "rm" /\ loc'[q].seen = loc[q].seen
    BY <1>1, <1>3, <2>1, GotoIs DEF Moves
  <2> QED BY <1>1, <1>3, <2>2, MoveKeeps
<1>4. CASE GiveUp(q)
  <2>1. Moves(q) /\ loc'[q].pc \in {"confirm", "settle"} /\ loc'[q].seen = loc[q].seen
    BY <1>1, <1>4, GiveUpIs
  <2> QED BY <1>1, <2>1, MoveKeeps
<1> QED BY <1>1, <1>2, <1>3, <1>4 DEF Inspect

\* RemoveNetwork: never under a container.
LEMMA RemoveNetworkStep ==
    ASSUME NetworkInv, NEW p \in Plans, NEW q \in {Worker(p), Cleaner(p)}, RemoveNetwork(q)
    PROVE  NetworkInv'
<1> USE Before
<1>1. /\ loc[q].pc = "rm" /\ q[1] = p /\ q \in Procs /\ UNCHANGED <<pending, fw, running, row>>
      /\ (Own(p) \in running => Own(p) \in nets)
  BY DEF RemoveNetwork, At, NetInv
<1>2. CASE Own(p) \notin running /\ nets' = nets \ {Own(p)} /\ NetworkGone(q, "own")
  <2>1. Moves(q) /\ loc'[q].pc \in {"confirm", "strip"} /\ loc'[q].seen = "own"
    BY <1>1, <1>2, NetworkGoneIs
  <2>2. Own(p) \notin nets' /\ \A o \in Plans \ {p} : Own(o) \in nets' <=> Own(o) \in nets
    BY <1>2, Names
  <2> QED BY <1>1, <1>2, <2>1, <2>2, MoveKeeps
<1>3. CASE GiveUp(q) /\ (nets' = nets \/ (Own(p) \notin running /\ nets' = nets \ {Own(p)}))
  <2>1. Moves(q) /\ loc'[q].pc \in {"confirm", "settle"} /\ loc'[q].seen = loc[q].seen
    BY <1>1, <1>3, GiveUpIs
  <2>2. /\ \A o \in Plans \ {p} : Own(o) \in nets' <=> Own(o) \in nets
        /\ Own(p) \in nets' => Own(p) \in nets
        /\ Own(p) \in running => Own(p) \in nets'
    BY <1>1, <1>3, Names
  <2> QED BY <1>1, <2>1, <2>2, MoveKeeps
<1> QED BY <1>1, <1>2, <1>3 DEF RemoveNetwork

\* Strip: rules go only when the network is gone for good or the cleaner looked
\* for it in vain; a chain whose deletion did not fail is gone.
LEMMA StripStep ==
    ASSUME NetworkInv, NEW p \in Plans, NEW q \in {Worker(p), Cleaner(p)}, Strip(q)
    PROVE  NetworkInv'
<1> USE Before
<1> DEFINE c == RemoveCommands(p)[loc[q].at]
<1>1. /\ loc[q].pc = "strip" /\ q[1] = p /\ q \in Procs /\ loc[q] \in Locals
      /\ UNCHANGED <<nets, pending, running, row>>
      /\ loc[q].at \in 1..6 /\ loc[q].seen # "unknown" /\ Len(RemoveCommands(p)) = 6
  BY RemoveCommandsAre DEF Strip, At, WorkerInv, CleanerInv
<1>2. PICK r \in {"ok", "absent", "fail"} :
         /\ Outcome(c, r)
         /\ LET bad == loc[q].failed \/ r = "fail" IN
            IF loc[q].at < 6 THEN Become(q, [loc[q] EXCEPT !.at = @ + 1, !.failed = bad])
            ELSE IF loc[q].kind = "cleanup" THEN Turn(q, "confirm", "rollback")
            ELSE Become(q, [loc[q] EXCEPT !.pc = "settle", !.failed = bad])
  BY <1>1 DEF Strip
<1>3. /\ FwInv' /\ (\A o \in Plans \ {p} : Same(o)) /\ Shrinks(p) /\ RowType'
      /\ c.op = "X" /\ r # "fail" => c.chain \notin DOMAIN fw'
  <2>1. Removal(p, c) /\ PlanCommand(p, c)
    BY <1>1, CommandsOfPlan DEF PlanCommand
  <2>2. RowType'
    BY <1>1 DEF RowType
  <2> QED BY <1>2, <2>1, <2>2, OutcomeStep
<1>4. /\ (\A x \in Procs \ {q} : loc'[x] = loc[x]) /\ LocType' /\ loc'[q].seen = loc[q].seen
      /\ \/ /\ loc[q].at < 6 /\ loc'[q].pc = "strip" /\ loc'[q].at = loc[q].at + 1
            /\ loc'[q].kind = loc[q].kind /\ (~loc'[q].failed => ~loc[q].failed /\ r # "fail")
         \/ loc'[q].pc = "confirm" /\ loc[q].kind = "cleanup" /\ loc'[q].kind = "rollback"
         \/ /\ loc[q].at = 6 /\ loc[q].kind # "cleanup" /\ loc'[q].pc = "settle"
            /\ loc'[q].kind = loc[q].kind /\ (~loc'[q].failed => ~loc[q].failed /\ r # "fail")
  <2> DEFINE bad == loc[q].failed \/ r = "fail"
  <2>0. bad \in BOOLEAN /\ (~bad => ~loc[q].failed /\ r # "fail")
    BY <1>1 DEF Locals
  <2>1. CASE loc[q].at < 6
    <3> DEFINE l == [loc[q] EXCEPT !.at = @ + 1, !.failed = bad]
    <3>1. Become(q, l)
      BY <1>2, <2>1
    <3> HIDE DEF bad
    <3>2. /\ l \in Locals /\ l.pc = "strip" /\ l.at = loc[q].at + 1 /\ l.kind = loc[q].kind
          /\ l.seen = loc[q].seen /\ l.failed = bad
      <4>1. loc[q].at + 1 \in Nat /\ bad \in BOOLEAN
        BY <1>1, <2>0
      <4>2. \A n \in Nat : LET x == [loc[q] EXCEPT !.at = n, !.failed = bad]
                           IN  /\ x \in Locals /\ x.pc = "strip" /\ x.at = n /\ x.kind = loc[q].kind
                               /\ x.seen = loc[q].seen /\ x.failed = bad
        BY <1>1, <4>1 DEF Locals
      <4> QED BY <4>1, <4>2
    <3> HIDE DEF l
    <3>3. loc'[q] = l /\ (\A x \in Procs \ {q} : loc'[x] = loc[x]) /\ LocType'
      BY <1>1, <3>1, <3>2, BecomeIs
    <3> QED BY <2>0, <2>1, <3>2, <3>3
  <2>2. CASE loc[q].at = 6 /\ loc[q].kind = "cleanup"
    <3>1. Turn(q, "confirm", "rollback") /\ "confirm" \in Labels /\ "rollback" \in Kinds
      BY <1>2, <2>2 DEF Labels, Back, Kinds
    <3> QED BY <1>1, <2>2, <3>1, TurnIs
  <2>3. CASE loc[q].at = 6 /\ loc[q].kind # "cleanup"
    <3> DEFINE l == [loc[q] EXCEPT !.pc = "settle", !.failed = bad]
    <3>1. Become(q, l)
      BY <1>2, <2>3
    <3> HIDE DEF bad
    <3>2. /\ l \in Locals /\ l.pc = "settle" /\ l.kind = loc[q].kind
          /\ l.seen = loc[q].seen /\ l.failed = bad
      BY <1>1, <2>0 DEF Locals, Labels, Back
    <3> HIDE DEF l
    <3>3. loc'[q] = l /\ (\A x \in Procs \ {q} : loc'[x] = loc[x]) /\ LocType'
      BY <1>1, <3>1, <3>2, BecomeIs
    <3> QED BY <2>0, <2>3, <3>2, <3>3
  <2> QED BY <1>1, <2>1, <2>2, <2>3
<1>5. /\ \A o \in Plans \ {p} : Still(o)
      /\ q = Worker(p) => loc'[Cleaner(p)] = loc[Cleaner(p)]
      /\ q = Cleaner(p) => loc'[Worker(p)] = loc[Worker(p)]
  BY <1>1, <1>3, <1>4, OthersStill
<1>6. /\ Egress(p) \in Chains' => Egress(p) \in Chains
      /\ Input(p) \in Chains' => Input(p) \in Chains
      /\ loc[q].at = 4 /\ r # "fail" => Egress(p) \notin Chains'
      /\ loc[q].at = 6 /\ r # "fail" => Input(p) \notin Chains'
  <2>1. /\ loc[q].at = 4 => c.op = "X" /\ c.chain = Egress(p)
        /\ loc[q].at = 6 => c.op = "X" /\ c.chain = Input(p)
    <3>1. /\ loc[q].at = 4 => c = Command("X", Egress(p), NoRule)
          /\ loc[q].at = 6 => c = Command("X", Input(p), NoRule)
      BY RemoveCommandsAre
    <3> HIDE DEF c
    <3> QED BY <3>1 DEF Command
  <2> HIDE DEF c
  <2> QED BY <1>3, <2>1 DEF Shrinks, Chains
<1>7. Installed(p, 0) => Installed(p, 0)'
  BY <1>6 DEF Installed
<1>8. Cleaned(q) => Cleaned(q)'
  <2> SUFFICES ASSUME Cleaned(q) PROVE Cleaned(q)'
    OBVIOUS
  <2>1. Lost(p) /\ (Lost(p)' <=> Lost(p))
    BY <1>1 DEF Cleaned, At, Lost
  <2>2. ~loc[q].failed /\ loc[q].at > 4 => Egress(p) \notin Chains
    BY <1>1 DEF Cleaned, At
  <2>3. loc'[q].pc = "strip" /\ ~loc'[q].failed /\ loc'[q].at > 4 => Egress(p) \notin Chains'
    <3>1. loc'[q].pc = "strip" /\ ~loc'[q].failed /\ loc'[q].at > 4 =>
             r # "fail" /\ ~loc[q].failed /\ (loc[q].at = 4 \/ loc[q].at > 4)
      BY <1>1, <1>4
    <3> QED BY <1>6, <2>2, <3>1
  <2>4. loc'[q].pc = "settle" /\ ~loc'[q].failed => Gone(p)'
    <3>1. loc'[q].pc = "settle" /\ ~loc'[q].failed => r # "fail" /\ ~loc[q].failed /\ loc[q].at = 6
      BY <1>4
    <3>2. loc[q].at = 6 => loc[q].at > 4
      OBVIOUS
    <3> QED BY <1>6, <2>1, <2>2, <3>1, <3>2 DEF Gone
  <2> QED BY <1>1, <1>4, <2>1, <2>3, <2>4 DEF Cleaned, At
<1>9. Gone(p) => Gone(p)'
  BY <1>1, <1>6 DEF Gone, Lost
<1>10. CASE q = Worker(p)
  <2>1. WorkerInv(p)' /\ CleanerInv(p)' /\ RowInv(p)'
    <3>1. loc'[q].pc = "strip" => loc'[q].at \in 1..6
      BY <1>1, <1>4
    <3> QED BY <1>1, <1>4, <1>5, <1>10, <3>1 DEF WorkerInv, CleanerInv, RowInv, At, Forward, Past, Back
  <2>2. NetInv(p)'
    BY <1>1, <1>4, <1>5, <1>10 DEF NetInv, At, Lost, Forward, Past
  <2>3. RuleInv(p)'
    BY <1>1, <1>4, <1>5, <1>10 DEF NetInv, Lost, RuleInv, Guarded, Attached, At, Past
  <2>4. Cleaned(q)
    BY <1>10 DEF CleanInv
  <2>5. CleanInv(p)'
    BY <1>1, <1>4, <1>5, <1>8, <1>9, <1>10, <2>4, Names DEF CleanerInv, CleanInv, Cleaned, At, Back
  <2> QED BY <1>3, <1>4, <1>5, <2>1, <2>2, <2>3, <2>5, OnePlan DEF PlanInv
<1>11. CASE q = Cleaner(p)
  <2>1. WorkerInv(p)' /\ CleanerInv(p)' /\ RowInv(p)'
    <3>1. loc'[q].pc = "strip" => loc'[q].at \in 1..6
      BY <1>1, <1>4
    <3> QED BY <1>1, <1>4, <1>5, <1>11, <3>1 DEF WorkerInv, CleanerInv, RowInv, At, Back
  <2>2. NetInv(p)'
    BY <1>1, <1>4, <1>5, <1>11 DEF NetInv, At, Lost
  <2>3. RuleInv(p)'
    BY <1>1, <1>4, <1>5, <1>7, <1>11
       DEF NetInv, Lost, RuleInv, Guarded, Attached, At, Forward, Past, Locals
  <2>4. Cleaned(Worker(p))'
    BY <1>1, <1>5, <1>6, <1>9, <1>11 DEF CleanInv, Cleaned, At, Lost
  <2>5. CleanInv(p)'
    BY <1>1, <1>4, <1>5, <1>8, <1>9, <1>11, <2>4 DEF CleanerInv, CleanInv, At, Back
  <2> QED BY <1>3, <1>4, <1>5, <2>1, <2>2, <2>3, <2>5, OnePlan DEF PlanInv
<1> QED BY <1>10, <1>11

\* RollbackRead: only a worker rolls back.
LEMMA RollbackReadStep ==
    ASSUME NetworkInv, NEW p \in Plans, NEW q \in {Worker(p), Cleaner(p)}, RollbackRead(q)
    PROVE  NetworkInv'
<1> USE Before
<1>1. /\ loc[q].pc = "settle" /\ loc[q].kind = "rollback" /\ q[1] = p /\ q \in Procs
      /\ loc[q] \in Locals /\ UNCHANGED <<nets, pending, fw, running, row>>
  BY DEF RollbackRead, At
<1>2. q = Worker(p)
  BY <1>1 DEF CleanerInv
<1>3. FwInv' /\ (\A o \in Plans : Same(o)) /\ RowType' /\ Chains' = Chains
  BY <1>1, FwKept DEF RowType, Chains
<1> DEFINE l == [loc[q] EXCEPT !.pc = "record", !.read = row[p]]
<1>4. /\ l \in Locals /\ l.pc = "record" /\ l.kind = "rollback" /\ l.seen = loc[q].seen
      /\ l.failed = loc[q].failed
  BY <1>1 DEF Locals, Labels
<1>5. Become(q, l)
  BY <1>1 DEF RollbackRead
<1> HIDE DEF l
<1>6. loc'[q] = l /\ (\A x \in Procs \ {q} : loc'[x] = loc[x]) /\ LocType'
  BY <1>1, <1>4, <1>5, BecomeIs
<1>7. (\A o \in Plans \ {p} : Still(o)) /\ loc'[Cleaner(p)] = loc[Cleaner(p)]
  BY <1>1, <1>2, <1>3, <1>6, OthersStill
<1>8. \A k \in 0..12 : Installed(p, k)' <=> Installed(p, k)
  BY <1>3, SameRules
<1>9. WorkerInv(p)' /\ CleanerInv(p)' /\ RowInv(p)'
  BY <1>1, <1>2, <1>4, <1>6, <1>7 DEF WorkerInv, CleanerInv, RowInv, At, Forward, Past, Back
<1>10. NetInv(p)'
  BY <1>1, <1>2, <1>4, <1>6, <1>7 DEF NetInv, At, Lost, Forward, Past
<1>11. RuleInv(p)'
  BY <1>1, <1>2, <1>4, <1>6, <1>7, <1>8 DEF RuleInv, Guarded, Attached, At, Past
<1>12. CleanInv(p)'
  BY <1>1, <1>2, <1>3, <1>4, <1>6, <1>7, Names DEF CleanerInv, CleanInv, Cleaned, At, Lost, Gone, Back
<1> QED BY <1>3, <1>6, <1>7, <1>9, <1>10, <1>11, <1>12, OnePlan DEF PlanInv

\* Settle of the worker: a row becomes failed only when all is gone.
LEMMA WorkerSettleStep ==
    ASSUME NetworkInv, NEW p \in Plans, Settle(Worker(p))
    PROVE  NetworkInv'
<1> DEFINE q == Worker(p)
<1> USE Before
<1>1. /\ q[1] = p /\ q[2] = "worker" /\ UNCHANGED <<nets, pending, fw, running>>
      /\ loc[q].pc = "record" /\ loc[q].kind = "rollback" /\ Goto(q, "done")
  BY Names DEF Settle, At, WorkerInv
<1>2. /\ RowType' /\ (\A o \in Plans \ {p} : row'[o] = row[o])
      /\ \/ row'[p] = row[p]
         \/ row'[p] = "stopping"
         \/ row'[p] = "failed" /\ ~loc[q].failed
  <2>1. \/ row' = row
        \/ row' = [row EXCEPT ![p] = IF loc[q].failed THEN "stopping" ELSE "failed"]
    BY <1>1 DEF Settle
  <2> QED BY <1>1, <2>1 DEF RowType, RowStates
<1>3. FwInv' /\ (\A o \in Plans : Same(o)) /\ Chains' = Chains
  BY <1>1, FwKept DEF Chains
<1>4. "done" \in Labels
  BY DEF Labels
<1>5. /\ loc'[q].pc = "done" /\ loc'[q].seen = loc[q].seen /\ loc'[q].kind = "rollback"
      /\ loc'[q].failed = loc[q].failed /\ (\A x \in Procs \ {q} : loc'[x] = loc[x]) /\ LocType'
  BY <1>1, <1>4, GotoIs
<1>6. (\A o \in Plans \ {p} : Still(o)) /\ loc'[Cleaner(p)] = loc[Cleaner(p)]
  BY <1>1, <1>2, <1>3, <1>5, OthersStill
<1>7. \A k \in 0..12 : Installed(p, k)' <=> Installed(p, k)
  BY <1>3, SameRules
<1>8. WorkerInv(p)' /\ CleanerInv(p)' /\ RowInv(p)'
  BY <1>1, <1>2, <1>5, <1>6 DEF WorkerInv, CleanerInv, RowInv, At, Forward, Past, Back
<1>9. NetInv(p)'
  BY <1>1, <1>5, <1>6 DEF NetInv, At, Lost, Forward, Past
<1>10. RuleInv(p)'
  BY <1>1, <1>5, <1>6, <1>7 DEF RuleInv, Guarded, Attached, At, Past
<1>11. CleanInv(p)'
  BY <1>1, <1>2, <1>3, <1>5, <1>6, Names DEF CleanerInv, CleanInv, Cleaned, At, Lost, Gone, Back
<1> QED BY <1>2, <1>3, <1>5, <1>6, <1>8, <1>9, <1>10, <1>11, OnePlan DEF PlanInv

\* Settle of the cleaner: of a stop, or of a retirement after the worker died.
LEMMA CleanerSettleStep ==
    ASSUME NetworkInv, NEW p \in Plans, Settle(Cleaner(p))
    PROVE  NetworkInv'
<1> DEFINE q == Cleaner(p)
<1> USE Before
<1>1. /\ q[1] = p /\ q[2] = "cleaner" /\ UNCHANGED <<nets, pending, fw, running>>
      /\ loc[q].pc = "settle" /\ loc[q].kind \in {"stop", "retire"} /\ Goto(q, "idle")
  <2>1. loc[q].pc \in {"record", "settle"} /\ q[2] = "cleaner"
    BY Names DEF Settle, At
  <2>2. loc[q].pc = "settle" /\ loc[q].kind \in {"stop", "retire"}
    BY <2>1 DEF CleanerInv, Back
  <2> QED BY <2>1, <2>2 DEF Settle
<1>2. /\ RowType' /\ (\A o \in Plans \ {p} : row'[o] = row[o])
      /\ \/ row'[p] = row[p]
         \/ row'[p] = "stopping"
         \/ row'[p] = "stopped" /\ ~loc[q].failed
         \/ row'[p] = "failed" /\ ~loc[q].failed /\ loc[q].kind = "retire"
  <2>1. \/ row' = row
        \/ row' = [row EXCEPT ![p] = IF loc[q].failed THEN "stopping"
                                     ELSE IF loc[q].kind = "stop" THEN "stopped" ELSE "failed"]
    BY <1>1 DEF Settle
  <2> QED BY <1>1, <2>1 DEF RowType, RowStates
<1>3. FwInv' /\ (\A o \in Plans : Same(o)) /\ Chains' = Chains
  BY <1>1, FwKept DEF Chains
<1>4. "idle" \in Labels
  BY DEF Labels
<1>5. /\ loc'[q].pc = "idle" /\ loc'[q].seen = loc[q].seen /\ loc'[q].kind = loc[q].kind
      /\ (\A x \in Procs \ {q} : loc'[x] = loc[x]) /\ LocType'
  BY <1>1, <1>4, GotoIs
<1>6. (\A o \in Plans \ {p} : Still(o)) /\ loc'[Worker(p)] = loc[Worker(p)]
  BY <1>1, <1>2, <1>3, <1>5, OthersStill
<1>7. \A k \in 0..12 : Installed(p, k)' <=> Installed(p, k)
  BY <1>3, SameRules
<1>8. WorkerInv(p)' /\ CleanerInv(p)' /\ RowInv(p)'
  BY <1>1, <1>2, <1>5, <1>6 DEF WorkerInv, CleanerInv, RowInv, At, Back
<1>9. NetInv(p)'
  BY <1>1, <1>5, <1>6 DEF NetInv, At, Lost
<1>10. RuleInv(p)'
  BY <1>1, <1>5, <1>6, <1>7 DEF RuleInv, Guarded, Attached, At
<1>11. CleanInv(p)'
  BY <1>1, <1>2, <1>3, <1>5, <1>6, Names DEF CleanerInv, CleanInv, Cleaned, At, Lost, Gone
<1> QED BY <1>2, <1>3, <1>5, <1>6, <1>8, <1>9, <1>10, <1>11, OnePlan DEF PlanInv

-----------------------------------------------------------------------------
(* The environment *)

\* LateCreate: the network comes back, without rules, when its worker has long
\* turned back.
LEMMA LateCreateStep ==
    ASSUME NetworkInv, NEW p \in Plans, LateCreate(p)
    PROVE  NetworkInv'
<1> USE Before
<1>1. /\ pending[p] = "create" /\ UNCHANGED <<fw, running, row, loc>>
      /\ pending' = [pending EXCEPT ![p] = "over"]
      /\ nets' = nets \/ nets' = nets \cup {Own(p)}
  BY DEF LateCreate
<1>2. FwInv' /\ (\A o \in Plans : Same(o)) /\ Chains' = Chains /\ LocType'
  BY <1>1, FwKept DEF Chains, LocType
<1>3. RowType' /\ pending'[p] = "over" /\ \A o \in Plans \ {p} : pending'[o] = pending[o]
  BY <1>1 DEF RowType, Pendings
<1>4. \A o \in Plans \ {p} : Still(o)
  BY <1>1, <1>2, <1>3, Names DEF Still
<1>5. \A k \in 0..12 : Installed(p, k)' <=> Installed(p, k)
  BY <1>2, SameRules
<1>6. WorkerInv(p)' /\ CleanerInv(p)' /\ RowInv(p)'
  BY <1>1 DEF WorkerInv, CleanerInv, NetInv, RowInv, At, Forward
<1>7. NetInv(p)'
  BY <1>1, <1>3 DEF NetInv, At, Lost, Forward
<1>8. RuleInv(p)'
  BY <1>1, <1>3, <1>5 DEF NetInv, RuleInv, Guarded, Attached, At, Forward, Past
<1>9. CleanInv(p)'
  BY <1>1, <1>2, <1>3, Names DEF CleanInv, Cleaned, At, Lost, Gone
<1> QED BY <1>2, <1>3, <1>4, <1>6, <1>7, <1>8, <1>9, OnePlan DEF PlanInv

\* LateRun: the container starts on a network whose rules are all installed.
LEMMA LateRunStep ==
    ASSUME NetworkInv, NEW p \in Plans, LateRun(p)
    PROVE  NetworkInv'
<1> USE Before
<1>1. /\ pending[p] = "run" /\ UNCHANGED <<nets, fw, row, loc>>
      /\ pending' = [pending EXCEPT ![p] = "none"] /\ running' = running \cup Named(p)
  BY DEF LateRun
<1>2. FwInv' /\ (\A o \in Plans : Same(o)) /\ Chains' = Chains /\ LocType'
  BY <1>1, FwKept DEF Chains, LocType
<1>3. RowType' /\ pending'[p] = "none" /\ \A o \in Plans \ {p} : pending'[o] = pending[o]
  BY <1>1 DEF RowType, Pendings
<1>4. /\ \A o \in Plans \ {p} : Own(o) \in running' <=> Own(o) \in running
      /\ Own(p) \in running' => Own(p) \in nets
  BY <1>1, Names DEF Named, NetInv
<1>5. \A o \in Plans \ {p} : Still(o)
  BY <1>1, <1>2, <1>3, <1>4 DEF Still
<1>6. \A k \in 0..12 : Installed(p, k)' <=> Installed(p, k)
  BY <1>2, SameRules
<1>7. WorkerInv(p)' /\ CleanerInv(p)' /\ RowInv(p)'
  BY <1>1 DEF WorkerInv, CleanerInv, RowInv, At
<1>8. NetInv(p)'
  BY <1>1, <1>3, <1>4 DEF NetInv, At, Lost
<1>9. RuleInv(p)'
  BY <1>1, <1>3, <1>6 DEF RuleInv, Guarded, Attached, At
<1>10. CleanInv(p)'
  BY <1>1, <1>2, <1>3, Names DEF CleanInv, Cleaned, At, Lost, Gone
<1> QED BY <1>2, <1>3, <1>5, <1>7, <1>8, <1>9, <1>10, OnePlan DEF PlanInv

\* A cleaner begins: with a stop, which takes the row away from the worker, or
\* with the retirement of a session whose worker has died.
LEMMA CleanerBegins ==
    ASSUME NetworkInv, NEW p \in Plans, NEW kind, Turn(Cleaner(p), "confirm", kind),
           At(Cleaner(p), "idle"), UNCHANGED <<nets, pending, fw, running>>, RowType',
           \A o \in Plans \ {p} : row'[o] = row[o],
           \/ kind = "stop" /\ row'[p] = "stopping"
           \/ kind = "retire" /\ row'[p] = row[p] /\ row[p] = "starting" /\ At(Worker(p), "dead")
    PROVE  NetworkInv'
<1> DEFINE q == Cleaner(p)
<1> USE Before
<1>1. FwInv' /\ (\A o \in Plans : Same(o)) /\ Chains' = Chains
  BY FwKept DEF Chains
<1>2. "confirm" \in Labels /\ kind \in Kinds
  BY DEF Labels, Back, Kinds
<1>3. /\ loc'[q].pc = "confirm" /\ loc'[q].seen = loc[q].seen /\ loc'[q].kind = kind
      /\ (\A x \in Procs \ {q} : loc'[x] = loc[x]) /\ LocType'
  BY <1>2, TurnIs
<1>4. (\A o \in Plans \ {p} : Still(o)) /\ loc'[Worker(p)] = loc[Worker(p)]
  BY <1>1, <1>3, OthersStill
<1>5. \A k \in 0..12 : Installed(p, k)' <=> Installed(p, k)
  BY <1>1, SameRules
<1>6. WorkerInv(p)' /\ CleanerInv(p)' /\ RowInv(p)'
  BY <1>3, <1>4 DEF WorkerInv, CleanerInv, RowInv, At, Back
<1>7. NetInv(p)'
  BY <1>3, <1>4 DEF NetInv, At, Lost
<1>8. RuleInv(p)'
  BY <1>3, <1>4, <1>5 DEF RuleInv, Guarded, Attached, At
<1>9. CleanInv(p)'
  BY <1>1, <1>3, <1>4, Names DEF CleanInv, Cleaned, At, Lost, Gone
<1> QED BY <1>1, <1>3, <1>4, <1>6, <1>7, <1>8, <1>9, OnePlan DEF PlanInv

\* Stop and Retire.
LEMMA StopStep ==
    ASSUME NetworkInv, NEW p \in Plans, Stop(p) \/ Retire(p)
    PROVE  NetworkInv'
<1> USE Before
<1>1. CASE Stop(p)
  <2>1. row' = [row EXCEPT ![p] = "stopping"] /\ UNCHANGED pending
    BY <1>1 DEF Stop
  <2>2. RowType' /\ row'[p] = "stopping" /\ \A o \in Plans \ {p} : row'[o] = row[o]
    BY <2>1 DEF RowType, RowStates
  <2> QED BY <1>1, <2>2, CleanerBegins DEF Stop
<1>2. CASE Retire(p)
  <2>1. UNCHANGED <<pending, row>>
    BY <1>2 DEF Retire
  <2>2. RowType'
    BY <2>1 DEF RowType
  <2> QED BY <1>2, <2>1, <2>2, CleanerBegins DEF Retire
<1> QED BY <1>1, <1>2

\* TakeName, and a step that changes nothing, concern no plan.
LEMMA TakeNameStep ==
    ASSUME NetworkInv, UNCHANGED <<pending, fw, running, row, loc>>,
           nets' = nets \/ \E p \in Plans : nets' = nets \cup {Foreign(p)}
    PROVE  NetworkInv'
<1>1. LocType /\ RowType /\ FwInv /\ \A o \in Plans : PlanInv(o)
  BY DEF NetworkInv
<1>2. FwInv' /\ \A o \in Plans : Same(o)
  BY <1>1, FwKept
<1>3. \A o \in Plans : Own(o) \in nets' <=> Own(o) \in nets
  BY Names
<1>4. \A o \in Plans : PlanInv(o)'
  BY <1>1, <1>2, <1>3, StillKeeps DEF Still
<1>5. LocType' /\ RowType'
  BY <1>1 DEF LocType, RowType
<1> QED BY <1>2, <1>4, <1>5 DEF NetworkInv

\* Crash: every process ends where it is; a command it was waiting for may
\* still be carried out.
LEMMA CrashStep ==
    ASSUME NetworkInv, Crash
    PROVE  NetworkInv'
<1>1. LocType /\ RowType /\ FwInv /\ UNCHANGED <<nets, fw, running, row>>
  BY DEF NetworkInv, Crash
<1>2. FwInv' /\ (\A o \in Plans : Same(o)) /\ Chains' = Chains
  BY <1>1, FwKept DEF Chains
<1>3. RowType'
  BY <1>1 DEF RowType, Crash, Pendings
<1>4. ASSUME NEW q \in Procs
      PROVE  /\ loc'[q] \in Locals /\ loc'[q].seen = loc[q].seen /\ loc'[q].kind = loc[q].kind
             /\ q[2] = "worker" => loc'[q].pc = "dead"
             /\ q[2] # "worker" => loc'[q].pc = "idle"
  <2>1. loc[q] \in Locals
    BY <1>1 DEF LocType
  <2>2. loc'[q] = IF q[2] = "worker" THEN [loc[q] EXCEPT !.pc = "dead"] ELSE [loc[q] EXCEPT !.pc = "idle"]
    BY DEF Crash
  <2> QED BY <2>1, <2>2 DEF Locals, Labels
<1>5. LocType'
  <2>1. loc' = [q \in Procs |-> loc'[q]]
    BY DEF Crash
  <2> QED BY <1>4, <2>1 DEF LocType
<1>6. ASSUME NEW p \in Plans PROVE PlanInv(p)'
  <2> USE Before
  <2>1. /\ loc'[Worker(p)].pc = "dead" /\ loc'[Worker(p)].seen = loc[Worker(p)].seen
        /\ loc'[Cleaner(p)].pc = "idle" /\ loc'[Cleaner(p)].seen = loc[Cleaner(p)].seen
    BY <1>4, Names
  <2>2. \/ pending'[p] = pending[p]
        \/ pending'[p] \in {"create", "run"} /\ loc[Worker(p)].pc = pending'[p]
    BY DEF Crash, At
  <2>3. \A k \in 0..12 : Installed(p, k)' <=> Installed(p, k)
    BY <1>2, SameRules
  <2>4. WorkerInv(p)' /\ CleanerInv(p)' /\ RowInv(p)'
    BY <2>1 DEF WorkerInv, CleanerInv, RowInv, At, Forward, Past, Back
  <2>5. NetInv(p)'
    BY <1>1, <2>1, <2>2 DEF WorkerInv, NetInv, At, Lost, Forward, Past
  <2>6. RuleInv(p)'
    BY <1>1, <2>1, <2>2, <2>3 DEF RuleInv, Guarded, Attached, At, Past
  <2>7. CleanInv(p)'
    BY <1>1, <1>2, <2>1, <2>2, Names DEF CleanInv, Cleaned, At, Lost, Gone
  <2> QED BY <2>4, <2>5, <2>6, <2>7 DEF PlanInv
<1> QED BY <1>2, <1>3, <1>5, <1>6 DEF NetworkInv

-----------------------------------------------------------------------------
(* The theorems of NetworkPolicy *)

\* Before the first step nothing is there, and each worker that has begun is
\* about to create its network.
LEMMA NetworkInit == Init => NetworkInv
<1> SUFFICES ASSUME Init PROVE NetworkInv
  OBVIOUS
<1>1. ASSUME NEW q \in Procs
      PROVE  /\ loc[q] \in Locals /\ loc[q].seen = "unknown"
             /\ \/ loc[q].pc = "create" /\ loc[q].kind = "apply" /\ q[2] = "worker"
                \/ loc[q].pc = "idle" /\ loc[q].kind = "stop"
  <2>1. \/ loc[q] = Begin("create", "apply") /\ q[2] = "worker"
        \/ loc[q] = Begin("idle", "stop")
    BY DEF Init
  <2>2. \A label \in {"create", "idle"}, kind \in {"apply", "stop"} :
           /\ Begin(label, kind) \in Locals /\ Begin(label, kind).seen = "unknown"
           /\ Begin(label, kind).pc = label /\ Begin(label, kind).kind = kind
    BY DEF Begin, Locals, Labels, Forward, Kinds
  <2> QED BY <2>1, <2>2
<1>2. LocType
  <2>1. loc = [q \in Procs |-> loc[q]]
    BY DEF Init
  <2> QED BY <1>1, <2>1 DEF LocType
<1>3. RowType
  BY DEF Init, RowType, RowStates, Pendings
<1>4. DOMAIN fw = Hooks /\ fw[DockerUser] = <<>> /\ fw[HostInput] = <<>>
  BY Names DEF Init
<1>5. FwInv
  <2>1. fw = [c \in DOMAIN fw |-> fw[c]]
    BY DEF Init
  <2>2. \A p \in Plans : Egress(p) \notin DOMAIN fw /\ Input(p) \notin DOMAIN fw
    BY <1>4, Names
  <2>3. Range(fw[DockerUser]) = {} /\ Range(fw[HostInput]) = {}
    BY <1>4 DEF Range
  <2>4. /\ fw[DockerUser] \in Seq({EgressJump(p) : p \in Plans})
        /\ fw[HostInput] \in Seq({InputJump(p) : p \in Plans})
    BY <1>4
  <2> QED BY <1>4, <2>1, <2>2, <2>3, <2>4 DEF FwInv, Chains
<1>6. ASSUME NEW p \in Plans PROVE PlanInv(p)
  <2>1. /\ loc[Worker(p)].seen = "unknown" /\ loc[Cleaner(p)].seen = "unknown"
        /\ loc[Cleaner(p)].pc = "idle" /\ loc[Cleaner(p)].kind = "stop"
        /\ \/ loc[Worker(p)].pc = "create" /\ loc[Worker(p)].kind = "apply"
           \/ loc[Worker(p)].pc = "idle"
    BY <1>1, Names
  <2>2. /\ nets = {} /\ running = {} /\ pending[p] = "none" /\ row[p] \in {"starting", "absent"}
    BY DEF Init
  <2>3. Installed(p, 0)
    BY <1>4, Names DEF Installed, Chains
  <2>4. WorkerInv(p) /\ CleanerInv(p) /\ NetInv(p) /\ RowInv(p)
    BY <2>1, <2>2 DEF WorkerInv, CleanerInv, NetInv, RowInv, At, Forward, Past, Back, Lost
  <2>5. RuleInv(p) /\ CleanInv(p)
    BY <2>1, <2>2, <2>3, Names DEF RuleInv, CleanInv, Cleaned, Guarded, Attached, At, Past
  <2> QED BY <2>4, <2>5 DEF PlanInv
<1> QED BY <1>2, <1>3, <1>5, <1>6 DEF NetworkInv

\* Every step of a process keeps the invariant.
LEMMA ProcStepKeeps ==
    ASSUME NetworkInv, NEW q \in Procs, ProcStep(q)
    PROVE  NetworkInv'
<1> DEFINE p == q[1]
<1>1. p \in Plans /\ q \in {Worker(p), Cleaner(p)}
  BY ProcCases
<1>2. CASE Create(q) \/ InstallRule(q) \/ CheckLink(q) \/ CheckRule(q) \/ Run(q) \/ Commit(q)
  <2>1. loc[q].pc \in Forward
    BY <1>2 DEF Create, InstallRule, CheckLink, CheckRule, Run, Commit, At, Forward, Past
  <2>2. q = Worker(p)
    BY <2>1, LaunchIsWorkers
  <2> HIDE DEF p
  <2> QED BY <1>1, <1>2, <2>2, CreateStep, InstallRuleStep, CheckLinkStep, CheckRuleStep, RunStep,
             CommitStep
<1>3. CASE Confirm(q) \/ Inspect(q) \/ RemoveNetwork(q) \/ Strip(q) \/ RollbackRead(q)
  <2> HIDE DEF p
  <2> QED BY <1>1, <1>3, ConfirmStep, InspectStep, RemoveNetworkStep, StripStep, RollbackReadStep
<1>4. CASE Settle(q)
  <2> HIDE DEF p
  <2> QED BY <1>1, <1>4, WorkerSettleStep, CleanerSettleStep
<1> QED BY <1>2, <1>3, <1>4 DEF ProcStep

\* Every step keeps the invariant.
LEMMA NetworkNext == NetworkInv /\ [Next]_vars => NetworkInv'
<1> SUFFICES ASSUME NetworkInv, [Next]_vars PROVE NetworkInv'
  OBVIOUS
<1>1. CASE \E q \in Procs : ProcStep(q)
  BY <1>1, ProcStepKeeps
<1>2. CASE \E p \in Plans : LateCreate(p) \/ LateRun(p) \/ Stop(p) \/ Retire(p)
  BY <1>2, LateCreateStep, LateRunStep, StopStep
<1>3. CASE (\E p \in Plans : TakeName(p)) \/ UNCHANGED vars
  <2>1. /\ UNCHANGED <<pending, fw, running, row, loc>>
        /\ nets' = nets \/ \E p \in Plans : nets' = nets \cup {Foreign(p)}
    BY <1>3 DEF TakeName, vars
  <2> QED BY <2>1, TakeNameStep
<1>4. CASE Crash
  BY <1>4, CrashStep
<1> QED BY <1>1, <1>2, <1>3, <1>4 DEF Next

\* The inductive invariant of NetworkPolicy holds in every reachable state.
THEOREM NetworkInvariant == Spec => []NetworkInv
<1> QED BY NetworkInit, NetworkNext, PTL DEF Spec

\* AttestedEnforced: when apply's verification and the one before `docker run`
\* have passed and the row has not been taken away, all twelve rules are still
\* there and the packet filter decides as the policy says; for every subnet
\* assignment and any other sessions at work on the same hooks.
THEOREM AttestedNetworksEnforce == Spec => []AttestedEnforced
<1>1. NetworkInv => AttestedEnforced
  <2> SUFFICES ASSUME NetworkInv, NEW p \in Plans, row[p] \in {"starting", "ready"},
                      loc[Worker(p)].pc \in {"run", "commit", "up"}
               PROVE  /\ Sealed(p)
                      /\ Enforced(p) \/ \E o \in Plans \ {p} : Subnet[o] = Subnet[p] /\ Referenced(Egress(o))
    BY DEF AttestedEnforced
  <2> USE Before
  <2>1. Guarded(p) /\ Attached(p)
    BY DEF RowInv, Guarded, Attached, At, Past
  <2>2. Installed(p, 12)
    BY <2>1 DEF RuleInv
  <2> QED BY <2>2, InstalledSeals
<1> QED BY <1>1, NetworkInvariant, PTL

\* RulesOutliveContainer: while a container is attached to its session's network
\* nothing the policy rejects gets through, whatever was stopped, retried or
\* restarted, unless a cleaner looked for the network before it was created.
THEOREM RulesOutlive == Spec => []RulesOutliveContainer
<1>1. NetworkInv => RulesOutliveContainer
  <2> SUFFICES ASSUME NetworkInv, NEW p \in Plans, Own(p) \in running,
                      loc[Cleaner(p)].seen # "absent"
               PROVE  Sealed(p)
    BY DEF RulesOutliveContainer
  <2> USE Before
  <2>1. Guarded(p) /\ Attached(p)
    BY DEF NetInv, Guarded, Attached
  <2>2. Installed(p, 12)
    BY <2>1 DEF RuleInv
  <2> QED BY <2>2, InstalledSeals
<1> QED BY <1>1, NetworkInvariant, PTL

\* RemovedIsGone: a row that says failed, or stopped by the last process at work
\* on it, has no network, chain or jump left, but for a late create.
THEOREM RemovedNetworksAreGone == Spec => []RemovedIsGone
<1>1. NetworkInv => RemovedIsGone
  <2> SUFFICES ASSUME NetworkInv, NEW p \in Plans, row[p] \in {"failed", "stopped"},
                      row[p] = "stopped" =>
                         (At(Worker(p), "up") \/ (At(Worker(p), "done") /\ ~loc[Worker(p)].failed))
               PROVE  /\ Own(p) \in nets => pending[p] = "over"
                      /\ {Egress(p), Input(p)} \cap Chains = {}
    BY DEF RemovedIsGone
  <2> USE Before
  <2>1. Gone(p)
    BY Names DEF CleanInv, Cleaned, At
  <2> QED BY <2>1 DEF Gone, Lost
<1> QED BY <1>1, NetworkInvariant, PTL

\* ForeignKept: no step removes a network that carries another label.
THEOREM ForeignNetworksKept == Spec => ForeignKept
<1>1. Next => \A p \in Plans : Foreign(p) \in nets => Foreign(p) \in nets'
  <2> SUFFICES ASSUME Next, NEW p \in Plans, Foreign(p) \in nets PROVE Foreign(p) \in nets'
    OBVIOUS
  <2>1. ASSUME NEW q \in Procs, ProcStep(q) PROVE Foreign(p) \in nets'
    <3>1. \A o : Foreign(p) # Own(o)
      BY DEF Foreign, Own
    <3> QED BY <2>1, <3>1 DEF ProcStep, Create, InstallRule, CheckLink, CheckRule, Run, Commit, Confirm,
               Inspect, RemoveNetwork, Strip, RollbackRead, Settle
  <2>2. ASSUME NEW o \in Plans, LateCreate(o) \/ LateRun(o) \/ Stop(o) \/ Retire(o) \/ TakeName(o)
        PROVE  Foreign(p) \in nets'
    BY <2>2 DEF LateCreate, LateRun, Stop, Retire, TakeName
  <2> QED BY <2>1, <2>2 DEF Next, Crash
<1>2. [Next]_vars => [\A p \in Plans : Foreign(p) \in nets => Foreign(p) \in nets']_vars
  BY <1>1
<1> QED BY <1>2, PTL DEF Spec, ForeignKept

-----------------------------------------------------------------------------
(***************************************************************************)
(* CommandRunner, for any set of descendants and any amount of output.     *)
(*                                                                         *)
(* ProcessInv places every descendant: not born, in the group, or gone     *)
(* from it, and never two of these; without it SIGKILL could miss a member *)
(* that also counts as escaped.  StopInv says what run_argv knows at each  *)
(* of its control states: the leader is not waited for before the group    *)
(* has been signalled for the last time, and from then on the group stays  *)
(* empty, because only its own members could bear new ones.                *)
(***************************************************************************)
ProcessInv ==
    /\ leader \in {"running", "zombie", "reaped"}
    /\ group \subseteq Kids /\ escaped \subseteq Kids /\ unborn \subseteq Kids
    /\ group \cap escaped = {}
    /\ unborn \cap (group \cup escaped) = {}

StopInv ==
    /\ pc \in {"poll", "terminate", "grace", "kill", "wait", "join", "done"}
    /\ pc \notin {"join", "done"} => leader # "reaped"
    /\ pc = "poll" => failure = "none"
    /\ pc = "wait" => group = {} /\ leader = "zombie"
    /\ pc \in {"join", "done"} => leader = "reaped" /\ (failure # "none" => group = {})

RunnerInv == ProcessInv /\ StopInv

\* A command that has just been started satisfies the invariant.
LEMMA InitRunner == ArgvInit => RunnerInv
BY DEF ArgvInit, RunnerInv, ProcessInv, StopInv

\* The end of some of the processes that live, in particular by a signal.
LEMMA DiedKeeps ==
    ASSUME ProcessInv, NEW dead \in SUBSET Alive, Died(dead)
    PROVE  /\ ProcessInv'
           /\ group' \subseteq group
           /\ leader' = leader \/ (leader = "running" /\ leader' = "zombie")
           /\ leader' = "running" => Leader \notin dead
BY LeaderAssumption DEF ProcessInv, Died, Alive

\* Whatever the command and its descendants do (fork, leave the group, exit) keeps it.
LEMMA CommandSteps ==
    ASSUME RunnerInv, Processes
    PROVE  RunnerInv'
<1> USE DEF RunnerInv, outputVars, clockVars, procVars
<1>1. ASSUME NEW p \in Alive, NEW k \in Kids, Fork(p, k) PROVE RunnerInv'
  BY <1>1 DEF Fork, Alive, ProcessInv, StopInv
<1>2. ASSUME NEW k \in Kids, Escape(k) PROVE RunnerInv'
  BY <1>2 DEF Escape, ProcessInv, StopInv
<1>3. ASSUME NEW p \in Kids \cup {Leader}, ClosePipe(p) \/ Write(p) PROVE RunnerInv'
  BY <1>3 DEF ClosePipe, Write, ProcessInv, StopInv
<1>4. ASSUME NEW p \in Kids \cup {Leader}, Exit(p) PROVE RunnerInv'
  BY <1>4, DiedKeeps DEF Exit, StopInv
<1> QED BY <1>1, <1>2, <1>3, <1>4 DEF Processes

\* Every step of run_argv and _stop_process keeps it.
LEMMA RunnerSteps ==
    ASSUME RunnerInv, Runner
    PROVE  RunnerInv'
<1> USE DEF RunnerInv, outputVars, clockVars, procVars
<1>1. CASE Poll
  BY <1>1 DEF Poll, ProcessInv, StopInv
<1>2. CASE Terminate
  BY <1>2, DiedKeeps DEF Terminate, StopInv
<1>3. CASE Grace
  BY <1>3 DEF Grace, GroupExists, ProcessInv, StopInv
<1>4. CASE Kill
  <2>1. ProcessInv' /\ leader' = "zombie"
    BY <1>4, DiedKeeps, LeaderAssumption DEF Kill, Died, Alive, ProcessInv, StopInv
  <2>2. group' = {}
    BY <1>4 DEF Kill, Died, Alive, ProcessInv
  <2>3. QED BY <1>4, <2>1, <2>2 DEF Kill, StopInv
<1>5. CASE Wait
  BY <1>5 DEF Wait, ProcessInv, StopInv
<1>6. CASE Join
  BY <1>6 DEF Join, ProcessInv, StopInv
<1> QED BY <1>1, <1>2, <1>3, <1>4, <1>5, <1>6 DEF Runner

\* Every step of the whole keeps it.
LEMMA RunnerNext ==
    ASSUME RunnerInv, [ArgvNext]_argvVars
    PROVE  RunnerInv'
<1>1. CASE Reader \/ RequestCancel \/ DeadlinePasses \/ GraceEnds \/ UNCHANGED argvVars
  <2>1. UNCHANGED <<procVars, pc, failure>>
    BY <1>1 DEF Reader, Read, EndOfFile, RequestCancel, DeadlinePasses,
       GraceEnds, argvVars, outputVars, clockVars
  <2> QED BY <2>1 DEF RunnerInv, ProcessInv, StopInv, procVars
<1> QED BY <1>1, CommandSteps, RunnerSteps DEF ArgvNext

\* The invariant holds in every reachable state.
LEMMA RunnerInvariant == ArgvSpec => []RunnerInv
<1>1. RunnerInv /\ [ArgvNext]_argvVars => RunnerInv'
  BY RunnerNext
<1> QED BY <1>1, InitRunner, PTL DEF ArgvSpec

\* A command that was stopped is gone with all its process group by the time
\* run_argv raises, whatever its members do with SIGTERM and whenever the leader
\* exits: _stop_process kills the group before it waits for the leader.
THEOREM StoppedGroupsAreGone == ArgvSpec => []StoppedGroupGone
<1>1. RunnerInv => StoppedGroupGone
  BY DEF RunnerInv, StopInv, StoppedGroupGone
<1> QED BY <1>1, RunnerInvariant, PTL

\* _stop_process signals the group only while its number cannot have been given
\* to another process: the leader is a zombie at worst.
THEOREM SignalsStayInGroup == ArgvSpec => []SignalsOwnGroup
<1>1. RunnerInv => SignalsOwnGroup
  BY DEF RunnerInv, StopInv, SignalsOwnGroup, GroupExists
<1> QED BY <1>1, RunnerInvariant, PTL
=============================================================================
