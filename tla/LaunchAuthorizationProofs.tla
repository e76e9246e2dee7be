--------------------- MODULE LaunchAuthorizationProofs ---------------------
(***************************************************************************)
(* Proofs about LaunchAuthorization, for any number of tokens, posts,      *)
(* commits and crashes, and any lifetimes of tokens and challenges.        *)
(*                                                                         *)
(* HandlerInv says what the running POST handler has established at each   *)
(* of its steps, and that nothing which happens between two of them (a     *)
(* push, a revocation, a tick) undoes it; LaunchInv says what holds of     *)
(* every row of launches.  The link between the two is that the token of a *)
(* launch is in the replay table, while the handler about to create one    *)
(* has put its token there itself.                                         *)
(***************************************************************************)
EXTENDS LaunchAuthorization, TLAPS

\* A request is being handled, with a token that was issued.
Posting == {"decode", "consume", "find", "create", "challenge"}

HandlerInv ==
    /\ pc \in Posting => /\ cur.post \in Posts /\ cur.tok \in Tokens /\ cur.digest \in Digests
                         /\ token[cur.tok] # NoToken
    /\ pc \in {"schedule", "complete"} => cur.post \in Posts
    /\ pc \in Posting \ {"challenge"} => launch[cur.post] = NoLaunch
    /\ pc \in {"consume", "find", "create"} => token[cur.tok].digest = cur.digest
    /\ pc \in {"find", "create"} => /\ cur.tok \in spent
                                    /\ \A p \in Launched : launch[p].tok # cur.tok
    /\ pc = "create" /\ cur.trusted => Covers(granted, cur.digest)
    /\ pc = "challenge" => launch[cur.post].digest \in Commits

LaunchInv(p) ==
    p \in Launched =>
        /\ launch[p].tok \in Tokens /\ launch[p].tok \in spent /\ launch[p].digest \in Digests
        /\ token[launch[p].tok] # NoToken
        /\ launch[p].digest = token[launch[p].tok].digest
        /\ launch[p].state \in {"authorized", "starting"} =>
              launch[p].digest = Reopen \/ Covers(granted, launch[p].digest)

AuthInv ==
    /\ TypeOK /\ HandlerInv /\ trust \subseteq granted
    /\ \A p \in Posts : LaunchInv(p)
    /\ OneLaunchPerToken

\* Times and the numbers of secrets stay within their bounds.
LEMMA Times ==
    /\ 0 \in 0..MaxTime /\ 0 \in 0..MaxCrashes
    /\ 0 \in 0..(MaxTime + Ttl) /\ 0 \in 0..(MaxTime + ChallengeTtl)
    /\ \A n \in 0..MaxTime : n + Ttl \in 0..(MaxTime + Ttl)
    /\ \A n \in 0..MaxTime : n + ChallengeTtl \in 0..(MaxTime + ChallengeTtl)
BY BoundsAssumption

\* A fresh server with an empty database satisfies the invariant.
LEMMA InitAuth == Init => AuthInv
<1> SUFFICES ASSUME Init PROVE AuthInv
  OBVIOUS
<1>1. TypeOK
  BY Times DEF Init, TypeOK, Token, Launch, Chal, Cur, NoToken, NoLaunch, NoChal, NoCur
<1>2. Launched = {} /\ HandlerInv /\ trust \subseteq granted
  BY DEF Init, HandlerInv, Posting, Launched
<1> QED BY <1>1, <1>2 DEF AuthInv, LaunchInv, OneLaunchPerToken

\* None is no digest, so that a row or a token with a digest is not the absent one.
LEMMA Present ==
    /\ None \notin Digests
    /\ \A l \in Launch : l.digest \in Digests => l # NoLaunch
    /\ \A t \in Token : t.digest \in Digests => t # NoToken
BY NamesAssumption DEF Digests, NoLaunch, NoToken

States == {"absent", "pending_trust", "authorized", "starting", "failed"}

\* The state of one launch changes, its digest and its token never do.
LEMMA StateChange ==
    ASSUME launch \in [Posts -> Launch], NEW p \in Posts, NEW s \in States,
           launch' = [launch EXCEPT ![p].state = s]
    PROVE  /\ launch' \in [Posts -> Launch] /\ launch'[p].state = s
           /\ \A q \in Posts : launch'[q].digest = launch[q].digest /\ launch'[q].tok = launch[q].tok
           /\ \A q \in Posts \ {p} : launch'[q] = launch[q]
BY DEF Launch, States

\* Using a challenge up leaves open what was open.
LEMMA ChallengeUse ==
    ASSUME chal \in [Posts -> Chal], NEW p \in Posts, chal' = [chal EXCEPT ![p].used = TRUE]
    PROVE  chal' \in [Posts -> Chal] /\ \A q \in Posts : chal'[q].open = chal[q].open
BY DEF Chal

\* Types are kept.
LEMMA TypeStep == AuthInv /\ [Next]_vars => TypeOK'
<1> SUFFICES ASSUME AuthInv, [Next]_vars PROVE TypeOK'
  OBVIOUS
<1> USE DEF tables, Return
<1>0. TypeOK /\ HandlerInv
  BY DEF AuthInv
<1>1. NoCur \in Cur
  BY DEF NoCur, Cur
<1>2. ASSUME NEW t \in Tokens, Preview(t) PROVE TypeOK'
  BY <1>0, <1>2, Times DEF TypeOK, Preview, Issue, Token, Digests
<1>3. ASSUME NEW t \in Tokens, NEW p \in Posts, PostResolve(p, t) PROVE TypeOK'
  BY <1>0, <1>3 DEF TypeOK, PostResolve, Cur, Digests
<1>4. CASE PostDecode
  BY <1>0, <1>1, <1>4 DEF TypeOK, PostDecode
<1>5. CASE ConsumeJti
  BY <1>0, <1>1, <1>5 DEF TypeOK, HandlerInv, Posting, ConsumeJti
<1>6. CASE FindTrust
  BY <1>0, <1>6 DEF TypeOK, FindTrust, Cur, Covers
<1>7. CASE CreateLaunch
  <2>1. ~chal[cur.post].open /\ cur.post \in Posts
    BY <1>0, <1>7, NamesAssumption DEF TypeOK, HandlerInv, Posting, CreateLaunch, NoLaunch
  <2>2. QED BY <1>0, <1>7, <2>1 DEF TypeOK, HandlerInv, Posting, CreateLaunch, Launch, Digests
<1>8. CASE CreateChallenge
  BY <1>0, <1>1, <1>8, Times DEF TypeOK, HandlerInv, CreateChallenge, Chal, NoChal
<1>9. CASE Schedule
  BY <1>0, <1>1, <1>9 DEF TypeOK, HandlerInv, Schedule
<1>10. CASE CompleteTrust
  <2> DEFINE p == cur.post
  <2>1. p \in Posts
    BY <1>0, <1>10 DEF HandlerInv, CompleteTrust
  <2>2. CASE Answerable(p) /\ launch[p].state = "pending_trust"
    <3>1. launch[p].digest \in Commits
      BY <1>0, <2>1, <2>2 DEF TypeOK, Answerable
    <3>2. trust' \subseteq Scopes /\ granted' \subseteq Scopes
      BY <1>0, <1>10, <2>2, <3>1 DEF TypeOK, CompleteTrust, Scopes
    <3>3. launch' \in [Posts -> Launch] /\ \A q \in Posts : launch'[q].digest = launch[q].digest
      <4>1. launch' = [launch EXCEPT ![p].state = "authorized"]
        BY <1>10, <2>2 DEF CompleteTrust
      <4>2. QED BY <1>0, <2>1, <4>1, StateChange DEF TypeOK, States
    <3>4. chal' \in [Posts -> Chal] /\ \A q \in Posts : chal'[q].open = chal[q].open
      <4>1. chal' = [chal EXCEPT ![p].used = TRUE]
        BY <1>10, <2>2 DEF CompleteTrust
      <4>2. QED BY <1>0, <2>1, <4>1, ChallengeUse DEF TypeOK
    <3>5. QED BY <1>0, <1>10, <2>2, <3>2, <3>3, <3>4 DEF TypeOK, CompleteTrust
  <2>3. CASE ~(Answerable(p) /\ launch[p].state = "pending_trust")
    BY <1>0, <1>1, <1>10, <2>3 DEF TypeOK, CompleteTrust
  <2>4. QED BY <2>2, <2>3
<1>11. ASSUME NEW p \in Posts, RunBegin(p) PROVE TypeOK'
  BY <1>0, <1>11 DEF TypeOK, RunBegin, Launch
<1>12. ASSUME NEW p \in Posts, Deny(p) PROVE TypeOK'
  BY <1>0, <1>12 DEF TypeOK, Deny, Launch, Chal
<1>13. ASSUME NEW p \in Posts, VerifySource(p) PROVE TypeOK'
  BY <1>0, <1>13 DEF TypeOK, VerifySource, NoCur, Cur
<1>14. ASSUME NEW r \in Scopes, Revoke(r) PROVE TypeOK'
  BY <1>0, <1>14 DEF TypeOK, Revoke
<1>15. ASSUME NEW c \in Commits, Push(c) PROVE TypeOK'
  BY <1>0, <1>15 DEF TypeOK, Push
<1>16. CASE Tick \/ Crash
  BY <1>0, <1>1, <1>16, BoundsAssumption DEF TypeOK, Tick, Crash
<1>17. CASE UNCHANGED vars
  BY <1>0, <1>17 DEF TypeOK, vars
<1> QED
  BY <1>2, <1>3, <1>4, <1>5, <1>6, <1>7, <1>8, <1>9, <1>10, <1>11, <1>12, <1>13, <1>14, <1>15,
     <1>16, <1>17 DEF Next, Handler

-----------------------------------------------------------------------------
(* What the handlers establish *)

\* Every step but the ones that issue, spend, create or grant leaves the rows alone.
LEMMA RowsKept ==
    ASSUME AuthInv, UNCHANGED <<launch, token, spent, granted>>
    PROVE  (\A p \in Posts : LaunchInv(p)') /\ OneLaunchPerToken'
BY DEF AuthInv, LaunchInv, OneLaunchPerToken, Launched, NoLaunch, NoToken, Covers, Digests

\* A launch changes its state; trust may be granted at the same time.
LEMMA RowStateKept ==
    ASSUME AuthInv, NEW p \in Posts, NEW s \in States,
           launch' = [launch EXCEPT ![p].state = s], p \in Launched,
           UNCHANGED <<token, spent>>, granted \subseteq granted',
           s \in {"authorized", "starting"} =>
               launch[p].digest = Reopen \/ Covers(granted', launch[p].digest)
    PROVE  /\ \A q \in Posts : LaunchInv(q)'
           /\ OneLaunchPerToken' /\ Launched' = Launched
           /\ \A q \in Posts : launch[q] = NoLaunch => launch'[q] = NoLaunch
<1>0. TypeOK /\ \A q \in Posts : LaunchInv(q)
  BY DEF AuthInv
<1>1. /\ launch' \in [Posts -> Launch] /\ launch'[p].state = s
      /\ \A q \in Posts : launch'[q].digest = launch[q].digest /\ launch'[q].tok = launch[q].tok
      /\ \A q \in Posts \ {p} : launch'[q] = launch[q]
  BY <1>0, StateChange DEF TypeOK
<1>2. launch'[p] # NoLaunch /\ launch[p] # NoLaunch
  <2>1. launch'[p].digest \in Digests /\ launch'[p] \in Launch
    BY <1>0, <1>1 DEF LaunchInv
  <2>2. QED BY <2>1, Present DEF Launched
<1>3. Launched' = Launched /\ \A q \in Posts : launch[q] = NoLaunch => launch'[q] = NoLaunch
  BY <1>1, <1>2 DEF Launched, NoLaunch
<1>4. OneLaunchPerToken'
  BY <1>1, <1>3 DEF AuthInv, OneLaunchPerToken, Launched
<1>5. \A q \in Posts : LaunchInv(q)'
  BY <1>0, <1>1, <1>3 DEF LaunchInv, Covers, NoToken, Digests
<1> QED BY <1>3, <1>4, <1>5

\* Every step keeps the invariant.
LEMMA AuthStep == AuthInv /\ [Next]_vars => AuthInv'
<1> SUFFICES ASSUME AuthInv, [Next]_vars PROVE AuthInv'
  OBVIOUS
<1> USE DEF tables, Return
<1>0. TypeOK' /\ TypeOK /\ HandlerInv /\ trust \subseteq granted /\ \A p \in Posts : LaunchInv(p)
  BY TypeStep DEF AuthInv
<1>1. ASSUME UNCHANGED <<launch, token, spent, granted>>, trust' \subseteq trust, HandlerInv'
      PROVE  AuthInv'
  BY <1>0, <1>1, RowsKept DEF AuthInv
<1>2. ASSUME NEW t \in Tokens, Preview(t) PROVE AuthInv'
  <2>1. PICK d \in Digests : token' = [token EXCEPT ![t] = Issue(d)]
    BY <1>0, <1>2 DEF Preview, Digests, TypeOK
  <2>2. token[t] = NoToken /\ UNCHANGED <<launch, spent, granted, trust, pc, cur>>
    BY <1>2 DEF Preview
  <2>3. \A u \in Tokens : token[u] # NoToken => token'[u] = token[u] /\ token'[u] # NoToken
    BY <1>0, <2>1, <2>2 DEF TypeOK, NoToken
  <2>4. HandlerInv'
    BY <1>0, <2>2, <2>3 DEF HandlerInv, Posting, Launched, NoLaunch, NoToken, Covers, Digests
  <2>5. \A p \in Posts : LaunchInv(p)'
    BY <1>0, <2>2, <2>3 DEF LaunchInv, Launched, NoLaunch, NoToken, Covers, Digests
  <2>6. OneLaunchPerToken'
    BY <2>2 DEF AuthInv, OneLaunchPerToken, Launched, NoLaunch
  <2>7. QED BY <1>0, <2>2, <2>4, <2>5, <2>6 DEF AuthInv
<1>3. ASSUME NEW t \in Tokens, NEW p \in Posts, PostResolve(p, t) PROVE AuthInv'
  <2>1. HandlerInv'
    BY <1>0, <1>3 DEF PostResolve, HandlerInv, Posting, Digests, TypeOK, NoLaunch, NoToken
  <2>2. QED BY <1>1, <1>3, <2>1 DEF PostResolve
<1>4. CASE PostDecode
  <2>1. HandlerInv'
    BY <1>0, <1>4 DEF PostDecode, TokenAccepted, HandlerInv, Posting, NoLaunch, NoToken, Digests
  <2>2. QED BY <1>1, <1>4, <2>1 DEF PostDecode
<1>5. CASE ConsumeJti
  <2>1. HandlerInv'
    BY <1>0, <1>5 DEF ConsumeJti, HandlerInv, Posting, LaunchInv, Launched, NoLaunch, NoToken, Digests
  <2>2. \A p \in Posts : LaunchInv(p)'
    BY <1>0, <1>5 DEF ConsumeJti, LaunchInv, Launched, NoLaunch, NoToken, Covers, Digests
  <2>3. OneLaunchPerToken'
    BY <1>5 DEF ConsumeJti, AuthInv, OneLaunchPerToken, Launched, NoLaunch
  <2>4. QED BY <1>0, <1>5, <2>1, <2>2, <2>3 DEF ConsumeJti, AuthInv
<1>6. CASE FindTrust
  <2>1. HandlerInv'
    BY <1>0, <1>6 DEF FindTrust, HandlerInv, Posting, TypeOK, Cur, Launched, NoLaunch, NoToken,
       Covers, Digests
  <2>2. QED BY <1>1, <1>6, <2>1 DEF FindTrust
<1>7. CASE CreateLaunch
  <2> DEFINE m == cur.post
  <2>1. /\ m \in Posts /\ cur.tok \in Tokens /\ cur.digest \in Digests
        /\ cur.tok \in spent /\ token[cur.tok] # NoToken /\ token[cur.tok].digest = cur.digest
        /\ \A p \in Launched : launch[p].tok # cur.tok
        /\ cur.trusted => Covers(granted, cur.digest)
    BY <1>0, <1>7 DEF CreateLaunch, HandlerInv, Posting
  <2>2. /\ launch'[m].tok = cur.tok /\ launch'[m].digest = cur.digest
        /\ launch'[m].state = "authorized" => cur.trusted \/ cur.digest = Reopen
        /\ launch'[m].state # "starting" /\ launch'[m] \in Launch
        /\ pc' = "challenge" => cur.digest # Reopen
        /\ pc' \in {"challenge", "schedule"}
        /\ \A p \in Posts \ {m} : launch'[p] = launch[p]
        /\ UNCHANGED <<token, spent, granted, trust, cur>>
    BY <1>0, <1>7, <2>1 DEF CreateLaunch, TypeOK, Launch
  <2>3. Launched' = Launched \cup {m}
    BY <2>1, <2>2, Present DEF Launched, NoLaunch
  <2> HIDE DEF m
  <2>4. \A p \in Posts : LaunchInv(p)'
    BY <1>0, <2>1, <2>2, <2>3 DEF LaunchInv, Covers, NoToken, Digests
  <2>5. OneLaunchPerToken'
    BY <2>1, <2>2, <2>3 DEF AuthInv, OneLaunchPerToken, Launched
  <2>6. HandlerInv'
    BY <2>1, <2>2 DEF HandlerInv, Posting, Digests, NoToken, m
  <2>7. QED BY <1>0, <2>2, <2>4, <2>5, <2>6 DEF AuthInv
<1>8. CASE CreateChallenge \/ Schedule \/ Crash
  <2>1. HandlerInv'
    BY <1>8 DEF CreateChallenge, Schedule, Crash, HandlerInv, Posting
  <2>2. QED BY <1>1, <1>8, <2>1 DEF CreateChallenge, Schedule, Crash
<1>9. CASE CompleteTrust
  <2> DEFINE p == cur.post
  <2>1. p \in Posts
    BY <1>0, <1>9 DEF HandlerInv, CompleteTrust
  <2>2. CASE Answerable(p) /\ launch[p].state = "pending_trust"
    <3>1. /\ launch' = [launch EXCEPT ![p].state = "authorized"]
          /\ pc' = "schedule" /\ UNCHANGED <<token, spent, cur>>
      BY <1>9, <2>2 DEF CompleteTrust
    <3>2. launch[p].digest \in Commits /\ p \in Launched
      BY <1>0, <2>1, <2>2 DEF TypeOK, Answerable, Launched, NoLaunch
    <3>3. PICK scope \in {launch[p].digest, Repository} :
              trust' = trust \cup {scope} /\ granted' = granted \cup {scope}
      BY <1>9, <2>2 DEF CompleteTrust
    <3>4. Covers(granted', launch[p].digest)
      BY <3>2, <3>3, NamesAssumption DEF Covers
    <3>5. (\A q \in Posts : LaunchInv(q)') /\ OneLaunchPerToken'
      BY <2>1, <3>1, <3>2, <3>3, <3>4, RowStateKept DEF States
    <3>6. HandlerInv'
      BY <2>1, <3>1 DEF HandlerInv, Posting
    <3>7. QED BY <1>0, <3>3, <3>5, <3>6 DEF AuthInv
  <2>3. CASE ~(Answerable(p) /\ launch[p].state = "pending_trust")
    <3>1. HandlerInv'
      BY <1>9, <2>3 DEF CompleteTrust, HandlerInv, Posting
    <3>2. QED BY <1>1, <1>9, <2>3, <3>1 DEF CompleteTrust
  <2>4. QED BY <2>2, <2>3
<1>10. ASSUME NEW p \in Posts, NEW s \in States, launch' = [launch EXCEPT ![p].state = s],
              p \in Launched, UNCHANGED <<token, spent, granted, trust, pc, cur>>,
              s \in {"authorized", "starting"} => launch[p].state = "authorized"
       PROVE  AuthInv'
  <2>1. s \in {"authorized", "starting"} =>
            launch[p].digest = Reopen \/ Covers(granted', launch[p].digest)
    BY <1>0, <1>10 DEF LaunchInv, Covers
  <2>2. /\ \A q \in Posts : LaunchInv(q)'
        /\ OneLaunchPerToken' /\ Launched' = Launched
        /\ \A q \in Posts : launch[q] = NoLaunch => launch'[q] = NoLaunch
    BY <1>10, <2>1, RowStateKept
  <2>3. \A q \in Posts : launch'[q].digest = launch[q].digest /\ launch'[q].tok = launch[q].tok
    BY <1>0, <1>10, StateChange DEF TypeOK
  <2>4. HandlerInv'
    BY <1>0, <1>10, <2>2, <2>3 DEF HandlerInv, Posting, Covers, NoToken, NoLaunch, Digests, Launched
  <2>5. QED BY <1>0, <1>10, <2>2, <2>4 DEF AuthInv
<1>11. ASSUME NEW p \in Posts, RunBegin(p) PROVE AuthInv'
  <2>1. CASE launch[p].state = "authorized"
    <3>1. /\ launch' = [launch EXCEPT ![p].state = "starting"]
          /\ UNCHANGED <<token, spent, granted, trust, pc, cur>>
      BY <1>11, <2>1 DEF RunBegin
    <3>2. p \in Launched /\ "starting" \in States
      BY <2>1 DEF Launched, NoLaunch, States
    <3>3. QED BY <1>10, <2>1, <3>1, <3>2
  <2>2. CASE launch[p].state # "authorized"
    <3>1. HandlerInv'
      BY <1>0, <1>11, <2>2 DEF RunBegin, HandlerInv, Posting, Launched, NoLaunch, NoToken, Covers, Digests
    <3>2. QED BY <1>1, <1>11, <2>2, <3>1 DEF RunBegin
  <2>3. QED BY <2>1, <2>2
<1>12. ASSUME NEW p \in Posts, Deny(p) PROVE AuthInv'
  <2>1. /\ launch' = [launch EXCEPT ![p].state = "failed"]
        /\ UNCHANGED <<token, spent, granted, trust, pc, cur>>
    BY <1>12 DEF Deny
  <2>2. p \in Launched /\ "failed" \in States
    BY <1>12 DEF Deny, Launched, NoLaunch, States
  <2>3. QED BY <1>10, <2>1, <2>2
<1>13. ASSUME NEW p \in Posts, VerifySource(p) PROVE AuthInv'
  <2>1. HandlerInv'
    BY <1>13 DEF VerifySource, HandlerInv, Posting, NoCur
  <2>2. QED BY <1>1, <1>13, <2>1 DEF VerifySource
<1>14. ASSUME UNCHANGED <<launch, token, spent, granted, pc, cur>>, trust' \subseteq trust
       PROVE  AuthInv'
  <2>1. HandlerInv'
    BY <1>0, <1>14 DEF HandlerInv, Posting, Launched, NoLaunch, NoToken, Covers, Digests
  <2>2. QED BY <1>1, <1>14, <2>1
<1>15. CASE (\E r \in Scopes : Revoke(r)) \/ (\E c \in Commits : Push(c)) \/ Tick \/ UNCHANGED vars
  BY <1>14, <1>15 DEF Revoke, Push, Tick, vars
<1> QED
  BY <1>2, <1>3, <1>4, <1>5, <1>6, <1>7, <1>8, <1>9, <1>11, <1>12, <1>13, <1>15 DEF Next, Handler

\* The invariant holds in every reachable state.
LEMMA AuthInvariant == Spec => []AuthInv
BY InitAuth, AuthStep, PTL DEF Spec

-----------------------------------------------------------------------------
(* Theorems *)

\* The state of the handlers and their tables has its type, and a challenge
\* belongs to a launch of a remote source.
THEOREM TypeCorrect == Spec => []TypeOK
<1>1. AuthInv => TypeOK
  BY DEF AuthInv
<1> QED BY <1>1, AuthInvariant, PTL

\* A token starts at most one launch, however often its page is posted and
\* wherever the server crashes in between (consume_launch_jti).
THEOREM TokensLaunchOnce == Spec => []OneLaunchPerToken
<1>1. AuthInv => OneLaunchPerToken
  BY DEF AuthInv
<1> QED BY <1>1, AuthInvariant, PTL

\* What is launched is what the preview page of its token showed, even when the
\* repository moved between preview, post and trust decision.
THEOREM LaunchesArePreviewed == Spec => []PreviewedSource
<1>1. AuthInv => PreviewedSource
  BY DEF AuthInv, LaunchInv, PreviewedSource, Launched
<1> QED BY <1>1, AuthInvariant, PTL

\* A remote source is authorised only if the user has trusted its commit, or the
\* repository, at some time before (FindTrust, CompleteTrust).
THEOREM LaunchesAreTrusted == Spec => []NothingRunsUntrusted
<1>1. AuthInv => NothingRunsUntrusted
  BY DEF AuthInv, LaunchInv, NothingRunsUntrusted, Launched, Covers
<1> QED BY <1>1, AuthInvariant, PTL
============================================================================
