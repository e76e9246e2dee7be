------------------------ MODULE LaunchAuthorization ------------------------
(***************************************************************************)
(* From a preview page to an authorised launch: the handlers GET /open,    *)
(* POST /api/launches and POST /api/launches/{id}/trust (app.py), with the *)
(* launch token (launch_auth.py), the replay table (state.py), the trust   *)
(* records (trust.py) and the trust challenges (trust_flow.py).            *)
(*                                                                         *)
(* The handlers run on one event loop and never await: one at a time, but  *)
(* made of steps (a GitHub request, a transaction) between which the       *)
(* repository moves, time passes, the command line revokes trust in a      *)
(* process of its own, and the server may crash.                           *)
(*                                                                         *)
(* A request is for a commit of one repository, or reopens a workspace;    *)
(* its digest stands for both the request and the source it resolved to.   *)
(***************************************************************************)
EXTENDS Naturals

CONSTANTS
    Tokens,        \* launch tokens (their jti)
    Posts,         \* POST /api/launches requests; a launch goes by its post
    Commits,       \* commits the requested ref may point to
    Reopen,        \* the digest of a request to reopen a workspace
    Repository,    \* the trust scope that covers every commit
    None,          \* no token, no digest, no scope
    Ttl,           \* launch_token_ttl_seconds
    ChallengeTtl,  \* trust_challenge_ttl_seconds
    MaxTime, MaxCrashes   \* bounds

ASSUME NamesAssumption ==
    /\ Reopen \notin Commits /\ Repository \notin Commits \cup {Reopen}
    /\ None \notin Commits \cup {Reopen, Repository} \cup Tokens \cup Posts
ASSUME BoundsAssumption ==
    Ttl \in Nat /\ ChallengeTtl \in Nat /\ MaxTime \in Nat /\ MaxCrashes \in Nat

VARIABLES
    now, crashes,  \* time; crashes so far, which also number the token secrets
    head,          \* what the requested ref resolves to
    token,         \* token[t]: digest, expiry and secret of an issued token
    spent,         \* launch_authorization_replay: consumed jtis
    launch,        \* launches: state, digest, and the token it was posted with
    chal,          \* trust_challenges and launch_sources of a launch
    trust,         \* trust_records that are not revoked
    granted,       \* every trust the user ever granted (history)
    pc, cur,       \* the handler the event loop runs, and its local variables
    scheduled      \* launches handed to the pipeline's executor

tables  == <<spent, launch, chal, trust, granted>>
vars == <<now, crashes, head, token, tables, pc, cur, scheduled>>

Digests == Commits \cup {Reopen}
Scopes  == Commits \cup {Repository}

NoToken  == [digest |-> None, exp |-> 0, secret |-> 0]
NoLaunch == [state |-> "absent", digest |-> None, tok |-> None]
NoChal   == [open |-> FALSE, exp |-> 0, used |-> FALSE]
NoCur    == [post |-> None, tok |-> None, digest |-> None, trusted |-> FALSE]

Init ==
    /\ now = 0 /\ crashes = 0 /\ head \in Commits
    /\ token = [t \in Tokens |-> NoToken]
    /\ spent = {} /\ trust = {} /\ granted = {}
    /\ launch = [p \in Posts |-> NoLaunch]
    /\ chal = [p \in Posts |-> NoChal]
    /\ pc = "idle" /\ cur = NoCur
    /\ scheduled = {}

Return == pc' = "idle" /\ cur' = NoCur

-----------------------------------------------------------------------------
(* GET /open *)

\* LaunchTokenCodec.issue: a token bound to a digest, signed with the secret of
\* this server process.
Issue(d) == [digest |-> d, exp |-> now + Ttl, secret |-> crashes]

\* The request is resolved, and a token bound to its digest is issued.
Preview(t) ==
    /\ pc = "idle" /\ token[t] = NoToken
    /\ \E d \in {head, Reopen} :
          token' = [token EXCEPT ![t] = Issue(d)]
    /\ UNCHANGED <<now, crashes, head, tables, pc, cur, scheduled>>

-----------------------------------------------------------------------------
(* POST /api/launches *)

\* The request, with any token that was issued, is resolved anew.
PostResolve(p, t) ==
    /\ pc = "idle" /\ launch[p] = NoLaunch /\ token[t] # NoToken
    /\ \E d \in {head, Reopen} :
          cur' = [post |-> p, tok |-> t, digest |-> d, trusted |-> FALSE]
    /\ pc' = "decode"
    /\ UNCHANGED <<now, crashes, head, token, tables, scheduled>>

\* Mutant: the token's digest is not compared with the request's.
TokenAcceptedAnyDigest == /\ token[cur.tok].secret = crashes
                          /\ token[cur.tok].exp >= now

\* Signature, expiry and request digest of the token that was posted.
TokenAccepted == /\ token[cur.tok].secret = crashes
                 /\ token[cur.tok].exp >= now
                 /\ token[cur.tok].digest = cur.digest

PostDecode ==
    /\ pc = "decode"
    /\ IF TokenAccepted THEN pc' = "consume" /\ UNCHANGED cur ELSE Return
    /\ UNCHANGED <<now, crashes, head, token, tables, scheduled>>

\* Mutant: the replay table's primary key is not enforced.
ConsumeJtiReplayed ==
    /\ pc = "consume"
    /\ spent' = spent \cup {cur.tok} /\ pc' = "find"
    /\ UNCHANGED <<now, crashes, head, token, launch, chal, trust, granted, cur, scheduled>>

\* consume_launch_jti: the insert fails if the jti is there.
ConsumeJti ==
    /\ pc = "consume"
    /\ IF cur.tok \in spent THEN Return /\ UNCHANGED spent
       ELSE spent' = spent \cup {cur.tok} /\ pc' = "find" /\ UNCHANGED cur
    /\ UNCHANGED <<now, crashes, head, token, launch, chal, trust, granted, scheduled>>

\* Mutant: a trusted commit covers the whole repository.
CoversAnyCommit(records, d) == d # Reopen /\ records # {}

\* TrustStore.find over these records; a reopen has no source to look up.
Covers(records, d) == d # Reopen /\ {Repository, d} \cap records # {}

FindTrust ==
    /\ pc = "find"
    /\ cur' = [cur EXCEPT !.trusted = Covers(trust, cur.digest)]
    /\ pc' = "create"
    /\ UNCHANGED <<now, crashes, head, token, tables, scheduled>>

\* Mutant: a reopen without a trusted source is pending like a remote launch.
CreateLaunchReopenPending ==
    /\ pc = "create"
    /\ launch' = [launch EXCEPT ![cur.post] =
                     [state |-> IF cur.trusted THEN "authorized" ELSE "pending_trust",
                      digest |-> cur.digest, tok |-> cur.tok]]
    /\ pc' = IF cur.trusted THEN "schedule" ELSE "challenge"
    /\ UNCHANGED <<now, crashes, head, token, spent, chal, trust, granted, cur, scheduled>>

\* StateLaunchStarter.start, first transaction: create_launch.
CreateLaunch ==
    LET ok == cur.trusted \/ cur.digest = Reopen IN
    /\ pc = "create"
    /\ launch' = [launch EXCEPT ![cur.post] =
                     [state |-> IF ok THEN "authorized" ELSE "pending_trust",
                      digest |-> cur.digest, tok |-> cur.tok]]
    /\ pc' = IF ok THEN "schedule" ELSE "challenge"
    /\ UNCHANGED <<now, crashes, head, token, spent, chal, trust, granted, cur, scheduled>>

\* Second transaction: the source and the challenge.
CreateChallenge ==
    /\ pc = "challenge"
    /\ chal' = [chal EXCEPT ![cur.post] =
                   [open |-> TRUE, exp |-> now + ChallengeTtl, used |-> FALSE]]
    /\ Return
    /\ UNCHANGED <<now, crashes, head, token, spent, launch, trust, granted, scheduled>>

\* Mutant: an authorised launch is answered but not scheduled.
ScheduleForgotten ==
    /\ pc = "schedule"
    /\ Return
    /\ UNCHANGED <<now, crashes, head, token, tables, scheduled>>

\* pipeline.schedule and schedule_authorized.
Schedule ==
    /\ pc = "schedule"
    /\ scheduled' = scheduled \cup {cur.post}
    /\ Return
    /\ UNCHANGED <<now, crashes, head, token, tables>>

\* The worker: run() starts only a launch that is authorised.
RunBegin(p) ==
    /\ p \in scheduled
    /\ scheduled' = scheduled \ {p}
    /\ launch' = IF launch[p].state = "authorized"
                 THEN [launch EXCEPT ![p].state = "starting"] ELSE launch
    /\ UNCHANGED <<now, crashes, head, token, spent, chal, trust, granted, pc, cur>>

-----------------------------------------------------------------------------
(* POST /api/launches/{id}/trust *)

\* The challenge exists, is unused and has not expired.
Answerable(p) == chal[p].open /\ ~chal[p].used /\ chal[p].exp >= now

\* deny: one transaction, undone if the launch is not pending.
Deny(p) ==
    /\ pc = "idle"
    /\ Answerable(p) /\ launch[p].state = "pending_trust"
    /\ chal' = [chal EXCEPT ![p].used = TRUE]
    /\ launch' = [launch EXCEPT ![p].state = "failed"]
    /\ UNCHANGED <<now, crashes, head, token, spent, trust, granted, pc, cur, scheduled>>

\* _verify_trust_source_unchanged: the ref still resolves to the saved commit.
VerifySource(p) ==
    /\ pc = "idle" /\ chal[p].open
    /\ head = launch[p].digest
    /\ cur' = [NoCur EXCEPT !.post = p] /\ pc' = "complete"
    /\ UNCHANGED <<now, crashes, head, token, tables, scheduled>>

\* complete_trust: one transaction grants the trust (or finds it granted),
\* uses the challenge up and authorises the launch.
CompleteTrust ==
    LET p == cur.post IN
    /\ pc = "complete"
    /\ IF Answerable(p) /\ launch[p].state = "pending_trust"
       THEN /\ \E scope \in {launch[p].digest, Repository} :
                  trust' = trust \cup {scope} /\ granted' = granted \cup {scope}
            /\ chal' = [chal EXCEPT ![p].used = TRUE]
            /\ launch' = [launch EXCEPT ![p].state = "authorized"]
            /\ pc' = "schedule" /\ UNCHANGED cur
       ELSE Return /\ UNCHANGED <<trust, granted, chal, launch>>
    /\ UNCHANGED <<now, crashes, head, token, spent, scheduled>>

-----------------------------------------------------------------------------
(* The rest of the world *)

\* `notebook-launcher trust revoke`, beside whatever the server does.
Revoke(r) ==
    /\ r \in trust /\ trust' = trust \ {r}
    /\ UNCHANGED <<now, crashes, head, token, spent, launch, chal, granted, pc, cur, scheduled>>

\* Somebody pushes: the ref resolves to another commit from now on.
Push(c) ==
    /\ c # head /\ head' = c
    /\ UNCHANGED <<now, crashes, token, tables, pc, cur, scheduled>>

Tick ==
    /\ now < MaxTime /\ now' = now + 1
    /\ UNCHANGED <<crashes, head, token, tables, pc, cur, scheduled>>

\* The server stops anywhere and starts again with a fresh token secret.
Crash ==
    /\ crashes < MaxCrashes /\ crashes' = crashes + 1
    /\ Return /\ scheduled' = {}
    /\ UNCHANGED <<now, head, token, tables>>

Handler == PostDecode \/ ConsumeJti \/ FindTrust \/ CreateLaunch \/ CreateChallenge
           \/ Schedule \/ CompleteTrust

Next ==
    \/ \E t \in Tokens : Preview(t) \/ \E p \in Posts : PostResolve(p, t)
    \/ Handler
    \/ \E p \in Posts : RunBegin(p) \/ Deny(p) \/ VerifySource(p)
    \/ \E r \in Scopes : Revoke(r)
    \/ \E c \in Commits : Push(c)
    \/ Tick \/ Crash

Spec == Init /\ [][Next]_vars

\* A handler that runs runs on, and the executor takes what it is given.
FairSpec == Spec /\ WF_vars(Handler) /\ \A p \in Posts : WF_vars(RunBegin(p))

-----------------------------------------------------------------------------
(* Properties *)

Token  == [digest : Digests \cup {None}, exp : 0..(MaxTime + Ttl), secret : 0..MaxCrashes]
Launch == [state : {"absent", "pending_trust", "authorized", "starting", "failed"},
           digest : Digests \cup {None}, tok : Tokens \cup {None}]
Chal   == [open : BOOLEAN, exp : 0..(MaxTime + ChallengeTtl), used : BOOLEAN]
Cur    == [post : Posts \cup {None}, tok : Tokens \cup {None},
           digest : Digests \cup {None}, trusted : BOOLEAN]

\* Types.  A challenge belongs to a launch of a remote source: a reopen and an
\* absent launch have none.
TypeOK ==
    /\ now \in 0..MaxTime /\ crashes \in 0..MaxCrashes /\ head \in Commits
    /\ token \in [Tokens -> Token]
    /\ spent \subseteq Tokens /\ trust \subseteq Scopes /\ granted \subseteq Scopes
    /\ launch \in [Posts -> Launch] /\ chal \in [Posts -> Chal]
    /\ pc \in {"idle", "decode", "consume", "find", "create", "challenge", "schedule", "complete"}
    /\ cur \in Cur
    /\ scheduled \subseteq Posts
    /\ \A p \in Posts : chal[p].open => launch[p].digest \in Commits

Launched == {p \in Posts : launch[p] # NoLaunch}

\* A token starts at most one launch, however often its page is posted and
\* wherever the server crashes in between.
OneLaunchPerToken == \A p, q \in Launched : launch[p].tok = launch[q].tok => p = q

\* What is launched is what the preview page of the token showed, even when the
\* repository moved between the preview, the post and the trust decision.
PreviewedSource == \A p \in Launched : launch[p].digest = token[launch[p].tok].digest

\* A remote source is authorised only if the user has at some time trusted its
\* commit, or the repository.
NothingRunsUntrusted ==
    \A p \in Launched :
        launch[p].state \in {"authorized", "starting"} /\ launch[p].digest # Reopen
        => {Repository, launch[p].digest} \cap granted # {}

\* A launch that a server authorises is started, unless that very server crashes
\* first, also after an earlier crash: a restart takes up no authorised launch.
AuthorizedStarts ==
    \A p \in Posts, c \in 0..MaxCrashes :
        [](launch[p].state # "authorized" /\ crashes = c =>
              ((launch[p].state = "authorized" /\ crashes = c)
               ~> (launch[p].state = "starting" \/ crashes > c)))
=============================================================================
