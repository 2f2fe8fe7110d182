------------------------------- MODULE Grants -------------------------------
(***************************************************************************)
(* The authorization server of TG11 Accounts: sessions, consents,          *)
(* authorization codes and the tokens minted from them (tg11/oidc.py and   *)
(* the handlers of tg11/web.py that call it).                              *)
(*                                                                         *)
(* Concurrency.  One uvicorn worker serves everything.                     *)
(*                                                                         *)
(*  - Plain `def` handlers run on a thread pool.  Each one reads committed *)
(*    rows, changes ORM objects in memory and commits when get_db resumes  *)
(*    after the handler: an action named Begin... takes the reads, the     *)
(*    action named Commit... applies the columns the handler assigned, and *)
(*    other requests commit in between.                                    *)
(*                                                                         *)
(*  - POST /oauth/token is `async`: its body runs on the event loop with   *)
(*    no await between its reads and its first flush, which takes SQLite's *)
(*    write lock; only the commit runs later, on a thread.  `loop` is the  *)
(*    queue of token requests whose body has run: they commit in order.    *)
(*                                                                         *)
(* A request that changes nothing in the database (a page, a refusal) is   *)
(* no step.  Times are abstracted: a code, a token or a session that is    *)
(* still valid may expire at any moment.                                   *)
(***************************************************************************)
EXTENDS Integers, Sequences

CONSTANTS
    User,           \* accounts
    Client,         \* registered applications
    Trusted,        \* the clients that skip the consent screen
    Scope,          \* scopes beyond the mandatory "openid"
    OfflineAccess,  \* the scope that asks for a refresh token
    AllowedScope,   \* AllowedScope[c]: oauth_clients.allowed_scopes
    Session,        \* identifiers of login sessions
    Code,           \* identifiers of authorization codes
    Response,       \* identifiers of token responses (an access token, and
                    \* the refresh token minted with it if there is one)
    NoResponse,     \* the parent of a response minted from a code
    Thread,         \* worker threads: requests of `def` handlers in flight
    MaxLoop         \* bound on token requests between body and commit

ASSUME GrantsAssumption ==
    /\ Trusted \subseteq Client
    /\ OfflineAccess \in Scope
    /\ AllowedScope \in [Client -> SUBSET Scope]
    /\ NoResponse \notin Response
    /\ MaxLoop \in Nat

VARIABLES
    active,     \* users.is_active
    sessions,   \* user_sessions
    consents,   \* consents, one row at most per user and client
    codes,      \* authorization_codes
    responses,  \* tokens, grouped by the response that carried them
    threads,    \* what each in-flight `def` request has read
    loop,       \* token requests whose body has run, oldest first
    asked       \* history: what each user has allowed each client on the
                \* consent screen, ever and since the last withdrawal

vars == <<active, sessions, consents, codes, responses, threads, loop, asked>>

-----------------------------------------------------------------------------
(* Rows *)

NoRow == [status |-> "none"]

SessionRow == [status: {"live", "expired", "revoked"}, user: User]

ConsentRow == [status: {"none", "given", "revoked"}, scope: SUBSET Scope]

\* `replayed` is history: the code was presented again after its redemption.
CodeRow == [status: {"open", "expired", "used"}, user: User, client: Client,
            session: Session, scope: SUBSET Scope, replayed: BOOLEAN]

TokenStatus == {"none", "live", "expired", "revoked"}

\* `code`, `parent` and `reused` are history: the code the response descends
\* from, the response whose refresh token was exchanged for it, and whether
\* its own refresh token was presented again after it had been exchanged.
ResponseRow == [access: TokenStatus \ {"none"}, refresh: TokenStatus,
                user: User, client: Client, session: Session,
                scope: SUBSET Scope, code: Code,
                parent: Response \cup {NoResponse}, reused: BOOLEAN]

(* Requests in flight *)

Idle == [op |-> "idle"]

Job ==
         {Idle}
    \cup [op: {"authorize"}, session: Session, user: User, client: Client,
          scope: SUBSET Scope]
    \cup [op: {"consent"}, user: User, client: Client, scope: SUBSET Scope,
          row: ConsentRow]
    \cup [op: {"withdraw"}, user: User, client: Client, hit: BOOLEAN,
          tokens: SUBSET Response]
    \cup [op: {"end"}, sessions: SUBSET Session, tokens: SUBSET Response]
    \cup [op: {"revoke"}, token: Response, kind: {"access", "refresh"}]

Exchange == [op: {"mint"}, code: Code] \cup [op: {"rotate"}, from: Response]

TypeOK ==
    /\ active \in [User -> BOOLEAN]
    /\ sessions \in [Session -> SessionRow \cup {NoRow}]
    /\ consents \in [User -> [Client -> ConsentRow]]
    /\ codes \in [Code -> CodeRow \cup {NoRow}]
    /\ responses \in [Response -> ResponseRow \cup {NoRow}]
    /\ threads \in [Thread -> Job]
    /\ loop \in Seq(Exchange)
    /\ asked \in [User -> [Client -> [ever: SUBSET Scope, since: SUBSET Scope]]]

Init ==
    /\ active = [u \in User |-> TRUE]
    /\ sessions = [s \in Session |-> NoRow]
    /\ consents = [u \in User |-> [c \in Client |->
                                     [status |-> "none", scope |-> {}]]]
    /\ codes = [k \in Code |-> NoRow]
    /\ responses = [r \in Response |-> NoRow]
    /\ threads = [t \in Thread |-> Idle]
    /\ loop = <<>>
    /\ asked = [u \in User |-> [c \in Client |-> [ever |-> {}, since |-> {}]]]

-----------------------------------------------------------------------------
(* State predicates and updates shared by the handlers *)

Exists(row) == row # NoRow

\* Mutant of SignedIn: the session's revocation and expiry are not looked at.
SignedInWhenever(s) == Exists(sessions[s]) /\ active[sessions[s].user]

\* accounts.valid_session and current_user_optional: who a session signs in.
SignedIn(s) == /\ Exists(sessions[s])
               /\ sessions[s].status = "live"
               /\ active[sessions[s].user]

\* Mutants of HasConsent: the scopes, or the revocation, are not looked at.
HasAnyConsent(u, c, sc) == c \in Trusted \/ consents[u][c].status = "given"
HasHadConsent(u, c, sc) == \/ c \in Trusted
                           \/ /\ consents[u][c].status # "none"
                              /\ sc \subseteq consents[u][c].scope

\* oidc.has_consent
HasConsent(u, c, sc) == \/ c \in Trusted
                        \/ /\ consents[u][c].status = "given"
                           /\ sc \subseteq consents[u][c].scope

\* The tokens a query by session, or by user and client, returns.  Selecting
\* the rows that are already revoked too changes nothing: see Revoked.
TokensOfSessions(S) ==
    {r \in Response : Exists(responses[r]) /\ responses[r].session \in S}
TokensOfGrant(u, c) ==
    {r \in Response : /\ Exists(responses[r])
                      /\ responses[r].user = u /\ responses[r].client = c}

\* `t.revoked_at = utcnow()` on a token row, if there is one.
Revoked(status) == IF status = "none" THEN "none" ELSE "revoked"

RevokeAll(S) ==
    responses' = [r \in Response |->
        IF r \in S /\ Exists(responses[r])
        THEN [responses[r] EXCEPT !.access = Revoked(@), !.refresh = Revoked(@)]
        ELSE responses[r]]

\* A request is handed to a free worker thread with what it has read, and
\* gives the thread back when its dependencies are torn down.
Start(t, job) == /\ threads[t] = Idle
                 /\ threads' = [threads EXCEPT ![t] = job]
Finish(t)     == threads' = [threads EXCEPT ![t] = Idle]

-----------------------------------------------------------------------------
(* Sessions *)

\* A successful sign-in (password, second factor or registration) inserts a
\* session row.
SignIn(u, s) ==
    /\ active[u]
    /\ ~Exists(sessions[s])
    /\ sessions' = [sessions EXCEPT ![s] = [status |-> "live", user |-> u]]
    /\ UNCHANGED <<active, consents, codes, responses, threads, loop, asked>>

\* The handlers that end sessions collect the session rows to revoke and the
\* token rows that belong to them.
BeginEnd(t, S) ==
    /\ Start(t, [op |-> "end", sessions |-> S, tokens |-> TokensOfSessions(S)])
    /\ UNCHANGED <<active, sessions, consents, codes, responses, loop, asked>>

\* POST /logout and GET /oauth/logout: the cookie names the session, whatever
\* state its row is in.
Logout(t, s) == Exists(sessions[s]) /\ BeginEnd(t, {s})

\* POST /account/sessions/{sid}/revoke, from any session of the same user.
RevokeSession(t, s, target) ==
    /\ SignedIn(s)
    /\ Exists(sessions[target])
    /\ sessions[target].user = sessions[s].user
    /\ BeginEnd(t, {target})

Unrevoked(u) ==
    {s \in Session : /\ Exists(sessions[s])
                     /\ sessions[s].user = u
                     /\ sessions[s].status # "revoked"}

\* POST /account/password ends every other session of the user, and
\* POST /password/reset/{token} ends them all.
ChangePassword(t, s) ==
    SignedIn(s) /\ BeginEnd(t, Unrevoked(sessions[s].user) \ {s})
ResetPassword(t, u) == BeginEnd(t, Unrevoked(u))

CommitEnd(t) ==
    /\ threads[t].op = "end"
    /\ sessions' = [s \in Session |->
                      IF s \in threads[t].sessions /\ Exists(sessions[s])
                      THEN [sessions[s] EXCEPT !.status = "revoked"]
                      ELSE sessions[s]]
    /\ RevokeAll(threads[t].tokens)
    /\ Finish(t)
    /\ UNCHANGED <<active, consents, codes, loop, asked>>

-----------------------------------------------------------------------------
(* GET and POST /oauth/authorize, and the withdrawal of a consent *)

\* The request passes every check and will be answered with a code.
Authorize(t, s, c, sc) ==
    /\ sc \subseteq AllowedScope[c]
    /\ SignedIn(s)
    /\ HasConsent(sessions[s].user, c, sc)
    /\ Start(t, [op |-> "authorize", session |-> s, user |-> sessions[s].user,
                 client |-> c, scope |-> sc])
    /\ UNCHANGED <<active, sessions, consents, codes, responses, loop, asked>>

CommitAuthorize(t, k) ==
    /\ threads[t].op = "authorize"
    /\ ~Exists(codes[k])
    /\ codes' = [codes EXCEPT ![k] =
                   [status |-> "open", user |-> threads[t].user,
                    client |-> threads[t].client,
                    session |-> threads[t].session,
                    scope |-> threads[t].scope, replayed |-> FALSE]]
    /\ Finish(t)
    /\ UNCHANGED <<active, sessions, consents, responses, loop, asked>>

\* The user presses "allow": grant_consent reads the consent row.
AllowConsent(t, s, c, sc) ==
    /\ sc \subseteq AllowedScope[c]
    /\ SignedIn(s)
    /\ Start(t, [op |-> "consent", user |-> sessions[s].user, client |-> c,
                 scope |-> sc, row |-> consents[sessions[s].user][c]])
    /\ UNCHANGED <<active, sessions, consents, codes, responses, loop, asked>>

\* What the flush of grant_consent may make of the row as it is now, given the
\* row as it was read.  The new scope is the union with what was read, and a
\* column is written only if the request changed it: when the union adds
\* nothing, the text may still differ, since the union is stored sorted.
GrantedRows(read, sc, row) ==
    [status: {IF read.status = "given" THEN row.status ELSE "given"},
     scope:  IF sc \subseteq read.scope THEN {row.scope, read.scope}
                                        ELSE {read.scope \cup sc}]

\* An insert that meets the row another request inserted in the meantime
\* breaks uq_consent_user_client, and the request is rolled back.
CommitConsent(t) ==
    /\ threads[t].op = "consent"
    /\ LET job == threads[t]
           row == consents[job.user][job.client]
       IN  /\ job.row.status = "none" => row.status = "none"
           /\ \E new \in GrantedRows(job.row, job.scope, row) :
                consents' = [consents EXCEPT ![job.user][job.client] = new]
           /\ asked' = [asked EXCEPT ![job.user][job.client] =
                          [ever  |-> @.ever \cup job.scope,
                           since |-> @.since \cup job.scope]]
    /\ Finish(t)
    /\ UNCHANGED <<active, sessions, codes, responses, loop>>

\* POST /account/consents/{client_id}/revoke assigns revoked_at to the row in
\* any state; POST /connections/revoke only to a row that is in force.
BeginWithdraw(t, s, c, states) ==
    /\ SignedIn(s)
    /\ LET u == sessions[s].user
       IN  Start(t, [op |-> "withdraw", user |-> u, client |-> c,
                     hit |-> consents[u][c].status \in states,
                     tokens |-> TokensOfGrant(u, c)])
    /\ UNCHANGED <<active, sessions, consents, codes, responses, loop, asked>>

RevokeConsent(t, s, c) == BeginWithdraw(t, s, c, {"given", "revoked"})
Disconnect(t, s, c)    == BeginWithdraw(t, s, c, {"given"})

CommitWithdraw(t) ==
    /\ threads[t].op = "withdraw"
    /\ LET job == threads[t]
       IN  /\ consents' = IF job.hit
                          THEN [consents EXCEPT ![job.user][job.client].status
                                  = "revoked"]
                          ELSE consents
           /\ asked' = IF job.hit
                       THEN [asked EXCEPT ![job.user][job.client].since = {}]
                       ELSE asked
           /\ RevokeAll(job.tokens)
    /\ Finish(t)
    /\ UNCHANGED <<active, sessions, codes, loop>>

-----------------------------------------------------------------------------
(* POST /oauth/token with grant_type=authorization_code *)

\* Mutant of RedeemCode: the code is not marked used.
RedeemUnmarked(k, c, proved) ==
    /\ loop = <<>>
    /\ Exists(codes[k])
    /\ codes[k].status = "open"
    /\ codes[k].client = c
    /\ loop' = IF proved THEN <<[op |-> "mint", code |-> k]>> ELSE <<>>
    /\ UNCHANGED <<active, sessions, consents, codes, responses, threads, asked>>

\* redeem_code finds the code unused, marks it used and commits, all in the
\* handler's body; the commit needs the write lock, so no earlier token
\* request still holds it.  The redirect URI and the PKCE verifier (`proved`)
\* are looked at only then: if they are wrong, or the user is inactive, the
\* code is spent and nothing is minted.
RedeemCode(k, c, proved) ==
    /\ loop = <<>>
    /\ Exists(codes[k])
    /\ codes[k].status = "open"
    /\ codes[k].client = c
    /\ codes' = [codes EXCEPT ![k].status = "used"]
    /\ loop' = IF proved /\ active[codes[k].user]
               THEN <<[op |-> "mint", code |-> k]>>
               ELSE <<>>
    /\ UNCHANGED <<active, sessions, consents, responses, threads, asked>>

\* A code that was used already: the revocations assigned to the tokens of
\* its session are rolled back with the error, and the request is refused.
ReplayCode(k, c) ==
    /\ Exists(codes[k])
    /\ codes[k].status = "used"
    /\ codes[k].client = c
    /\ codes' = [codes EXCEPT ![k].replayed = TRUE]
    /\ UNCHANGED <<active, sessions, consents, responses, threads, loop, asked>>

\* Mutants of NewResponse: the two kinds swapped, or the client's scopes for the
\* code's.
SwappedResponse(row, k, parent) ==
    [access |-> IF OfflineAccess \in row.scope THEN "live" ELSE "none",
     refresh |-> "live",
     user |-> row.user, client |-> row.client, session |-> row.session,
     scope |-> row.scope, code |-> k, parent |-> parent, reused |-> FALSE]
WideResponse(row, k, parent) ==
    [access |-> "live", refresh |-> "live",
     user |-> row.user, client |-> row.client, session |-> row.session,
     scope |-> AllowedScope[row.client], code |-> k, parent |-> parent,
     reused |-> FALSE]

\* oidc.token_response: an access token, and a refresh token if the scope asks
\* for offline access.
NewResponse(row, k, parent) ==
    [access |-> "live",
     refresh |-> IF OfflineAccess \in row.scope THEN "live" ELSE "none",
     user |-> row.user, client |-> row.client, session |-> row.session,
     scope |-> row.scope, code |-> k, parent |-> parent, reused |-> FALSE]

CommitMint(r) ==
    /\ loop # <<>>
    /\ Head(loop).op = "mint"
    /\ ~Exists(responses[r])
    /\ responses' = [responses EXCEPT ![r] =
                       NewResponse(codes[Head(loop).code], Head(loop).code,
                                   NoResponse)]
    /\ loop' = Tail(loop)
    /\ UNCHANGED <<active, sessions, consents, codes, threads, asked>>

-----------------------------------------------------------------------------
(* POST /oauth/token with grant_type=refresh_token *)

\* oidc.refresh reads the row of the refresh token and the user, not the
\* session and not the consent.
Refresh(r, c) ==
    /\ Len(loop) < MaxLoop
    /\ Exists(responses[r])
    /\ responses[r].refresh = "live"
    /\ responses[r].client = c
    /\ active[responses[r].user]
    /\ loop' = Append(loop, [op |-> "rotate", from |-> r])
    /\ UNCHANGED <<active, sessions, consents, codes, responses, threads, asked>>

\* Mutant of CommitRotate: the refresh token stays live.
CommitUnrotated(r) ==
    /\ loop # <<>>
    /\ Head(loop).op = "rotate"
    /\ ~Exists(responses[r])
    /\ LET old == responses[Head(loop).from]
       IN  responses' = [responses EXCEPT ![r] = NewResponse(old, old.code, Head(loop).from)]
    /\ loop' = Tail(loop)
    /\ UNCHANGED <<active, sessions, consents, codes, threads, asked>>

\* The commit revokes the refresh token and inserts the new pair, whatever
\* other requests have committed since the row was read.
CommitRotate(r) ==
    /\ loop # <<>>
    /\ Head(loop).op = "rotate"
    /\ ~Exists(responses[r])
    /\ LET old == Head(loop).from
       IN  responses' = [responses EXCEPT
                           ![old].refresh = "revoked",
                           ![r] = NewResponse(responses[old],
                                              responses[old].code, old)]
    /\ loop' = Tail(loop)
    /\ UNCHANGED <<active, sessions, consents, codes, threads, asked>>

Children(r) == {n \in Response : Exists(responses[n]) /\ responses[n].parent = r}

\* A refresh token that was exchanged before is refused, and that is all.
ReuseRefresh(r, c) ==
    /\ Exists(responses[r])
    /\ responses[r].refresh = "revoked"
    /\ responses[r].client = c
    /\ Children(r) # {}
    /\ responses' = [responses EXCEPT ![r].reused = TRUE]
    /\ UNCHANGED <<active, sessions, consents, codes, threads, loop, asked>>

-----------------------------------------------------------------------------
(* POST /oauth/revoke: its body flushes nothing, so it takes no lock before  *)
(* its commit.  No token row has a parent_id, so the loop over children in   *)
(* revoke_token finds none.                                                  *)

RevokeToken(t, r, kind, c) ==
    /\ Exists(responses[r])
    /\ responses[r].client = c
    /\ responses[r][kind] # "none"
    /\ Start(t, [op |-> "revoke", token |-> r, kind |-> kind])
    /\ UNCHANGED <<active, sessions, consents, codes, responses, loop, asked>>

CommitRevoke(t) ==
    /\ threads[t].op = "revoke"
    /\ responses' = [responses EXCEPT ![threads[t].token] =
                       IF threads[t].kind = "access"
                       THEN [@ EXCEPT !.access = "revoked"]
                       ELSE [@ EXCEPT !.refresh = "revoked"]]
    /\ Finish(t)
    /\ UNCHANGED <<active, sessions, consents, codes, loop, asked>>

-----------------------------------------------------------------------------
(* Failures, time and the administrator *)

\* A request in flight fails (the database stays locked for 30 seconds, the
\* process is killed): get_db rolls back and nothing of it is committed.
RequestFails(t) ==
    /\ threads[t] # Idle
    /\ Finish(t)
    /\ UNCHANGED <<active, sessions, consents, codes, responses, loop, asked>>

ExchangeFails(i) ==
    /\ i \in 1..Len(loop)
    /\ loop' = SubSeq(loop, 1, i - 1) \o SubSeq(loop, i + 1, Len(loop))
    /\ UNCHANGED <<active, sessions, consents, codes, responses, threads, asked>>

ExpireSession(s) ==
    /\ Exists(sessions[s])
    /\ sessions[s].status = "live"
    /\ sessions' = [sessions EXCEPT ![s].status = "expired"]
    /\ UNCHANGED <<active, consents, codes, responses, threads, loop, asked>>

ExpireCode(k) ==
    /\ Exists(codes[k])
    /\ codes[k].status = "open"
    /\ codes' = [codes EXCEPT ![k].status = "expired"]
    /\ UNCHANGED <<active, sessions, consents, responses, threads, loop, asked>>

ExpireToken(r, kind) ==
    /\ Exists(responses[r])
    /\ responses[r][kind] = "live"
    /\ responses' = [responses EXCEPT ![r] =
                       IF kind = "access" THEN [@ EXCEPT !.access = "expired"]
                                          ELSE [@ EXCEPT !.refresh = "expired"]]
    /\ UNCHANGED <<active, sessions, consents, codes, threads, loop, asked>>

\* No code in the service sets users.is_active: an administrator edits it.
SetActive(u) ==
    /\ active' = [active EXCEPT ![u] = ~@]
    /\ UNCHANGED <<sessions, consents, codes, responses, threads, loop, asked>>

-----------------------------------------------------------------------------

SessionNext ==
    \/ \E u \in User, s \in Session : SignIn(u, s)
    \/ \E t \in Thread, s \in Session : Logout(t, s) \/ ChangePassword(t, s)
    \/ \E t \in Thread, s, target \in Session : RevokeSession(t, s, target)
    \/ \E t \in Thread, u \in User : ResetPassword(t, u)
    \/ \E t \in Thread : CommitEnd(t)

ConsentNext ==
    \/ \E t \in Thread, s \in Session, c \in Client, sc \in SUBSET Scope :
         Authorize(t, s, c, sc) \/ AllowConsent(t, s, c, sc)
    \/ \E t \in Thread, s \in Session, c \in Client :
         RevokeConsent(t, s, c) \/ Disconnect(t, s, c)
    \/ \E t \in Thread, k \in Code : CommitAuthorize(t, k)
    \/ \E t \in Thread : CommitConsent(t) \/ CommitWithdraw(t)

TokenNext ==
    \/ \E k \in Code, c \in Client :
         (\E proved \in BOOLEAN : RedeemCode(k, c, proved)) \/ ReplayCode(k, c)
    \/ \E r \in Response : CommitMint(r) \/ CommitRotate(r)
    \/ \E r \in Response, c \in Client : Refresh(r, c) \/ ReuseRefresh(r, c)
    \/ \E t \in Thread, r \in Response, kind \in {"access", "refresh"},
          c \in Client : RevokeToken(t, r, kind, c)
    \/ \E t \in Thread : CommitRevoke(t)

EnvironmentNext ==
    \/ \E t \in Thread : RequestFails(t)
    \/ \E i \in 1..MaxLoop : ExchangeFails(i)
    \/ \E s \in Session : ExpireSession(s)
    \/ \E k \in Code : ExpireCode(k)
    \/ \E r \in Response, kind \in {"access", "refresh"} : ExpireToken(r, kind)
    \/ \E u \in User : SetActive(u)

Next == SessionNext \/ ConsentNext \/ TokenNext \/ EnvironmentNext

Spec == Init /\ [][Next]_vars

-----------------------------------------------------------------------------
(* Safety *)

Issued == {r \in Response : Exists(responses[r])}

\* However many requests present the same authorization code, and whatever
\* fails or overlaps in between, at most one of them is answered with tokens:
\* redeem_code commits used_at before anything is minted.
CodeExchangedOnce ==
    \A r1, r2 \in Issued :
        /\ responses[r1].parent = NoResponse
        /\ responses[r2].parent = NoResponse
        /\ responses[r1].code = responses[r2].code
        => r1 = r2

\* A token carries the user, client, session and scope of the authorization
\* code it descends from, through every rotation, and that code has been used:
\* a refresh can neither widen a grant nor move it to another account,
\* application or session.
TokensMatchCode ==
    \A r \in Issued :
        LET row == responses[r]
            code == codes[row.code]
        IN  /\ Exists(code)
            /\ code.status = "used"
            /\ row.user = code.user /\ row.client = code.client
            /\ row.session = code.session /\ row.scope = code.scope

\* A code for an application that is not trusted carries only scopes its user
\* has allowed that application on the consent screen at some time, and so
\* does the consent on record, although consents are read, merged and written
\* back by requests that overlap.
WithinApproval ==
    /\ \A u \in User, c \in Client : consents[u][c].scope \subseteq asked[u][c].ever
    /\ \A k \in Code : Exists(codes[k]) /\ codes[k].client \notin Trusted =>
         codes[k].scope \subseteq asked[codes[k].user][codes[k].client].ever

\* What a request in flight relies on is there when it commits: a queued
\* exchange belongs to a code that was used and has no tokens yet, only the
\* oldest one can be such an exchange, and the token to rotate or to revoke has
\* a row.
QueueOK ==
    \A i \in DOMAIN loop :
        /\ loop[i].op = "mint" =>
             /\ i = 1
             /\ Exists(codes[loop[i].code])
             /\ codes[loop[i].code].status = "used"
             /\ \A r \in Issued : responses[r].code # loop[i].code
        /\ loop[i].op = "rotate" => Exists(responses[loop[i].from])

\* A request that will store scopes has read them where they were allowed.
JobsOK ==
    \A t \in Thread :
        LET job == threads[t]
        IN  /\ job.op = "authorize" /\ job.client \notin Trusted =>
                 job.scope \subseteq asked[job.user][job.client].ever
            /\ job.op = "consent" =>
                 job.row.scope \subseteq asked[job.user][job.client].ever
            /\ job.op = "revoke" => Exists(responses[job.token])

\* A request that will rotate or revoke a refresh token has found that there is one.
KindsOK ==
    /\ \A i \in DOMAIN loop :
         loop[i].op = "rotate" => responses[loop[i].from].refresh # "none"
    /\ \A t \in Thread :
         threads[t].op = "revoke" /\ threads[t].kind = "refresh" =>
           responses[threads[t].token].refresh # "none"

\* The inductive invariant behind the theorems of GrantsProofs.
IInv == /\ TypeOK
        /\ QueueOK
        /\ JobsOK
        /\ KindsOK
        /\ TokensMatchCode
        /\ CodeExchangedOnce
        /\ WithinApproval

(* What a grant selected by P can still be turned into tokens by *)

Jobs == {threads[t] : t \in Thread}
Queued == {loop[i] : i \in DOMAIN loop}

Outstanding(P(_)) ==
    \/ \E k \in Code : Exists(codes[k]) /\ codes[k].status = "open" /\ P(codes[k])
    \/ \E r \in Issued : responses[r].refresh = "live" /\ P(responses[r])
    \/ \E job \in Jobs : job.op = "authorize" /\ P(job)
    \/ \E x \in Queued : \/ x.op = "mint" /\ P(codes[x.code])
                         \/ x.op = "rotate" /\ P(responses[x.from])

LiveTokens(P(_)) ==
    {r \in Issued : P(responses[r]) /\ responses[r].access = "live"}

Ended(s) ==
    /\ Exists(sessions[s])
    /\ sessions[s].status # "live"
    /\ ~Outstanding(LAMBDA g : g.session = s)

\* Once a session is over and no unused code, live refresh token or request made in
\* it is left (each could still yield live tokens), nothing anybody sends brings it
\* back: it stays over and no access token of it becomes live.
EndedSessionStaysEnded ==
    [][\A s \in Session : Ended(s) =>
         /\ Ended(s)'
         /\ LiveTokens(LAMBDA g : g.session = s)'
              \subseteq LiveTokens(LAMBDA g : g.session = s)]_vars

Withdrawn(u, c) ==
    /\ c \notin Trusted
    /\ consents[u][c].status # "given"
    /\ ~Outstanding(LAMBDA g : g.user = u /\ g.client = c)
    /\ \A job \in Jobs : job.op = "consent" => <<job.user, job.client>> # <<u, c>>

\* Once a consent is withdrawn (or was never given) and no unused code, live refresh
\* token or request in flight is left (each could still yield live tokens), the
\* application gets no access to the account before the user allows it again.
WithdrawnStaysWithdrawn ==
    [][\A u \in User, c \in Client : Withdrawn(u, c) =>
         /\ Withdrawn(u, c)' \/ \E t \in Thread, s \in Session, sc \in SUBSET Scope :
              SignedIn(s) /\ sessions[s].user = u /\ AllowConsent(t, s, c, sc)
         /\ LiveTokens(LAMBDA g : g.user = u /\ g.client = c)'
              \subseteq LiveTokens(LAMBDA g : g.user = u /\ g.client = c)]_vars
=============================================================================
