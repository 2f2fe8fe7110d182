---------------------------- MODULE GrantsProofs ----------------------------
(***************************************************************************)
(* Theorems about Grants, for every number of users, clients, sessions,    *)
(* codes, tokens and overlapping requests.                                 *)
(***************************************************************************)
EXTENDS GrantsRefinement, SequenceTheorems, TLAPS

-----------------------------------------------------------------------------
(* Rows, jobs and the queue *)

\* A row is told from "no row" by its fields.
LEMMA RowsExist ==
    /\ \A x \in SessionRow : Exists(x)
    /\ \A x \in CodeRow : Exists(x)
    /\ \A x \in ResponseRow : Exists(x)
BY DEF Exists, NoRow, SessionRow, CodeRow, ResponseRow, TokenStatus

\* What a worker thread holds, by the kind of its request.
LEMMA JobKinds ==
    ASSUME NEW job \in Job
    PROVE  /\ job.op = "end" => job.sessions \subseteq Session /\ job.tokens \subseteq Response
           /\ job.op = "authorize" =>
                /\ job.session \in Session /\ job.user \in User
                /\ job.client \in Client /\ job.scope \subseteq Scope
           /\ job.op = "consent" =>
                /\ job.user \in User /\ job.client \in Client
                /\ job.scope \subseteq Scope /\ job.row \in ConsentRow
           /\ job.op = "withdraw" =>
                /\ job.user \in User /\ job.client \in Client
                /\ job.hit \in BOOLEAN /\ job.tokens \subseteq Response
           /\ job.op = "revoke" =>
                /\ job.token \in Response /\ job.kind \in {"access", "refresh"}
BY DEF Job, Idle

LEMMA ExchangeKinds ==
    ASSUME NEW x \in Exchange
    PROVE  /\ x.op = "mint" => x.code \in Code
           /\ x.op = "rotate" => x.from \in Response
           /\ x.op \in {"mint", "rotate"}
BY DEF Exchange

LEMMA RevokedStatus ==
    ASSUME NEW status \in TokenStatus
    PROVE  /\ Revoked(status) \in TokenStatus
           /\ status # "none" <=> Revoked(status) # "none"
           /\ Revoked(status) # "live"
BY DEF Revoked, TokenStatus

\* Revoking tokens keeps every row a row, in the place it had.
LEMMA RevokeAllType ==
    ASSUME NEW S, responses \in [Response -> ResponseRow \cup {NoRow}], RevokeAll(S)
    PROVE  responses' \in [Response -> ResponseRow \cup {NoRow}]
<1>1. SUFFICES ASSUME NEW r \in Response
               PROVE  responses'[r] \in ResponseRow \cup {NoRow}
  BY DEF RevokeAll
<1>2. CASE r \in S /\ Exists(responses[r])
  BY <1>2, RevokedStatus DEF RevokeAll, Exists, ResponseRow, TokenStatus
<1>3. CASE ~(r \in S /\ Exists(responses[r]))
  BY <1>3 DEF RevokeAll
<1>4. QED
  BY <1>2, <1>3

LEMMA NewResponseType ==
    ASSUME NEW row, row.user \in User, row.client \in Client,
           row.session \in Session, row.scope \subseteq Scope,
           NEW k \in Code, NEW parent \in Response \cup {NoResponse}
    PROVE  NewResponse(row, k, parent) \in ResponseRow
BY DEF NewResponse, ResponseRow, TokenStatus

LEMMA Singleton == ASSUME NEW S, NEW x \in S PROVE <<x>> \in Seq(S)
OBVIOUS

LEMMA NestedUpdate ==
    ASSUME NEW A, NEW B, NEW C, NEW f \in [A -> [B -> C]],
           NEW a \in A, NEW b \in B, NEW x \in C
    PROVE  [f EXCEPT ![a][b] = x] \in [A -> [B -> C]]
OBVIOUS

-----------------------------------------------------------------------------
(* Type correctness *)

LEMMA TypeInit == Init => TypeOK
BY DEF Init, TypeOK, Job, ConsentRow

LEMMA TypeSession == TypeOK /\ SessionNext => TypeOK'
<1> SUFFICES ASSUME TypeOK, SessionNext PROVE TypeOK'
  OBVIOUS
<1>1. ASSUME NEW u \in User, NEW s \in Session, SignIn(u, s)
      PROVE  TypeOK'
  BY <1>1 DEF SignIn, TypeOK, SessionRow
<1>2. ASSUME NEW t \in Thread, NEW S \in SUBSET Session, BeginEnd(t, S)
      PROVE  TypeOK'
  <2>1. [op |-> "end", sessions |-> S, tokens |-> TokensOfSessions(S)] \in Job
    BY DEF Job, TokensOfSessions
  <2>2. QED
    BY <1>2, <2>1 DEF BeginEnd, Start, TypeOK
<1>3. ASSUME NEW t \in Thread, CommitEnd(t)
      PROVE  TypeOK'
  <2>1. sessions' \in [Session -> SessionRow \cup {NoRow}]
    BY <1>3 DEF CommitEnd, TypeOK, SessionRow, Exists
  <2>2. responses' \in [Response -> ResponseRow \cup {NoRow}]
    BY <1>3, RevokeAllType DEF CommitEnd, TypeOK
  <2>3. QED
    BY <1>3, <2>1, <2>2 DEF CommitEnd, Finish, Idle, Job, TypeOK
<1>4. QED
  BY <1>1, <1>2, <1>3
  DEF SessionNext, Logout, RevokeSession, ChangePassword, ResetPassword, Unrevoked

LEMMA TypeConsent == TypeOK /\ ConsentNext => TypeOK'
<1> SUFFICES ASSUME TypeOK, ConsentNext PROVE TypeOK'
  OBVIOUS
<1>1. ASSUME NEW t \in Thread, NEW s \in Session, NEW c \in Client,
             NEW sc \in SUBSET Scope, Authorize(t, s, c, sc)
      PROVE  TypeOK'
  <2>1. sessions[s].user \in User
    BY <1>1 DEF Authorize, SignedIn, TypeOK, SessionRow, Exists
  <2>2. [op |-> "authorize", session |-> s, user |-> sessions[s].user,
         client |-> c, scope |-> sc] \in Job
    BY <2>1 DEF Job
  <2>3. QED
    BY <1>1, <2>2 DEF Authorize, Start, TypeOK
<1>2. ASSUME NEW t \in Thread, NEW k \in Code, CommitAuthorize(t, k)
      PROVE  TypeOK'
  <2>1. threads[t] \in Job /\ threads[t].op = "authorize"
    BY <1>2 DEF CommitAuthorize, TypeOK
  <2>2. [status |-> "open", user |-> threads[t].user,
         client |-> threads[t].client, session |-> threads[t].session,
         scope |-> threads[t].scope, replayed |-> FALSE] \in CodeRow
    BY <2>1, JobKinds DEF CodeRow
  <2>3. QED
    BY <1>2, <2>2 DEF CommitAuthorize, Finish, Idle, Job, TypeOK
<1>3. ASSUME NEW t \in Thread, NEW s \in Session, NEW c \in Client,
             NEW sc \in SUBSET Scope, AllowConsent(t, s, c, sc)
      PROVE  TypeOK'
  <2>1. sessions[s].user \in User
    BY <1>3 DEF AllowConsent, SignedIn, TypeOK, SessionRow, Exists
  <2>2. [op |-> "consent", user |-> sessions[s].user, client |-> c, scope |-> sc,
         row |-> consents[sessions[s].user][c]] \in Job
    BY <2>1 DEF Job, TypeOK
  <2>3. QED
    BY <1>3, <2>2 DEF AllowConsent, Start, TypeOK
<1>4. ASSUME NEW t \in Thread, CommitConsent(t)
      PROVE  TypeOK'
  <2>1. /\ threads[t].user \in User /\ threads[t].client \in Client
        /\ threads[t].scope \subseteq Scope /\ threads[t].row \in ConsentRow
    BY <1>4, JobKinds DEF CommitConsent, TypeOK
  <2>2. consents[threads[t].user][threads[t].client] \in ConsentRow
    BY <2>1 DEF TypeOK
  <2>3. GrantedRows(threads[t].row, threads[t].scope,
                    consents[threads[t].user][threads[t].client])
          \subseteq ConsentRow
    BY <2>1, <2>2 DEF GrantedRows, ConsentRow
  <2>4. consents' \in [User -> [Client -> ConsentRow]]
    BY <1>4, <2>1, <2>3 DEF CommitConsent, TypeOK
  <2>5. asked' \in [User -> [Client -> [ever: SUBSET Scope, since: SUBSET Scope]]]
    BY <1>4, <2>1 DEF CommitConsent, TypeOK
  <2>6. QED
    BY <1>4, <2>4, <2>5 DEF CommitConsent, Finish, Idle, Job, TypeOK
<1>5. ASSUME NEW t \in Thread, NEW s \in Session, NEW c \in Client,
             NEW states, BeginWithdraw(t, s, c, states)
      PROVE  TypeOK'
  <2>1. sessions[s].user \in User
    BY <1>5 DEF BeginWithdraw, SignedIn, TypeOK, SessionRow, Exists
  <2>2. [op |-> "withdraw", user |-> sessions[s].user, client |-> c,
         hit |-> consents[sessions[s].user][c].status \in states,
         tokens |-> TokensOfGrant(sessions[s].user, c)] \in Job
    BY <2>1 DEF Job, TokensOfGrant
  <2>3. QED
    BY <1>5, <2>2 DEF BeginWithdraw, Start, TypeOK
<1>6. ASSUME NEW t \in Thread, CommitWithdraw(t)
      PROVE  TypeOK'
  <2>1. /\ threads[t].user \in User /\ threads[t].client \in Client
        /\ threads[t].tokens \subseteq Response
    BY <1>6, JobKinds DEF CommitWithdraw, TypeOK
  <2> DEFINE u == threads[t].user
             c == threads[t].client
  <2>2. consents' \in [User -> [Client -> ConsentRow]]
    <3>1. [consents[u][c] EXCEPT !.status = "revoked"] \in ConsentRow
      <4>1. consents[u][c] \in ConsentRow
        BY <2>1 DEF TypeOK
      <4>2. QED
        BY <4>1 DEF ConsentRow
    <3>2. \/ consents' = consents
          \/ consents' = [consents EXCEPT ![u][c] =
                            [consents[u][c] EXCEPT !.status = "revoked"]]
      BY <1>6 DEF CommitWithdraw
    <3>3. [consents EXCEPT ![u][c] = [consents[u][c] EXCEPT !.status = "revoked"]]
             \in [User -> [Client -> ConsentRow]]
      BY <2>1, <3>1, NestedUpdate DEF TypeOK
    <3>4. QED
      BY <3>2, <3>3 DEF TypeOK
  <2>3. asked' \in [User -> [Client -> [ever: SUBSET Scope, since: SUBSET Scope]]]
    <3>1. [asked[u][c] EXCEPT !.since = {}]
             \in [ever: SUBSET Scope, since: SUBSET Scope]
      <4>1. asked[u][c] \in [ever: SUBSET Scope, since: SUBSET Scope]
        BY <2>1 DEF TypeOK
      <4>2. QED
        BY <4>1
    <3>2. \/ asked' = asked
          \/ asked' = [asked EXCEPT ![u][c] = [asked[u][c] EXCEPT !.since = {}]]
      BY <1>6 DEF CommitWithdraw
    <3>3. [asked EXCEPT ![u][c] = [asked[u][c] EXCEPT !.since = {}]]
             \in [User -> [Client -> [ever: SUBSET Scope, since: SUBSET Scope]]]
      BY <2>1, <3>1, NestedUpdate DEF TypeOK
    <3>4. QED
      BY <3>2, <3>3 DEF TypeOK
  <2>4. responses' \in [Response -> ResponseRow \cup {NoRow}]
    BY <1>6, RevokeAllType DEF CommitWithdraw, TypeOK
  <2>5. QED
    BY <1>6, <2>2, <2>3, <2>4 DEF CommitWithdraw, Finish, Idle, Job, TypeOK
<1>7. QED
  BY <1>1, <1>2, <1>3, <1>4, <1>5, <1>6 DEF ConsentNext, RevokeConsent, Disconnect

\* An element taken out of a sequence leaves the others in their order.
Without(q, i) == SubSeq(q, 1, i - 1) \o SubSeq(q, i + 1, Len(q))

LEMMA SequenceWithout ==
    ASSUME NEW S, NEW q \in Seq(S), NEW i \in 1..Len(q)
    PROVE  /\ Without(q, i) \in Seq(S)
           /\ Len(Without(q, i)) = Len(q) - 1
           /\ \A j \in 1..(Len(q) - 1) :
                Without(q, i)[j] = IF j < i THEN q[j] ELSE q[j + 1]
<1> DEFINE p     == Without(q, i)
           front == SubSeq(q, 1, i - 1)
           back  == SubSeq(q, i + 1, Len(q))
<1>0. Len(q) \in Nat /\ i \in Nat /\ i >= 1 /\ i <= Len(q)
  BY LenProperties
<1>1. /\ front \in Seq(S) /\ Len(front) = i - 1
      /\ \A j \in 1..(i - 1) : front[j] = q[j]
  OBVIOUS
<1>2. /\ back \in Seq(S) /\ Len(back) = Len(q) - i
      /\ \A j \in 1..(Len(q) - i) : back[j] = q[i + j]
  OBVIOUS
<1>3. p = front \o back
  BY DEF Without
<1> HIDE DEF p, front, back
<1>4. /\ p \in Seq(S) /\ Len(p) = Len(front) + Len(back)
      /\ \A j \in 1..Len(p) :
           p[j] = IF j <= Len(front) THEN front[j] ELSE back[j - Len(front)]
  <2>1. /\ front \o back \in Seq(S)
        /\ Len(front \o back) = Len(front) + Len(back)
        /\ \A j \in 1..(Len(front) + Len(back)) : (front \o back)[j] =
                 IF j <= Len(front) THEN front[j] ELSE back[j - Len(front)]
    BY <1>1, <1>2, ConcatProperties
  <2>2. QED
    BY <1>3, <2>1
<1>5. Len(p) = Len(q) - 1 /\ Len(front) = i - 1
  <2>1. Len(p) = (i - 1) + (Len(q) - i) /\ Len(front) = i - 1
    BY <1>1, <1>2, <1>4
  <2>2. (i - 1) + (Len(q) - i) = Len(q) - 1
    BY <1>0
  <2>3. QED
    BY <2>1, <2>2
<1>6. ASSUME NEW j \in 1..(Len(q) - 1)
      PROVE  p[j] = IF j < i THEN q[j] ELSE q[j + 1]
  <2>1. j \in Nat /\ j >= 1 /\ j <= Len(q) - 1
    BY <1>0, <1>5
  <2>2. p[j] = IF j <= i - 1 THEN front[j] ELSE back[j - (i - 1)]
    BY <1>4, <1>5
  <2>3. CASE j < i
    <3>1. j \in 1..(i - 1) /\ j <= i - 1
      BY <1>0, <2>1, <2>3
    <3>2. QED
      BY <1>1, <2>2, <2>3, <3>1
  <2>4. CASE ~(j < i)
    <3> DEFINE m == j - (i - 1)
    <3>1. m \in 1..(Len(q) - i) /\ i + m = j + 1 /\ ~(j <= i - 1)
      BY <1>0, <2>1, <2>4
    <3>2. p[j] = back[m]
      BY <2>2, <3>1
    <3> HIDE DEF m
    <3>3. back[m] = q[i + m]
      BY <1>2, <3>1
    <3>4. QED
      BY <2>4, <3>1, <3>2, <3>3
  <2>5. QED
    BY <2>3, <2>4
<1>7. /\ p \in Seq(S) /\ Len(p) = Len(q) - 1
      /\ \A j \in 1..(Len(q) - 1) : p[j] = IF j < i THEN q[j] ELSE q[j + 1]
  BY <1>4, <1>5, <1>6
<1>8. QED
  BY <1>7 DEF p

LEMMA QueueHead ==
    ASSUME TypeOK, loop # <<>>
    PROVE  /\ 1 \in DOMAIN loop /\ Head(loop) = loop[1] /\ Head(loop) \in Exchange
           /\ Tail(loop) \in Seq(Exchange) /\ Len(Tail(loop)) = Len(loop) - 1
           /\ \A i \in DOMAIN Tail(loop) :
                i + 1 \in DOMAIN loop /\ Tail(loop)[i] = loop[i + 1]
BY DEF TypeOK

\* A queued exchange that fails leaves the others in their order.
LEMMA Lost ==
    ASSUME TypeOK, NEW n \in 1..MaxLoop, ExchangeFails(n)
    PROVE  /\ loop' \in Seq(Exchange)
           /\ Len(loop') = Len(loop) - 1
           /\ \A j \in 1..(Len(loop) - 1) :
                loop'[j] = IF j < n THEN loop[j] ELSE loop[j + 1]
<1>1. n \in 1..Len(loop) /\ loop \in Seq(Exchange) /\ loop' = Without(loop, n)
  BY DEF ExchangeFails, TypeOK, Without
<1>2. QED
  BY <1>1, SequenceWithout

LEMMA TypeToken == TypeOK /\ QueueOK /\ JobsOK /\ TokenNext => TypeOK'
<1> SUFFICES ASSUME TypeOK, QueueOK, JobsOK, TokenNext PROVE TypeOK'
  OBVIOUS
<1>1. ASSUME NEW k \in Code, NEW c \in Client, NEW p \in BOOLEAN,
             RedeemCode(k, c, p)
      PROVE  TypeOK'
  <2>1. codes' \in [Code -> CodeRow \cup {NoRow}]
    <3>1. codes[k] \in CodeRow
      BY <1>1 DEF RedeemCode, TypeOK, Exists
    <3>2. [codes[k] EXCEPT !.status = "used"] \in CodeRow
      BY <3>1 DEF CodeRow
    <3>3. QED
      BY <1>1, <3>2 DEF RedeemCode, TypeOK
  <2>2. loop' \in Seq(Exchange)
    <3>1. [op |-> "mint", code |-> k] \in Exchange
      BY DEF Exchange
    <3>2. loop' = <<>> \/ loop' = <<[op |-> "mint", code |-> k]>>
      BY <1>1 DEF RedeemCode
    <3>3. <<[op |-> "mint", code |-> k]>> \in Seq(Exchange)
      BY <3>1, Singleton
    <3>4. <<>> \in Seq(Exchange)
      OBVIOUS
    <3>5. QED
      BY <3>2, <3>3, <3>4
  <2>3. QED
    BY <1>1, <2>1, <2>2 DEF RedeemCode, TypeOK
<1>2. ASSUME NEW k \in Code, NEW c \in Client, ReplayCode(k, c)
      PROVE  TypeOK'
  <2>1. codes' \in [Code -> CodeRow \cup {NoRow}]
    <3>1. codes[k] \in CodeRow
      BY <1>2 DEF ReplayCode, TypeOK, Exists
    <3>2. [codes[k] EXCEPT !.replayed = TRUE] \in CodeRow
      BY <3>1 DEF CodeRow
    <3>3. QED
      BY <1>2, <3>2 DEF ReplayCode, TypeOK
  <2>2. QED
    BY <1>2, <2>1 DEF ReplayCode, TypeOK
<1>3. ASSUME NEW r \in Response, CommitMint(r)
      PROVE  TypeOK'
  <2> DEFINE k == Head(loop).code
  <2>1. k \in Code /\ codes[k] \in CodeRow
    BY <1>3, QueueHead, ExchangeKinds DEF CommitMint, QueueOK, TypeOK, Exists
  <2>2. NewResponse(codes[k], k, NoResponse) \in ResponseRow
    BY <2>1, NewResponseType DEF CodeRow
  <2>3. QED
    BY <1>3, <2>2, QueueHead DEF CommitMint, TypeOK
<1>4. ASSUME NEW r \in Response, CommitRotate(r)
      PROVE  TypeOK'
  <2> DEFINE old == Head(loop).from
  <2>1. old \in Response /\ responses[old] \in ResponseRow
    BY <1>4, QueueHead, ExchangeKinds DEF CommitRotate, QueueOK, TypeOK, Exists
  <2>2. NewResponse(responses[old], responses[old].code, old) \in ResponseRow
    BY <2>1, NewResponseType DEF ResponseRow
  <2>3. [responses[old] EXCEPT !.refresh = "revoked"] \in ResponseRow
    BY <2>1 DEF ResponseRow, TokenStatus
  <2>4. responses' \in [Response -> ResponseRow \cup {NoRow}]
    BY <1>4, <2>1, <2>2, <2>3 DEF CommitRotate, TypeOK
  <2>5. QED
    BY <1>4, <2>4, QueueHead DEF CommitRotate, TypeOK
<1>5. ASSUME NEW r \in Response, NEW c \in Client, Refresh(r, c)
      PROVE  TypeOK'
  <2>1. [op |-> "rotate", from |-> r] \in Exchange
    BY DEF Exchange
  <2>2. QED
    BY <1>5, <2>1 DEF Refresh, TypeOK
<1>6. ASSUME NEW r \in Response, NEW c \in Client, ReuseRefresh(r, c)
      PROVE  TypeOK'
  <2>1. responses' \in [Response -> ResponseRow \cup {NoRow}]
    <3>1. responses[r] \in ResponseRow
      BY <1>6 DEF ReuseRefresh, TypeOK, Exists
    <3>2. [responses[r] EXCEPT !.reused = TRUE] \in ResponseRow
      BY <3>1 DEF ResponseRow
    <3>3. QED
      BY <1>6, <3>2 DEF ReuseRefresh, TypeOK
  <2>2. QED
    BY <1>6, <2>1 DEF ReuseRefresh, TypeOK
<1>7. ASSUME NEW t \in Thread, NEW r \in Response,
             NEW kind \in {"access", "refresh"}, NEW c \in Client,
             RevokeToken(t, r, kind, c)
      PROVE  TypeOK'
  <2>1. [op |-> "revoke", token |-> r, kind |-> kind] \in Job
    BY DEF Job
  <2>2. QED
    BY <1>7, <2>1 DEF RevokeToken, Start, TypeOK
<1>8. ASSUME NEW t \in Thread, CommitRevoke(t)
      PROVE  TypeOK'
  <2>1. /\ threads[t].token \in Response
        /\ responses[threads[t].token] \in ResponseRow
    BY <1>8, JobKinds DEF CommitRevoke, JobsOK, TypeOK, Exists
  <2>2. responses' \in [Response -> ResponseRow \cup {NoRow}]
    BY <1>8, <2>1 DEF CommitRevoke, TypeOK, ResponseRow, TokenStatus
  <2>3. QED
    BY <1>8, <2>2 DEF CommitRevoke, Finish, Idle, Job, TypeOK
<1>9. QED
  BY <1>1, <1>2, <1>3, <1>4, <1>5, <1>6, <1>7, <1>8 DEF TokenNext

LEMMA TypeEnvironment == TypeOK /\ EnvironmentNext => TypeOK'
<1> SUFFICES ASSUME TypeOK, EnvironmentNext PROVE TypeOK'
  OBVIOUS
<1>1. ASSUME NEW t \in Thread, RequestFails(t)
      PROVE  TypeOK'
  BY <1>1 DEF RequestFails, Finish, Idle, Job, TypeOK
<1>2. ASSUME NEW i \in 1..MaxLoop, ExchangeFails(i)
      PROVE  TypeOK'
  <2>1. loop' \in Seq(Exchange)
    BY <1>2, Lost
  <2>2. QED
    BY <1>2, <2>1 DEF ExchangeFails, TypeOK
<1>3. ASSUME NEW s \in Session, ExpireSession(s)
      PROVE  TypeOK'
  BY <1>3 DEF ExpireSession, TypeOK, SessionRow, Exists
<1>4. ASSUME NEW k \in Code, ExpireCode(k)
      PROVE  TypeOK'
  BY <1>4 DEF ExpireCode, TypeOK, CodeRow, Exists
<1>5. ASSUME NEW r \in Response, NEW kind \in {"access", "refresh"},
             ExpireToken(r, kind)
      PROVE  TypeOK'
  <2>1. responses[r] \in ResponseRow
    BY <1>5 DEF ExpireToken, TypeOK, Exists
  <2>2. /\ [responses[r] EXCEPT !.access = "expired"] \in ResponseRow
        /\ [responses[r] EXCEPT !.refresh = "expired"] \in ResponseRow
    BY <2>1 DEF ResponseRow, TokenStatus
  <2>3. responses' \in [Response -> ResponseRow \cup {NoRow}]
    BY <1>5, <2>2 DEF ExpireToken, TypeOK
  <2>4. QED
    BY <1>5, <2>3 DEF ExpireToken, TypeOK
<1>6. ASSUME NEW u \in User, SetActive(u)
      PROVE  TypeOK'
  BY <1>6 DEF SetActive, TypeOK
<1>7. QED
  BY <1>1, <1>2, <1>3, <1>4, <1>5, <1>6 DEF EnvironmentNext

-----------------------------------------------------------------------------
(* Which actions touch which table *)

LEMMA CodesChange ==
    ASSUME [Next]_vars
    PROVE  \/ UNCHANGED codes
           \/ \E t \in Thread, k \in Code : CommitAuthorize(t, k)
           \/ \E k \in Code, c \in Client :
                (\E proved \in BOOLEAN : RedeemCode(k, c, proved)) \/ ReplayCode(k, c)
           \/ \E k \in Code : ExpireCode(k)
<1>1. CASE SessionNext
  BY <1>1 DEF SessionNext, SignIn, Logout, RevokeSession, ChangePassword,
     ResetPassword, BeginEnd, CommitEnd
<1>2. CASE ConsentNext
  BY <1>2 DEF ConsentNext, Authorize, AllowConsent, CommitConsent,
     RevokeConsent, Disconnect, BeginWithdraw, CommitWithdraw
<1>3. CASE TokenNext
  BY <1>3 DEF TokenNext, CommitMint, Refresh, CommitRotate, ReuseRefresh,
     RevokeToken, CommitRevoke
<1>4. CASE EnvironmentNext
  BY <1>4 DEF EnvironmentNext, RequestFails, ExchangeFails, ExpireSession,
     ExpireToken, SetActive
<1>5. QED
  BY <1>1, <1>2, <1>3, <1>4 DEF Next, vars

LEMMA LoopChange ==
    ASSUME [Next]_vars
    PROVE  \/ UNCHANGED loop
           \/ \E k \in Code, c \in Client, proved \in BOOLEAN : RedeemCode(k, c, proved)
           \/ \E r \in Response : CommitMint(r) \/ CommitRotate(r)
           \/ \E r \in Response, c \in Client : Refresh(r, c)
           \/ \E i \in 1..MaxLoop : ExchangeFails(i)
<1>1. CASE SessionNext
  BY <1>1 DEF SessionNext, SignIn, Logout, RevokeSession, ChangePassword,
     ResetPassword, BeginEnd, CommitEnd
<1>2. CASE ConsentNext
  BY <1>2 DEF ConsentNext, Authorize, AllowConsent, CommitConsent,
     RevokeConsent, Disconnect, BeginWithdraw, CommitWithdraw, CommitAuthorize
<1>3. CASE TokenNext
  BY <1>3 DEF TokenNext, ReplayCode, ReuseRefresh, RevokeToken, CommitRevoke
<1>4. CASE EnvironmentNext
  BY <1>4 DEF EnvironmentNext, RequestFails, ExpireSession, ExpireCode,
     ExpireToken, SetActive
<1>5. QED
  BY <1>1, <1>2, <1>3, <1>4 DEF Next, vars

LEMMA ResponsesChange ==
    ASSUME [Next]_vars
    PROVE  \/ UNCHANGED responses
           \/ \E S : RevokeAll(S)
           \/ \E r \in Response : CommitMint(r) \/ CommitRotate(r)
           \/ \E r \in Response, c \in Client : ReuseRefresh(r, c)
           \/ \E t \in Thread : CommitRevoke(t)
           \/ \E r \in Response, kind \in {"access", "refresh"} : ExpireToken(r, kind)
<1>1. CASE SessionNext
  BY <1>1 DEF SessionNext, SignIn, Logout, RevokeSession, ChangePassword,
     ResetPassword, BeginEnd, CommitEnd
<1>2. CASE ConsentNext
  BY <1>2 DEF ConsentNext, Authorize, AllowConsent, CommitConsent,
     RevokeConsent, Disconnect, BeginWithdraw, CommitWithdraw, CommitAuthorize
<1>3. CASE TokenNext
  BY <1>3 DEF TokenNext, RedeemCode, ReplayCode, Refresh, RevokeToken
<1>4. CASE EnvironmentNext
  BY <1>4 DEF EnvironmentNext, RequestFails, ExchangeFails, ExpireSession,
     ExpireCode, SetActive
<1>5. QED
  BY <1>1, <1>2, <1>3, <1>4 DEF Next, vars

\* A thread keeps its request, becomes idle or starts one of five requests.
LEMMA ThreadsChange ==
    ASSUME [Next]_vars
    PROVE  \/ UNCHANGED threads
           \/ \E t \in Thread : Finish(t)
           \/ \E t \in Thread, S \in SUBSET Session : BeginEnd(t, S)
           \/ \E t \in Thread, s \in Session, c \in Client, sc \in SUBSET Scope :
                Authorize(t, s, c, sc) \/ AllowConsent(t, s, c, sc)
           \/ \E t \in Thread, s \in Session, c \in Client :
                RevokeConsent(t, s, c) \/ Disconnect(t, s, c)
           \/ \E t \in Thread, r \in Response, kind \in {"access", "refresh"},
                 c \in Client : RevokeToken(t, r, kind, c)
<1>1. CASE SessionNext
  BY <1>1 DEF SessionNext, SignIn, Logout, RevokeSession, ChangePassword,
     ResetPassword, Unrevoked, CommitEnd
<1>2. CASE ConsentNext
  BY <1>2 DEF ConsentNext, CommitAuthorize, CommitConsent, CommitWithdraw
<1>3. CASE TokenNext
  BY <1>3 DEF TokenNext, RedeemCode, ReplayCode, CommitMint, Refresh,
     CommitRotate, ReuseRefresh, CommitRevoke
<1>4. CASE EnvironmentNext
  BY <1>4 DEF EnvironmentNext, RequestFails, ExchangeFails, ExpireSession,
     ExpireCode, ExpireToken, SetActive
<1>5. QED
  BY <1>1, <1>2, <1>3, <1>4 DEF Next, vars

LEMMA ConsentsChange ==
    ASSUME [Next]_vars
    PROVE  \/ UNCHANGED <<consents, asked>>
           \/ \E t \in Thread : CommitConsent(t) \/ CommitWithdraw(t)
<1>1. CASE SessionNext
  BY <1>1 DEF SessionNext, SignIn, Logout, RevokeSession, ChangePassword,
     ResetPassword, BeginEnd, CommitEnd
<1>2. CASE ConsentNext
  BY <1>2 DEF ConsentNext, Authorize, AllowConsent, RevokeConsent, Disconnect,
     BeginWithdraw, CommitAuthorize
<1>3. CASE TokenNext
  BY <1>3 DEF TokenNext, RedeemCode, ReplayCode, CommitMint, Refresh,
     CommitRotate, ReuseRefresh, RevokeToken, CommitRevoke
<1>4. CASE EnvironmentNext
  BY <1>4 DEF EnvironmentNext, RequestFails, ExchangeFails, ExpireSession,
     ExpireCode, ExpireToken, SetActive
<1>5. QED
  BY <1>1, <1>2, <1>3, <1>4 DEF Next, vars

-----------------------------------------------------------------------------
(* What a step keeps of the rows it finds *)

SameCode(old, new) ==
    /\ Exists(new)
    /\ new.user = old.user /\ new.client = old.client
    /\ new.session = old.session /\ new.scope = old.scope
    /\ old.status = "used" => new.status = "used"

SameResponse(old, new) ==
    /\ Exists(new)
    /\ new.user = old.user /\ new.client = old.client
    /\ new.session = old.session /\ new.scope = old.scope
    /\ new.code = old.code /\ new.parent = old.parent
    /\ old.refresh # "none" => new.refresh # "none"

\* The handlers never rewrite what a code was issued for, and a used code
\* stays used.
LEMMA CodesKept ==
    ASSUME TypeOK, [Next]_vars, NEW k \in Code, Exists(codes[k])
    PROVE  SameCode(codes[k], codes'[k])
<1> codes[k] \in CodeRow
  BY DEF TypeOK, Exists
<1> USE DEF SameCode, CodeRow
<1>1. CASE UNCHANGED codes
  BY <1>1
<1>2. ASSUME NEW t \in Thread, NEW n \in Code, CommitAuthorize(t, n)
      PROVE  codes'[k] = codes[k]
  BY <1>2 DEF CommitAuthorize, TypeOK
<1>3. ASSUME NEW n \in Code, NEW c \in Client,
             (\E proved \in BOOLEAN : RedeemCode(n, c, proved)) \/ ReplayCode(n, c)
      PROVE  SameCode(codes[k], codes'[k])
  <2>1. codes'[k] \in {codes[k], [codes[k] EXCEPT !.status = "used"],
                       [codes[k] EXCEPT !.replayed = TRUE]}
    BY <1>3 DEF RedeemCode, ReplayCode, TypeOK
  <2>2. codes'[k] \in CodeRow
    BY <2>1
  <2>3. Exists(codes'[k])
    BY <2>2, RowsExist
  <2>4. QED
    BY <2>1, <2>3
<1>4. ASSUME NEW n \in Code, ExpireCode(n)
      PROVE  SameCode(codes[k], codes'[k])
  <2>1. codes'[k] \in CodeRow
    BY <1>4 DEF ExpireCode, TypeOK
  <2>2. Exists(codes'[k])
    BY <2>1, RowsExist
  <2>3. QED
    BY <1>4, <2>2 DEF ExpireCode, TypeOK
<1>5. QED
  BY <1>1, <1>2, <1>3, <1>4, CodesChange

\* Nor what a token was issued for.
LEMMA ResponsesKept ==
    ASSUME TypeOK, QueueOK, JobsOK, [Next]_vars,
           NEW r \in Response, Exists(responses[r])
    PROVE  SameResponse(responses[r], responses'[r])
<1> responses[r] \in ResponseRow
  BY DEF TypeOK, Exists
<1>1. CASE UNCHANGED responses
  BY <1>1 DEF SameResponse
<1>2. ASSUME NEW S, RevokeAll(S)
      PROVE  SameResponse(responses[r], responses'[r])
  <2>1. responses'[r] \in {responses[r],
          [responses[r] EXCEPT !.access = Revoked(@), !.refresh = Revoked(@)]}
    BY <1>2 DEF RevokeAll
  <2>2. responses'[r] \in ResponseRow
    BY <2>1, RevokedStatus DEF ResponseRow, TokenStatus
  <2>3. responses[r].refresh # "none" => Revoked(responses[r].refresh) # "none"
    BY RevokedStatus DEF ResponseRow
  <2>4. QED
    BY <2>1, <2>2, <2>3, RowsExist DEF SameResponse, ResponseRow
<1>3. ASSUME NEW n \in Response, CommitMint(n)
      PROVE  SameResponse(responses[r], responses'[r])
  BY <1>3 DEF CommitMint, TypeOK, SameResponse
<1>4. ASSUME NEW n \in Response, CommitRotate(n)
      PROVE  SameResponse(responses[r], responses'[r])
  <2>1. responses'[r] \in {responses[r], [responses[r] EXCEPT !.refresh = "revoked"]}
    BY <1>4 DEF CommitRotate, TypeOK
  <2>2. responses'[r] \in ResponseRow
    BY <2>1 DEF ResponseRow, TokenStatus
  <2>3. QED
    BY <2>1, <2>2, RowsExist DEF SameResponse, ResponseRow
<1>5. ASSUME NEW n \in Response, NEW c \in Client, ReuseRefresh(n, c)
      PROVE  SameResponse(responses[r], responses'[r])
  <2>1. responses'[r] \in {responses[r], [responses[r] EXCEPT !.reused = TRUE]}
    BY <1>5 DEF ReuseRefresh, TypeOK
  <2>2. responses'[r] \in ResponseRow
    BY <2>1 DEF ResponseRow
  <2>3. QED
    BY <2>1, <2>2, RowsExist DEF SameResponse, ResponseRow
<1>6. ASSUME NEW t \in Thread, CommitRevoke(t)
      PROVE  SameResponse(responses[r], responses'[r])
  <2>1. responses'[r] \in {responses[r],
                           [responses[r] EXCEPT !.access = "revoked"],
                           [responses[r] EXCEPT !.refresh = "revoked"]}
    BY <1>6 DEF CommitRevoke, TypeOK
  <2>2. responses'[r] \in ResponseRow
    BY <2>1 DEF ResponseRow, TokenStatus
  <2>3. QED
    BY <2>1, <2>2, RowsExist DEF SameResponse, ResponseRow
<1>7. ASSUME NEW n \in Response, NEW kind \in {"access", "refresh"}, ExpireToken(n, kind)
      PROVE  SameResponse(responses[r], responses'[r])
  <2>1. responses'[r] \in {responses[r],
                           [responses[r] EXCEPT !.access = "expired"],
                           [responses[r] EXCEPT !.refresh = "expired"]}
    BY <1>7 DEF ExpireToken, TypeOK
  <2>2. responses'[r] \in ResponseRow
    BY <2>1 DEF ResponseRow, TokenStatus
  <2>3. QED
    BY <2>1, <2>2, RowsExist DEF SameResponse, ResponseRow
<1>8. QED
  BY <1>1, <1>2, <1>3, <1>4, <1>5, <1>6, <1>7, ResponsesChange

\* Only the two commits of the token endpoint issue tokens.
LEMMA IssuedOnlyBy ==
    ASSUME TypeOK, QueueOK, JobsOK, [Next]_vars,
           NEW r \in Response, ~Exists(responses[r]), Exists(responses'[r])
    PROVE  CommitMint(r) \/ CommitRotate(r)
<1>1. ~ UNCHANGED responses
  OBVIOUS
<1>2. ASSUME NEW S, RevokeAll(S)
      PROVE  FALSE
  BY <1>2 DEF RevokeAll
<1>3. ASSUME NEW n \in Response, CommitMint(n)
      PROVE  n = r
  BY <1>3 DEF CommitMint, TypeOK
<1>4. ASSUME NEW n \in Response, CommitRotate(n)
      PROVE  n = r
  <2>1. Exists(responses[Head(loop).from])
    BY <1>4, QueueHead DEF CommitRotate, QueueOK
  <2>2. QED
    BY <1>4, <2>1 DEF CommitRotate, TypeOK
<1>5. ASSUME NEW n \in Response, NEW c \in Client, ReuseRefresh(n, c)
      PROVE  FALSE
  BY <1>5 DEF ReuseRefresh, TypeOK
<1>6. ASSUME NEW t \in Thread, CommitRevoke(t)
      PROVE  FALSE
  BY <1>6 DEF CommitRevoke, JobsOK, TypeOK
<1>7. ASSUME NEW n \in Response, NEW kind \in {"access", "refresh"}, ExpireToken(n, kind)
      PROVE  FALSE
  BY <1>7 DEF ExpireToken, TypeOK
<1>8. QED
  BY <1>1, <1>2, <1>3, <1>4, <1>5, <1>6, <1>7, ResponsesChange

\* What a user has allowed is never forgotten.
LEMMA ApprovalGrows ==
    ASSUME TypeOK, [Next]_vars, NEW u \in User, NEW c \in Client
    PROVE  asked[u][c].ever \subseteq asked'[u][c].ever
<1>1. ASSUME NEW t \in Thread, CommitConsent(t)
      PROVE  asked[u][c].ever \subseteq asked'[u][c].ever
  BY <1>1 DEF CommitConsent, TypeOK
<1>2. ASSUME NEW t \in Thread, CommitWithdraw(t)
      PROVE  asked[u][c].ever \subseteq asked'[u][c].ever
  BY <1>2 DEF CommitWithdraw, TypeOK
<1>3. QED
  BY <1>1, <1>2, ConsentsChange

-----------------------------------------------------------------------------
(* The conjuncts of the inductive invariant, one at a time *)

LEMMA StepTypeOK == ASSUME IInv, [Next]_vars PROVE TypeOK'
<1>1. TypeOK /\ QueueOK /\ JobsOK
  BY DEF IInv
<1>2. CASE UNCHANGED vars
  BY <1>1, <1>2 DEF vars, TypeOK
<1>3. QED
  BY <1>1, <1>2, TypeSession, TypeConsent, TypeToken, TypeEnvironment DEF Next

\* A queued mint keeps its place at the head, its used code and the absence of
\* tokens for it: a code is queued only when it is marked used, and a code that
\* was open has no tokens.
LEMMA StepQueueOK == ASSUME IInv, [Next]_vars PROVE QueueOK'
<1> USE DEF IInv
<1> DEFINE Ready(x, i) ==
      /\ x.op = "mint" =>
           /\ i = 1
           /\ Exists(codes[x.code])
           /\ codes[x.code].status = "used"
           /\ \A r \in Issued : responses[r].code # x.code
      /\ x.op = "rotate" => Exists(responses[x.from])
<1>1. ASSUME NEW i \in DOMAIN loop
      PROVE  Ready(loop[i], i) /\ loop[i] \in Exchange
  BY DEF QueueOK, TypeOK
\* What was ready before the step is still ready after it, unless the step
\* mints from it.
<1>2. ASSUME NEW x \in Exchange, NEW i, Ready(x, i),
             ~ \E r \in Response : CommitMint(r)
      PROVE  Ready(x, i)'
  <2>1. CASE x.op = "mint"
    <3>1. x.code \in Code /\ SameCode(codes[x.code], codes'[x.code])
      BY <1>2, <2>1, ExchangeKinds, CodesKept
    <3>2. ASSUME NEW r \in Response, Exists(responses'[r])
          PROVE  responses'[r].code # x.code
      <4>1. CASE Exists(responses[r])
        BY <1>2, <2>1, <4>1, ResponsesKept DEF SameResponse, Issued
      <4>2. CASE ~Exists(responses[r])
        <5>1. CommitRotate(r)
          BY <1>2, <3>2, <4>2, IssuedOnlyBy
        <5>2. /\ Head(loop).from \in Issued
              /\ responses'[r].code = responses[Head(loop).from].code
          BY <5>1, QueueHead, ExchangeKinds
          DEF CommitRotate, NewResponse, TypeOK, QueueOK, Issued
        <5>3. QED
          BY <1>2, <2>1, <5>2
      <4>3. QED
        BY <4>1, <4>2
    <3>3. QED
      BY <1>2, <2>1, <3>1, <3>2, ExchangeKinds DEF SameCode, Issued
  <2>2. CASE x.op = "rotate"
    BY <1>2, <2>2, ExchangeKinds, ResponsesKept DEF SameResponse
  <2>3. QED
    BY <2>1, <2>2, ExchangeKinds
<1>3. ASSUME ~ \E r \in Response : CommitMint(r),
             \A i \in DOMAIN loop' : loop'[i] \in Exchange /\ Ready(loop'[i], i)
      PROVE  QueueOK'
  BY <1>2, <1>3 DEF QueueOK
<1>4. CASE UNCHANGED loop
  <2>1. CASE \E r \in Response : CommitMint(r)
    BY <1>4, <2>1, QueueHead DEF CommitMint, TypeOK
  <2>2. QED
    BY <1>1, <1>3, <1>4, <2>1
<1>5. ASSUME NEW k \in Code, NEW c \in Client, NEW p \in BOOLEAN, RedeemCode(k, c, p)
      PROVE  QueueOK'
  <2>1. loop' = <<>> \/ loop' = <<[op |-> "mint", code |-> k]>>
    BY <1>5 DEF RedeemCode
  <2>2. Exists(codes'[k]) /\ codes'[k].status = "used"
    BY <1>5, CodesKept DEF RedeemCode, SameCode, TypeOK, CodeRow, Exists
  <2>3. \A r \in Issued : responses[r].code # k
    BY <1>5 DEF RedeemCode, TokensMatchCode
  <2>4. responses' = responses
    BY <1>5 DEF RedeemCode
  <2>5. QED
    BY <2>1, <2>2, <2>3, <2>4 DEF QueueOK, Issued
<1>6. ASSUME NEW r \in Response, CommitMint(r) \/ CommitRotate(r)
      PROVE  QueueOK'
  <2>1. loop # <<>> /\ loop' = Tail(loop)
    BY <1>6 DEF CommitMint, CommitRotate
  <2>2. ASSUME NEW i \in DOMAIN loop'
        PROVE  /\ loop'[i].op # "mint"
               /\ loop'[i].op = "rotate" =>
                    /\ loop'[i].from \in Response
                    /\ Exists(responses[loop'[i].from])
    <3>1. i + 1 \in DOMAIN loop /\ loop'[i] = loop[i + 1] /\ i + 1 # 1
      BY <2>1, QueueHead DEF TypeOK
    <3>2. QED
      BY <1>1, <3>1, ExchangeKinds
  <2>3. QED
    BY <2>2, ResponsesKept DEF QueueOK, SameResponse
<1>7. ASSUME NEW r \in Response, NEW c \in Client, Refresh(r, c)
      PROVE  QueueOK'
  <2>1. /\ UNCHANGED <<codes, responses>>
        /\ loop' = Append(loop, [op |-> "rotate", from |-> r])
        /\ Exists(responses[r])
    BY <1>7 DEF Refresh
  <2>2. ASSUME NEW i \in DOMAIN loop'
        PROVE  Ready(loop'[i], i)
    <3>1. \/ i \in DOMAIN loop /\ loop'[i] = loop[i]
          \/ loop'[i] = [op |-> "rotate", from |-> r]
      BY <2>1 DEF TypeOK
    <3>2. QED
      BY <1>1, <2>1, <3>1
  <2>3. QED
    BY <2>1, <2>2 DEF QueueOK, Issued
<1>8. ASSUME NEW n \in 1..MaxLoop, ExchangeFails(n)
      PROVE  QueueOK'
  <2>1. /\ UNCHANGED <<codes, responses>> /\ n \in 1..Len(loop)
        /\ loop \in Seq(Exchange)
        /\ loop' = SubSeq(loop, 1, n - 1) \o SubSeq(loop, n + 1, Len(loop))
    BY <1>8 DEF ExchangeFails, TypeOK
  <2>2. /\ loop' \in Seq(Exchange)
        /\ Len(loop') = Len(loop) - 1
        /\ \A j \in 1..(Len(loop) - 1) :
             loop'[j] = IF j < n THEN loop[j] ELSE loop[j + 1]
    BY <1>8, Lost
  <2>3. ASSUME NEW i \in DOMAIN loop'
        PROVE  Ready(loop'[i], i)
    <3>1. i \in 1..(Len(loop) - 1) /\ Len(loop) \in Nat /\ n \in Nat
      <4>1. DOMAIN loop' = 1..Len(loop') /\ Len(loop) \in Nat
        BY <2>1, <2>2, LenProperties
      <4>2. i \in 1..Len(loop')
        BY <4>1
      <4>3. i \in 1..(Len(loop) - 1)
        BY <2>2, <4>2
      <4>4. QED
        BY <2>1, <4>1, <4>3
    <3>2. CASE i < n
      <4>1. i \in DOMAIN loop
        BY <2>1, <3>1
      <4>2. loop'[i] = loop[i]
        BY <2>2, <3>1, <3>2
      <4>3. QED
        BY <1>1, <4>1, <4>2
    <3>3. CASE ~(i < n)
      <4>1. i + 1 \in DOMAIN loop /\ i + 1 # 1
        BY <2>1, <3>1
      <4>2. loop'[i] = loop[i + 1]
        BY <2>2, <3>1, <3>3
      <4>3. QED
        BY <1>1, <4>1, <4>2
    <3>4. QED
      BY <3>2, <3>3
  <2>4. QED
    BY <2>1, <2>3 DEF QueueOK, Issued
<1>9. QED
  BY <1>4, <1>5, <1>6, <1>7, <1>8, LoopChange

\* A thread that is about to store scopes read them where they were allowed.
LEMMA StepJobsOK == ASSUME IInv, [Next]_vars PROVE JobsOK'
<1> USE DEF IInv
<1> DEFINE Sound(job) ==
      /\ job.op = "authorize" /\ job.client \notin Trusted =>
           job.scope \subseteq asked[job.user][job.client].ever
      /\ job.op = "consent" =>
           job.row.scope \subseteq asked[job.user][job.client].ever
      /\ job.op = "revoke" => Exists(responses[job.token])
<1>1. \A t \in Thread : Sound(threads[t]) /\ threads[t] \in Job
  BY DEF JobsOK, TypeOK
<1>2. ASSUME NEW job \in Job, Sound(job)
      PROVE  Sound(job)'
  <2>1. CASE job.op = "authorize"
    BY <1>2, <2>1, JobKinds, ApprovalGrows
  <2>2. CASE job.op = "consent"
    BY <1>2, <2>2, JobKinds, ApprovalGrows
  <2>3. CASE job.op = "revoke"
    BY <1>2, <2>3, JobKinds, ResponsesKept DEF SameResponse
  <2>4. QED
    BY <2>1, <2>2, <2>3
<1>3. ASSUME NEW t \in Thread, NEW job \in Job, Sound(job), Start(t, job)
      PROVE  JobsOK'
  <2>1. \A n \in Thread : threads'[n] \in {threads[n], job}
    BY <1>3 DEF Start, TypeOK
  <2>2. QED
    BY <1>1, <1>2, <1>3, <2>1 DEF JobsOK
<1>4. CASE UNCHANGED threads
  BY <1>1, <1>2, <1>4 DEF JobsOK
<1>5. ASSUME NEW t \in Thread, Finish(t)
      PROVE  JobsOK'
  <2>1. \A n \in Thread : threads'[n] = threads[n] \/ threads'[n].op = "idle"
    BY <1>5 DEF Finish, Idle, TypeOK
  <2>2. QED
    BY <1>1, <1>2, <2>1 DEF JobsOK
<1>6. ASSUME NEW t \in Thread, NEW S \in SUBSET Session, BeginEnd(t, S)
      PROVE  JobsOK'
  <2>1. [op |-> "end", sessions |-> S, tokens |-> TokensOfSessions(S)] \in Job
    BY DEF Job, TokensOfSessions
  <2>2. QED
    BY <1>3, <1>6, <2>1 DEF BeginEnd
<1>7. ASSUME NEW t \in Thread, NEW s \in Session, NEW c \in Client,
             NEW sc \in SUBSET Scope, Authorize(t, s, c, sc)
      PROVE  JobsOK'
  <2> DEFINE job == [op |-> "authorize", session |-> s, user |-> sessions[s].user,
                     client |-> c, scope |-> sc]
  <2>1. sessions[s].user \in User
    BY <1>7 DEF Authorize, SignedIn, TypeOK, SessionRow, Exists
  <2>2. job \in Job
    BY <2>1 DEF Job
  <2>3. c \notin Trusted => sc \subseteq asked[sessions[s].user][c].ever
    BY <1>7, <2>1 DEF Authorize, HasConsent, WithinApproval
  <2>4. Sound(job)
    BY <2>3
  <2>5. QED
    BY <1>3, <1>7, <2>2, <2>4 DEF Authorize
<1>8. ASSUME NEW t \in Thread, NEW s \in Session, NEW c \in Client,
             NEW sc \in SUBSET Scope, AllowConsent(t, s, c, sc)
      PROVE  JobsOK'
  <2> DEFINE job == [op |-> "consent", user |-> sessions[s].user, client |-> c,
                     scope |-> sc, row |-> consents[sessions[s].user][c]]
  <2>1. sessions[s].user \in User
    BY <1>8 DEF AllowConsent, SignedIn, TypeOK, SessionRow, Exists
  <2>2. job \in Job
    BY <2>1 DEF Job, TypeOK
  <2>3. Sound(job)
    BY <2>1 DEF WithinApproval
  <2>4. QED
    BY <1>3, <1>8, <2>2, <2>3 DEF AllowConsent
<1>9. ASSUME NEW t \in Thread, NEW s \in Session, NEW c \in Client,
             RevokeConsent(t, s, c) \/ Disconnect(t, s, c)
      PROVE  JobsOK'
  <2>1. PICK states : BeginWithdraw(t, s, c, states)
    BY <1>9 DEF RevokeConsent, Disconnect
  <2>2. sessions[s].user \in User
    BY <2>1 DEF BeginWithdraw, SignedIn, TypeOK, SessionRow, Exists
  <2>3. [op |-> "withdraw", user |-> sessions[s].user, client |-> c,
         hit |-> consents[sessions[s].user][c].status \in states,
         tokens |-> TokensOfGrant(sessions[s].user, c)] \in Job
    BY <2>2 DEF Job, TokensOfGrant
  <2>4. QED
    BY <1>3, <2>1, <2>3 DEF BeginWithdraw
<1>10. ASSUME NEW t \in Thread, NEW r \in Response,
              NEW kind \in {"access", "refresh"}, NEW c \in Client,
              RevokeToken(t, r, kind, c)
       PROVE  JobsOK'
  <2>1. [op |-> "revoke", token |-> r, kind |-> kind] \in Job
    BY DEF Job
  <2>2. Sound([op |-> "revoke", token |-> r, kind |-> kind])
    BY <1>10 DEF RevokeToken
  <2>3. QED
    BY <1>3, <1>10, <2>1, <2>2 DEF RevokeToken
<1>11. QED
  BY <1>4, <1>5, <1>6, <1>7, <1>8, <1>9, <1>10, ThreadsChange

\* Where a queued exchange comes from: it waited there, or its handler has just run.
LEMMA QueueFrom ==
    ASSUME IInv, [Next]_vars, NEW i \in DOMAIN loop'
    PROVE  \/ \E j \in DOMAIN loop : loop'[i] = loop[j]
           \/ \E k \in Code, c \in Client, p \in BOOLEAN :
                RedeemCode(k, c, p) /\ loop'[i] = [op |-> "mint", code |-> k]
           \/ \E r \in Response, c \in Client :
                Refresh(r, c) /\ loop'[i] = [op |-> "rotate", from |-> r]
<1> DEFINE Goal ==
      \/ \E j \in DOMAIN loop : loop'[i] = loop[j]
      \/ \E k \in Code, c \in Client, p \in BOOLEAN :
           RedeemCode(k, c, p) /\ loop'[i] = [op |-> "mint", code |-> k]
      \/ \E r \in Response, c \in Client :
           Refresh(r, c) /\ loop'[i] = [op |-> "rotate", from |-> r]
<1>1. TypeOK /\ loop \in Seq(Exchange)
  BY DEF IInv, TypeOK
<1>2. CASE UNCHANGED loop
  BY <1>2
<1>3. ASSUME NEW k \in Code, NEW c \in Client, NEW p \in BOOLEAN, RedeemCode(k, c, p)
      PROVE  Goal
  <2>1. loop' = <<>> \/ loop' = <<[op |-> "mint", code |-> k]>>
    BY <1>3 DEF RedeemCode
  <2>2. loop'[i] = [op |-> "mint", code |-> k]
    BY <2>1
  <2>3. QED
    BY <1>3, <2>2
<1>4. ASSUME NEW r \in Response, CommitMint(r) \/ CommitRotate(r) PROVE Goal
  <2>1. loop # <<>> /\ loop' = Tail(loop)
    BY <1>4 DEF CommitMint, CommitRotate
  <2>2. i + 1 \in DOMAIN loop /\ loop'[i] = loop[i + 1]
    BY <1>1, <2>1, QueueHead
  <2>3. QED
    BY <2>2
<1>5. ASSUME NEW r \in Response, NEW c \in Client, Refresh(r, c) PROVE Goal
  <2>1. loop' = Append(loop, [op |-> "rotate", from |-> r])
    BY <1>5 DEF Refresh
  <2>2. \/ i \in DOMAIN loop /\ loop'[i] = loop[i]
        \/ loop'[i] = [op |-> "rotate", from |-> r]
    BY <1>1, <2>1
  <2>3. QED
    BY <1>5, <2>2
<1>6. ASSUME NEW n \in 1..MaxLoop, ExchangeFails(n) PROVE Goal
  <2>1. /\ n \in 1..Len(loop) /\ loop \in Seq(Exchange)
        /\ loop' = SubSeq(loop, 1, n - 1) \o SubSeq(loop, n + 1, Len(loop))
    BY <1>1, <1>6 DEF ExchangeFails
  <2>2. /\ loop' \in Seq(Exchange)
        /\ Len(loop') = Len(loop) - 1
        /\ \A j \in 1..(Len(loop) - 1) :
             loop'[j] = IF j < n THEN loop[j] ELSE loop[j + 1]
    BY <1>1, <1>6, Lost
  <2>3. i \in 1..(Len(loop) - 1) /\ Len(loop) \in Nat
    BY <1>1, <2>2, LenProperties
  <2>4. i \in DOMAIN loop /\ i + 1 \in DOMAIN loop
    BY <1>1, <2>3
  <2>5. loop'[i] = loop[i] \/ loop'[i] = loop[i + 1]
    BY <2>2, <2>3
  <2>6. QED
    BY <2>4, <2>5
<1> HIDE DEF Goal
<1>7. Goal
  <2>1. CASE UNCHANGED loop
    BY <1>2, <2>1 DEF Goal
  <2>2. QED
    BY <2>1, <1>3, <1>4, <1>5, <1>6, LoopChange
<1>8. QED
  BY <1>7 DEF Goal

\* Where a request in flight comes from: it waited, or is one of the handlers'.
FromHandler(t) ==
    \/ threads'[t] = threads[t]
    \/ threads'[t].op \in {"idle", "end", "withdraw"}
    \/ \E s \in Session, c \in Client, sc \in SUBSET Scope :
         /\ Authorize(t, s, c, sc)
         /\ threads'[t].op = "authorize"
         /\ threads'[t] = [op |-> "authorize", session |-> s,
                           user |-> sessions[s].user, client |-> c, scope |-> sc]
    \/ \E s \in Session, c \in Client, sc \in SUBSET Scope :
         /\ AllowConsent(t, s, c, sc)
         /\ threads'[t].op = "consent"
         /\ threads'[t] = [op |-> "consent", user |-> sessions[s].user, client |-> c,
                           scope |-> sc, row |-> consents[sessions[s].user][c]]
    \/ \E r \in Response, kind \in {"access", "refresh"}, c \in Client :
         /\ RevokeToken(t, r, kind, c) /\ threads'[t].op = "revoke"
         /\ threads'[t] = [op |-> "revoke", token |-> r, kind |-> kind]

LEMMA ThreadFrom ==
    ASSUME IInv, [Next]_vars, NEW t \in Thread
    PROVE  FromHandler(t)
<1>1. threads \in [Thread -> Job]
  BY DEF IInv, TypeOK
<1>2. ASSUME NEW n \in Thread, n # t, NEW job, Start(n, job) \/ Finish(n)
      PROVE  threads'[t] = threads[t]
  BY <1>1, <1>2 DEF Start, Finish
<1>3. ASSUME NEW job, Start(t, job) PROVE threads'[t] = job
  BY <1>1, <1>3 DEF Start
<1>4. ASSUME NEW n \in Thread, Finish(n) PROVE FromHandler(t)
  BY <1>1, <1>4 DEF Finish, Idle, FromHandler
<1>5. ASSUME NEW n \in Thread, NEW S \in SUBSET Session, BeginEnd(n, S)
      PROVE  threads'[t] = threads[t] \/ threads'[t].op = "end"
  BY <1>2, <1>3, <1>5 DEF BeginEnd
<1>6. ASSUME NEW n \in Thread, NEW s \in Session, NEW c \in Client, NEW sc \in SUBSET Scope,
             Authorize(n, s, c, sc)
      PROVE  \/ threads'[t] = threads[t]
             \/ /\ n = t
                /\ threads'[t].op = "authorize"
                /\ threads'[t] = [op |-> "authorize", session |-> s,
                                  user |-> sessions[s].user, client |-> c, scope |-> sc]
  BY <1>2, <1>3, <1>6 DEF Authorize
<1>7. ASSUME NEW n \in Thread, NEW s \in Session, NEW c \in Client, NEW sc \in SUBSET Scope,
             AllowConsent(n, s, c, sc)
      PROVE  \/ threads'[t] = threads[t]
             \/ /\ n = t
                /\ threads'[t].op = "consent"
                /\ threads'[t] = [op |-> "consent", user |-> sessions[s].user, client |-> c,
                                  scope |-> sc, row |-> consents[sessions[s].user][c]]
  BY <1>2, <1>3, <1>7 DEF AllowConsent
<1>8. ASSUME NEW n \in Thread, NEW s \in Session, NEW c \in Client,
             RevokeConsent(n, s, c) \/ Disconnect(n, s, c)
      PROVE  threads'[t] = threads[t] \/ threads'[t].op = "withdraw"
  BY <1>2, <1>3, <1>8 DEF RevokeConsent, Disconnect, BeginWithdraw
<1>9. ASSUME NEW n \in Thread, NEW r \in Response, NEW kind \in {"access", "refresh"},
             NEW c \in Client, RevokeToken(n, r, kind, c)
      PROVE  \/ threads'[t] = threads[t]
             \/ /\ n = t /\ threads'[t].op = "revoke"
                /\ threads'[t] = [op |-> "revoke", token |-> r, kind |-> kind]
  <2>1. Start(n, [op |-> "revoke", token |-> r, kind |-> kind])
    BY <1>9 DEF RevokeToken
  <2>2. CASE n = t
    BY <1>3, <2>1, <2>2
  <2>3. CASE n # t
    BY <1>2, <2>1, <2>3
  <2>4. QED
    BY <2>2, <2>3
<1>10. CASE UNCHANGED threads
  BY <1>10 DEF FromHandler
<1>11. ASSUME NEW n \in Thread, NEW S \in SUBSET Session, BeginEnd(n, S)
       PROVE  FromHandler(t)
  BY <1>5, <1>11 DEF FromHandler
<1>12. ASSUME NEW n \in Thread, NEW s \in Session, NEW c \in Client, NEW sc \in SUBSET Scope,
              Authorize(n, s, c, sc) \/ AllowConsent(n, s, c, sc)
       PROVE  FromHandler(t)
  <2>1. CASE Authorize(n, s, c, sc)
    BY <1>6, <2>1 DEF FromHandler
  <2>2. CASE AllowConsent(n, s, c, sc)
    <3> DEFINE job == [op |-> "consent", user |-> sessions[s].user, client |-> c,
                       scope |-> sc, row |-> consents[sessions[s].user][c]]
    <3>1. \/ threads'[t] = threads[t]
          \/ n = t /\ threads'[t].op = "consent" /\ threads'[t] = job
      BY <1>7, <2>2
    <3>2. CASE threads'[t] = threads[t]
      BY <3>2 DEF FromHandler
    <3>3. CASE n = t /\ threads'[t].op = "consent" /\ threads'[t] = job
      BY <2>2, <3>3, Zenon DEF FromHandler
    <3>4. QED
      BY <3>1, <3>2, <3>3
  <2>3. QED
    BY <1>12, <2>1, <2>2
<1>13. ASSUME NEW n \in Thread, NEW s \in Session, NEW c \in Client,
              RevokeConsent(n, s, c) \/ Disconnect(n, s, c)
       PROVE  FromHandler(t)
  BY <1>8, <1>13 DEF FromHandler
<1>14. ASSUME NEW n \in Thread, NEW r \in Response, NEW kind \in {"access", "refresh"},
              NEW c \in Client, RevokeToken(n, r, kind, c)
       PROVE  FromHandler(t)
  BY <1>9, <1>14 DEF FromHandler
<1>15. QED
  BY <1>4, <1>10, <1>11, <1>12, <1>13, <1>14, ThreadsChange

\* A request that rotates or revokes a refresh token has found one, and no step makes
\* it none.
LEMMA StepKindsOK == ASSUME IInv, [Next]_vars PROVE KindsOK'
<1>1. TypeOK /\ QueueOK /\ JobsOK /\ KindsOK
  BY DEF IInv
<1>2. ASSUME NEW r \in Response, Exists(responses[r]), responses[r].refresh # "none"
      PROVE  responses'[r].refresh # "none"
  BY <1>1, <1>2, ResponsesKept DEF SameResponse
<1>3. ASSUME NEW i \in DOMAIN loop', loop'[i].op = "rotate"
      PROVE  responses'[loop'[i].from].refresh # "none"
  <2>1. ASSUME NEW j \in DOMAIN loop, loop'[i] = loop[j]
        PROVE  responses'[loop'[i].from].refresh # "none"
    <3>1. loop[j] \in Exchange
      BY <1>1 DEF TypeOK
    <3>2. loop[j].from \in Response
      BY <1>3, <2>1, <3>1, ExchangeKinds
    <3>3. Exists(responses[loop[j].from]) /\ responses[loop[j].from].refresh # "none"
      BY <1>1, <1>3, <2>1 DEF QueueOK, KindsOK
    <3>4. QED
      BY <1>2, <2>1, <3>2, <3>3
  <2>2. ASSUME NEW r \in Response, NEW c \in Client, Refresh(r, c),
               loop'[i] = [op |-> "rotate", from |-> r]
        PROVE  responses'[loop'[i].from].refresh # "none"
    BY <2>2 DEF Refresh
  <2>3. QED
    BY <1>3, <2>1, <2>2, QueueFrom
<1>4. ASSUME NEW t \in Thread, threads'[t].op = "revoke", threads'[t].kind = "refresh"
      PROVE  responses'[threads'[t].token].refresh # "none"
  <2>1. CASE threads'[t] = threads[t]
    <3>1. threads[t].token \in Response
      BY <1>1, <1>4, <2>1, JobKinds DEF TypeOK
    <3>2. /\ Exists(responses[threads[t].token])
          /\ responses[threads[t].token].refresh # "none"
      BY <1>1, <1>4, <2>1 DEF JobsOK, KindsOK
    <3>3. QED
      BY <1>2, <2>1, <3>1, <3>2
  <2>2. ASSUME NEW r \in Response, NEW kind \in {"access", "refresh"}, NEW c \in Client,
               RevokeToken(t, r, kind, c),
               threads'[t] = [op |-> "revoke", token |-> r, kind |-> kind]
        PROVE  responses'[threads'[t].token].refresh # "none"
    <3>1. kind = "refresh" /\ threads'[t].token = r
      BY <1>4, <2>2
    <3>2. responses[r].refresh # "none" /\ UNCHANGED responses
      BY <2>2, <3>1 DEF RevokeToken, TypeOK, ResponseRow, Exists
    <3>3. QED
      BY <3>1, <3>2
  <2>3. QED
    BY <1>4, <2>1, <2>2, ThreadFrom DEF FromHandler
<1>5. QED
  BY <1>3, <1>4 DEF KindsOK

\* Tokens issued by the step copy the code, or the tokens they replace.
LEMMA StepTokensMatchCode == ASSUME IInv, [Next]_vars PROVE TokensMatchCode'
<1> USE DEF IInv
<1> SUFFICES ASSUME NEW r \in Response, Exists(responses'[r])
             PROVE  LET row == responses'[r]
                        code == codes'[row.code]
                    IN  /\ Exists(code)
                        /\ code.status = "used"
                        /\ row.user = code.user /\ row.client = code.client
                        /\ row.session = code.session /\ row.scope = code.scope
  BY DEF TokensMatchCode, Issued
<1>1. CASE Exists(responses[r])
  <2>1. responses[r] \in ResponseRow /\ responses[r].code \in Code
    BY <1>1 DEF TypeOK, ResponseRow, Exists
  <2>2. SameResponse(responses[r], responses'[r])
    BY <1>1, ResponsesKept
  <2>3. SameCode(codes[responses[r].code], codes'[responses[r].code])
    BY <1>1, <2>1, CodesKept DEF TokensMatchCode, Issued
  <2>4. QED
    BY <1>1, <2>2, <2>3 DEF TokensMatchCode, Issued, SameResponse, SameCode
<1>2. CASE ~Exists(responses[r]) /\ CommitMint(r)
  <2> DEFINE k == Head(loop).code
  <2>1. /\ k \in Code /\ Exists(codes[k]) /\ codes[k].status = "used"
        /\ codes' = codes
        /\ responses'[r] = NewResponse(codes[k], k, NoResponse)
    BY <1>2, QueueHead, ExchangeKinds DEF CommitMint, QueueOK, TypeOK
  <2>2. QED
    BY <2>1 DEF NewResponse
<1>3. CASE ~Exists(responses[r]) /\ CommitRotate(r)
  <2> DEFINE old == Head(loop).from
  <2>1. /\ old \in Response /\ Exists(responses[old]) /\ codes' = codes
        /\ responses'[r] = NewResponse(responses[old], responses[old].code, old)
    BY <1>3, QueueHead, ExchangeKinds DEF CommitRotate, QueueOK, TypeOK
  <2>2. QED
    BY <2>1 DEF NewResponse, TokensMatchCode, Issued
<1>4. QED
  BY <1>1, <1>2, <1>3, IssuedOnlyBy

\* A step that mints does so for a code that has no tokens, and one that
\* rotates names the response it replaces.
LEMMA StepCodeExchangedOnce == ASSUME IInv, [Next]_vars PROVE CodeExchangedOnce'
<1> USE DEF IInv
\* A response that was not there before, and has no parent, is the first of
\* its code.
<1>1. ASSUME NEW r \in Response, ~Exists(responses[r]), Exists(responses'[r]),
             responses'[r].parent = NoResponse
      PROVE  /\ CommitMint(r)
             /\ \A n \in Issued : responses[n].code # responses'[r].code
  <2>1. CASE CommitMint(r)
    BY <2>1, QueueHead, ExchangeKinds DEF CommitMint, QueueOK, TypeOK, NewResponse
  <2>2. CASE CommitRotate(r)
    <3>1. Head(loop).from \in Response /\ responses'[r].parent = Head(loop).from
      BY <2>2, QueueHead, ExchangeKinds DEF CommitRotate, TypeOK, NewResponse
    <3>2. QED
      BY <1>1, <3>1, GrantsAssumption DEF GrantsAssumption
  <2>3. QED
    BY <1>1, <2>1, <2>2, IssuedOnlyBy
<1>2. ASSUME NEW r1 \in Response, NEW r2 \in Response,
             Exists(responses'[r1]), Exists(responses'[r2]),
             responses'[r1].parent = NoResponse, responses'[r2].parent = NoResponse,
             responses'[r1].code = responses'[r2].code
      PROVE  r1 = r2
  <2>1. CASE Exists(responses[r1]) /\ Exists(responses[r2])
    <3>1. /\ SameResponse(responses[r1], responses'[r1])
          /\ SameResponse(responses[r2], responses'[r2])
      BY <2>1, ResponsesKept
    <3>2. QED
      BY <1>2, <2>1, <3>1 DEF SameResponse, CodeExchangedOnce, Issued
  <2>2. CASE Exists(responses[r1]) /\ ~Exists(responses[r2])
    BY <1>1, <1>2, <2>2, ResponsesKept DEF SameResponse, Issued
  <2>3. CASE ~Exists(responses[r1]) /\ Exists(responses[r2])
    BY <1>1, <1>2, <2>3, ResponsesKept DEF SameResponse, Issued
  <2>4. CASE ~Exists(responses[r1]) /\ ~Exists(responses[r2])
    <3>1. CommitMint(r1) /\ CommitMint(r2)
      BY <1>1, <1>2, <2>4
    <3>2. QED
      BY <1>2, <2>4, <3>1 DEF CommitMint, TypeOK
  <2>5. QED
    BY <2>1, <2>2, <2>3, <2>4
<1>3. QED
  BY <1>2 DEF CodeExchangedOnce, Issued

\* The consent on record is written by a thread from scopes that were allowed,
\* and a code is stored by a thread that found them allowed.
LEMMA StepWithinApproval == ASSUME IInv, [Next]_vars PROVE WithinApproval'
<1> USE DEF IInv
<1>1. ASSUME NEW u \in User, NEW c \in Client
      PROVE  consents'[u][c].scope \subseteq asked'[u][c].ever
  <2>1. consents[u][c].scope \subseteq asked'[u][c].ever
    BY ApprovalGrows DEF WithinApproval
  <2>2. ASSUME NEW t \in Thread, CommitConsent(t)
        PROVE  consents'[u][c].scope \subseteq asked'[u][c].ever
    <3> DEFINE job == threads[t]
               row == consents[job.user][job.client]
    <3>1. /\ job.user \in User /\ job.client \in Client
          /\ job.scope \subseteq Scope /\ job.row \in ConsentRow
      BY <2>2, JobKinds DEF CommitConsent, TypeOK
    <3>2. PICK new \in GrantedRows(job.row, job.scope, row) :
            consents' = [consents EXCEPT ![job.user][job.client] = new]
      BY <2>2 DEF CommitConsent
    <3>3. CASE u = job.user /\ c = job.client
      <4>1. consents'[u][c] = new
        BY <3>1, <3>2, <3>3 DEF TypeOK
      <4>2. new.scope \in {row.scope, job.row.scope, job.row.scope \cup job.scope}
        BY <3>2 DEF GrantedRows
      <4>3. asked'[u][c].ever = asked[u][c].ever \cup job.scope
        BY <2>2, <3>1, <3>3 DEF CommitConsent, TypeOK
      <4>4. /\ row.scope \subseteq asked[u][c].ever
            /\ job.row.scope \subseteq asked[u][c].ever
        BY <2>2, <3>1, <3>3 DEF WithinApproval, JobsOK, CommitConsent
      <4>5. QED
        BY <4>1, <4>2, <4>3, <4>4
    <3>4. CASE ~(u = job.user /\ c = job.client)
      BY <2>1, <3>1, <3>2, <3>4 DEF TypeOK
    <3>5. QED
      BY <3>3, <3>4
  <2>3. ASSUME NEW t \in Thread, CommitWithdraw(t)
        PROVE  consents'[u][c].scope \subseteq asked'[u][c].ever
    <3>1. consents'[u][c].scope = consents[u][c].scope
      <4>1. consents[u][c] \in ConsentRow
        BY DEF TypeOK
      <4>2. consents'[u][c] \in {consents[u][c],
                                [consents[u][c] EXCEPT !.status = "revoked"]}
        BY <2>3 DEF CommitWithdraw, TypeOK
      <4>3. QED
        BY <4>1, <4>2 DEF ConsentRow
    <3>2. QED
      BY <2>1, <3>1
  <2>4. QED
    BY <2>1, <2>2, <2>3, ConsentsChange
<1>2. ASSUME NEW k \in Code, Exists(codes'[k]), codes'[k].client \notin Trusted
      PROVE  codes'[k].scope \subseteq asked'[codes'[k].user][codes'[k].client].ever
  <2>1. CASE Exists(codes[k])
    <3>1. SameCode(codes[k], codes'[k])
      BY <2>1, CodesKept
    <3>2. codes[k].user \in User /\ codes[k].client \in Client
      BY <2>1 DEF TypeOK, CodeRow, Exists
    <3>3. QED
      BY <1>2, <2>1, <3>1, <3>2, ApprovalGrows DEF SameCode, WithinApproval
  <2>2. CASE ~Exists(codes[k])
    <3>1. PICK t \in Thread : CommitAuthorize(t, k)
      <4>1. \A t \in Thread, n \in Code : CommitAuthorize(t, n) => n = k
        BY <1>2, <2>2 DEF CommitAuthorize, TypeOK
      <4>2. \A n \in Code, c \in Client, p \in BOOLEAN : ~RedeemCode(n, c, p)
        BY <1>2, <2>2 DEF RedeemCode, TypeOK
      <4>3. \A n \in Code, c \in Client : ~ReplayCode(n, c)
        BY <1>2, <2>2 DEF ReplayCode, TypeOK
      <4>4. \A n \in Code : ~ExpireCode(n)
        BY <1>2, <2>2 DEF ExpireCode, TypeOK
      <4>5. QED
        BY <1>2, <2>2, <4>1, <4>2, <4>3, <4>4, CodesChange
    <3>2. /\ threads[t] \in Job /\ threads[t].op = "authorize"
          /\ asked' = asked
          /\ codes'[k].user = threads[t].user
          /\ codes'[k].client = threads[t].client
          /\ codes'[k].scope = threads[t].scope
      BY <3>1 DEF CommitAuthorize, TypeOK
    <3>3. QED
      BY <1>2, <3>2 DEF JobsOK
  <2>3. QED
    BY <2>1, <2>2
<1>3. QED
  BY <1>1, <1>2 DEF WithinApproval

-----------------------------------------------------------------------------
(* Theorems *)

LEMMA InvInit == Init => IInv
<1> SUFFICES ASSUME Init PROVE IInv
  OBVIOUS
<1>1. /\ Issued = {} /\ loop = <<>>
      /\ \A k \in Code : ~Exists(codes[k])
      /\ \A t \in Thread : threads[t] = Idle
      /\ \A u \in User, c \in Client : consents[u][c].scope = {}
  BY DEF Init, Issued, Exists
<1>2. TypeOK
  BY TypeInit
<1>3. QueueOK /\ JobsOK /\ KindsOK
  BY <1>1 DEF QueueOK, JobsOK, KindsOK, Idle
<1>4. TokensMatchCode /\ CodeExchangedOnce /\ WithinApproval
  BY <1>1 DEF TokensMatchCode, CodeExchangedOnce, WithinApproval
<1>5. QED
  BY <1>2, <1>3, <1>4 DEF IInv

\* The inductive invariant holds in every reachable state.
THEOREM Invariance == Spec => []IInv
<1>1. Init => IInv
  BY InvInit
<1>2. IInv /\ [Next]_vars => IInv'
  BY StepTypeOK, StepQueueOK, StepJobsOK, StepKindsOK, StepTokensMatchCode,
     StepCodeExchangedOnce, StepWithinApproval DEF IInv
<1>3. QED
  BY <1>1, <1>2, PTL DEF Spec

\* Every table holds rows of its kind and every request in flight is one of
\* the handlers', whatever commits between its reads and its own commit.
THEOREM TypeCorrect == Spec => []TypeOK
<1>1. IInv => TypeOK
  BY DEF IInv
<1>2. QED
  BY <1>1, Invariance, PTL

\* However many times an authorization code is presented, by whomever and
\* while whatever else is in flight, it is exchanged for tokens at most once.
THEOREM CodesExchangedOnce == Spec => []CodeExchangedOnce
<1>1. IInv => CodeExchangedOnce
  BY DEF IInv
<1>2. QED
  BY <1>1, Invariance, PTL

\* Every token, after any number of rotations, carries the user, client,
\* session and scope of a used authorization code.
THEOREM TokensNeverWiden == Spec => []TokensMatchCode
<1>1. IInv => TokensMatchCode
  BY DEF IInv
<1>2. QED
  BY <1>1, Invariance, PTL

\* No interleaving of the consent screen, withdrawals and code issues gives an
\* untrusted application a scope its user never allowed it.
THEOREM NothingUnapproved == Spec => []WithinApproval
<1>1. IInv => WithinApproval
  BY DEF IInv
<1>2. QED
  BY <1>1, Invariance, PTL
-----------------------------------------------------------------------------
(* The ledger's columns, now and after a step *)

NextMint(k) == [op |-> "mint", code |-> k] \in {loop'[i] : i \in DOMAIN loop'}

NextExchanged(k) ==
    \E r \in Response : /\ Exists(responses'[r])
                        /\ responses'[r].code = k /\ responses'[r].parent = NoResponse

NextState(k) ==
    IF codes'[k].status = "open" \/ NextMint(k) THEN "open"
    ELSE IF NextExchanged(k) THEN "exchanged" ELSE "void"

LedgerRow(row, state) ==
    IF Exists(row)
    THEN [state |-> state, user |-> row.user, client |-> row.client,
          session |-> row.session, scope |-> row.scope]
    ELSE [state |-> "none"]

TokenRow(row) ==
    IF Exists(row)
    THEN [state |-> "issued", grant |-> row.code, access |-> Standing(row.access),
          refresh |-> Standing(row.refresh)]
    ELSE [state |-> "none"]

LEMMA LedgerNow ==
    /\ LedgerGrants = [k \in Code |-> LedgerRow(codes[k], LedgerState(k))]
    /\ LedgerTokens = [r \in Response |-> TokenRow(responses[r])]
BY DEF LedgerGrants, LedgerRow, LedgerTokens, TokenRow

LEMMA LedgerNext ==
    /\ LedgerGrants' = [k \in Code |-> LedgerRow(codes'[k], NextState(k))]
    /\ LedgerTokens' = [r \in Response |-> TokenRow(responses'[r])]
    /\ LedgerAllowed' = [u \in User |-> [c \in Client |-> asked'[u][c].ever]]
<1>1. LedgerGrants' = [k \in Code |-> LedgerRow(codes'[k], NextState(k))]
  BY DEF LedgerGrants, LedgerRow, LedgerState, NextState, MintQueued, Queued, NextMint,
         Exchanged, NextExchanged, Issued
<1>2. LedgerTokens' = [r \in Response |-> TokenRow(responses'[r])]
  BY DEF LedgerTokens, TokenRow
<1>3. QED
  BY <1>1, <1>2 DEF LedgerAllowed

\* A mint can only wait at the head of the queue.
LEMMA MintAtHead ==
    ASSUME NEW q \in Seq(Exchange), \A i \in DOMAIN q : q[i].op = "mint" => i = 1,
           NEW k \in Code
    PROVE  [op |-> "mint", code |-> k] \in {q[i] : i \in DOMAIN q}
             <=> q # <<>> /\ q[1].op = "mint" /\ q[1].code = k
<1>1. ASSUME NEW i \in DOMAIN q, q[i] = [op |-> "mint", code |-> k]
      PROVE  q # <<>> /\ q[1].op = "mint" /\ q[1].code = k
  BY <1>1
<1>2. ASSUME q # <<>>, q[1].op = "mint", q[1].code = k
      PROVE  1 \in DOMAIN q /\ q[1] = [op |-> "mint", code |-> k]
  <2>1. 1 \in DOMAIN q /\ q[1] \in Exchange
    BY <1>2
  <2>2. q[1] \in [op: {"mint"}, code: Code]
    BY <1>2, <2>1 DEF Exchange
  <2>3. QED
    BY <1>2, <2>1, <2>2
<1>3. QED
  BY <1>1, <1>2

LEMMA MintNow ==
    ASSUME IInv, [Next]_vars, NEW k \in Code
    PROVE  /\ MintQueued(k) <=> loop # <<>> /\ loop[1].op = "mint" /\ loop[1].code = k
           /\ NextMint(k) <=> loop' # <<>> /\ loop'[1].op = "mint" /\ loop'[1].code = k
<1>1. /\ loop \in Seq(Exchange)
      /\ \A i \in DOMAIN loop : loop[i].op = "mint" => i = 1
  BY DEF IInv, TypeOK, QueueOK
<1>2. loop' \in Seq(Exchange)
  BY StepTypeOK DEF TypeOK
<1>3. \A i \in DOMAIN loop' : loop'[i].op = "mint" => i = 1
  BY StepQueueOK DEF QueueOK
<1>4. MintQueued(k) <=> loop # <<>> /\ loop[1].op = "mint" /\ loop[1].code = k
  BY <1>1, MintAtHead DEF MintQueued, Queued
<1>5. NextMint(k) <=> loop' # <<>> /\ loop'[1].op = "mint" /\ loop'[1].code = k
  BY <1>2, <1>3, MintAtHead DEF NextMint
<1>6. QED
  BY <1>4, <1>5

\* Only a commit of a mint exchanges a code.
LEMMA ExchangedStep ==
    ASSUME IInv, [Next]_vars, NEW k \in Code
    PROVE  NextExchanged(k) <=>
             \/ Exchanged(k)
             \/ \E r \in Response : CommitMint(r) /\ Head(loop).code = k
<1>1. TypeOK /\ QueueOK /\ JobsOK
  BY DEF IInv
<1>2. ASSUME Exchanged(k) PROVE NextExchanged(k)
  <2>1. PICK r \in Response : /\ Exists(responses[r]) /\ responses[r].code = k
                              /\ responses[r].parent = NoResponse
    BY <1>2 DEF Exchanged, Issued
  <2>2. QED
    BY <1>1, <2>1, ResponsesKept DEF NextExchanged, SameResponse
<1>3. ASSUME NEW r \in Response, CommitMint(r), Head(loop).code = k PROVE NextExchanged(k)
  <2>1. responses'[r] = NewResponse(codes[k], k, NoResponse)
    BY <1>1, <1>3 DEF CommitMint, TypeOK
  <2>2. Head(loop).op = "mint" /\ codes[k] \in CodeRow
    BY <1>1, <1>3, QueueHead DEF CommitMint, QueueOK, TypeOK, Exists
  <2>3. responses'[r] \in ResponseRow
    BY <2>1, <2>2, NewResponseType DEF CodeRow
  <2>4. QED
    BY <2>1, <2>3, RowsExist DEF NextExchanged, NewResponse
<1>4. ASSUME NEW r \in Response, Exists(responses'[r]), responses'[r].code = k,
             responses'[r].parent = NoResponse, ~Exists(responses[r])
      PROVE  CommitMint(r) /\ Head(loop).code = k
  <2>1. CASE CommitMint(r)
    BY <1>1, <1>4, <2>1 DEF CommitMint, TypeOK, NewResponse
  <2>2. CASE CommitRotate(r)
    <3>1. Head(loop).from \in Response /\ responses'[r].parent = Head(loop).from
      BY <1>1, <2>2, QueueHead, ExchangeKinds DEF CommitRotate, TypeOK, NewResponse
    <3>2. QED
      BY <1>4, <3>1, GrantsAssumption DEF GrantsAssumption
  <2>3. QED
    BY <1>1, <1>4, <2>1, <2>2, IssuedOnlyBy
<1>5. ASSUME NextExchanged(k), ~Exchanged(k)
      PROVE  \E r \in Response : CommitMint(r) /\ Head(loop).code = k
  <2>1. PICK r \in Response : /\ Exists(responses'[r]) /\ responses'[r].code = k
                              /\ responses'[r].parent = NoResponse
    BY <1>5 DEF NextExchanged
  <2>2. ~Exists(responses[r])
    BY <1>1, <1>5, <2>1, ResponsesKept DEF SameResponse, Exchanged, Issued
  <2>3. QED
    BY <1>4, <2>1, <2>2
<1>6. QED
  BY <1>2, <1>3, <1>5

\* A code that is open or queued has no tokens.
LEMMA NotExchangedYet ==
    ASSUME IInv, NEW k \in Code,
           codes[k].status = "open" \/ (loop # <<>> /\ loop[1].op = "mint" /\ loop[1].code = k)
    PROVE  ~Exchanged(k)
<1>1. CASE codes[k].status = "open"
  BY <1>1 DEF IInv, TokensMatchCode, Exchanged
<1>2. CASE loop # <<>> /\ loop[1].op = "mint" /\ loop[1].code = k
  <2>1. 1 \in DOMAIN loop
    BY <1>2, QueueHead DEF IInv
  <2>2. QED
    BY <1>2, <2>1 DEF IInv, QueueOK, Exchanged
<1>3. QED
  BY <1>1, <1>2
-----------------------------------------------------------------------------
(* Each step of the server, as a step of the ledger *)

LedgerStep == Ledger!Next \/ UNCHANGED <<LedgerAllowed, LedgerGrants, LedgerTokens>>

\* Without a commit of a mint, a code's state depends on its row and on the queue.
LEMMA StateKept ==
    ASSUME IInv, [Next]_vars, NEW k \in Code, NextMint(k) <=> MintQueued(k),
           codes'[k].status = "open" <=> codes[k].status = "open",
           ~ \E r \in Response : CommitMint(r)
    PROVE  NextState(k) = LedgerState(k)
BY ExchangedStep DEF NextState, LedgerState

LEMMA GrantsStay ==
    ASSUME IInv, [Next]_vars, UNCHANGED codes, ~ \E r \in Response : CommitMint(r),
           \A k \in Code : NextMint(k) <=> MintQueued(k)
    PROVE  LedgerGrants' = LedgerGrants
<1>1. \A k \in Code : NextState(k) = LedgerState(k)
  BY StateKept
<1>2. QED
  BY <1>1, LedgerNow, LedgerNext

\* The grant of one code goes to another state.
LEMMA OneGrant ==
    ASSUME IInv, [Next]_vars, NEW n \in Code, NEW state, NextState(n) = state,
           Exists(codes[n]), SameCode(codes[n], codes'[n]),
           \A k \in Code \ {n} :
             codes'[k] = codes[k] /\ NextState(k) = LedgerState(k)
    PROVE  LedgerGrants' = [LedgerGrants EXCEPT ![n].state = state]
<1> DEFINE now == LedgerRow(codes[n], LedgerState(n))
           next == LedgerRow(codes'[n], state)
<1>1. next = [now EXCEPT !.state = state]
  BY DEF LedgerRow, SameCode
<1>2. [LedgerGrants EXCEPT ![n].state = state]
        = [k \in Code |-> IF k = n THEN [now EXCEPT !.state = state] ELSE LedgerGrants[k]]
  BY LedgerNow
<1>3. LedgerGrants' = [k \in Code |-> IF k = n THEN next ELSE LedgerGrants[k]]
  <2>1. \A k \in Code \ {n} : LedgerRow(codes'[k], NextState(k)) = LedgerGrants[k]
    BY LedgerNow
  <2>2. LedgerRow(codes'[n], NextState(n)) = next
    OBVIOUS
  <2> HIDE DEF next
  <2>3. QED
    BY <2>1, <2>2, LedgerNext
<1> HIDE DEF now, next
<1>4. QED
  BY <1>1, <1>2, <1>3

LEMMA TokensStay == ASSUME UNCHANGED responses PROVE LedgerTokens' = LedgerTokens
BY DEF LedgerTokens

\* Scopes are allowed by the commit of a consent alone.
LEMMA AllowedStay ==
    ASSUME IInv, [Next]_vars, ~ \E t \in Thread : CommitConsent(t)
    PROVE  LedgerAllowed' = LedgerAllowed
<1>1. ASSUME NEW u \in User, NEW c \in Client PROVE asked'[u][c].ever = asked[u][c].ever
  <2>1. ASSUME NEW t \in Thread, CommitWithdraw(t)
        PROVE  asked'[u][c].ever = asked[u][c].ever
    BY <2>1 DEF CommitWithdraw, IInv, TypeOK
  <2>2. QED
    BY <2>1, ConsentsChange
<1>2. QED
  BY <1>1 DEF LedgerAllowed

\* A step that issues no tokens lets those there are live or die.
LEMMA StandingOnly ==
    ASSUME NEW row \in ResponseRow
    PROVE  /\ Standing(row.access) \in {"live", "dead"}
           /\ Standing(row.refresh) \in {"none", "live", "dead"}
           /\ row.code \in Code
BY DEF ResponseRow, TokenStatus, Standing

LedgerToken == [state: {"issued"}, grant: Code, access: {"live", "dead"},
                refresh: {"none", "live", "dead"}]
NoToken == [state |-> "none"]

LEMMA TokenRowType ==
    ASSUME NEW row \in ResponseRow \cup {NoRow}
    PROVE  /\ TokenRow(row) \in LedgerToken \cup {NoToken}
           /\ row \in ResponseRow => TokenRow(row) \in LedgerToken /\ TokenRow(row) # NoToken
           /\ row = NoRow => TokenRow(row) = NoToken
<1>1. CASE row \in ResponseRow
  <2>1. Exists(row)
    BY <1>1, RowsExist
  <2>2. TokenRow(row) \in LedgerToken
    BY <1>1, <2>1, StandingOnly DEF TokenRow, LedgerToken
  <2>3. \A x \in LedgerToken : x # NoToken
    BY DEF LedgerToken, NoToken
  <2>4. row # NoRow
    BY <2>1 DEF Exists
  <2>5. QED
    BY <1>1, <2>2, <2>3, <2>4
<1>2. CASE row = NoRow
  <2>1. TokenRow(row) = NoToken /\ row \notin ResponseRow
    BY <1>2, RowsExist DEF TokenRow, NoToken, Exists
  <2>2. QED
    BY <2>1
<1>3. QED
  BY <1>1, <1>2

\* What revoking, expiring or presenting again may make of a token.
Withered(old, new) ==
    /\ new.code = old.code
    /\ Ledger!DiesAtMost(Standing(old.access), Standing(new.access))
    /\ Ledger!DiesAtMost(Standing(old.refresh), Standing(new.refresh))

LEMMA WitherStep ==
    ASSUME IInv, [Next]_vars, LedgerAllowed' = LedgerAllowed, LedgerGrants' = LedgerGrants,
           \A r \in Response :
             \/ responses'[r] = responses[r]
             \/ /\ responses[r] \in ResponseRow /\ responses'[r] \in ResponseRow
                /\ Withered(responses[r], responses'[r])
    PROVE  LedgerStep
<1>1. /\ responses \in [Response -> ResponseRow \cup {NoRow}]
      /\ responses' \in [Response -> ResponseRow \cup {NoRow}]
  BY StepTypeOK DEF IInv, TypeOK
<1>2. LedgerTokens' \in [Response -> LedgerToken \cup {NoToken}]
  BY <1>1, TokenRowType, LedgerNext
<1>3. ASSUME NEW r \in Response
      PROVE  \/ LedgerTokens'[r] = LedgerTokens[r]
             \/ /\ LedgerTokens[r] # NoToken /\ LedgerTokens'[r] # NoToken
                /\ LedgerTokens'[r].grant = LedgerTokens[r].grant
                /\ Ledger!DiesAtMost(LedgerTokens[r].access, LedgerTokens'[r].access)
                /\ Ledger!DiesAtMost(LedgerTokens[r].refresh, LedgerTokens'[r].refresh)
  <2>1. LedgerTokens[r] = TokenRow(responses[r]) /\ LedgerTokens'[r] = TokenRow(responses'[r])
    BY LedgerNow, LedgerNext
  <2>2. CASE /\ responses[r] \in ResponseRow /\ responses'[r] \in ResponseRow
             /\ Withered(responses[r], responses'[r])
    <3>1. TokenRow(responses[r]) # NoToken /\ TokenRow(responses'[r]) # NoToken
      BY <2>2, TokenRowType
    <3>2. Exists(responses[r]) /\ Exists(responses'[r])
      BY <2>2, RowsExist
    <3>3. /\ TokenRow(responses[r]).grant = responses[r].code
          /\ TokenRow(responses[r]).access = Standing(responses[r].access)
          /\ TokenRow(responses[r]).refresh = Standing(responses[r].refresh)
          /\ TokenRow(responses'[r]).grant = responses'[r].code
          /\ TokenRow(responses'[r]).access = Standing(responses'[r].access)
          /\ TokenRow(responses'[r]).refresh = Standing(responses'[r].refresh)
      BY <3>2 DEF TokenRow
    <3>4. QED
      BY <2>1, <2>2, <3>1, <3>3 DEF Withered
  <2>3. QED
    BY <2>1, <2>2
<1>4. Ledger!Wither
  BY <1>2, <1>3 DEF Ledger!Wither, Ledger!Token, Ledger!Nothing, LedgerToken, NoToken
<1>5. QED
  BY <1>4 DEF LedgerStep, Ledger!Next
LEMMA Dying ==
    ASSUME NEW status \in TokenStatus
    PROVE  /\ Ledger!DiesAtMost(Standing(status), Standing(Revoked(status)))
           /\ Ledger!DiesAtMost(Standing(status), Standing(status))
           /\ status # "none" => Ledger!DiesAtMost(Standing(status), Standing("revoked"))
           /\ status = "live" => Ledger!DiesAtMost(Standing(status), Standing("expired"))
BY DEF TokenStatus, Standing, Revoked, Ledger!DiesAtMost

\* What a step that issues nothing does to a token.
NothingIssued ==
    \/ UNCHANGED responses
    \/ \E S : RevokeAll(S)
    \/ \E n \in Response, c \in Client : ReuseRefresh(n, c)
    \/ \E t \in Thread : CommitRevoke(t)
    \/ \E n \in Response, kind \in {"access", "refresh"} : ExpireToken(n, kind)

LEMMA TokensWither ==
    ASSUME IInv, [Next]_vars, NothingIssued, NEW r \in Response
    PROVE  \/ responses'[r] = responses[r]
           \/ /\ responses[r] \in ResponseRow /\ responses'[r] \in ResponseRow
              /\ Withered(responses[r], responses'[r])
<1> DEFINE old == responses[r]
           new == responses'[r]
           Goal == \/ new = old
                   \/ /\ old \in ResponseRow /\ new.code = old.code
                      /\ Ledger!DiesAtMost(Standing(old.access), Standing(new.access))
                      /\ Ledger!DiesAtMost(Standing(old.refresh), Standing(new.refresh))
<1>1. /\ responses \in [Response -> ResponseRow \cup {NoRow}]
      /\ responses' \in [Response -> ResponseRow \cup {NoRow}]
  BY StepTypeOK DEF IInv, TypeOK
<1>2. ASSUME old \in ResponseRow
      PROVE  /\ old.access \in TokenStatus /\ old.access # "none"
             /\ old.refresh \in TokenStatus
  BY <1>2 DEF ResponseRow, TokenStatus
<1>3. ASSUME NEW S, RevokeAll(S) PROVE Goal
  <2>1. CASE r \in S /\ Exists(old)
    <3>1. old \in ResponseRow
      BY <1>1, <2>1 DEF Exists
    <3>2. new = [old EXCEPT !.access = Revoked(@), !.refresh = Revoked(@)]
      BY <1>3, <2>1 DEF RevokeAll
    <3>3. /\ new.access = Revoked(old.access) /\ new.refresh = Revoked(old.refresh)
          /\ new.code = old.code
      BY <3>1, <3>2 DEF ResponseRow
    <3>4. QED
      BY <1>2, <3>1, <3>3, Dying
  <2>2. CASE ~(r \in S /\ Exists(old))
    BY <1>3, <2>2 DEF RevokeAll
  <2>3. QED
    BY <2>1, <2>2
<1>4. ASSUME NEW n \in Response, NEW c \in Client, ReuseRefresh(n, c) PROVE Goal
  <2>1. CASE n = r
    <3>1. old \in ResponseRow
      BY <1>1, <1>4, <2>1 DEF ReuseRefresh, Exists
    <3>2. new = [old EXCEPT !.reused = TRUE]
      BY <1>1, <1>4, <2>1 DEF ReuseRefresh
    <3>3. new.access = old.access /\ new.refresh = old.refresh /\ new.code = old.code
      BY <3>1, <3>2 DEF ResponseRow
    <3>4. QED
      BY <1>2, <3>1, <3>3, Dying
  <2>2. CASE n # r
    BY <1>1, <1>4, <2>2 DEF ReuseRefresh
  <2>3. QED
    BY <2>1, <2>2
<1>5. ASSUME NEW t \in Thread, CommitRevoke(t) PROVE Goal
  <2>1. CASE threads[t].token = r
    <3>1. /\ old \in ResponseRow
          /\ threads[t].kind \in {"access", "refresh"}
          /\ threads[t].kind = "refresh" => old.refresh # "none"
      BY <1>1, <1>5, <2>1, JobKinds
      DEF CommitRevoke, IInv, TypeOK, JobsOK, KindsOK, Exists
    <3>2. new = IF threads[t].kind = "access" THEN [old EXCEPT !.access = "revoked"]
                ELSE [old EXCEPT !.refresh = "revoked"]
      BY <1>1, <1>5, <2>1 DEF CommitRevoke
    <3>3. CASE threads[t].kind = "access"
      <4>1. /\ new.access = "revoked" /\ new.refresh = old.refresh
            /\ new.code = old.code
        BY <3>1, <3>2, <3>3 DEF ResponseRow
      <4>2. QED
        BY <1>2, <3>1, <4>1, Dying
    <3>4. CASE threads[t].kind = "refresh"
      <4>1. /\ new.access = old.access /\ new.refresh = "revoked"
            /\ new.code = old.code
        BY <3>1, <3>2, <3>4 DEF ResponseRow
      <4>2. QED
        BY <1>2, <3>1, <3>4, <4>1, Dying
    <3>5. QED
      BY <3>1, <3>3, <3>4
  <2>2. CASE threads[t].token # r
    BY <1>1, <1>5, <2>2 DEF CommitRevoke
  <2>3. QED
    BY <2>1, <2>2
<1>6. ASSUME NEW n \in Response, NEW kind \in {"access", "refresh"}, ExpireToken(n, kind)
      PROVE  Goal
  <2>1. CASE n = r
    <3>1. old \in ResponseRow
      BY <1>1, <1>6, <2>1 DEF ExpireToken, Exists
    <3>2. new = IF kind = "access" THEN [old EXCEPT !.access = "expired"]
                ELSE [old EXCEPT !.refresh = "expired"]
      BY <1>1, <1>6, <2>1 DEF ExpireToken
    <3>3. CASE kind = "access"
      <4>1. /\ old.access = "live" /\ new.access = "expired" /\ new.refresh = old.refresh
            /\ new.code = old.code
        BY <1>6, <2>1, <3>1, <3>2, <3>3 DEF ResponseRow, ExpireToken
      <4>2. QED
        BY <1>2, <3>1, <4>1, Dying
    <3>4. CASE kind = "refresh"
      <4>1. /\ new.access = old.access /\ old.refresh = "live" /\ new.refresh = "expired"
            /\ new.code = old.code
        BY <1>6, <2>1, <3>1, <3>2, <3>4 DEF ResponseRow, ExpireToken
      <4>2. QED
        BY <1>2, <3>1, <4>1, Dying
    <3>5. QED
      BY <3>3, <3>4
  <2>2. CASE n # r
    BY <1>1, <1>6, <2>2 DEF ExpireToken
  <2>3. QED
    BY <2>1, <2>2
<1> HIDE DEF Goal
<1>7. Goal
  <2>1. CASE UNCHANGED responses
    BY <2>1 DEF Goal
  <2>2. QED
    BY <1>3, <1>4, <1>5, <1>6, <2>1 DEF NothingIssued
<1>8. old \in ResponseRow => new \in ResponseRow
  BY <1>1, RowsExist, ResponsesKept DEF SameResponse, IInv, Exists
<1>9. QED
  BY <1>7, <1>8 DEF Goal, Withered
LEMMA LoopStays ==
    ASSUME IInv, [Next]_vars, UNCHANGED loop
    PROVE  /\ \A k \in Code : NextMint(k) <=> MintQueued(k)
           /\ ~ \E r \in Response : CommitMint(r)
<1>1. \A k \in Code : NextMint(k) <=> MintQueued(k)
  BY MintNow
<1>2. ASSUME NEW r \in Response, CommitMint(r) PROVE FALSE
  <2>1. loop # <<>> /\ loop' = Tail(loop)
    BY <1>2 DEF CommitMint
  <2>2. Len(loop') = Len(loop) - 1 /\ Len(loop) \in Nat
    BY <2>1, QueueHead DEF IInv, TypeOK
  <2>3. QED
    BY <2>2
<1>3. QED
  BY <1>1, <1>2

\* What is said of a code that is not touched is said again.
LEMMA SameGrants ==
    ASSUME \A k \in Code : LedgerRow(codes'[k], NextState(k)) = LedgerRow(codes[k], LedgerState(k))
    PROVE  LedgerGrants' = LedgerGrants
BY LedgerNow, LedgerNext

LEMMA GrantNow ==
    ASSUME NEW k \in Code
    PROVE  /\ Exists(codes[k]) => LedgerGrants[k].state = LedgerState(k)
           /\ ~Exists(codes[k]) => LedgerGrants[k] = [state |-> "none"]
BY LedgerNow DEF LedgerRow

LEMMA AuthorizedStep ==
    ASSUME IInv, [Next]_vars, NEW t \in Thread, NEW n \in Code, CommitAuthorize(t, n)
    PROVE  LedgerStep
<1> DEFINE u == threads[t].user
           c == threads[t].client
           s == threads[t].session
           sc == threads[t].scope
           grant == [state |-> "open", user |-> u, client |-> c, session |-> s, scope |-> sc]
<1>1. /\ threads[t].op = "authorize" /\ ~Exists(codes[n])
      /\ codes' = [codes EXCEPT ![n] = [status |-> "open", user |-> u, client |-> c,
                                        session |-> s, scope |-> sc, replayed |-> FALSE]]
      /\ UNCHANGED <<responses, loop, asked>>
  BY DEF CommitAuthorize
<1>2. u \in User /\ c \in Client /\ s \in Session /\ sc \subseteq Scope
  BY <1>1, JobKinds DEF IInv, TypeOK
<1>3. c \in Trusted \/ sc \subseteq LedgerAllowed[u][c]
  BY <1>1, <1>2 DEF IInv, JobsOK, LedgerAllowed
<1>4. \A k \in Code \ {n} : codes'[k] = codes[k] /\ NextState(k) = LedgerState(k)
  <2>1. \A k \in Code \ {n} : codes'[k] = codes[k]
    BY <1>1 DEF IInv, TypeOK
  <2>2. QED
    BY <1>1, <2>1, LoopStays, StateKept
<1>5. codes'[n] = [status |-> "open", user |-> u, client |-> c, session |-> s, scope |-> sc,
                   replayed |-> FALSE]
  BY <1>1 DEF IInv, TypeOK
<1>6. LedgerRow(codes'[n], NextState(n)) = grant
  BY <1>5 DEF LedgerRow, NextState, Exists, NoRow
<1>7. LedgerGrants' = [LedgerGrants EXCEPT ![n] = grant]
  <2>1. LedgerGrants' = [k \in Code |-> IF k = n THEN grant ELSE LedgerGrants[k]]
    <3>1. \A k \in Code \ {n} : LedgerRow(codes'[k], NextState(k)) = LedgerGrants[k]
      BY <1>4, LedgerNow
    <3> HIDE DEF grant
    <3>2. QED
      BY <3>1, <1>6, LedgerNext
  <2> HIDE DEF grant
  <2>2. QED
    BY <2>1, LedgerNow
<1>8. LedgerGrants[n] = Ledger!Nothing
  BY <1>1, GrantNow DEF Ledger!Nothing
<1>9. LedgerAllowed' = LedgerAllowed /\ LedgerTokens' = LedgerTokens
  BY <1>1 DEF LedgerAllowed, LedgerTokens
<1>10. Ledger!MakeGrant(n, u, c, s, sc)
  BY <1>3, <1>7, <1>8, <1>9 DEF Ledger!MakeGrant
<1>11. QED
  BY <1>2, <1>10 DEF LedgerStep, Ledger!Next

LEMMA NestedExcept ==
    ASSUME NEW A, NEW B, NEW C, NEW f \in [A -> [B -> C]],
           NEW a \in A, NEW b \in B, NEW x \in C
    PROVE  [f EXCEPT ![a][b] = x]
             = [v \in A |-> [d \in B |-> IF v = a /\ d = b THEN x ELSE f[v][d]]]
<1> DEFINE g == [f EXCEPT ![a][b] = x]
           h == [v \in A |-> [d \in B |-> IF v = a /\ d = b THEN x ELSE f[v][d]]]
<1>1. g \in [A -> [B -> C]] /\ h \in [A -> [B -> C]]
  OBVIOUS
<1>2. ASSUME NEW v \in A PROVE g[v] = h[v]
  <2>1. g[v] \in [B -> C] /\ h[v] \in [B -> C]
    BY <1>1
  <2>2. \A d \in B : g[v][d] = h[v][d]
    OBVIOUS
  <2> HIDE DEF g, h
  <2>3. QED
    BY <2>1, <2>2
<1> HIDE DEF g, h
<1>3. g = h
  BY <1>1, <1>2
<1>4. QED
  BY <1>3 DEF g, h

LEMMA ConsentedStep ==
    ASSUME IInv, [Next]_vars, NEW t \in Thread, CommitConsent(t) PROVE LedgerStep
<1> DEFINE u == threads[t].user
           c == threads[t].client
           sc == threads[t].scope
<1>1. u \in User /\ c \in Client /\ sc \subseteq Scope
  BY JobKinds DEF CommitConsent, IInv, TypeOK
<1>2. /\ UNCHANGED <<codes, responses, loop>>
      /\ asked' = [asked EXCEPT ![u][c] = [ever  |-> @.ever \cup sc,
                                           since |-> @.since \cup sc]]
  BY DEF CommitConsent
<1>3. LedgerAllowed' = [LedgerAllowed EXCEPT ![u][c] = @ \cup sc]
  <2>1. asked \in [User -> [Client -> [ever: SUBSET Scope, since: SUBSET Scope]]]
    BY DEF IInv, TypeOK
  <2>2. \A v \in User, d \in Client :
          asked'[v][d].ever = IF v = u /\ d = c THEN asked[v][d].ever \cup sc
                                                ELSE asked[v][d].ever
    BY <1>1, <1>2, <2>1
  <2>3. LedgerAllowed \in [User -> [Client -> SUBSET Scope]]
    BY <2>1 DEF LedgerAllowed
  <2>4. LedgerAllowed[u][c] \cup sc \in SUBSET Scope
    BY <1>1, <2>3
  <2>5. [LedgerAllowed EXCEPT ![u][c] = LedgerAllowed[u][c] \cup sc]
          = [v \in User |-> [d \in Client |->
               IF v = u /\ d = c THEN LedgerAllowed[u][c] \cup sc ELSE LedgerAllowed[v][d]]]
    <3> HIDE DEF u, c, sc
    <3>1. QED
      BY <1>1, <2>3, <2>4, NestedExcept
  <2>6. \A v \in User, d \in Client :
          asked'[v][d].ever = IF v = u /\ d = c THEN LedgerAllowed[u][c] \cup sc
                                                ELSE LedgerAllowed[v][d]
    BY <1>1, <2>2 DEF LedgerAllowed
  <2> DEFINE More == [v \in User |-> [d \in Client |->
               IF v = u /\ d = c THEN LedgerAllowed[u][c] \cup sc ELSE LedgerAllowed[v][d]]]
  <2>7. LedgerAllowed' = More
    <3>1. LedgerAllowed' = [v \in User |-> [d \in Client |-> asked'[v][d].ever]]
      BY LedgerNext
    <3> HIDE DEF u, c, sc
    <3>2. QED
      BY <2>6, <3>1
  <2>8. QED
    BY <2>5, <2>7
<1>4. LedgerGrants' = LedgerGrants /\ LedgerTokens' = LedgerTokens
  BY <1>2, LoopStays, GrantsStay, TokensStay
<1>5. Ledger!Allow(u, c, sc)
  BY <1>3, <1>4 DEF Ledger!Allow
<1>6. QED
  BY <1>1, <1>5 DEF LedgerStep, Ledger!Next

\* A code that is no longer open and will not be minted from is void.
LEMMA VoidStep ==
    ASSUME IInv, [Next]_vars, NEW n \in Code, Exists(codes[n]), ~Exchanged(n),
           codes[n].status = "open" \/ MintQueued(n),
           codes'[n].status # "open", ~NextMint(n), ~ \E r \in Response : CommitMint(r),
           \A k \in Code \ {n} :
             codes'[k] = codes[k] /\ (NextMint(k) <=> MintQueued(k)),
           UNCHANGED <<responses, asked>>
    PROVE  LedgerStep
<1>1. \A k \in Code \ {n} : codes'[k] = codes[k] /\ NextState(k) = LedgerState(k)
  BY StateKept
<1>2. NextState(n) = "void" /\ LedgerState(n) = "open"
  BY ExchangedStep DEF NextState, LedgerState
<1>3. SameCode(codes[n], codes'[n])
  BY CodesKept DEF IInv
<1>4. LedgerGrants' = [LedgerGrants EXCEPT ![n].state = "void"]
  BY <1>1, <1>2, <1>3, OneGrant
<1>5. LedgerGrants[n].state = "open"
  BY <1>2, GrantNow
<1>6. LedgerAllowed' = LedgerAllowed /\ LedgerTokens' = LedgerTokens
  BY DEF LedgerAllowed, LedgerTokens
<1>7. Ledger!Void(n)
  BY <1>4, <1>5, <1>6 DEF Ledger!Void
<1>8. QED
  BY <1>7 DEF LedgerStep, Ledger!Next
\* A code whose mint is queued stays open in the ledger; one that is refused is void.
LEMMA RedeemedStep ==
    ASSUME IInv, [Next]_vars, NEW n \in Code, NEW c \in Client, NEW p \in BOOLEAN,
           RedeemCode(n, c, p)
    PROVE  LedgerStep
<1>1. /\ loop = <<>> /\ Exists(codes[n]) /\ codes[n].status = "open"
      /\ codes' = [codes EXCEPT ![n].status = "used"]
      /\ loop' = <<>> \/ loop' = <<[op |-> "mint", code |-> n]>>
      /\ UNCHANGED <<responses, asked>>
  BY DEF RedeemCode
<1>2. ~ \E r \in Response : CommitMint(r)
  BY <1>1 DEF CommitMint
<1>3. codes[n] \in CodeRow /\ codes'[n] = [codes[n] EXCEPT !.status = "used"]
  BY <1>1 DEF IInv, TypeOK, Exists
<1>4. codes'[n].status = "used" /\ SameCode(codes[n], codes'[n])
  BY <1>1, <1>3, CodesKept DEF CodeRow, IInv
<1>5. \A k \in Code \ {n} : codes'[k] = codes[k] /\ ~NextMint(k) /\ ~MintQueued(k)
  <2>1. \A k \in Code \ {n} : codes'[k] = codes[k]
    BY <1>1 DEF IInv, TypeOK
  <2>2. \A k \in Code : ~MintQueued(k)
    BY <1>1, MintNow
  <2>3. ASSUME NEW k \in Code \ {n}, NextMint(k) PROVE FALSE
    <3>1. loop' # <<>> /\ loop'[1].code = k
      BY <2>3, MintNow
    <3>2. QED
      BY <1>1, <3>1
  <2>4. QED
    BY <2>1, <2>2, <2>3
<1>6. \A k \in Code \ {n} : NextState(k) = LedgerState(k)
  BY <1>2, <1>5, StateKept
<1>7. CASE NextMint(n)
  <2>1. NextState(n) = LedgerState(n)
    BY <1>1, <1>7 DEF NextState, LedgerState
  <2>2. LedgerRow(codes'[n], NextState(n)) = LedgerRow(codes[n], LedgerState(n))
    BY <1>1, <1>4, <2>1 DEF LedgerRow, SameCode
  <2>3. LedgerGrants' = LedgerGrants
    BY <1>5, <1>6, <2>2, SameGrants
  <2>4. QED
    BY <1>1, <2>3 DEF LedgerStep, LedgerAllowed, LedgerTokens
<1>8. CASE ~NextMint(n)
  <2>1. ~Exchanged(n)
    BY <1>1, NotExchangedYet
  <2>2. QED
    BY <1>1, <1>2, <1>4, <1>5, <1>8, <2>1, VoidStep
<1>9. QED
  BY <1>7, <1>8

LEMMA ReplayedStep ==
    ASSUME IInv, [Next]_vars, NEW n \in Code, NEW c \in Client, ReplayCode(n, c)
    PROVE  LedgerStep
<1>1. /\ Exists(codes[n]) /\ codes' = [codes EXCEPT ![n].replayed = TRUE]
      /\ UNCHANGED <<responses, loop, asked>>
  BY DEF ReplayCode
<1>2. /\ SameCode(codes[n], codes'[n])
      /\ codes'[n].status = "open" <=> codes[n].status = "open"
  BY <1>1, CodesKept DEF IInv, TypeOK, CodeRow, Exists
<1>3. \A k \in Code : k # n => codes'[k] = codes[k]
  BY <1>1 DEF IInv, TypeOK
<1>4. \A k \in Code : NextState(k) = LedgerState(k)
  BY <1>1, <1>2, <1>3, LoopStays, StateKept
<1>5. LedgerRow(codes'[n], NextState(n)) = LedgerRow(codes[n], LedgerState(n))
  BY <1>1, <1>2, <1>4 DEF LedgerRow, SameCode
<1>6. LedgerGrants' = LedgerGrants
  BY <1>3, <1>4, <1>5, SameGrants
<1>7. QED
  BY <1>1, <1>6 DEF LedgerStep, LedgerAllowed, LedgerTokens

LEMMA ExpiredStep ==
    ASSUME IInv, [Next]_vars, NEW n \in Code, ExpireCode(n) PROVE LedgerStep
<1>1. /\ Exists(codes[n]) /\ codes[n].status = "open"
      /\ codes' = [codes EXCEPT ![n].status = "expired"]
      /\ UNCHANGED <<responses, loop, asked>>
  BY DEF ExpireCode
<1>2. codes'[n].status = "expired"
  BY <1>1 DEF IInv, TypeOK, CodeRow, Exists
<1>3. \A k \in Code \ {n} : codes'[k] = codes[k]
  BY <1>1 DEF IInv, TypeOK
<1>4. ~MintQueued(n)
  <2>1. ASSUME loop # <<>>, loop[1].op = "mint", loop[1].code = n PROVE FALSE
    <3>1. 1 \in DOMAIN loop
      BY <2>1, QueueHead DEF IInv
    <3>2. QED
      BY <1>1, <2>1, <3>1 DEF IInv, QueueOK
  <2>2. QED
    BY <2>1, MintNow
<1>5. QED
  BY <1>1, <1>2, <1>3, <1>4, LoopStays, NotExchangedYet, VoidStep

\* The tokens of a mint are the one exchange of its code.
LEMMA MintedStep ==
    ASSUME IInv, [Next]_vars, NEW r \in Response, CommitMint(r) PROVE LedgerStep
<1> DEFINE n == Head(loop).code
           refresh == IF OfflineAccess \in codes[n].scope THEN "live" ELSE "none"
           fresh == [state |-> "issued", grant |-> n, access |-> "live", refresh |-> refresh]
<1>1. /\ loop # <<>> /\ loop[1] = Head(loop) /\ Head(loop).op = "mint"
      /\ loop' = Tail(loop) /\ ~Exists(responses[r])
      /\ responses' = [responses EXCEPT ![r] = NewResponse(codes[n], n, NoResponse)]
      /\ UNCHANGED <<codes, asked>>
  BY QueueHead DEF CommitMint, IInv
<1>2. n \in Code /\ Exists(codes[n]) /\ codes[n] \in CodeRow /\ codes[n].status = "used"
  BY <1>1, QueueHead, ExchangeKinds DEF IInv, QueueOK, TypeOK, Exists
<1>3. \A k \in Code : ~NextMint(k)
  <2>1. ASSUME loop' # <<>>, loop'[1].op = "mint" PROVE FALSE
    <3>1. 1 \in DOMAIN loop'
      BY <1>1, <2>1, QueueHead DEF IInv, TypeOK
    <3>2. 2 \in DOMAIN loop /\ loop'[1] = loop[2]
      BY <1>1, <3>1, QueueHead DEF IInv
    <3>3. QED
      BY <2>1, <3>2 DEF IInv, QueueOK
  <2>2. QED
    BY <2>1, MintNow
<1>4. \A k \in Code : MintQueued(k) <=> k = n
  BY <1>1, MintNow
<1>5. NextState(n) = "exchanged" /\ LedgerState(n) = "open"
  BY <1>1, <1>2, <1>3, <1>4, ExchangedStep DEF NextState, LedgerState
<1>6. \A k \in Code \ {n} : codes'[k] = codes[k] /\ NextState(k) = LedgerState(k)
  BY <1>1, <1>3, <1>4, ExchangedStep DEF NextState, LedgerState
<1>7. LedgerGrants' = [LedgerGrants EXCEPT ![n].state = "exchanged"]
  BY <1>1, <1>2, <1>5, <1>6, CodesKept, OneGrant DEF IInv
<1>8. LedgerGrants[n].state = "open"
  BY <1>2, <1>5, GrantNow
<1>9. LedgerTokens[r] = Ledger!Nothing
  BY <1>1, LedgerNow DEF Ledger!Nothing, TokenRow
<1>10. LedgerTokens' = [LedgerTokens EXCEPT ![r] = Ledger!Fresh(n, refresh)]
  <2>1. responses'[r] = NewResponse(codes[n], n, NoResponse)
    BY <1>1 DEF IInv, TypeOK
  <2>2. responses'[r] \in ResponseRow
    BY <1>2, <2>1, NewResponseType DEF CodeRow
  <2>3. Exists(responses'[r])
    BY <2>2, RowsExist
  <2>4. TokenRow(responses'[r]) = fresh
    BY <2>1, <2>3 DEF TokenRow, NewResponse, Standing
  <2>5. \A q \in Response : q # r => TokenRow(responses'[q]) = LedgerTokens[q]
    BY <1>1, LedgerNow DEF IInv, TypeOK
  <2> HIDE DEF fresh
  <2>6. LedgerTokens' = [q \in Response |-> IF q = r THEN fresh ELSE LedgerTokens[q]]
    BY <2>4, <2>5, LedgerNext
  <2>7. LedgerTokens' = [LedgerTokens EXCEPT ![r] = fresh]
    BY <2>6, LedgerNow
  <2>8. QED
    BY <2>7 DEF fresh, Ledger!Fresh
<1>11. LedgerAllowed' = LedgerAllowed
  BY <1>1 DEF LedgerAllowed
<1>12. refresh \in {"none", "live"}
  OBVIOUS
<1> HIDE DEF n, refresh
<1>13. Ledger!Exchange(n, r, refresh)
  BY <1>7, <1>8, <1>9, <1>10, <1>11 DEF Ledger!Exchange
<1>14. QED
  BY <1>2, <1>12, <1>13 DEF LedgerStep, Ledger!Next
\* New tokens take the place of a refresh token, which dies.
LEMMA RotatedStep ==
    ASSUME IInv, [Next]_vars, NEW r \in Response, CommitRotate(r) PROVE LedgerStep
<1> DEFINE old == Head(loop).from
           row == responses[old]
           refresh == IF OfflineAccess \in row.scope THEN "live" ELSE "none"
           spent == [state |-> "issued", grant |-> row.code, access |-> Standing(row.access),
                     refresh |-> "dead"]
           fresh == [state |-> "issued", grant |-> row.code, access |-> "live",
                     refresh |-> refresh]
<1>1. /\ loop # <<>> /\ loop[1] = Head(loop) /\ Head(loop).op = "rotate"
      /\ loop' = Tail(loop) /\ ~Exists(responses[r])
      /\ responses' = [responses EXCEPT ![old].refresh = "revoked",
                                        ![r] = NewResponse(row, row.code, old)]
      /\ UNCHANGED <<codes, asked>>
  BY QueueHead DEF CommitRotate, IInv
<1>2. 1 \in DOMAIN loop /\ old \in Response /\ Exists(row) /\ row.refresh # "none"
  BY <1>1, QueueHead, ExchangeKinds DEF IInv, QueueOK, KindsOK
<1>3. row \in ResponseRow /\ r # old
  BY <1>1, <1>2 DEF IInv, TypeOK, Exists
<1>4. /\ responses'[old] = [row EXCEPT !.refresh = "revoked"]
      /\ responses'[r] = NewResponse(row, row.code, old)
      /\ \A q \in Response \ {old, r} : responses'[q] = responses[q]
  BY <1>1, <1>2, <1>3 DEF IInv, TypeOK
<1>5. LedgerGrants' = LedgerGrants
  <2>1. \A k \in Code : ~MintQueued(k)
    BY <1>1, MintNow
  <2>2. ASSUME loop' # <<>>, loop'[1].op = "mint" PROVE FALSE
    <3>1. 1 \in DOMAIN loop'
      BY <1>1, <2>2, QueueHead DEF IInv, TypeOK
    <3>2. 2 \in DOMAIN loop /\ loop'[1] = loop[2]
      BY <1>1, <3>1, QueueHead DEF IInv
    <3>3. QED
      BY <2>2, <3>2 DEF IInv, QueueOK
  <2>3. \A k \in Code : ~NextMint(k)
    BY <2>2, MintNow
  <2>4. ~ \E q \in Response : CommitMint(q)
    BY <1>1 DEF CommitMint
  <2>5. QED
    BY <1>1, <2>1, <2>3, <2>4, GrantsStay
<1>6. TokenRow(responses'[old]) = spent
  <2>1. Exists(responses'[old])
    BY <1>2, ResponsesKept DEF IInv, SameResponse
  <2>2. /\ responses'[old].code = row.code /\ responses'[old].access = row.access
        /\ responses'[old].refresh = "revoked"
    BY <1>3, <1>4 DEF ResponseRow
  <2>3. QED
    BY <2>1, <2>2 DEF TokenRow, Standing
<1>7. TokenRow(responses'[r]) = fresh
  <2>1. responses'[r] \in ResponseRow
    BY <1>2, <1>3, <1>4, NewResponseType DEF ResponseRow
  <2>2. Exists(responses'[r])
    BY <2>1, RowsExist
  <2>3. QED
    BY <1>4, <2>2 DEF TokenRow, NewResponse, Standing
<1>8. LedgerTokens[old] = [state |-> "issued", grant |-> row.code,
                           access |-> Standing(row.access),
                           refresh |-> Standing(row.refresh)]
  BY <1>2, LedgerNow DEF TokenRow
<1>9. Standing(row.refresh) # "none"
  BY <1>2, <1>3 DEF ResponseRow, TokenStatus, Standing
<1>10. LedgerTokens[r] = Ledger!Nothing
  BY <1>1, LedgerNow DEF Ledger!Nothing, TokenRow
<1>11. LedgerTokens' = [LedgerTokens EXCEPT ![old].refresh = "dead",
                                            ![r] = Ledger!Fresh(LedgerTokens[old].grant, refresh)]
  <2>1. [LedgerTokens[old] EXCEPT !.refresh = "dead"] = spent
    BY <1>8
  <2>2. Ledger!Fresh(LedgerTokens[old].grant, refresh) = fresh
    BY <1>8 DEF Ledger!Fresh
  <2>3. \A q \in Response \ {old, r} : TokenRow(responses'[q]) = LedgerTokens[q]
    BY <1>4, LedgerNow
  <2> HIDE DEF spent, fresh, old, refresh
  <2>4. LedgerTokens' = [q \in Response |-> IF q = r THEN fresh
                                            ELSE IF q = old THEN spent ELSE LedgerTokens[q]]
    BY <1>2, <1>3, <1>6, <1>7, <2>3, LedgerNext
  <2>5. [LedgerTokens EXCEPT ![old].refresh = "dead", ![r] = fresh]
          = [q \in Response |-> IF q = r THEN fresh
                                ELSE IF q = old THEN spent ELSE LedgerTokens[q]]
    <3>1. LedgerTokens = [q \in Response |-> LedgerTokens[q]]
      BY LedgerNow
    <3>2. [LedgerTokens EXCEPT ![old].refresh = "dead"]
            = [q \in Response |-> IF q = old THEN spent ELSE LedgerTokens[q]]
      BY <2>1, <3>1
    <3>3. QED
      BY <3>2, <1>3
  <2>6. QED
    BY <2>2, <2>4, <2>5
<1>12. LedgerAllowed' = LedgerAllowed
  BY <1>1 DEF LedgerAllowed
<1>13. refresh \in {"none", "live"} /\ LedgerTokens[old].state = "issued"
       /\ LedgerTokens[old].refresh # "none"
  BY <1>8, <1>9
<1> HIDE DEF old, refresh
<1>14. Ledger!Replace(old, r, refresh)
  BY <1>5, <1>10, <1>11, <1>12, <1>13 DEF Ledger!Replace
<1>15. QED
  BY <1>2, <1>13, <1>14 DEF LedgerStep, Ledger!Next

LEMMA NoMint ==
    ASSUME IInv, UNCHANGED responses PROVE ~ \E r \in Response : CommitMint(r)
<1>1. ASSUME NEW r \in Response, CommitMint(r) PROVE FALSE
  <2> DEFINE k == Head(loop).code
  <2>1. /\ k \in Code /\ codes[k] \in CodeRow
        /\ responses'[r] = NewResponse(codes[k], k, NoResponse) /\ ~Exists(responses[r])
    BY <1>1, QueueHead, ExchangeKinds DEF CommitMint, IInv, QueueOK, TypeOK, Exists
  <2>2. responses'[r] \in ResponseRow
    BY <2>1, NewResponseType DEF CodeRow
  <2>3. QED
    BY <2>1, <2>2, RowsExist
<1>2. QED
  BY <1>1

\* A mint whose commit fails leaves its code void; a rotation leaves nothing.
LEMMA FailedStep ==
    ASSUME IInv, [Next]_vars, NEW i \in 1..MaxLoop, ExchangeFails(i) PROVE LedgerStep
<1>1. /\ i \in 1..Len(loop) /\ loop \in Seq(Exchange) /\ Len(loop) \in Nat
      /\ loop' = SubSeq(loop, 1, i - 1) \o SubSeq(loop, i + 1, Len(loop))
      /\ UNCHANGED <<codes, responses, asked>>
  BY DEF ExchangeFails, IInv, TypeOK
<1>2. /\ loop' \in Seq(Exchange)
      /\ Len(loop') = Len(loop) - 1
      /\ \A j \in 1..(Len(loop) - 1) :
           loop'[j] = IF j < i THEN loop[j] ELSE loop[j + 1]
  BY Lost DEF IInv
<1>3. ~ \E r \in Response : CommitMint(r)
  BY <1>1, NoMint
<1>4. LedgerAllowed' = LedgerAllowed /\ LedgerTokens' = LedgerTokens
  BY <1>1 DEF LedgerAllowed, LedgerTokens
<1>5. CASE i = 1 /\ loop[1].op = "mint"
  <2> DEFINE n == loop[1].code
  <2>1. n \in Code /\ Exists(codes[n]) /\ codes[n].status = "used"
    BY <1>1, <1>5, ExchangeKinds DEF IInv, QueueOK
  <2>2. loop # <<>>
    BY <1>1, <1>5
  <2>3. ASSUME loop' # <<>>, loop'[1].op = "mint" PROVE FALSE
    <3>1. 1 \in 1..(Len(loop) - 1)
      BY <1>1, <1>2, <2>3
    <3>2. loop'[1] = loop[2] /\ 2 \in DOMAIN loop
      BY <1>1, <1>2, <1>5, <3>1
    <3>3. QED
      BY <2>3, <3>2 DEF IInv, QueueOK
  <2>4. \A k \in Code : ~NextMint(k) /\ (MintQueued(k) <=> k = n)
    BY <1>5, <2>2, <2>3, MintNow
  <2>5. ~Exchanged(n)
    BY <1>5, <2>1, <2>2, NotExchangedYet
  <2> HIDE DEF n
  <2>6. QED
    BY <1>1, <1>3, <2>1, <2>4, <2>5, VoidStep
<1>6. CASE ~(i = 1 /\ loop[1].op = "mint")
  <2>1. ASSUME NEW k \in Code PROVE NextMint(k) <=> MintQueued(k)
    <3>1. CASE i = 1
      <4>1. ~MintQueued(k)
        BY <1>6, <3>1, MintNow
      <4>2. ASSUME loop' # <<>>, loop'[1].op = "mint" PROVE FALSE
        <5>1. 1 \in 1..(Len(loop) - 1)
          BY <1>1, <1>2, <4>2
        <5>2. loop'[1] = loop[2] /\ 2 \in DOMAIN loop
          BY <1>1, <1>2, <3>1, <5>1
        <5>3. QED
          BY <4>2, <5>2 DEF IInv, QueueOK
      <4>3. QED
        BY <4>1, <4>2, MintNow
    <3>2. CASE i # 1
      <4>0. Len(loop) \in Nat /\ Len(loop) - 1 >= 1 /\ i \in Int /\ 1 < i
        BY <1>1, <3>2
      <4>1. 1 \in 1..(Len(loop) - 1) /\ 1 < i
        BY <4>0
      <4>2. loop'[1] = loop[1]
        BY <1>2, <4>1
      <4>3. loop' # <<>>
        BY <1>2, <4>1
      <4>4. loop # <<>>
        BY <1>1, <4>0
      <4>5. QED
        BY <4>2, <4>3, <4>4, MintNow
    <3>3. QED
      BY <3>1, <3>2
  <2>2. LedgerGrants' = LedgerGrants
    BY <1>1, <1>3, <2>1, GrantsStay
  <2>3. QED
    BY <1>4, <2>2 DEF LedgerStep
<1>7. QED
  BY <1>5, <1>6
LEMMA RefreshedStep ==
    ASSUME IInv, [Next]_vars, NEW r \in Response, NEW c \in Client, Refresh(r, c)
    PROVE  LedgerStep
<1>1. /\ loop \in Seq(Exchange) /\ loop' = Append(loop, [op |-> "rotate", from |-> r])
      /\ UNCHANGED <<codes, responses, asked>>
  BY DEF Refresh, IInv, TypeOK
<1>2. CASE loop = <<>>
  <2>1. loop' # <<>> /\ loop'[1].op = "rotate"
    BY <1>1, <1>2
  <2>2. \A k \in Code : ~NextMint(k) /\ ~MintQueued(k)
    BY <1>2, <2>1, MintNow
  <2>3. QED
    BY <1>1, <2>2, NoMint, GrantsStay DEF LedgerStep, LedgerAllowed, LedgerTokens
<1>3. CASE loop # <<>>
  <2>1. loop' # <<>> /\ loop'[1] = loop[1]
    BY <1>1, <1>3
  <2>2. \A k \in Code : NextMint(k) <=> MintQueued(k)
    BY <1>3, <2>1, MintNow
  <2>3. QED
    BY <1>1, <2>2, NoMint, GrantsStay DEF LedgerStep, LedgerAllowed, LedgerTokens
<1>4. QED
  BY <1>2, <1>3

\* Every step of the server is a step of the ledger, or changes nothing in it.
LEMMA LedgerSteps == ASSUME IInv, [Next]_vars PROVE LedgerStep
<1>1. ASSUME UNCHANGED <<codes, loop, responses, asked>> PROVE LedgerStep
  <2>1. LedgerGrants' = LedgerGrants
    BY <1>1, LoopStays, GrantsStay
  <2>2. QED
    BY <1>1, <2>1 DEF LedgerStep, LedgerAllowed, LedgerTokens
<1>2. CASE SessionNext
  <2>1. ASSUME NEW t \in Thread, CommitEnd(t) PROVE LedgerStep
    <3>1. /\ UNCHANGED <<codes, loop, asked>> /\ RevokeAll(threads[t].tokens)
          /\ threads[t].op = "end" /\ Finish(t)
      BY <2>1 DEF CommitEnd
    <3>2. LedgerGrants' = LedgerGrants /\ LedgerAllowed' = LedgerAllowed
      BY <3>1, LoopStays, GrantsStay DEF LedgerAllowed
    <3>3. NothingIssued
      BY <3>1 DEF NothingIssued
    <3>4. QED
      BY <3>2, <3>3, TokensWither, WitherStep
  <2>2. QED
    BY <1>1, <1>2, <2>1
    DEF SessionNext, SignIn, Logout, ChangePassword, RevokeSession, ResetPassword, BeginEnd
<1>3. CASE ConsentNext
  <2>1. ASSUME NEW t \in Thread, CommitWithdraw(t) PROVE LedgerStep
    <3>1. UNCHANGED <<codes, loop>> /\ RevokeAll(threads[t].tokens)
          /\ threads[t].op = "withdraw"
      BY <2>1 DEF CommitWithdraw
    <3>2. LedgerAllowed' = LedgerAllowed
      <4>1. \A u \in User, c \in Client : asked'[u][c].ever = asked[u][c].ever
        BY <2>1 DEF CommitWithdraw, IInv, TypeOK
      <4>2. QED
        BY <4>1 DEF LedgerAllowed
    <3>3. LedgerGrants' = LedgerGrants
      BY <3>1, LoopStays, GrantsStay
    <3>4. NothingIssued
      BY <3>1 DEF NothingIssued
    <3>5. QED
      BY <3>2, <3>3, <3>4, TokensWither, WitherStep
  <2>2. QED
    BY <1>1, <1>3, <2>1, AuthorizedStep, ConsentedStep
    DEF ConsentNext, Authorize, AllowConsent, RevokeConsent, Disconnect, BeginWithdraw
<1>4. ASSUME NothingIssued, UNCHANGED <<codes, loop, asked>> PROVE LedgerStep
  <2>1. LedgerGrants' = LedgerGrants /\ LedgerAllowed' = LedgerAllowed
    BY <1>4, LoopStays, GrantsStay DEF LedgerAllowed
  <2>2. QED
    BY <1>4, <2>1, TokensWither, WitherStep
<1>5. CASE TokenNext
  <2>1. ASSUME NEW r \in Response, NEW c \in Client, ReuseRefresh(r, c) PROVE LedgerStep
    BY <1>4, <2>1 DEF ReuseRefresh, NothingIssued
  <2>2. ASSUME NEW t \in Thread, CommitRevoke(t) PROVE LedgerStep
    BY <1>4, <2>2 DEF CommitRevoke, NothingIssued
  <2>3. ASSUME NEW t \in Thread, NEW r \in Response, NEW kind \in {"access", "refresh"},
               NEW c \in Client, RevokeToken(t, r, kind, c)
        PROVE  LedgerStep
    BY <1>1, <2>3 DEF RevokeToken
  <2>4. QED
    BY <1>5, <2>1, <2>2, <2>3, RedeemedStep, ReplayedStep, MintedStep, RotatedStep,
       RefreshedStep DEF TokenNext
<1>6. CASE EnvironmentNext
  <2>1. ASSUME NEW r \in Response, NEW kind \in {"access", "refresh"}, ExpireToken(r, kind)
        PROVE  LedgerStep
    BY <1>4, <2>1 DEF ExpireToken, NothingIssued
  <2>2. QED
    BY <1>1, <1>6, <2>1, FailedStep, ExpiredStep
    DEF EnvironmentNext, RequestFails, ExpireSession, SetActive
<1>7. QED
  BY <1>1, <1>2, <1>3, <1>5, <1>6 DEF Next, vars

LEMMA LedgerInit == Init => Ledger!Init
<1> SUFFICES ASSUME Init PROVE Ledger!Init
  OBVIOUS
<1>1. /\ \A k \in Code : ~Exists(codes[k])
      /\ \A r \in Response : ~Exists(responses[r])
      /\ \A u \in User, c \in Client : asked[u][c].ever = {}
  BY DEF Init, Exists
<1>2. LedgerAllowed = [u \in User |-> [c \in Client |-> {}]]
  BY <1>1 DEF LedgerAllowed
<1>3. LedgerGrants = [k \in Code |-> [state |-> "none"]]
  BY <1>1 DEF LedgerGrants
<1>4. LedgerTokens = [r \in Response |-> [state |-> "none"]]
  BY <1>1 DEF LedgerTokens
<1>5. QED
  BY <1>2, <1>3, <1>4 DEF Ledger!Init, Ledger!Nothing

\* The server keeps the promises of the ledger: whatever overlaps, a grant is within
\* what was allowed and is exchanged once or never, and dead tokens stay dead.
THEOREM KeepsTheLedger == Spec => ImplementsLedger
<1>1. Init => Ledger!Init
  BY LedgerInit
<1>2. IInv /\ [Next]_vars => [Ledger!Next]_(Ledger!vars)
  BY LedgerSteps DEF LedgerStep, Ledger!vars
<1>3. QED
  BY <1>1, <1>2, Invariance, PTL DEF Spec, ImplementsLedger, Ledger!Spec
-----------------------------------------------------------------------------
(* What a grant can still be turned into tokens by: K selects grants by user, client *)
(* and session                                                                       *)

Asks(g, K) == <<g.user, g.client, g.session>> \in K

OutNow(K) ==
    \/ \E k \in Code : Exists(codes[k]) /\ codes[k].status = "open" /\ Asks(codes[k], K)
    \/ \E r \in Response : /\ Exists(responses[r]) /\ responses[r].refresh = "live"
                           /\ Asks(responses[r], K)
    \/ \E t \in Thread : threads[t].op = "authorize" /\ Asks(threads[t], K)
    \/ \E i \in DOMAIN loop : \/ loop[i].op = "mint" /\ Asks(codes[loop[i].code], K)
                              \/ loop[i].op = "rotate" /\ Asks(responses[loop[i].from], K)

OutNext(K) ==
    \/ \E k \in Code : Exists(codes'[k]) /\ codes'[k].status = "open" /\ Asks(codes'[k], K)
    \/ \E r \in Response : /\ Exists(responses'[r]) /\ responses'[r].refresh = "live"
                           /\ Asks(responses'[r], K)
    \/ \E t \in Thread : threads'[t].op = "authorize" /\ Asks(threads'[t], K)
    \/ \E i \in DOMAIN loop' : \/ loop'[i].op = "mint" /\ Asks(codes'[loop'[i].code], K)
                               \/ loop'[i].op = "rotate" /\ Asks(responses'[loop'[i].from], K)

\* The grants of one session, and those of a user and a client.
OfSession(s) == User \X Client \X {s}
OfPair(u, c) == {u} \X {c} \X Session

LEMMA Selects ==
    ASSUME NEW g, g.user \in User, g.client \in Client, g.session \in Session
    PROVE  /\ \A s : Asks(g, OfSession(s)) <=> g.session = s
           /\ \A u, c : Asks(g, OfPair(u, c)) <=> g.user = u /\ g.client = c
BY DEF Asks, OfSession, OfPair

LEMMA RowsNow ==
    ASSUME IInv
    PROVE  /\ \A k \in Code : Exists(codes[k]) =>
                /\ codes[k].user \in User /\ codes[k].client \in Client
                /\ codes[k].session \in Session
           /\ \A r \in Response : Exists(responses[r]) =>
                /\ responses[r].user \in User /\ responses[r].client \in Client
                /\ responses[r].session \in Session
           /\ \A t \in Thread : threads[t].op = "authorize" =>
                /\ threads[t].user \in User /\ threads[t].client \in Client
                /\ threads[t].session \in Session
           /\ \A i \in DOMAIN loop :
                /\ loop[i].op = "mint" => loop[i].code \in Code /\ Exists(codes[loop[i].code])
                /\ loop[i].op = "rotate" =>
                     loop[i].from \in Response /\ Exists(responses[loop[i].from])
<1>1. \A k \in Code : Exists(codes[k]) => codes[k] \in CodeRow
  BY DEF IInv, TypeOK, Exists
<1>2. \A r \in Response : Exists(responses[r]) => responses[r] \in ResponseRow
  BY DEF IInv, TypeOK, Exists
<1>3. \A t \in Thread : threads[t] \in Job
  BY DEF IInv, TypeOK
<1>4. \A i \in DOMAIN loop : loop[i] \in Exchange
  BY DEF IInv, TypeOK
<1>5. \A t \in Thread : threads[t].op = "authorize" =>
        /\ threads[t].user \in User /\ threads[t].client \in Client
        /\ threads[t].session \in Session
  BY <1>3, JobKinds
<1>6. \A i \in DOMAIN loop :
        /\ loop[i].op = "mint" => loop[i].code \in Code /\ Exists(codes[loop[i].code])
        /\ loop[i].op = "rotate" =>
             loop[i].from \in Response /\ Exists(responses[loop[i].from])
  BY <1>4, ExchangeKinds DEF IInv, QueueOK
<1>7. QED
  BY <1>1, <1>2, <1>5, <1>6 DEF CodeRow, ResponseRow

LEMMA RowsNext ==
    ASSUME IInv, [Next]_vars
    PROVE  /\ \A k \in Code : Exists(codes'[k]) =>
                /\ codes'[k].user \in User /\ codes'[k].client \in Client
                /\ codes'[k].session \in Session
           /\ \A r \in Response : Exists(responses'[r]) =>
                /\ responses'[r].user \in User /\ responses'[r].client \in Client
                /\ responses'[r].session \in Session
           /\ \A t \in Thread : threads'[t].op = "authorize" =>
                /\ threads'[t].user \in User /\ threads'[t].client \in Client
                /\ threads'[t].session \in Session
           /\ \A i \in DOMAIN loop' :
                /\ loop'[i].op = "mint" => loop'[i].code \in Code /\ Exists(codes'[loop'[i].code])
                /\ loop'[i].op = "rotate" =>
                     loop'[i].from \in Response /\ Exists(responses'[loop'[i].from])
<1>1. TypeOK' /\ QueueOK'
  BY StepTypeOK, StepQueueOK
<1>2. \A k \in Code : Exists(codes'[k]) => codes'[k] \in CodeRow
  BY <1>1 DEF TypeOK, Exists
<1>3. \A r \in Response : Exists(responses'[r]) => responses'[r] \in ResponseRow
  BY <1>1 DEF TypeOK, Exists
<1>4. \A t \in Thread : threads'[t] \in Job
  BY <1>1 DEF TypeOK
<1>5. \A i \in DOMAIN loop' : loop'[i] \in Exchange
  BY <1>1 DEF TypeOK
<1>6. \A t \in Thread : threads'[t].op = "authorize" =>
        /\ threads'[t].user \in User /\ threads'[t].client \in Client
        /\ threads'[t].session \in Session
  BY <1>4, JobKinds
<1>7. \A i \in DOMAIN loop' :
        /\ loop'[i].op = "mint" => loop'[i].code \in Code /\ Exists(codes'[loop'[i].code])
        /\ loop'[i].op = "rotate" =>
             loop'[i].from \in Response /\ Exists(responses'[loop'[i].from])
  BY <1>1, <1>5, ExchangeKinds DEF QueueOK, Exists
<1>8. QED
  BY <1>2, <1>3, <1>6, <1>7 DEF CodeRow, ResponseRow

-----------------------------------------------------------------------------
(* Where what is open or live after a step comes from *)

\* An open code was open before, or its request has just committed.
LEMMA OpenFrom ==
    ASSUME IInv, [Next]_vars, NEW k \in Code,
           Exists(codes'[k]), codes'[k].status = "open"
    PROVE  \/ /\ Exists(codes[k]) /\ codes[k].status = "open"
              /\ codes'[k].user = codes[k].user /\ codes'[k].client = codes[k].client
              /\ codes'[k].session = codes[k].session
           \/ \E t \in Thread :
                /\ threads[t].op = "authorize"
                /\ codes'[k].user = threads[t].user /\ codes'[k].client = threads[t].client
                /\ codes'[k].session = threads[t].session
<1> DEFINE Was == Exists(codes[k]) /\ codes[k].status = "open"
           Committed == \E t \in Thread :
                /\ threads[t].op = "authorize"
                /\ codes'[k].user = threads[t].user /\ codes'[k].client = threads[t].client
                /\ codes'[k].session = threads[t].session
<1>1. /\ codes \in [Code -> CodeRow \cup {NoRow}]
      /\ Exists(codes[k]) => codes[k] \in CodeRow
  BY DEF IInv, TypeOK, Exists
<1>2. CASE UNCHANGED codes
  BY <1>2 DEF Exists
<1>3. ASSUME NEW t \in Thread, NEW n \in Code, CommitAuthorize(t, n)
      PROVE  Was \/ Committed
  BY <1>1, <1>3 DEF CommitAuthorize, Exists
<1>4. ASSUME NEW n \in Code, NEW c \in Client,
             (\E proved \in BOOLEAN : RedeemCode(n, c, proved)) \/ ReplayCode(n, c)
      PROVE  Was
  <2>1. CASE n = k
    <3>1. /\ codes[k] \in CodeRow /\ Exists(codes[k])
          /\ codes'[k] \in {[codes[k] EXCEPT !.status = "used"],
                            [codes[k] EXCEPT !.replayed = TRUE]}
      BY <1>1, <1>4, <2>1 DEF RedeemCode, ReplayCode
    <3>2. QED
      BY <3>1 DEF CodeRow
  <2>2. CASE n # k
    BY <1>1, <1>4, <2>2 DEF RedeemCode, ReplayCode, Exists
  <2>3. QED
    BY <2>1, <2>2
<1>5. ASSUME NEW n \in Code, ExpireCode(n)
      PROVE  Was
  <2>1. CASE n = k
    <3>1. codes[k] \in CodeRow /\ codes'[k] = [codes[k] EXCEPT !.status = "expired"]
      BY <1>1, <1>5, <2>1 DEF ExpireCode
    <3>2. QED
      BY <3>1 DEF CodeRow
  <2>2. CASE n # k
    BY <1>1, <1>5, <2>2 DEF ExpireCode, Exists
  <2>3. QED
    BY <2>1, <2>2
<1> HIDE DEF Was, Committed
<1>6. Was \/ Committed
  BY <1>2, <1>3, <1>4, <1>5, CodesChange DEF Was
<1>7. Was => SameCode(codes[k], codes'[k])
  BY CodesKept DEF Was, IInv
<1>8. QED
  BY <1>6, <1>7 DEF Was, Committed, SameCode

\* A live token was live before, or it was issued for the request at the head of the
\* queue, which a code or a refresh token stands behind.
LEMMA LiveFrom ==
    ASSUME IInv, [Next]_vars, NEW r \in Response, Exists(responses'[r])
    PROVE  \/ /\ Exists(responses[r])
              /\ responses'[r].access = "live" => responses[r].access = "live"
              /\ responses'[r].refresh = "live" => responses[r].refresh = "live"
              /\ responses'[r].user = responses[r].user
              /\ responses'[r].client = responses[r].client
              /\ responses'[r].session = responses[r].session
           \/ \E i \in DOMAIN loop :
                \/ /\ loop[i].op = "mint"
                   /\ responses'[r].user = codes[loop[i].code].user
                   /\ responses'[r].client = codes[loop[i].code].client
                   /\ responses'[r].session = codes[loop[i].code].session
                \/ /\ loop[i].op = "rotate"
                   /\ responses'[r].user = responses[loop[i].from].user
                   /\ responses'[r].client = responses[loop[i].from].client
                   /\ responses'[r].session = responses[loop[i].from].session
<1> DEFINE Sound == /\ responses'[r].access = "live" => responses[r].access = "live"
                    /\ responses'[r].refresh = "live" => responses[r].refresh = "live"
<1>1. /\ responses \in [Response -> ResponseRow \cup {NoRow}]
      /\ TypeOK /\ QueueOK /\ JobsOK
  BY DEF IInv, TypeOK
<1>2. CASE Exists(responses[r])
  <2>1. SameResponse(responses[r], responses'[r])
    BY <1>1, <1>2, ResponsesKept
  <2>2. responses[r] \in ResponseRow
    BY <1>1, <1>2 DEF Exists
  <2>3. CASE NothingIssued
    <3>1. \/ responses'[r] = responses[r]
          \/ /\ Ledger!DiesAtMost(Standing(responses[r].access), Standing(responses'[r].access))
             /\ Ledger!DiesAtMost(Standing(responses[r].refresh),
                                  Standing(responses'[r].refresh))
      BY <2>3, TokensWither DEF Withered
    <3>2. Sound
      BY <3>1 DEF Ledger!DiesAtMost, Standing
    <3>3. QED
      BY <1>2, <2>1, <3>2 DEF SameResponse
  <2>4. ASSUME NEW n \in Response, CommitMint(n) PROVE Sound
    BY <1>1, <1>2, <2>4 DEF CommitMint
  <2>5. ASSUME NEW n \in Response, CommitRotate(n) PROVE Sound
    <3>1. responses'[r] \in {responses[r], [responses[r] EXCEPT !.refresh = "revoked"]}
      BY <1>1, <1>2, <2>5 DEF CommitRotate
    <3>2. QED
      BY <2>2, <3>1 DEF ResponseRow
  <2> HIDE DEF Sound
  <2>6. (\E n \in Response : CommitMint(n) \/ CommitRotate(n)) => Sound
    BY <2>4, <2>5
  <2>7. NothingIssued \/ \E n \in Response : CommitMint(n) \/ CommitRotate(n)
    BY ResponsesChange DEF NothingIssued
  <2>8. QED
    BY <1>2, <2>1, <2>3, <2>6, <2>7 DEF Sound, SameResponse
<1>3. CASE ~Exists(responses[r])
  <2>1. CommitMint(r) \/ CommitRotate(r)
    BY <1>1, <1>3, IssuedOnlyBy
  <2>2. CASE CommitMint(r)
    <3>1. /\ 1 \in DOMAIN loop /\ loop[1].op = "mint"
          /\ responses'[r] = NewResponse(codes[loop[1].code], loop[1].code, NoResponse)
      BY <1>1, <2>2, QueueHead DEF CommitMint
    <3>2. QED
      BY <3>1 DEF NewResponse
  <2>3. CASE CommitRotate(r)
    <3>1. /\ 1 \in DOMAIN loop /\ loop[1].op = "rotate"
          /\ responses'[r] = NewResponse(responses[loop[1].from],
                                         responses[loop[1].from].code, loop[1].from)
      BY <1>1, <2>3, QueueHead DEF CommitRotate
    <3>2. QED
      BY <3>1 DEF NewResponse
  <2>4. QED
    BY <2>1, <2>2, <2>3
<1>4. QED
  BY <1>2, <1>3

\* Asking is a matter of the user, the client and the session.
LEMMA SameAsks ==
    ASSUME NEW g, NEW h, NEW K,
           g.user = h.user, g.client = h.client, g.session = h.session
    PROVE  Asks(g, K) <=> Asks(h, K)
BY DEF Asks

\* No access token selected by K becomes live.
NoneRevived(K) ==
    \A r \in Response :
      Exists(responses'[r]) /\ responses'[r].access = "live" /\ Asks(responses'[r], K)
        => Exists(responses[r]) /\ responses[r].access = "live" /\ Asks(responses[r], K)

\* When nothing selected is outstanding, only a new request to authorize can change that,
\* and no token selected becomes live.
LEMMA StaysOut ==
    ASSUME IInv, [Next]_vars, NEW K, ~OutNow(K),
           \A t \in Thread, s \in Session, c \in Client, sc \in SUBSET Scope :
             Authorize(t, s, c, sc) => <<sessions[s].user, c, s>> \notin K
    PROVE  ~OutNext(K) /\ NoneRevived(K)
<1>1. ASSUME NEW k \in Code, Exists(codes'[k]), codes'[k].status = "open"
      PROVE  ~Asks(codes'[k], K)
  BY <1>1, OpenFrom, SameAsks DEF OutNow
<1>2. ASSUME NEW r \in Response, Exists(responses'[r]), Asks(responses'[r], K)
      PROVE  /\ Exists(responses[r]) /\ Asks(responses[r], K)
             /\ responses'[r].access = "live" => responses[r].access = "live"
             /\ responses'[r].refresh # "live"
  <2> DEFINE Known == /\ Exists(responses[r])
                      /\ responses'[r].access = "live" => responses[r].access = "live"
                      /\ responses'[r].refresh = "live" => responses[r].refresh = "live"
                      /\ responses'[r].user = responses[r].user
                      /\ responses'[r].client = responses[r].client
                      /\ responses'[r].session = responses[r].session
  <2>1. ASSUME NEW i \in DOMAIN loop, loop[i].op = "mint",
               responses'[r].user = codes[loop[i].code].user,
               responses'[r].client = codes[loop[i].code].client,
               responses'[r].session = codes[loop[i].code].session
        PROVE  FALSE
    <3>1. Asks(codes[loop[i].code], K)
      BY <1>2, <2>1, SameAsks
    <3>2. QED
      BY <2>1, <3>1 DEF OutNow
  <2>2. ASSUME NEW i \in DOMAIN loop, loop[i].op = "rotate",
               responses'[r].user = responses[loop[i].from].user,
               responses'[r].client = responses[loop[i].from].client,
               responses'[r].session = responses[loop[i].from].session
        PROVE  FALSE
    <3>1. Asks(responses[loop[i].from], K)
      BY <1>2, <2>2, SameAsks
    <3>2. QED
      BY <2>2, <3>1 DEF OutNow
  <2>3. Known
    BY <1>2, <2>1, <2>2, LiveFrom
  <2>4. Asks(responses[r], K)
    BY <1>2, <2>3, SameAsks
  <2>5. QED
    BY <2>3, <2>4 DEF OutNow
<1>3. ASSUME NEW t \in Thread, threads'[t].op = "authorize"
      PROVE  ~Asks(threads'[t], K)
  <2>1. CASE threads'[t] = threads[t]
    BY <1>3, <2>1 DEF OutNow
  <2>2. ASSUME NEW s \in Session, NEW c \in Client, NEW sc \in SUBSET Scope,
               Authorize(t, s, c, sc),
               threads'[t] = [op |-> "authorize", session |-> s,
                              user |-> sessions[s].user, client |-> c, scope |-> sc]
        PROVE  ~Asks(threads'[t], K)
    BY <2>2 DEF Asks
  <2>3. QED
    BY <1>3, <2>1, <2>2, ThreadFrom DEF FromHandler
<1>4. ASSUME NEW i \in DOMAIN loop', loop'[i].op = "mint"
      PROVE  ~Asks(codes'[loop'[i].code], K)
  <2>1. ASSUME NEW j \in DOMAIN loop, loop'[i] = loop[j] PROVE ~Asks(codes'[loop'[i].code], K)
    <3>1. loop[j].code \in Code /\ Exists(codes[loop[j].code])
      BY <1>4, <2>1, RowsNow
    <3>2. SameCode(codes[loop[j].code], codes'[loop[j].code])
      BY <3>1, CodesKept DEF IInv
    <3>3. ~Asks(codes[loop[j].code], K)
      BY <1>4, <2>1 DEF OutNow
    <3>4. QED
      BY <2>1, <3>2, <3>3, SameAsks DEF SameCode
  <2>2. ASSUME NEW k \in Code, NEW c \in Client, NEW p \in BOOLEAN,
               RedeemCode(k, c, p), loop'[i] = [op |-> "mint", code |-> k]
        PROVE  ~Asks(codes'[loop'[i].code], K)
    <3>1. Exists(codes[k]) /\ codes[k].status = "open"
      BY <2>2 DEF RedeemCode
    <3>2. SameCode(codes[k], codes'[k])
      BY <3>1, CodesKept DEF IInv
    <3>3. ~Asks(codes[k], K)
      BY <3>1 DEF OutNow
    <3>4. ~Asks(codes'[k], K)
      BY <3>2, <3>3, SameAsks DEF SameCode
    <3>5. QED
      BY <2>2, <3>4
  <2>3. ASSUME NEW r \in Response, NEW c \in Client, loop'[i] = [op |-> "rotate", from |-> r]
        PROVE  FALSE
    BY <1>4, <2>3
  <2>4. QED
    BY <2>1, <2>2, <2>3, QueueFrom
<1>5. ASSUME NEW i \in DOMAIN loop', loop'[i].op = "rotate"
      PROVE  ~Asks(responses'[loop'[i].from], K)
  <2>1. ASSUME NEW j \in DOMAIN loop, loop'[i] = loop[j]
        PROVE  ~Asks(responses'[loop'[i].from], K)
    <3>1. loop[j].from \in Response /\ Exists(responses[loop[j].from])
      BY <1>5, <2>1, RowsNow
    <3>2. SameResponse(responses[loop[j].from], responses'[loop[j].from])
      BY <3>1, ResponsesKept DEF IInv
    <3>3. ~Asks(responses[loop[j].from], K)
      BY <1>5, <2>1 DEF OutNow
    <3>4. QED
      BY <2>1, <3>2, <3>3, SameAsks DEF SameResponse
  <2>2. ASSUME NEW k \in Code, loop'[i] = [op |-> "mint", code |-> k]
        PROVE  FALSE
    BY <1>5, <2>2
  <2>3. ASSUME NEW r \in Response, NEW c \in Client,
               Refresh(r, c), loop'[i] = [op |-> "rotate", from |-> r]
        PROVE  ~Asks(responses'[loop'[i].from], K)
    <3>1. /\ Exists(responses[r]) /\ responses[r].refresh = "live"
          /\ UNCHANGED responses
      BY <2>3 DEF Refresh
    <3>2. ~Asks(responses[r], K)
      BY <3>1 DEF OutNow
    <3>3. QED
      BY <2>3, <3>1, <3>2
  <2>4. QED
    BY <2>1, <2>2, <2>3, QueueFrom
<1>6. ~OutNext(K)
  BY <1>1, <1>2, <1>3, <1>4, <1>5 DEF OutNext
<1>7. QED
  BY <1>2, <1>6 DEF NoneRevived

-----------------------------------------------------------------------------
(* Sessions that are over *)

LEMMA SessionsChange ==
    ASSUME [Next]_vars
    PROVE  \/ UNCHANGED sessions
           \/ \E u \in User, s \in Session : SignIn(u, s)
           \/ \E t \in Thread : CommitEnd(t)
           \/ \E s \in Session : ExpireSession(s)
<1>1. CASE SessionNext
  BY <1>1 DEF SessionNext, Logout, RevokeSession, ChangePassword, ResetPassword, BeginEnd
<1>2. CASE ConsentNext
  BY <1>2 DEF ConsentNext, Authorize, CommitAuthorize, AllowConsent, CommitConsent,
     RevokeConsent, Disconnect, BeginWithdraw, CommitWithdraw
<1>3. CASE TokenNext
  BY <1>3 DEF TokenNext, RedeemCode, ReplayCode, CommitMint, Refresh, CommitRotate,
     ReuseRefresh, RevokeToken, CommitRevoke
<1>4. CASE EnvironmentNext
  BY <1>4 DEF EnvironmentNext, RequestFails, ExchangeFails, ExpireCode, ExpireToken,
     SetActive
<1>5. QED
  BY <1>1, <1>2, <1>3, <1>4 DEF Next, vars

\* A session identifier is used once: a session that is over stays over.
LEMMA OverStaysOver ==
    ASSUME IInv, [Next]_vars, NEW s \in Session,
           Exists(sessions[s]), sessions[s].status # "live"
    PROVE  Exists(sessions'[s]) /\ sessions'[s].status # "live"
<1> DEFINE Over == Exists(sessions'[s]) /\ sessions'[s].status # "live"
<1>1. /\ sessions \in [Session -> SessionRow \cup {NoRow}]
      /\ sessions[s] \in SessionRow
  BY DEF IInv, TypeOK, Exists
<1>2. ASSUME sessions'[s] \in {[sessions[s] EXCEPT !.status = "revoked"],
                               [sessions[s] EXCEPT !.status = "expired"]}
      PROVE  Over
  <2>1. sessions'[s] \in SessionRow
    BY <1>1, <1>2 DEF SessionRow
  <2>2. sessions'[s].status # "live"
    BY <1>1, <1>2 DEF SessionRow
  <2>3. QED
    BY <2>1, <2>2, RowsExist
<1>3. ASSUME UNCHANGED sessions PROVE Over
  BY <1>3
<1>4. ASSUME NEW u \in User, NEW n \in Session, SignIn(u, n) PROVE Over
  BY <1>1, <1>4 DEF SignIn
<1>5. ASSUME NEW t \in Thread, CommitEnd(t) PROVE Over
  <2>1. CASE sessions'[s] = sessions[s]
    BY <2>1 DEF Exists
  <2>2. CASE sessions'[s] = [sessions[s] EXCEPT !.status = "revoked"]
    BY <1>2, <2>2
  <2>3. QED
    BY <1>5, <2>1, <2>2 DEF CommitEnd
<1>6. ASSUME NEW n \in Session, ExpireSession(n) PROVE Over
  <2>1. n # s
    BY <1>6 DEF ExpireSession
  <2>2. sessions'[s] = sessions[s]
    BY <1>1, <1>6, <2>1 DEF ExpireSession
  <2>3. QED
    BY <2>2 DEF Exists
<1> HIDE DEF Over
<1>7. Over
  BY <1>3, <1>4, <1>5, <1>6, SessionsChange
<1>8. QED
  BY <1>7 DEF Over

LEMMA EndedStep ==
    ASSUME IInv, [Next]_vars, NEW s \in Session, Ended(s)
    PROVE  /\ Exists(sessions'[s]) /\ sessions'[s].status # "live"
           /\ ~OutNext(OfSession(s))
           /\ NoneRevived(OfSession(s))
<1>1. ~OutNow(OfSession(s))
  BY RowsNow, Selects DEF Ended, Outstanding, OutNow, Issued, Jobs, Queued
<1>2. \A t \in Thread, n \in Session, c \in Client, sc \in SUBSET Scope :
        Authorize(t, n, c, sc) => <<sessions[n].user, c, n>> \notin OfSession(s)
  BY DEF Ended, Authorize, SignedIn, OfSession
<1>3. ~OutNext(OfSession(s)) /\ NoneRevived(OfSession(s))
  BY <1>1, <1>2, StaysOut
<1>4. QED
  BY <1>3, OverStaysOver DEF Ended

\* A session that is over, and of which no unused code, live refresh token or request in
\* flight is left, never comes back, and no access token of it does, however requests
\* overlap.  Before they are gone each of them may still yield live tokens.
THEOREM EndedIsFinal == Spec => EndedSessionStaysEnded
<1>1. ASSUME IInv, [Next]_vars, NEW s \in Session, Ended(s)
      PROVE  Ended(s)'
  BY <1>1, EndedStep, RowsNext, Selects
  DEF Ended, Outstanding, OutNext, Issued, Jobs, Queued, Exists
<1>2. ASSUME IInv, [Next]_vars, NEW s \in Session, Ended(s)
      PROVE  LiveTokens(LAMBDA g : g.session = s)'
               \subseteq LiveTokens(LAMBDA g : g.session = s)
  BY <1>2, EndedStep, RowsNow, RowsNext, Selects DEF LiveTokens, NoneRevived, Issued, Exists
<1>3. IInv /\ [Next]_vars =>
        [\A s \in Session : Ended(s) =>
           /\ Ended(s)'
           /\ LiveTokens(LAMBDA g : g.session = s)'
                \subseteq LiveTokens(LAMBDA g : g.session = s)]_vars
  BY <1>1, <1>2
<1>4. QED
  BY <1>3, Invariance, PTL DEF Spec, EndedSessionStaysEnded

-----------------------------------------------------------------------------
(* Consents that are withdrawn *)

\* Without a request that allows it, a consent does not come into force.
LEMMA NotGivenStays ==
    ASSUME IInv, [Next]_vars, NEW u \in User, NEW c \in Client,
           consents[u][c].status # "given",
           \A t \in Thread : threads[t].op = "consent" =>
             <<threads[t].user, threads[t].client>> # <<u, c>>
    PROVE  consents'[u][c].status # "given"
<1>1. consents \in [User -> [Client -> ConsentRow]]
  BY DEF IInv, TypeOK
<1>2. ASSUME NEW t \in Thread, CommitConsent(t)
      PROVE  consents'[u][c] = consents[u][c]
  <2>1. threads[t].user # u \/ threads[t].client # c
    BY <1>2 DEF CommitConsent
  <2>2. PICK new : consents' = [consents EXCEPT ![threads[t].user][threads[t].client] = new]
    BY <1>2 DEF CommitConsent
  <2>3. QED
    BY <1>1, <2>1, <2>2
<1>3. ASSUME NEW t \in Thread, CommitWithdraw(t)
      PROVE  consents'[u][c].status # "given"
  <2>1. CASE ~threads[t].hit
    BY <1>3, <2>1 DEF CommitWithdraw
  <2>2. CASE threads[t].hit
    <3>1. consents' = [consents EXCEPT ![threads[t].user][threads[t].client].status
                         = "revoked"]
      BY <1>3, <2>2 DEF CommitWithdraw
    <3>2. consents[u][c] \in ConsentRow
      BY <1>1
    <3>3. CASE threads[t].user = u /\ threads[t].client = c
      <4>1. consents'[u][c] = [consents[u][c] EXCEPT !.status = "revoked"]
        BY <1>1, <3>1, <3>3
      <4>2. QED
        BY <3>2, <4>1 DEF ConsentRow
    <3>4. CASE ~(threads[t].user = u /\ threads[t].client = c)
      <4>1. consents'[u][c] = consents[u][c]
        BY <1>1, <3>1, <3>4
      <4>2. QED
        BY <4>1
    <3>5. QED
      BY <3>3, <3>4
  <2>3. QED
    BY <2>1, <2>2
<1>4. QED
  BY <1>2, <1>3, ConsentsChange

\* The user presses "allow" for the client.
Allows(u, c) ==
    \E t \in Thread, s \in Session, sc \in SUBSET Scope :
      SignedIn(s) /\ sessions[s].user = u /\ AllowConsent(t, s, c, sc)

LEMMA WithdrawnStep ==
    ASSUME IInv, [Next]_vars, NEW u \in User, NEW c \in Client, Withdrawn(u, c)
    PROVE  /\ consents'[u][c].status # "given"
           /\ ~OutNext(OfPair(u, c))
           /\ NoneRevived(OfPair(u, c))
           /\ \/ \A t \in Thread : threads'[t].op = "consent" =>
                   <<threads'[t].user, threads'[t].client>> # <<u, c>>
              \/ Allows(u, c)
<1>1. /\ ~OutNow(OfPair(u, c))
      /\ c \notin Trusted /\ consents[u][c].status # "given"
      /\ \A t \in Thread : threads[t].op = "consent" =>
           <<threads[t].user, threads[t].client>> # <<u, c>>
  BY RowsNow, Selects DEF Withdrawn, Outstanding, OutNow, Issued, Jobs, Queued
<1>2. \A t \in Thread, s \in Session, d \in Client, sc \in SUBSET Scope :
        Authorize(t, s, d, sc) => <<sessions[s].user, d, s>> \notin OfPair(u, c)
  BY <1>1 DEF Authorize, HasConsent, OfPair
<1>3. ~OutNext(OfPair(u, c)) /\ NoneRevived(OfPair(u, c))
  BY <1>1, <1>2, StaysOut
<1>4. consents'[u][c].status # "given"
  BY <1>1, NotGivenStays
<1>5. ASSUME NEW t \in Thread, threads'[t].op = "consent",
             <<threads'[t].user, threads'[t].client>> = <<u, c>>
      PROVE  Allows(u, c)
  <2>1. threads'[t] # threads[t]
    BY <1>1, <1>5
  <2>2. PICK s \in Session, d \in Client, sc \in SUBSET Scope :
          /\ AllowConsent(t, s, d, sc)
          /\ threads'[t] = [op |-> "consent", user |-> sessions[s].user, client |-> d,
                            scope |-> sc, row |-> consents[sessions[s].user][d]]
    BY <1>5, <2>1, ThreadFrom DEF FromHandler
  <2>3. d = c /\ sessions[s].user = u
    BY <1>5, <2>2
  <2>4. QED
    BY <2>2, <2>3 DEF Allows, AllowConsent
<1>6. QED
  BY <1>3, <1>4, <1>5

\* An application whose consent is withdrawn, and for which no unused code, live refresh
\* token or request in flight is left, gets no access until its user allows it again,
\* however requests overlap.  Before they are gone each of them may still yield live tokens.
THEOREM WithdrawnIsFinal == Spec => WithdrawnStaysWithdrawn
<1>1. ASSUME IInv, [Next]_vars, NEW u \in User, NEW c \in Client, Withdrawn(u, c)
      PROVE  \/ Withdrawn(u, c)'
             \/ \E t \in Thread, s \in Session, sc \in SUBSET Scope :
                  SignedIn(s) /\ sessions[s].user = u /\ AllowConsent(t, s, c, sc)
  <2>1. CASE Allows(u, c)
    BY <2>1 DEF Allows
  <2>2. CASE ~Allows(u, c)
    <3>1. /\ c \notin Trusted /\ consents'[u][c].status # "given"
          /\ ~OutNext(OfPair(u, c))
          /\ \A t \in Thread : threads'[t].op = "consent" =>
               <<threads'[t].user, threads'[t].client>> # <<u, c>>
      BY <1>1, <2>2, WithdrawnStep DEF Withdrawn
    <3>2. Withdrawn(u, c)'
      BY <1>1, <3>1, RowsNext, Selects
      DEF Withdrawn, Outstanding, OutNext, Issued, Jobs, Queued, Exists
    <3>3. QED
      BY <3>2
  <2>3. QED
    BY <2>1, <2>2
<1>2. ASSUME IInv, [Next]_vars, NEW u \in User, NEW c \in Client, Withdrawn(u, c)
      PROVE  LiveTokens(LAMBDA g : g.user = u /\ g.client = c)'
               \subseteq LiveTokens(LAMBDA g : g.user = u /\ g.client = c)
  BY <1>2, WithdrawnStep, RowsNow, RowsNext, Selects
  DEF LiveTokens, NoneRevived, Issued, Exists
<1>3. IInv /\ [Next]_vars =>
        [\A u \in User, c \in Client : Withdrawn(u, c) =>
           /\ Withdrawn(u, c)' \/ \E t \in Thread, s \in Session, sc \in SUBSET Scope :
                SignedIn(s) /\ sessions[s].user = u /\ AllowConsent(t, s, c, sc)
           /\ LiveTokens(LAMBDA g : g.user = u /\ g.client = c)'
                \subseteq LiveTokens(LAMBDA g : g.user = u /\ g.client = c)]_vars
  BY <1>1, <1>2
<1>4. QED
  BY <1>3, Invariance, PTL DEF Spec, WithdrawnStaysWithdrawn
=============================================================================
