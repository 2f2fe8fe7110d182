----------------------------- MODULE LinksProofs -----------------------------
(***************************************************************************)
(* Theorems about Links, for every number of accounts, identities,         *)
(* addresses, browsers and callbacks that run at once.                     *)
(***************************************************************************)
EXTENDS Links, WellFoundedInduction, TLAPS

-----------------------------------------------------------------------------
(* The key of a new row *)

\* The keys of rows that are there, or that a callback has read.
Held == Rows \cup {job[t].row : t \in {u \in Thread : job[u] # None}}

\* There is a key left for a new row of an account that has none.
LEMMA KeyLeft ==
    ASSUME IInv, NEW l \in Local, RowsOf(l) = {}
    PROVE  \E n \in 1..Keys : <<l, n>> \notin Held
<1> DEFINE Holds(t) == job[t] # None /\ job[t].row # None /\ job[t].row[1] = l
           held == [t \in Thread |-> IF Holds(t) THEN job[t].row[2] ELSE 1]
<1>1. ASSUME NEW t \in Thread, Holds(t) PROVE job[t].row \in Local \X (1..Keys)
  BY <1>1 DEF IInv, TypeOK, Job, Row
<1>2. 1 \in 1..Keys
  BY KeysAssumption
<1>3. \A t \in Thread : Holds(t) => job[t].row[2] \in 1..Keys
  BY <1>1
<1>4. held \in [Thread -> 1..Keys]
  BY <1>2, <1>3
<1>5. PICK n \in 1..Keys : \A t \in Thread : held[t] # n
  BY <1>4, KeysAssumption
<1>6. ASSUME <<l, n>> \in Rows PROVE FALSE
  BY <1>6 DEF IInv, RowsOK, RowsOf
<1>7. ASSUME NEW t \in Thread, job[t] # None, job[t].row = <<l, n>> PROVE FALSE
  <2>1. <<l, n>> # None
    BY NoneAssumption DEF Row
  <2>2. Holds(t)
    BY <1>7, <2>1
  <2>3. held[t] = n
    BY <1>7, <2>2
  <2>4. QED
    BY <1>5, <2>3
<1>8. QED
  BY <1>6, <1>7 DEF Held

\* The key a new row takes is of its account, and neither a row's nor one that a
\* callback still holds.
LEMMA NewRowFree ==
    ASSUME IInv, NEW l \in Local, RowsOf(l) = {}
    PROVE  /\ NewRow(l) \in Row /\ NewRow(l)[1] = l /\ link[NewRow(l)] = None
           /\ \A t \in Thread : job[t] # None => job[t].row # NewRow(l)
<1> DEFINE Free == {n \in 1..Keys : <<l, n>> \notin Held}
           IsNew(k) == k \notin Held /\ \A n \in 1..Keys : n < k[2] => <<l, n>> \in Held
<1>1. Free \subseteq Nat /\ Free # {}
  BY KeyLeft
<1>2. PICK n \in Free : \A m \in Free : ~ (<<m, n>> \in OpToRel(<, Nat))
  <2> HIDE DEF Free
  <2>1. QED
    BY <1>1, NatLessThanWellFounded, WFMin
<1>3. \A m \in Free : ~ (m < n)
  BY <1>1, <1>2 DEF OpToRel
<1>4. <<l, n>> \in {l} \X (1..Keys) /\ IsNew(<<l, n>>)
  BY <1>3
<1>5. NewRow(l) = CHOOSE k \in {l} \X (1..Keys) : IsNew(k)
  BY DEF NewRow, Held
<1> HIDE DEF Free, IsNew
<1>6. NewRow(l) \in {l} \X (1..Keys) /\ IsNew(NewRow(l))
  BY <1>4, <1>5
<1>7. NewRow(l) \in Row /\ NewRow(l)[1] = l /\ NewRow(l) \notin Held
  BY <1>6 DEF Row, IsNew
<1>8. QED
  BY <1>7 DEF Held, Rows

-----------------------------------------------------------------------------
(* What one step does to a link row *)

\* A callback that makes a link gives its account the next key.
Inserted(k, t, l) ==
    /\ link[k] = None /\ RowsOf(l) = {} /\ k[1] = l
    /\ \A u \in Thread : job[u] # None => job[u].row # k
    /\ link'[k] = [user |-> l, subject |-> job[t].subject, revoked |-> FALSE]

\* The row that a callback had read is gone, and made again under its key.
Reinserted(k, t) ==
    /\ At(t, "relink") /\ job[t].row = k /\ link[k] = None /\ k[1] = job[t].target
    /\ link'[k] = [user |-> job[t].target, subject |-> job[t].subject, revoked |-> FALSE]

\* Only the row of the callback's own account and identity is written again.
Relinked(k, t) ==
    /\ At(t, "relink") /\ job[t].row = k /\ link[k] # None
    /\ link[k].user = job[t].target /\ link[k].subject = job[t].subject
    /\ link'[k] = [user |-> link[k].user, subject |-> link[k].subject, revoked |-> FALSE]

Unlinked(k) ==
    /\ link[k] # None /\ link'[k] = None
    /\ account[link[k].user].password /\ UNCHANGED account

Revoked(k) == link[k] # None /\ link'[k] = [link[k] EXCEPT !.revoked = TRUE]

LinkChange(k) ==
    \/ link'[k] = link[k]
    \/ \E t \in Thread, l \in Local :
         /\ Inserted(k, t, l)
         /\ \/ /\ At(t, "create") /\ ~Exists(l) /\ account'[l] # None
               /\ account'[l].email = job[t].claims.email
            \/ At(t, "attach") /\ job[t].target = l
            \/ At(t, "relink") /\ job[t].target = l
    \/ \E t \in Thread : Reinserted(k, t) \/ Relinked(k, t)
    \/ Unlinked(k) \/ Revoked(k)

LEMMA InsertedRow ==
    ASSUME IInv, NEW t \in Thread, NEW l \in Local, RowsOf(l) = {},
           Saves(l, NewRow(l), job[t].subject), NEW k \in Row
    PROVE  link'[k] = link[k] \/ Inserted(k, t, l)
<1>1. NewRow(l) \in Row /\ NewRow(l)[1] = l /\ link[NewRow(l)] = None
  BY NewRowFree
<1>2. \A u \in Thread : job[u] # None => job[u].row # NewRow(l)
  BY NewRowFree
<1>3. link' = [link EXCEPT ![NewRow(l)] =
                 [user |-> l, subject |-> job[t].subject, revoked |-> FALSE]]
  BY DEF Saves
<1> HIDE DEF NewRow
<1>4. QED
  BY <1>1, <1>2, <1>3 DEF IInv, TypeOK, Inserted

LEMMA NewLinkRow ==
    ASSUME NEW l \in Local, NEW s \in Subject
    PROVE  /\ [user |-> l, subject |-> s, revoked |-> FALSE] \in LinkRow
           /\ [user |-> l, subject |-> s, revoked |-> FALSE] # None
           /\ [user |-> l, subject |-> s, revoked |-> FALSE].user = l
<1>1. [user |-> l, subject |-> s, revoked |-> FALSE] \in LinkRow
  BY DEF LinkRow
<1>2. QED
  BY <1>1, NoneAssumption

\* What a callback about to write keeps.
LEMMA Writing ==
    ASSUME IInv, NEW t \in Thread, job[t] # None
    PROVE  /\ job[t] \in Job
           /\ At(t, "attach") => job[t].target \in Local /\ Exists(job[t].target)
           /\ At(t, "touch") => job[t].row \in Row /\ job[t].target = job[t].row[1]
           /\ At(t, "relink") => /\ job[t].flow.mode = "link" /\ job[t].target = job[t].flow.by
                                 /\ job[t].target \in Local /\ Exists(job[t].target)
           /\ job[t].row \in Rows =>
                /\ link[job[t].row].user = job[t].target
                /\ link[job[t].row].subject = job[t].subject
<1>1. /\ job[t] \in Job /\ job[t].row \in Row \cup {None}
      /\ job[t].target \in Local \cup {None} /\ job[t].user \in Local \cup {None}
  BY DEF IInv, TypeOK, Job
<1>2. At(t, "attach") => job[t].target \in Local /\ Exists(job[t].target)
  BY <1>1 DEF IInv, JobsOK, At
<1>3. At(t, "touch") => job[t].row \in Row /\ job[t].target = job[t].row[1]
  BY <1>1 DEF IInv, JobsOK, HeldOK
<1>4. At(t, "relink") => /\ job[t].flow.mode = "link" /\ job[t].target = job[t].flow.by
                         /\ job[t].target \in Local /\ Exists(job[t].target)
  BY <1>1 DEF IInv, JobsOK
<1>5. job[t].row \in Rows => /\ link[job[t].row].user = job[t].target
                             /\ link[job[t].row].subject = job[t].subject
  BY NoneAssumption DEF IInv, HeldOK, RowsOK, Rows
<1>6. QED
  BY <1>1, <1>2, <1>3, <1>4, <1>5

\* The row a callback has read is of its account.
LEMMA JobRow ==
    ASSUME IInv, NEW t \in Thread, job[t] # None, job[t].row # None
    PROVE  job[t].row \in Row /\ job[t].row[1] = job[t].target
BY DEF IInv, TypeOK, Job, HeldOK

LEMMA AttachRows ==
    ASSUME IInv, NEW t \in Thread, CommitAttach(t), NEW k \in Row PROVE LinkChange(k)
<1>1. At(t, "attach") /\ job[t] # None
  BY DEF CommitAttach, At
<1>2. job[t].target \in Local
  BY <1>1, Writing
<1>3. CASE UNCHANGED link
  BY <1>3 DEF LinkChange
<1>4. CASE /\ Insertable(job[t].target, job[t].subject)
           /\ Saves(job[t].target, NewRow(job[t].target), job[t].subject)
  <2>1. RowsOf(job[t].target) = {}
    BY <1>4 DEF Insertable
  <2>2. link'[k] = link[k] \/ Inserted(k, t, job[t].target)
    BY <1>2, <1>4, <2>1, InsertedRow
  <2>3. QED
    BY <1>1, <1>2, <2>2 DEF LinkChange
<1>5. QED
  BY <1>3, <1>4 DEF CommitAttach, RolledBack

\* The account a callback creates has no row yet, and will be there.
LEMMA CreateRows ==
    ASSUME IInv, NEW t \in Thread, CommitCreate(t), NEW k \in Row PROVE LinkChange(k)
<1>1. At(t, "create") /\ job[t] # None /\ job[t] \in Job
  BY DEF CommitCreate, At, IInv, TypeOK
<1>2. CASE UNCHANGED link
  BY <1>2 DEF LinkChange
<1>3. ASSUME NEW l \in Local, ~Exists(l), Saves(l, NewRow(l), job[t].subject),
             account' = [account EXCEPT ![l] =
                           [email |-> job[t].claims.email, password |-> FALSE]]
      PROVE  LinkChange(k)
  <2>1. RowsOf(l) = {}
    BY <1>3 DEF IInv, RowsOK, RowsOf
  <2>2. job[t].claims \in Claims
    BY <1>1 DEF IInv, JobsOK, At, Job
  <2>3. [email |-> job[t].claims.email, password |-> FALSE] \in Account
    BY <2>2 DEF Claims, Account
  <2>4. account'[l] # None /\ account'[l].email = job[t].claims.email
    BY <1>3, <2>3, NoneAssumption DEF IInv, TypeOK
  <2>5. link'[k] = link[k] \/ Inserted(k, t, l)
    BY <1>3, <2>1, InsertedRow
  <2>6. QED
    BY <1>1, <1>3, <2>4, <2>5 DEF LinkChange
<1>4. QED
  BY <1>2, <1>3 DEF CommitCreate, RolledBack

LEMMA RelinkRows ==
    ASSUME IInv, NEW t \in Thread, CommitRelink(t), NEW k \in Row PROVE LinkChange(k)
<1> DEFINE l == job[t].target
           s == job[t].subject
           r == job[t].row
<1>1. At(t, "relink") /\ job[t] # None
  BY DEF CommitRelink, At
<1>2. l \in Local /\ job[t] \in Job
  BY <1>1, Writing
<1>3. CASE UNCHANGED link
  BY <1>3 DEF LinkChange
<1>4. CASE r \in Rows /\ Saves(l, r, s)
  <2>1. r \in Row /\ link[r] # None /\ link[r] \in LinkRow
    BY <1>4 DEF Rows, IInv, TypeOK
  <2>2. link[r].user = l /\ link[r].subject = s
    BY <1>1, <1>4, Writing
  <2>3. link'[r] = [user |-> link[r].user, subject |-> link[r].subject, revoked |-> FALSE]
    BY <1>4, <2>1, <2>2 DEF Saves, IInv, TypeOK
  <2>4. Relinked(r, t)
    BY <1>1, <2>1, <2>2, <2>3 DEF Relinked
  <2>5. k # r => link'[k] = link[k]
    BY <1>4 DEF Saves, IInv, TypeOK
  <2>6. QED
    BY <2>4, <2>5 DEF LinkChange
<1>5. CASE r = None /\ Insertable(l, s) /\ Saves(l, NewRow(l), s)
  <2>1. RowsOf(l) = {}
    BY <1>5 DEF Insertable
  <2>2. link'[k] = link[k] \/ Inserted(k, t, l)
    BY <1>2, <1>5, <2>1, InsertedRow
  <2>3. QED
    BY <1>1, <1>2, <2>2 DEF LinkChange
<1>6. CASE r # None /\ r \notin Rows /\ Saves(l, r, s)
  <2>1. r \in Row /\ r[1] = l
    BY <1>1, <1>6, JobRow
  <2>2. link[r] = None
    BY <1>6, <2>1 DEF Rows
  <2>3. /\ link'[r] = [user |-> l, subject |-> s, revoked |-> FALSE]
        /\ k # r => link'[k] = link[k]
    BY <1>6, <2>1 DEF Saves, IInv, TypeOK
  <2>4. Reinserted(r, t)
    BY <1>1, <2>1, <2>2, <2>3 DEF Reinserted
  <2>5. QED
    BY <2>3, <2>4 DEF LinkChange
<1>7. QED
  BY <1>3, <1>4, <1>5, <1>6 DEF CommitRelink, RolledBack

\* What any step does to one link row.
LEMMA LinkStep == ASSUME IInv, [Next]_vars, NEW k \in Row PROVE LinkChange(k)
<1>1. CASE UNCHANGED link
  BY <1>1 DEF LinkChange
<1>2. ASSUME NEW b \in Browser, DeleteLinks(b) PROVE LinkChange(k)
  <2>1. account[unlinking[b]].password
    BY <1>2 DEF DeleteLinks, IInv, UnlinkingOK
  <2>2. QED
    BY <1>2, <2>1 DEF DeleteLinks, RowsOf, Rows, LinkChange, Unlinked, IInv, TypeOK
<1>3. ASSUME NEW r \in Row, Revoke(r) PROVE LinkChange(k)
  BY <1>3 DEF Revoke, Rows, LinkChange, Revoked, IInv, TypeOK
<1>4. ASSUME NEW b \in Browser,
             \/ StartLogin(b) \/ StartLink(b) \/ CallbackFails(b)
             \/ \E t \in Thread, s \in Subject : Redeem(t, b, s)
             \/ \E l \in Local : LocalLogin(b, l)
             \/ Logout(b) \/ SetPassword(b) \/ Unlink(b)
      PROVE  UNCHANGED link
  BY <1>4
  DEF StartLogin, StartLink, CallbackFails, Redeem, LocalLogin, Logout, SetPassword, Unlink
<1>5. ASSUME NEW t \in Thread,
             \/ FindLink(t) \/ FindAccount(t) \/ FindOwnLink(t)
             \/ CommitTouch(t) \/ LoginUser(t)
      PROVE  UNCHANGED link
  BY <1>5 DEF FindLink, FindAccount, FindOwnLink, CommitTouch, RolledBack, LoginUser
<1>6. ASSUME NEW s \in Subject, NEW e \in Email, ProviderVerifies(s, e) PROVE UNCHANGED link
  BY <1>6 DEF ProviderVerifies
<1>7. QED
  BY <1>1, <1>2, <1>3, <1>4, <1>5, <1>6, AttachRows, CreateRows, RelinkRows DEF Next, vars

-----------------------------------------------------------------------------
(* What one step does to an account *)

AccountChange(l) ==
    \/ account'[l] = account[l]
    \/ /\ ~Exists(l) /\ account'[l] \in Account
       /\ \E k \in Row : link'[k] # None /\ link'[k].user = l
    \/ Exists(l) /\ account'[l] = [account[l] EXCEPT !.password = TRUE] /\ UNCHANGED link

LEMMA CreateAccounts ==
    ASSUME IInv, NEW t \in Thread, CommitCreate(t), NEW l \in Local PROVE AccountChange(l)
<1>1. At(t, "create") /\ job[t] # None /\ job[t] \in Job
  BY DEF CommitCreate, At, IInv, TypeOK
<1>2. CASE UNCHANGED account
  BY <1>2 DEF AccountChange
<1>3. ASSUME NEW v \in Local, ~Exists(v), Saves(v, NewRow(v), job[t].subject),
             account' = [account EXCEPT ![v] =
                           [email |-> job[t].claims.email, password |-> FALSE]]
      PROVE  AccountChange(l)
  <2>1. RowsOf(v) = {}
    BY <1>3 DEF IInv, RowsOK, RowsOf
  <2>2. job[t].claims \in Claims
    BY <1>1 DEF IInv, JobsOK, At, Job
  <2>3. account'[v] \in Account /\ (l # v => account'[l] = account[l])
    BY <1>3, <2>2 DEF Claims, Account, IInv, TypeOK
  <2>4. NewRow(v) \in Row
    BY <2>1, NewRowFree
  <2>5. link'[NewRow(v)] = [user |-> v, subject |-> job[t].subject, revoked |-> FALSE]
    BY <1>3, <2>4 DEF Saves, IInv, TypeOK
  <2>6. job[t].subject \in Subject
    BY <1>1 DEF Job
  <2>7. link'[NewRow(v)] # None /\ link'[NewRow(v)].user = v
    BY <2>5, <2>6, NewLinkRow
  <2> HIDE DEF NewRow
  <2>8. QED
    BY <1>3, <2>3, <2>4, <2>7 DEF AccountChange
<1>4. QED
  BY <1>2, <1>3 DEF CommitCreate, RolledBack

LEMMA PasswordAccounts ==
    ASSUME IInv, NEW b \in Browser, SetPassword(b), NEW l \in Local PROVE AccountChange(l)
<1>1. session[b].user \in Local /\ Exists(session[b].user)
  BY DEF SetPassword, IInv, TypeOK, SessionsOK
<1>2. account' = [account EXCEPT ![session[b].user].password = TRUE] /\ UNCHANGED link
  BY DEF SetPassword
<1>3. QED
  BY <1>1, <1>2 DEF IInv, TypeOK, AccountChange

\* What any step does to one account: it is never deleted.
LEMMA AccountStep == ASSUME IInv, [Next]_vars, NEW l \in Local PROVE AccountChange(l)
<1>1. CASE UNCHANGED account
  BY <1>1 DEF AccountChange
<1>2. ASSUME NEW b \in Browser,
             \/ StartLogin(b) \/ StartLink(b) \/ CallbackFails(b)
             \/ \E t \in Thread, s \in Subject : Redeem(t, b, s)
             \/ \E v \in Local : LocalLogin(b, v)
             \/ Logout(b) \/ Unlink(b) \/ DeleteLinks(b)
      PROVE  UNCHANGED account
  BY <1>2
  DEF StartLogin, StartLink, CallbackFails, Redeem, LocalLogin, Logout, Unlink, DeleteLinks
<1>3. ASSUME NEW t \in Thread,
             \/ FindLink(t) \/ FindAccount(t) \/ FindOwnLink(t)
             \/ CommitTouch(t) \/ CommitAttach(t) \/ CommitRelink(t) \/ LoginUser(t)
      PROVE  UNCHANGED account
  BY <1>3
  DEF FindLink, FindAccount, FindOwnLink, CommitTouch, CommitAttach, CommitRelink,
      RolledBack, LoginUser
<1>4. ASSUME NEW k \in Row, Revoke(k) PROVE UNCHANGED account
  BY <1>4 DEF Revoke
<1>5. ASSUME NEW s \in Subject, NEW e \in Email, ProviderVerifies(s, e)
      PROVE  UNCHANGED account
  BY <1>5 DEF ProviderVerifies
<1>6. QED
  BY <1>1, <1>2, <1>3, <1>4, <1>5, CreateAccounts, PasswordAccounts DEF Next, vars

LEMMA AccountsStay ==
    ASSUME IInv, [Next]_vars, NEW l \in Local
    PROVE  /\ account'[l] \in Account \cup {None}
           /\ account[l] # None => account'[l] # None /\ account'[l].email = account[l].email
           /\ account[l] # None /\ account[l].password => account'[l].password
<1>1. account[l] \in Account \cup {None}
  BY DEF IInv, TypeOK
<1>2. CASE account[l] = None
  BY <1>1, <1>2, AccountStep DEF AccountChange, Exists
<1>3. CASE account[l] \in Account
  <2>1. /\ [account[l] EXCEPT !.password = TRUE] \in Account
        /\ [account[l] EXCEPT !.password = TRUE].password
        /\ [account[l] EXCEPT !.password = TRUE].email = account[l].email
    BY <1>3 DEF Account
  <2>2. QED
    BY <1>3, <2>1, NoneAssumption, AccountStep DEF AccountChange, Exists
<1>4. QED
  BY <1>1, <1>2, <1>3

-----------------------------------------------------------------------------
(* What one step does to a session *)

SessionKept(b) ==
    /\ session'[b] \in [user : Local \cup {None}, flow : Flow \cup {None}]
    /\ session'[b].user # None => account'[session'[b].user] # None
    /\ session'[b].flow # None /\ session'[b].flow.mode = "link" =>
         session'[b].user # None /\ session'[b].flow.by = session'[b].user

\* Everything a session says now.
LEMMA SessionNow ==
    ASSUME IInv, NEW b \in Browser
    PROVE  /\ session[b] \in [user : Local \cup {None}, flow : Flow \cup {None}]
           /\ session[b].user \in Local \cup {None} /\ session[b].flow \in Flow \cup {None}
           /\ session[b].user # None =>
                session[b].user \in Local /\ account[session[b].user] # None
           /\ session[b].flow # None /\ session[b].flow.mode = "link" =>
                session[b].user # None /\ session[b].flow.by = session[b].user
<1>1. session[b] \in [user : Local \cup {None}, flow : Flow \cup {None}]
  BY DEF IInv, TypeOK
<1>2. QED
  BY <1>1 DEF IInv, SessionsOK, Exists

\* A browser is signed in to an account that is there, and has no flow then.
LEMMA SignedInSession ==
    ASSUME IInv, [Next]_vars, NEW c \in Browser, NEW l \in Local, account'[l] # None,
           session' = [session EXCEPT ![c] = [user |-> l, flow |-> None]],
           NEW b \in Browser, session'[b] = session[b] => SessionKept(b)
    PROVE  SessionKept(b)
<1>1. CASE b = c
  <2>1. session'[b] = [user |-> l, flow |-> None]
    BY <1>1 DEF IInv, TypeOK
  <2>2. QED
    BY <2>1 DEF SessionKept
<1>2. CASE b # c
  BY <1>2 DEF IInv, TypeOK
<1>3. QED
  BY <1>1, <1>2

LEMMA SessionStep == ASSUME IInv, [Next]_vars, NEW b \in Browser PROVE SessionKept(b)
<1>1. ASSUME session'[b] = session[b] PROVE SessionKept(b)
  BY <1>1, SessionNow, AccountsStay DEF SessionKept
<1>2. CASE UNCHANGED session
  BY <1>1, <1>2
<1>3. ASSUME NEW c \in Browser,
             session' = [session EXCEPT ![c].flow = None]
      PROVE  SessionKept(b)
  <2>1. CASE b = c
    <3>1. session'[b] = [session[b] EXCEPT !.flow = None]
      BY <1>3, <2>1 DEF IInv, TypeOK
    <3>2. QED
      BY <3>1, SessionNow, AccountsStay DEF SessionKept
  <2>2. QED
    BY <1>1, <1>3, <2>1 DEF IInv, TypeOK
<1>4. ASSUME NEW c \in Browser, StartLogin(c) PROVE SessionKept(b)
  <2>1. CASE b = c
    <3>1. session'[b] = [session[b] EXCEPT !.flow = [mode |-> "login", by |-> None]]
      BY <1>4, <2>1 DEF StartLogin, IInv, TypeOK
    <3>2. [mode |-> "login", by |-> None] \in Flow
      BY DEF Flow
    <3>3. QED
      BY <3>1, <3>2, SessionNow, AccountsStay DEF SessionKept
  <2>2. QED
    BY <1>1, <1>4, <2>1 DEF StartLogin, IInv, TypeOK
<1>5. ASSUME NEW c \in Browser, StartLink(c) PROVE SessionKept(b)
  <2>1. CASE b = c
    <3>1. session'[b] = [session[b] EXCEPT !.flow =
                           [mode |-> "link", by |-> session[b].user]]
          /\ session[b].user # None
      BY <1>5, <2>1 DEF StartLink, IInv, TypeOK
    <3>2. [mode |-> "link", by |-> session[b].user] \in Flow
      BY SessionNow DEF Flow
    <3>3. QED
      BY <3>1, <3>2, SessionNow, AccountsStay DEF SessionKept
  <2>2. QED
    BY <1>1, <1>5, <2>1 DEF StartLink, IInv, TypeOK
<1>6. ASSUME NEW c \in Browser, NEW l \in Local, LocalLogin(c, l) PROVE SessionKept(b)
  <2> DEFINE flow == IF session[c].user \in {None, l} THEN session[c].flow ELSE None
  <2>1. CASE b = c
    <3>1. session'[b] = [user |-> l, flow |-> flow] /\ account'[l] # None
      BY <1>6, <2>1 DEF LocalLogin, Exists, IInv, TypeOK
    <3>2. flow \in Flow \cup {None}
      BY SessionNow
    <3>3. flow # None /\ flow.mode = "link" => flow.by = l
      BY SessionNow
    <3> HIDE DEF flow
    <3>4. QED
      BY <3>1, <3>2, <3>3, NoneAssumption DEF SessionKept
  <2>2. QED
    BY <1>1, <1>6, <2>1 DEF LocalLogin, IInv, TypeOK
<1>7. ASSUME NEW c \in Browser, Logout(c) PROVE SessionKept(b)
  <2>1. CASE b = c
    <3>1. session'[b] = [user |-> None, flow |-> None]
      BY <1>7, <2>1 DEF Logout, IInv, TypeOK
    <3>2. QED
      BY <3>1 DEF SessionKept
  <2>2. QED
    BY <1>1, <1>7, <2>1 DEF Logout, IInv, TypeOK
<1>8. ASSUME NEW t \in Thread, LoginUser(t) PROVE SessionKept(b)
  <2>1. /\ job[t] # None /\ job[t] \in Job /\ job[t].step = "committed"
        /\ session' = [session EXCEPT ![job[t].browser] =
                         [user |-> job[t].target, flow |-> None]]
    BY <1>8 DEF LoginUser, At, IInv, TypeOK
  <2>2. job[t].target \in Local /\ account[job[t].target] # None
    BY <2>1 DEF IInv, JobsOK, Exists, Job
  <2>3. account'[job[t].target] # None /\ job[t].browser \in Browser
    BY <2>1, <2>2, AccountsStay DEF Job
  <2>4. QED
    BY <1>1, <2>1, <2>2, <2>3, SignedInSession
<1>9. ASSUME NEW t \in Thread,
             \/ FindLink(t) \/ FindAccount(t) \/ FindOwnLink(t)
             \/ CommitTouch(t) \/ CommitAttach(t) \/ CommitCreate(t) \/ CommitRelink(t)
      PROVE  UNCHANGED session
  BY <1>9 DEF FindLink, FindAccount, FindOwnLink, CommitTouch, CommitAttach, CommitCreate,
              CommitRelink, RolledBack
<1>10. ASSUME NEW c \in Browser, DeleteLinks(c)
       PROVE  UNCHANGED session \/ session' = [session EXCEPT ![c].flow = None]
  BY <1>10 DEF DeleteLinks
<1>11. ASSUME NEW c \in Browser,
              CallbackFails(c) \/ \E t \in Thread, s \in Subject : Redeem(t, c, s)
       PROVE  session' = [session EXCEPT ![c].flow = None]
  BY <1>11 DEF CallbackFails, Redeem
<1>12. ASSUME NEW c \in Browser, SetPassword(c) \/ Unlink(c) PROVE UNCHANGED session
  BY <1>12 DEF SetPassword, Unlink
<1>13. ASSUME NEW k \in Row, Revoke(k) PROVE UNCHANGED session
  BY <1>13 DEF Revoke
<1>14. ASSUME NEW s \in Subject, NEW e \in Email, ProviderVerifies(s, e)
       PROVE  UNCHANGED session
  BY <1>14 DEF ProviderVerifies
<1>15. QED
  BY <1>2, <1>3, <1>4, <1>5, <1>6, <1>7, <1>8, <1>9, <1>10, <1>11, <1>12, <1>13, <1>14
  DEF Next, vars

-----------------------------------------------------------------------------
(* What one step does to a callback *)

\* What TG11 has verified is not forgotten, and is what it says.
LEMMA Provider ==
    ASSUME IInv, [Next]_vars
    PROVE  /\ idp' \in [Subject -> Claims] /\ shown' \in [Subject -> SUBSET Email]
           /\ \A s \in Subject : shown[s] \subseteq shown'[s]
           /\ \A s \in Subject : idp'[s].verified => idp'[s].email \in shown'[s]
<1>0. /\ idp \in [Subject -> Claims] /\ shown \in [Subject -> SUBSET Email]
      /\ \A s \in Subject : idp[s].verified => idp[s].email \in shown[s]
  BY DEF IInv, TypeOK, ClaimsOK
<1>1. CASE UNCHANGED <<idp, shown>>
  BY <1>0, <1>1
<1>2. ASSUME NEW s \in Subject, NEW e \in Email, ProviderVerifies(s, e)
      PROVE  /\ idp' \in [Subject -> Claims] /\ shown' \in [Subject -> SUBSET Email]
             /\ \A q \in Subject : shown[q] \subseteq shown'[q]
             /\ \A q \in Subject : idp'[q].verified => idp'[q].email \in shown'[q]
  <2>1. [email |-> e, verified |-> TRUE] \in Claims
    BY DEF Claims
  <2>2. idp' = [idp EXCEPT ![s] = [email |-> e, verified |-> TRUE]]
        /\ shown' = [shown EXCEPT ![s] = @ \cup {e}]
    BY <1>2 DEF ProviderVerifies
  <2>3. QED
    BY <1>0, <2>1, <2>2
<1>3. ASSUME NEW b \in Browser,
             \/ StartLogin(b) \/ StartLink(b) \/ CallbackFails(b)
             \/ \E t \in Thread, s \in Subject : Redeem(t, b, s)
             \/ \E l \in Local : LocalLogin(b, l)
             \/ Logout(b) \/ SetPassword(b) \/ Unlink(b) \/ DeleteLinks(b)
      PROVE  UNCHANGED <<idp, shown>>
  BY <1>3
  DEF StartLogin, StartLink, CallbackFails, Redeem, LocalLogin, Logout, SetPassword, Unlink,
      DeleteLinks
<1>4. ASSUME NEW t \in Thread,
             \/ FindLink(t) \/ FindAccount(t) \/ FindOwnLink(t) \/ CommitTouch(t)
             \/ CommitAttach(t) \/ CommitCreate(t) \/ CommitRelink(t) \/ LoginUser(t)
      PROVE  UNCHANGED <<idp, shown>>
  BY <1>4
  DEF FindLink, FindAccount, FindOwnLink, CommitTouch, CommitAttach, CommitCreate,
      CommitRelink, RolledBack, LoginUser
<1>5. ASSUME NEW k \in Row, Revoke(k) PROVE UNCHANGED <<idp, shown>>
  BY <1>5 DEF Revoke
<1>6. QED
  BY <1>1, <1>2, <1>3, <1>4, <1>5 DEF Next, vars

\* What JobsOK and HeldOK say of one callback, of the state after the step.
JobKept(t) == job'[t] # None =>
    /\ job'[t] \in Job
    /\ job'[t].flow.mode = "link" =>
         /\ job'[t].user # None /\ job'[t].user = job'[t].flow.by
         /\ account'[job'[t].user] # None
    /\ job'[t].step = "redeemed" /\ job'[t].flow.mode = "login" => job'[t].claims # None
    /\ job'[t].step \in {"unlinked", "attach", "create"} => job'[t].claims # None
    /\ job'[t].claims # None /\ job'[t].claims.verified =>
         job'[t].claims.email \in shown'[job'[t].subject]
    /\ job'[t].step \in {"attach", "committed"} =>
         job'[t].target # None /\ account'[job'[t].target] # None
    /\ job'[t].step = "attach" =>
         /\ job'[t].claims.verified
         /\ account'[job'[t].target].email = job'[t].claims.email
    /\ job'[t].step = "touch" => job'[t].row # None
    /\ job'[t].step = "relink" =>
         job'[t].flow.mode = "link" /\ job'[t].target = job'[t].user

HeldKept(t) == job'[t] # None /\ job'[t].row # None =>
    /\ job'[t].row[1] = job'[t].target
    /\ link'[job'[t].row] # None => link'[job'[t].row].subject = job'[t].subject
    /\ \/ job'[t] = job[t]
       \/ link[job'[t].row] # None /\ link[job'[t].row].subject = job'[t].subject

\* Everything a callback under way says now.
LEMMA JobNow ==
    ASSUME IInv, NEW t \in Thread, job[t] # None
    PROVE  /\ job[t] \in Job /\ job[t].subject \in Subject
           /\ job[t].user \in Local \cup {None} /\ job[t].target \in Local \cup {None}
           /\ job[t].row \in Row \cup {None} /\ job[t].claims \in Claims \cup {None}
           /\ job[t].flow.mode = "link" =>
                /\ job[t].user # None /\ job[t].user = job[t].flow.by
                /\ account[job[t].user] # None
           /\ job[t].step = "redeemed" /\ job[t].flow.mode = "login" => job[t].claims # None
           /\ job[t].step \in {"unlinked", "attach", "create"} => job[t].claims # None
           /\ job[t].claims # None /\ job[t].claims.verified =>
                job[t].claims.email \in shown[job[t].subject]
           /\ job[t].step \in {"attach", "committed"} =>
                job[t].target # None /\ account[job[t].target] # None
           /\ job[t].step = "attach" =>
                /\ job[t].claims.verified
                /\ account[job[t].target].email = job[t].claims.email
           /\ job[t].step = "touch" => job[t].row # None
           /\ job[t].step = "relink" =>
                job[t].flow.mode = "link" /\ job[t].target = job[t].user
<1>1. job[t] \in Job
  BY DEF IInv, TypeOK
<1>2. /\ job[t].subject \in Subject
      /\ job[t].user \in Local \cup {None} /\ job[t].target \in Local \cup {None}
      /\ job[t].row \in Row \cup {None} /\ job[t].claims \in Claims \cup {None}
  BY <1>1 DEF Job
<1>3. QED
  BY <1>1, <1>2 DEF IInv, JobsOK, At, Exists

\* A callback that is not about to do anything in this step keeps what it holds.
LEMMA JobWaits ==
    ASSUME IInv, [Next]_vars, NEW t \in Thread, job'[t] = job[t]
    PROVE  JobKept(t) /\ HeldKept(t)
<1>1. SUFFICES ASSUME job[t] # None PROVE JobKept(t) /\ HeldKept(t)
  BY DEF JobKept, HeldKept
<1>2. JobKept(t)
  <2>1. \A l \in Local : account[l] # None =>
          account'[l] # None /\ account'[l].email = account[l].email
    BY AccountsStay
  <2>2. QED
    BY <1>1, <2>1, JobNow, Provider DEF JobKept
<1>3. ASSUME job[t].row # None PROVE HeldKept(t)
  <2> DEFINE k == job[t].row
  <2>1. k \in Row /\ k[1] = job[t].target
    BY <1>1, <1>3, JobNow DEF IInv, HeldOK
  <2>2. link[k] # None => link[k].subject = job[t].subject /\ link[k] \in LinkRow
    BY <1>1, <1>3, <2>1 DEF IInv, HeldOK, Rows, TypeOK
  <2>3. CASE \E u \in Thread, l \in Local : Inserted(k, u, l)
    BY <1>1, <2>3 DEF Inserted
  <2>4. CASE link'[k] = link[k] \/ Unlinked(k) \/ \E u \in Thread : Relinked(k, u)
    BY <1>1, <1>3, <2>1, <2>2, <2>4 DEF HeldKept, Unlinked, Relinked
  <2>5. CASE Revoked(k)
    BY <1>1, <1>3, <2>1, <2>2, <2>5 DEF HeldKept, Revoked, LinkRow
  <2>6. ASSUME NEW u \in Thread, Reinserted(k, u) PROVE HeldKept(t)
    <3>1. job[u] # None /\ job[u].row = k /\ link'[k].subject = job[u].subject
      BY <2>6 DEF Reinserted, At
    <3>2. job[u].subject = job[t].subject
      BY <1>1, <1>3, <3>1 DEF IInv, HeldOK
    <3>3. QED
      BY <2>1, <3>1, <3>2 DEF HeldKept
  <2>7. QED
    BY <2>1, <2>3, <2>4, <2>5, <2>6, LinkStep DEF LinkChange
<1>4. QED
  BY <1>1, <1>2, <1>3 DEF HeldKept

LEMMA RedeemJob ==
    ASSUME IInv, [Next]_vars, NEW t \in Thread, NEW b \in Browser, NEW s \in Subject,
           Redeem(t, b, s)
    PROVE  JobKept(t) /\ HeldKept(t)
<1> DEFINE flow == session[b].flow
           user == IF flow.mode = "link" THEN session[b].user ELSE None
           claims == IF flow.mode = "link" THEN None ELSE idp[s]
<1>1. flow # None /\ flow \in Flow /\ user \in Local \cup {None}
  BY SessionNow DEF Redeem
<1>2. job'[t] = [step |-> "redeemed", browser |-> b, flow |-> flow, user |-> user,
                 subject |-> s, claims |-> claims, row |-> None, target |-> None]
  BY DEF Redeem, IInv, TypeOK
<1>3. idp[s] \in Claims /\ (idp[s].verified => idp[s].email \in shown[s])
  BY DEF IInv, TypeOK, ClaimsOK
<1>4. flow.mode = "link" => user # None /\ user = flow.by /\ account'[user] # None
  BY <1>1, SessionNow, AccountsStay
<1>5. idp[s] # None /\ shown[s] \subseteq shown'[s]
  BY <1>3, NoneAssumption, Provider
<1>6. /\ claims \in Claims \cup {None}
      /\ claims # None => claims = idp[s]
      /\ flow.mode = "login" => claims # None
  BY <1>3, <1>5
<1> HIDE DEF flow, user, claims
<1>7. job'[t] \in Job
  BY <1>1, <1>2, <1>6 DEF Job
<1>8. JobKept(t)
  BY <1>2, <1>3, <1>4, <1>5, <1>7, <1>6 DEF JobKept
<1>9. QED
  BY <1>2, <1>8 DEF HeldKept

\* The columns of a callback that goes on.
LEMMA GoneOn ==
    ASSUME IInv, NEW t \in Thread, job[t] # None, NEW step, NEW c, NEW k, NEW l,
           Goes(t, step, c, k, l)
    PROVE  /\ job'[t].step = step /\ job'[t].claims = c /\ job'[t].row = k
           /\ job'[t].target = l
           /\ job'[t].flow = job[t].flow /\ job'[t].user = job[t].user
           /\ job'[t].subject = job[t].subject
           /\ step \in {"unlinked", "touch", "attach", "create", "relink", "committed"}
              /\ c \in Claims \cup {None} /\ k \in Row \cup {None} /\ l \in Local \cup {None}
                => job'[t] \in Job
<1>1. job[t] \in Job
  BY JobNow
<1>2. job'[t] = [job[t] EXCEPT !.step = step, !.claims = c, !.row = k, !.target = l]
  BY DEF Goes, IInv, TypeOK
<1>3. QED
  BY <1>1, <1>2 DEF Job

LEMMA OverJob ==
    ASSUME IInv, NEW t \in Thread, Ends(t)
    PROVE  job'[t] = None /\ JobKept(t) /\ HeldKept(t)
BY DEF Ends, JobKept, HeldKept, IInv, TypeOK

LEMMA FindLinkJob ==
    ASSUME IInv, [Next]_vars, NEW t \in Thread, FindLink(t)
    PROVE  JobKept(t) /\ HeldKept(t)
<1>1. job[t] # None /\ job[t].flow.mode = "login" /\ UNCHANGED <<account, link, idp, shown>>
  BY DEF FindLink, At
<1>2. ASSUME NEW k \in RowsFor(job[t].subject), Goes(t, "touch", None, k, link[k].user)
      PROVE  JobKept(t) /\ HeldKept(t)
  <2>1. k \in Row /\ link[k] # None /\ link[k].subject = job[t].subject
        /\ link[k].user = k[1] /\ k[1] \in Local
    BY DEF RowsFor, Rows, Row, IInv, RowsOK
  <2>2. job'[t].step = "touch" /\ job'[t].claims = None /\ job'[t].row = k
        /\ job'[t].target = k[1] /\ job'[t].flow = job[t].flow
        /\ job'[t].subject = job[t].subject /\ job'[t] \in Job
    BY <1>1, <1>2, <2>1, GoneOn
  <2>3. k # None
    BY <2>1, NoneAssumption
  <2>4. JobKept(t)
    BY <1>1, <2>2, <2>3 DEF JobKept
  <2>5. HeldKept(t)
    BY <1>1, <2>1, <2>2 DEF HeldKept
  <2>6. QED
    BY <2>4, <2>5
<1>3. ASSUME NEW c \in MergedClaims(t), At(t, "redeemed"), Goes(t, "unlinked", c, None, None)
      PROVE  JobKept(t) /\ HeldKept(t)
  <2>1. job[t].claims # None /\ job[t].claims \in Claims /\ job[t].subject \in Subject
    BY <1>1, <1>3, JobNow DEF At
  <2>2. idp[job[t].subject] \in Claims
    BY <2>1 DEF IInv, TypeOK
  <2>3. c \in Claims /\ c # None
    BY <2>1, <2>2, NoneAssumption DEF MergedClaims
  <2>4. c.verified => c.email \in shown[job[t].subject]
    BY <1>1, <2>1, JobNow DEF MergedClaims, IInv, ClaimsOK
  <2>5. job'[t].step = "unlinked" /\ job'[t].claims = c /\ job'[t].row = None
        /\ job'[t].flow = job[t].flow
        /\ job'[t].subject = job[t].subject /\ job'[t] \in Job
    BY <1>1, <1>3, <2>3, GoneOn
  <2>6. JobKept(t)
    BY <1>1, <2>3, <2>4, <2>5 DEF JobKept
  <2>7. QED
    BY <2>5, <2>6 DEF HeldKept
<1>4. QED
  BY <1>2, <1>3, OverJob DEF FindLink

LEMMA FindAccountJob ==
    ASSUME IInv, [Next]_vars, NEW t \in Thread, FindAccount(t)
    PROVE  JobKept(t) /\ HeldKept(t)
<1>1. /\ job[t] # None /\ job[t].step = "unlinked"
      /\ UNCHANGED <<account, link, idp, shown>>
  BY DEF FindAccount, At
<1>2. job[t].claims # None /\ job[t].claims \in Claims
  BY <1>1, JobNow
<1>3. ASSUME NEW step \in {"attach", "create"}, NEW l \in Local \cup {None},
             Goes(t, step, job[t].claims, None, l),
             step = "attach" => /\ l \in Local /\ Exists(l) /\ job[t].claims.verified
                                /\ account[l].email = job[t].claims.email
      PROVE  JobKept(t) /\ HeldKept(t)
  <2>1. job'[t].step = step /\ job'[t].claims = job[t].claims /\ job'[t].row = None
        /\ job'[t].target = l /\ job'[t].flow = job[t].flow /\ job'[t].user = job[t].user
        /\ job'[t].subject = job[t].subject /\ job'[t] \in Job
    BY <1>1, <1>2, <1>3, GoneOn
  <2>2. step = "attach" => l # None
    BY <1>3, NoneAssumption
  <2>3. JobKept(t)
    BY <1>1, <1>2, <1>3, <2>1, <2>2, JobNow DEF JobKept, Exists
  <2>4. QED
    BY <2>1, <2>3 DEF HeldKept
<1>4. QED
  BY <1>3, OverJob DEF FindAccount

LEMMA FindOwnLinkJob ==
    ASSUME IInv, [Next]_vars, NEW t \in Thread, FindOwnLink(t)
    PROVE  JobKept(t) /\ HeldKept(t)
<1> DEFINE l == job[t].user
<1>1. /\ job[t] # None /\ job[t].flow.mode = "link"
      /\ UNCHANGED <<account, link, idp, shown>>
  BY DEF FindOwnLink, At
<1>2. /\ l \in Local /\ l = job[t].flow.by /\ account[l] # None
  BY <1>1, JobNow
<1>3. ASSUME NEW k \in IF RowsOf(l) = {} THEN {None} ELSE RowsOf(l),
             \A r \in RowsOf(l) : link[r].subject = job[t].subject,
             Goes(t, "relink", None, k, l)
      PROVE  JobKept(t) /\ HeldKept(t)
  <2>1. k = None \/ k \in RowsOf(l)
    OBVIOUS
  <2>2. k # None => /\ k \in Row /\ k[1] = l /\ link[k] # None
                    /\ link[k].subject = job[t].subject
    BY <1>3, <2>1 DEF RowsOf, Rows, IInv, RowsOK
  <2>3. job'[t].step = "relink" /\ job'[t].claims = None /\ job'[t].row = k
        /\ job'[t].target = l /\ job'[t].flow = job[t].flow /\ job'[t].user = l
        /\ job'[t].subject = job[t].subject /\ job'[t] \in Job
    BY <1>1, <1>2, <1>3, <2>2, GoneOn
  <2>4. JobKept(t)
    BY <1>1, <1>2, <2>3, NoneAssumption DEF JobKept
  <2>5. HeldKept(t)
    BY <1>1, <2>2, <2>3 DEF HeldKept
  <2>6. QED
    BY <2>4, <2>5
<1>4. QED
  BY <1>3, OverJob DEF FindOwnLink

\* The account a callback's transaction has made or found is there.
LEMMA CommittedJob ==
    ASSUME IInv, [Next]_vars, NEW t \in Thread,
           CommitTouch(t) \/ CommitAttach(t) \/ CommitCreate(t) \/ CommitRelink(t)
    PROVE  /\ Ends(t) \/ \E l \in Local : Commits(t, l)
           /\ JobKept(t) /\ HeldKept(t)
<1>1. job[t] # None /\ job[t] \in Job
  BY DEF CommitTouch, CommitAttach, CommitCreate, CommitRelink, At, IInv, TypeOK
<1>2. Ends(t) \/ \E l \in Local : Commits(t, l) /\ account'[l] # None
  <2>1. CASE CommitTouch(t)
    <3>1. CASE job[t].row \in Rows
      <4>1. job[t].row \in Row /\ job[t].target = job[t].row[1]
        BY <1>1, <2>1, Writing DEF CommitTouch
      <4>2. job[t].target \in Local /\ account[job[t].target] # None
        BY <3>1, <4>1 DEF Row, IInv, RowsOK, Exists
      <4>3. QED
        BY <2>1, <3>1, <4>2, AccountsStay DEF CommitTouch
    <3>2. QED
      BY <2>1, <3>1 DEF CommitTouch, RolledBack
  <2>2. CASE CommitAttach(t)
    <3>1. job[t].target \in Local /\ account[job[t].target] # None
      BY <1>1, <2>2, Writing DEF CommitAttach, Exists
    <3>2. QED
      BY <2>2, <3>1, AccountsStay DEF CommitAttach, RolledBack
  <2>3. CASE CommitCreate(t)
    <3>1. job[t].claims \in Claims
      BY <1>1, <2>3 DEF CommitCreate, IInv, JobsOK, At, Job
    <3>2. ASSUME NEW l \in Local,
                 account' = [account EXCEPT ![l] =
                               [email |-> job[t].claims.email, password |-> FALSE]]
          PROVE  account'[l] # None
      <4>1. account'[l] \in Account
        BY <3>1, <3>2 DEF Claims, Account, IInv, TypeOK
      <4>2. QED
        BY <4>1, NoneAssumption
    <3>3. QED
      BY <2>3, <3>2 DEF CommitCreate, RolledBack
  <2>4. CASE CommitRelink(t)
    BY <2>4 DEF CommitRelink, RolledBack
  <2>5. QED
    BY <2>1, <2>2, <2>3, <2>4
<1>3. ASSUME NEW l \in Local, Commits(t, l), account'[l] # None
      PROVE  JobKept(t) /\ HeldKept(t)
  <2>1. /\ job'[t].step = "committed" /\ job'[t].claims = None /\ job'[t].row = None
        /\ job'[t].target = l /\ job'[t].flow = job[t].flow /\ job'[t].user = job[t].user
        /\ job'[t] \in Job
    BY <1>1, <1>3, GoneOn DEF Commits
  <2>2. l # None /\ \A v \in Local : account[v] # None => account'[v] # None
    BY NoneAssumption, AccountsStay
  <2>3. JobKept(t)
    BY <1>1, <1>3, <2>1, <2>2, JobNow DEF JobKept
  <2>4. QED
    BY <2>1, <2>3 DEF HeldKept
<1>4. QED
  BY <1>2, <1>3, OverJob

\* A callback waits, ends, or goes on to its next step.
LEMMA JobStep ==
    ASSUME IInv, [Next]_vars, NEW t \in Thread
    PROVE  JobKept(t) /\ HeldKept(t)
<1> DEFINE Goal == JobKept(t) /\ HeldKept(t)
<1>1. CASE job'[t] = job[t]
  BY <1>1, JobWaits
<1>2. ASSUME NEW u \in Thread, Ends(u) PROVE Goal
  <2>1. CASE u = t
    BY <1>2, <2>1, OverJob
  <2>2. CASE u # t
    BY <1>1, <1>2, <2>2 DEF Ends, IInv, TypeOK
  <2>3. QED
    BY <2>1, <2>2
<1>3. ASSUME NEW b \in Browser,
             \/ StartLogin(b) \/ StartLink(b) \/ CallbackFails(b)
             \/ \E l \in Local : LocalLogin(b, l)
             \/ Logout(b) \/ SetPassword(b) \/ Unlink(b) \/ DeleteLinks(b)
      PROVE  Goal
  BY <1>1, <1>3
  DEF StartLogin, StartLink, CallbackFails, LocalLogin, Logout, SetPassword, Unlink,
      DeleteLinks
<1>4. ASSUME NEW b \in Browser, NEW u \in Thread, NEW s \in Subject, Redeem(u, b, s)
      PROVE  Goal
  <2>1. u # t => job'[t] = job[t]
    BY <1>4 DEF Redeem, IInv, TypeOK
  <2>2. QED
    BY <1>1, <1>4, <2>1, RedeemJob
<1>5. ASSUME NEW u \in Thread, FindLink(u) \/ FindAccount(u) \/ FindOwnLink(u)
      PROVE  Goal
  <2>1. u # t => job'[t] = job[t]
    BY <1>5 DEF FindLink, FindAccount, FindOwnLink, Goes, Ends, IInv, TypeOK
  <2>2. QED
    BY <1>1, <1>5, <2>1, FindLinkJob, FindAccountJob, FindOwnLinkJob
<1>6. ASSUME NEW u \in Thread,
             CommitTouch(u) \/ CommitAttach(u) \/ CommitCreate(u) \/ CommitRelink(u)
      PROVE  Goal
  <2>1. Ends(u) \/ \E l \in Local : Commits(u, l)
    BY <1>6, CommittedJob
  <2>2. u # t => job'[t] = job[t]
    BY <2>1 DEF Ends, Commits, Goes, IInv, TypeOK
  <2>3. QED
    BY <1>1, <1>6, <2>2, CommittedJob
<1>7. ASSUME NEW u \in Thread, LoginUser(u) PROVE Goal
  BY <1>2, <1>7 DEF LoginUser
<1>8. ASSUME NEW k \in Row, Revoke(k) PROVE Goal
  BY <1>1, <1>8 DEF Revoke
<1>9. ASSUME NEW s \in Subject, NEW e \in Email, ProviderVerifies(s, e) PROVE Goal
  BY <1>1, <1>9 DEF ProviderVerifies
<1>10. ASSUME UNCHANGED vars PROVE Goal
  BY <1>1, <1>10 DEF vars
<1> HIDE DEF Goal
<1>11. Goal
  BY <1>3, <1>4, <1>5, <1>6, <1>7, <1>8, <1>9, <1>10 DEF Next
<1>12. QED
  BY <1>11 DEF Goal

-----------------------------------------------------------------------------
(* The invariant *)

\* Steps change rows of the tables, never what rows there are.
LEMMA Tables ==
    ASSUME TypeOK, [Next]_vars
    PROVE  /\ account' = [l \in Local |-> account'[l]]
           /\ link' = [k \in Row |-> link'[k]]
           /\ session' = [b \in Browser |-> session'[b]]
           /\ job' = [t \in Thread |-> job'[t]]
           /\ unlinking' = [b \in Browser |-> unlinking'[b]]
<1> DEFINE Accounts == account' = [l \in Local |-> account'[l]]
           Links == link' = [k \in Row |-> link'[k]]
           Sessions == session' = [b \in Browser |-> session'[b]]
           Jobs == job' = [t \in Thread |-> job'[t]]
           Unlinkings == unlinking' = [b \in Browser |-> unlinking'[b]]
           Goal == Accounts /\ Links /\ Sessions /\ Jobs /\ Unlinkings
<1>1. /\ UNCHANGED account => Accounts
      /\ UNCHANGED link => Links
      /\ UNCHANGED session => Sessions
      /\ UNCHANGED job => Jobs
      /\ UNCHANGED unlinking => Unlinkings
  BY DEF TypeOK
<1>2. ASSUME NEW l, NEW k, NEW s, Saves(l, k, s) PROVE Links
  BY <1>2 DEF Saves, TypeOK
<1>3. ASSUME NEW t, Ends(t) PROVE Jobs
  BY <1>3 DEF Ends, TypeOK
<1>4. ASSUME NEW t, NEW step, NEW c, NEW k, NEW l, Goes(t, step, c, k, l) PROVE Jobs
  BY <1>4 DEF Goes, TypeOK
<1>5. ASSUME NEW t, RolledBack(t) PROVE Goal
  BY <1>1, <1>3, <1>5 DEF RolledBack
<1>6. ASSUME NEW b \in Browser,
             \/ StartLogin(b) \/ StartLink(b) \/ CallbackFails(b)
             \/ \E t \in Thread, s \in Subject : Redeem(t, b, s)
             \/ \E l \in Local : LocalLogin(b, l)
             \/ Logout(b)
      PROVE  Goal
  BY <1>1, <1>6
  DEF StartLogin, StartLink, CallbackFails, Redeem, LocalLogin, Logout, TypeOK
<1>7. ASSUME NEW b \in Browser, SetPassword(b) \/ Unlink(b) PROVE Goal
  BY <1>1, <1>7 DEF SetPassword, Unlink, TypeOK
<1>8. ASSUME NEW b \in Browser, DeleteLinks(b) PROVE Goal
  <2>1. Links /\ Unlinkings
    BY <1>8 DEF DeleteLinks, TypeOK
  <2>2. Sessions
    BY <1>1, <1>8 DEF DeleteLinks, TypeOK
  <2>3. QED
    BY <1>1, <1>8, <2>1, <2>2 DEF DeleteLinks
<1>9. ASSUME NEW k \in Row, Revoke(k) PROVE Goal
  BY <1>1, <1>9 DEF Revoke, TypeOK
<1>10. ASSUME NEW s \in Subject, NEW e \in Email, ProviderVerifies(s, e) PROVE Goal
  BY <1>1, <1>10 DEF ProviderVerifies
<1>11. ASSUME NEW t \in Thread, CommitCreate(t) PROVE Accounts
  BY <1>1, <1>11 DEF CommitCreate, RolledBack, TypeOK
<1>12. ASSUME UNCHANGED vars PROVE Goal
  BY <1>1, <1>12 DEF vars
<1>13. ASSUME NEW t \in Thread, LoginUser(t) PROVE Goal
  BY <1>1, <1>3, <1>13 DEF LoginUser, TypeOK
<1> HIDE DEF Accounts, Links, Sessions, Jobs, Unlinkings
<1>14. ASSUME NEW t \in Thread, FindLink(t) \/ FindAccount(t) \/ FindOwnLink(t)
       PROVE  Goal
  BY <1>1, <1>3, <1>4, <1>14 DEF FindLink, FindAccount, FindOwnLink
<1>15. ASSUME NEW t \in Thread, CommitTouch(t) \/ CommitAttach(t) PROVE Goal
  BY <1>1, <1>2, <1>4, <1>5, <1>15 DEF CommitTouch, CommitAttach, Commits
<1>16. ASSUME NEW t \in Thread, CommitCreate(t) PROVE Goal
  BY <1>1, <1>2, <1>4, <1>5, <1>11, <1>16 DEF CommitCreate, Commits
<1>17. ASSUME NEW t \in Thread, CommitRelink(t) PROVE Goal
  BY <1>1, <1>2, <1>3, <1>5, <1>17 DEF CommitRelink
<1> HIDE DEF Goal
<1>18. Goal
  BY <1>6, <1>7, <1>8, <1>9, <1>10, <1>12, <1>13, <1>14, <1>15, <1>16, <1>17 DEF Next
<1>19. QED
  BY <1>18 DEF Goal, Accounts, Links, Sessions, Jobs, Unlinkings

\* A link row that changes keeps the columns of its kind.
LEMMA NewRows ==
    ASSUME IInv, [Next]_vars, NEW k \in Row
    PROVE  link'[k] \in LinkRow \cup {None}
<1>1. link[k] \in LinkRow \cup {None}
  BY DEF IInv, TypeOK
<1>2. ASSUME NEW t \in Thread, NEW l \in Local, Inserted(k, t, l),
             At(t, "create") \/ At(t, "attach") \/ At(t, "relink")
      PROVE  link'[k] \in LinkRow
  <2>1. job[t].subject \in Subject
    BY <1>2, JobNow DEF At
  <2>2. QED
    BY <1>2, <2>1, NewLinkRow DEF Inserted
<1>3. ASSUME NEW t \in Thread, Relinked(k, t) PROVE link'[k] \in LinkRow
  BY <1>1, <1>3 DEF Relinked, LinkRow
<1>4. ASSUME Revoked(k) PROVE link'[k] \in LinkRow
  BY <1>1, <1>4 DEF Revoked, LinkRow
<1>5. ASSUME NEW t \in Thread, Reinserted(k, t) PROVE link'[k] \in LinkRow
  <2>1. job[t].target \in Local /\ job[t].subject \in Subject
    BY <1>5, Writing, JobNow DEF Reinserted, At
  <2>2. QED
    BY <1>5, <2>1, NewLinkRow DEF Reinserted
<1>6. QED
  BY <1>1, <1>2, <1>3, <1>4, <1>5, LinkStep DEF LinkChange, Unlinked

\* Who is about to lose the links has a password from the check on.
LEMMA UnlinkingStep ==
    ASSUME IInv, [Next]_vars, NEW b \in Browser
    PROVE  /\ unlinking'[b] \in Local \cup {None}
           /\ unlinking'[b] # None =>
                account'[unlinking'[b]] # None /\ account'[unlinking'[b]].password
<1> DEFINE l == unlinking'[b]
           Safe == l \in Local /\ account[l] # None /\ account[l].password
<1>1. unlinking[b] # None /\ l = unlinking[b] => Safe
  BY DEF IInv, TypeOK, UnlinkingOK, Exists
<1>2. unlinking[b] \in Local \cup {None}
  BY DEF IInv, TypeOK
<1>3. ASSUME NEW c \in Browser, Unlink(c) PROVE l = unlinking[b] \/ Safe
  <2>1. session[c].user \in Local /\ account[session[c].user] # None
    BY <1>3, SessionNow DEF Unlink
  <2>2. QED
    BY <1>3, <2>1 DEF Unlink, IInv, TypeOK
<1>4. ASSUME NEW c \in Browser, DeleteLinks(c) PROVE l \in {unlinking[b], None}
  BY <1>4 DEF DeleteLinks, IInv, TypeOK
<1>5. ASSUME NEW c \in Browser,
             \/ StartLogin(c) \/ StartLink(c) \/ CallbackFails(c)
             \/ \E t \in Thread, s \in Subject : Redeem(t, c, s)
             \/ \E v \in Local : LocalLogin(c, v)
             \/ Logout(c) \/ SetPassword(c)
      PROVE  UNCHANGED unlinking
  BY <1>5
  DEF StartLogin, StartLink, CallbackFails, Redeem, LocalLogin, Logout, SetPassword
<1>6. ASSUME NEW t \in Thread,
             \/ FindLink(t) \/ FindAccount(t) \/ FindOwnLink(t) \/ CommitTouch(t)
             \/ CommitAttach(t) \/ CommitCreate(t) \/ CommitRelink(t) \/ LoginUser(t)
      PROVE  UNCHANGED unlinking
  BY <1>6
  DEF FindLink, FindAccount, FindOwnLink, CommitTouch, CommitAttach, CommitCreate,
      CommitRelink, RolledBack, LoginUser
<1>7. ASSUME NEW k \in Row, Revoke(k) PROVE UNCHANGED unlinking
  BY <1>7 DEF Revoke
<1>8. ASSUME NEW s \in Subject, NEW e \in Email, ProviderVerifies(s, e)
      PROVE  UNCHANGED unlinking
  BY <1>8 DEF ProviderVerifies
<1>9. UNCHANGED vars => UNCHANGED unlinking
  BY DEF vars
<1> HIDE DEF Safe
<1>10. l \in {unlinking[b], None} \/ Safe
  BY <1>3, <1>4, <1>5, <1>6, <1>7, <1>8, <1>9 DEF Next
<1>11. l = None \/ Safe
  BY <1>1, <1>10
<1>12. QED
  BY <1>11, AccountsStay DEF Safe

LEMMA StepTypeOK == ASSUME IInv, [Next]_vars PROVE TypeOK'
<1>0. TypeOK
  BY DEF IInv
<1>1. account' \in [Local -> Account \cup {None}]
  BY <1>0, Tables, AccountsStay
<1>2. link' \in [Row -> LinkRow \cup {None}]
  BY <1>0, Tables, NewRows
<1>3. session' \in [Browser -> [user : Local \cup {None}, flow : Flow \cup {None}]]
  BY <1>0, Tables, SessionStep DEF SessionKept
<1>4. job' \in [Thread -> Job \cup {None}]
  <2>1. \A t \in Thread : job'[t] \in Job \cup {None}
    BY JobStep DEF JobKept
  <2>2. QED
    BY <1>0, <2>1, Tables
<1>5. unlinking' \in [Browser -> Local \cup {None}]
  BY <1>0, Tables, UnlinkingStep
<1>6. QED
  BY <1>1, <1>2, <1>3, <1>4, <1>5, Provider DEF TypeOK

\* A row that is there after a step is of the account its key names, and that is there.
LEMMA StepRowsOK == ASSUME IInv, [Next]_vars PROVE RowsOK'
<1>1. ASSUME NEW k \in Row, link'[k] # None
      PROVE  link'[k].user = k[1] /\ account'[k[1]] # None
  <2>0. k[1] \in Local /\ link[k] \in LinkRow \cup {None}
    BY DEF Row, IInv, TypeOK
  <2>1. CASE link[k] # None /\ link'[k].user = link[k].user
    BY <2>0, <2>1, AccountsStay DEF IInv, RowsOK, Rows, Exists
  <2>2. ASSUME NEW t \in Thread, NEW l \in Local, Inserted(k, t, l),
               \/ At(t, "create") /\ ~Exists(l) /\ account'[l] # None
               \/ At(t, "attach") /\ job[t].target = l
               \/ At(t, "relink") /\ job[t].target = l
        PROVE  link'[k].user = k[1] /\ account'[k[1]] # None
    <3>1. link'[k].user = l /\ k[1] = l
      BY <2>2 DEF Inserted
    <3>2. CASE account'[l] # None
      BY <3>1, <3>2
    <3>3. CASE /\ At(t, "attach") \/ At(t, "relink")
               /\ job[t].target = l
      <4>1. job[t] # None
        BY <3>3 DEF At
      <4>2. account[l] # None
        BY <3>3, <4>1, Writing DEF Exists
      <4>3. QED
        BY <3>1, <4>2, AccountsStay
    <3>4. QED
      BY <2>2, <3>2, <3>3
  <2>3. CASE \E t \in Thread : Relinked(k, t)
    BY <2>1, <2>3 DEF Relinked
  <2>4. CASE Revoked(k)
    BY <2>0, <2>1, <2>4 DEF Revoked, LinkRow
  <2>5. CASE link'[k] = link[k]
    BY <1>1, <2>1, <2>5
  <2>6. ASSUME NEW t \in Thread, Reinserted(k, t)
        PROVE  link'[k].user = k[1] /\ account'[k[1]] # None
    <3>1. account[job[t].target] # None
      BY <2>6, Writing DEF Reinserted, At, Exists
    <3>2. QED
      BY <2>0, <2>6, <3>1, AccountsStay DEF Reinserted
  <2>7. QED
    BY <1>1, <2>2, <2>3, <2>4, <2>5, <2>6, LinkStep DEF LinkChange, Unlinked
<1>2. QED
  BY <1>1 DEF RowsOK, Rows, Exists

LEMMA StepNotLockedOut == ASSUME IInv, [Next]_vars PROVE NotLockedOut'
<1>1. ASSUME NEW l \in Local, account'[l] # None, ~account'[l].password
      PROVE  \E k \in Row : link'[k] # None /\ link'[k].user = l
  <2>1. CASE account'[l] = account[l]
    <3>1. PICK k \in Row : link[k] # None /\ link[k].user = l
      BY <1>1, <2>1 DEF IInv, NotLockedOut, RowsOf, Rows, Exists
    <3>2. link[k] \in LinkRow
      BY <3>1 DEF IInv, TypeOK
    <3>3. ~Unlinked(k)
      BY <1>1, <3>1 DEF Unlinked
    <3>4. link'[k].user = l
      <4>1. CASE Revoked(k)
        BY <3>1, <3>2, <4>1 DEF Revoked, LinkRow
      <4>2. CASE \E t \in Thread : Relinked(k, t)
        BY <3>1, <4>2 DEF Relinked
      <4>3. QED
        BY <3>1, <3>3, <4>1, <4>2, LinkStep DEF LinkChange, Inserted, Reinserted
    <3>5. link'[k] # None
      <4>1. CASE Revoked(k)
        <5>1. link'[k] \in LinkRow
          BY <3>2, <4>1 DEF Revoked, LinkRow
        <5>2. QED
          BY <5>1, NoneAssumption
      <4>2. CASE \E t \in Thread : Relinked(k, t)
        <5>1. link'[k] \in LinkRow
          BY <3>2, <4>2 DEF Relinked, LinkRow
        <5>2. QED
          BY <5>1, NoneAssumption
      <4>3. QED
        BY <3>1, <3>3, <4>1, <4>2, LinkStep DEF LinkChange, Inserted, Reinserted
    <3>6. QED
      BY <3>4, <3>5
  <2>2. CASE Exists(l) /\ account'[l] = [account[l] EXCEPT !.password = TRUE]
    <3>1. account[l] \in Account
      BY <2>2 DEF Exists, IInv, TypeOK
    <3>2. QED
      BY <1>1, <2>2, <3>1 DEF Account
  <2>3. QED
    BY <2>1, <2>2, AccountStep DEF AccountChange
<1>2. QED
  BY <1>1 DEF NotLockedOut, RowsOf, Rows, Exists

LEMMA InitIInv == Init => IInv
<1> SUFFICES ASSUME Init PROVE IInv
  OBVIOUS
<1>1. account \in [Local -> Account \cup {None}]
  BY DEF Init, Account
<1>2. idp \in [Subject -> Claims] /\ \A s \in Subject : ~idp[s].verified
  BY RegisteredAssumption DEF Init, Claims
<1>3. TypeOK
  BY <1>1, <1>2 DEF Init, TypeOK
<1>4. RowsOK /\ SessionsOK /\ ClaimsOK /\ JobsOK /\ HeldOK /\ UnlinkingOK
  BY <1>2 DEF Init, RowsOK, SessionsOK, ClaimsOK, JobsOK, HeldOK, UnlinkingOK, Rows
<1>5. NotLockedOut
  BY DEF Init, NotLockedOut, Exists
<1>6. QED
  BY <1>3, <1>4, <1>5 DEF IInv

\* Callbacks that hold the same row have read the same identity there: the one that comes
\* to it has just read what the others had read before.
LEMMA StepHeldOK == ASSUME IInv, [Next]_vars PROVE HeldOK'
<1>1. ASSUME NEW t \in Thread, NEW u \in Thread, job'[t] # None, job'[u] # None,
             job'[t].row # None, job'[u].row = job'[t].row
      PROVE  job'[u].subject = job'[t].subject
  <2> DEFINE k == job'[t].row
             New(v) == link[k] # None /\ link[k].subject = job'[v].subject
  <2>1. (job'[t] = job[t] \/ New(t)) /\ (job'[u] = job[u] \/ New(u))
    BY <1>1, JobStep DEF HeldKept
  <2>2. link[k] # None => k \in Rows
    BY <1>1, JobStep, NoneAssumption DEF JobKept, Job, Rows
  <2>3. ASSUME NEW v \in Thread, job'[v] = job[v], job'[v] # None, job'[v].row = k,
               link[k] # None
        PROVE  New(v)
    BY <1>1, <2>2, <2>3 DEF IInv, HeldOK
  <2>4. CASE link[k] # None
    BY <1>1, <2>1, <2>3, <2>4
  <2>5. CASE link[k] = None
    BY <1>1, <2>1, <2>5 DEF IInv, HeldOK
  <2>6. QED
    BY <2>4, <2>5
<1>2. QED
  BY <1>1, JobStep DEF HeldKept, HeldOK, Rows

\* Accounts, links, sessions and what callbacks hold of them agree, in every state.
THEOREM Invariance == Spec => []IInv
<1>1. IInv /\ [Next]_vars => IInv'
  <2>1. SUFFICES ASSUME IInv, [Next]_vars PROVE IInv'
    OBVIOUS
  <2>2. SessionsOK'
    BY <2>1, SessionStep DEF SessionKept, SessionsOK, Exists
  <2>3. ClaimsOK'
    BY <2>1, Provider DEF ClaimsOK
  <2>4. JobsOK'
    BY <2>1, JobStep DEF JobKept, JobsOK, At, Exists
  <2>5. UnlinkingOK'
    BY <2>1, UnlinkingStep DEF UnlinkingOK, Exists
  <2>6. QED
    BY <2>1, <2>2, <2>3, <2>4, <2>5, StepTypeOK, StepRowsOK, StepHeldOK, StepNotLockedOut
    DEF IInv
<1>2. QED
  BY InitIInv, <1>1, PTL DEF Spec

\* The tables, the sessions and the callbacks under way have the columns of their kinds.
THEOREM TypeCorrect == Spec => []TypeOK
<1>1. IInv => TypeOK
  BY DEF IInv
<1>2. QED
  BY Invariance, <1>1, PTL

\* An account without a password has a link, a revoked one perhaps, through every overlap
\* of its creation, unlinking and relinking.
THEOREM NobodyIsLockedOut == Spec => []NotLockedOut
<1>1. IInv => NotLockedOut
  BY DEF IInv
<1>2. QED
  BY Invariance, <1>1, PTL
-----------------------------------------------------------------------------
(* What a step may never do *)

\* A row that is there, is there after the step, and is another: only a callback that
\* links has written it, or the administrator has revoked it.
LEMMA RowStep ==
    ASSUME IInv, [Next]_vars, NEW k \in Rows, link'[k] # None
    PROVE  /\ link'[k].user = link[k].user /\ link'[k].subject = link[k].subject
           /\ link[k].revoked /\ ~link'[k].revoked =>
                \E t \in Thread : At(t, "relink") /\ job[t].target = link[k].user
<1>1. k \in Row /\ link[k] # None /\ link[k] \in LinkRow
  BY DEF Rows, IInv, TypeOK
<1>2. CASE link'[k] = link[k]
  BY <1>2
<1>3. CASE \E t \in Thread : Relinked(k, t)
  BY <1>3 DEF Relinked
<1>4. CASE Revoked(k)
  BY <1>1, <1>4 DEF Revoked, LinkRow
<1>5. QED
  BY <1>1, <1>2, <1>3, <1>4, LinkStep DEF LinkChange, Inserted, Reinserted, Unlinked

\* A link that was revoked comes back only when its user links again: a sign-in that
\* read it before does not write it back.
THEOREM RevokedIsFinal == Spec => RevokedStaysRevoked
<1> DEFINE Back ==
      \A k \in Rows :
        link[k].revoked /\ link'[k] # None /\ ~link'[k].revoked =>
          \E t \in Thread : At(t, "relink") /\ job[t].target = link[k].user
<1>1. IInv /\ [Next]_vars => Back
  BY RowStep
<1>2. QED
  BY Invariance, <1>1, PTL DEF Spec, RevokedStaysRevoked

\* A link row keeps its account and its identity.
THEOREM RowsKeepTheirOwner == Spec => NeverRepointed
<1> DEFINE Kept ==
      \A k \in Rows : link'[k] # None =>
        link'[k].user = link[k].user /\ link'[k].subject = link[k].subject
<1>1. IInv /\ [Next]_vars => Kept
  BY RowStep
<1>2. QED
  BY Invariance, <1>1, PTL DEF Spec, NeverRepointed

\* A new row is of the account and the identity of the callback that writes it, which has
\* the proof for both.
ProvenBy(t, k) ==
    LET l == link'[k].user IN
    /\ job[t] # None /\ job[t].subject = link'[k].subject
    /\ \/ At(t, "create") /\ ~Exists(l) /\ account'[l].email = job[t].claims.email
       \/ At(t, "relink") /\ job[t].target = l /\ job[t].flow.by = l
       \/ /\ At(t, "attach") /\ job[t].target = l
          /\ account[l].email = job[t].claims.email
          /\ job[t].claims.email \in shown[job[t].subject]

LEMMA NewRowProven ==
    ASSUME IInv, [Next]_vars, NEW k \in Row, link[k] = None, link'[k] # None
    PROVE  \E t \in Thread : ProvenBy(t, k)
<1>1. ASSUME NEW t \in Thread, At(t, "relink"), link'[k].user = job[t].target,
             link'[k].subject = job[t].subject
      PROVE  ProvenBy(t, k)
  BY <1>1, Writing DEF ProvenBy, At
<1>2. CASE \E t \in Thread : Reinserted(k, t)
  BY <1>1, <1>2 DEF Reinserted
<1>3. ASSUME NEW t \in Thread, NEW l \in Local, Inserted(k, t, l),
             \/ /\ At(t, "create") /\ ~Exists(l)
                /\ account'[l].email = job[t].claims.email
             \/ At(t, "attach") /\ job[t].target = l
             \/ At(t, "relink") /\ job[t].target = l
      PROVE  ProvenBy(t, k)
  <2>1. link'[k].user = l /\ link'[k].subject = job[t].subject
    BY <1>3 DEF Inserted
  <2>2. CASE At(t, "attach") /\ job[t].target = l
    <3>1. job[t] # None /\ job[t].step = "attach"
      BY <2>2 DEF At
    <3>2. /\ job[t].claims # None /\ job[t].claims.verified
          /\ account[l].email = job[t].claims.email
      BY <2>2, <3>1, JobNow
    <3>3. job[t].claims.email \in shown[job[t].subject]
      BY <3>1, <3>2, JobNow
    <3>4. QED
      BY <2>1, <2>2, <3>1, <3>2, <3>3 DEF ProvenBy
  <2>3. CASE At(t, "create") /\ ~Exists(l) /\ account'[l].email = job[t].claims.email
    BY <2>1, <2>3 DEF ProvenBy, At
  <2>4. QED
    BY <1>1, <1>3, <2>1, <2>2, <2>3
<1>4. QED
  BY <1>2, <1>3, LinkStep DEF LinkChange, Relinked, Unlinked, Revoked

\* A link is made with proof: for an account that was there, by a flow its user started
\* signed in to it, or by its own address, verified for that identity; or with the account.
THEOREM LinksAreProved == Spec => LinkedWithProof
<1> DEFINE Proved ==
      \A k \in Row \ Rows : link'[k] # None =>
        LET l == link'[k].user IN
        \E t \in Thread :
          /\ job[t] # None /\ job[t].subject = link'[k].subject
          /\ \/ At(t, "create") /\ ~Exists(l) /\ account'[l].email = job[t].claims.email
             \/ At(t, "relink") /\ job[t].target = l /\ job[t].flow.by = l
             \/ /\ At(t, "attach") /\ job[t].target = l
                /\ account[l].email = job[t].claims.email
                /\ job[t].claims.email \in shown[job[t].subject]
<1>1. IInv /\ [Next]_vars => Proved
  BY NewRowProven DEF ProvenBy, Rows
<1>2. QED
  BY Invariance, <1>1, PTL DEF Spec, LinkedWithProof

-----------------------------------------------------------------------------
(* Signing in *)

LinkedNow(l, s) ==
    \E k \in Row : link'[k] # None /\ link'[k].user = l /\ link'[k].subject = s

\* A callback whose transaction commits leaves its account linked to its identity.
LEMMA TouchIsLinked ==
    ASSUME IInv, NEW t \in Thread, CommitTouch(t), job'[t] # None
    PROVE  LinkedNow(job'[t].target, job'[t].subject)
<1>1. job[t] # None /\ job[t] \in Job
  BY DEF CommitTouch, At, IInv, TypeOK
<1>2. job[t].row \in Rows /\ UNCHANGED link /\ Commits(t, job[t].target)
  BY OverJob DEF CommitTouch, RolledBack
<1>3. job'[t].target = job[t].target /\ job'[t].subject = job[t].subject
  BY <1>1, <1>2, GoneOn DEF Commits
<1>4. job[t].row \in Row /\ link'[job[t].row] # None
  BY <1>2 DEF Rows
<1>5. link'[job[t].row].user = job[t].target /\ link'[job[t].row].subject = job[t].subject
  BY <1>1, <1>2, Writing
<1>6. QED
  BY <1>3, <1>4, <1>5 DEF LinkedNow

LEMMA NewRowIsLinked ==
    ASSUME IInv, NEW t \in Thread, job[t] # None, NEW l \in Local, RowsOf(l) = {},
           Saves(l, NewRow(l), job[t].subject), Commits(t, l)
    PROVE  LinkedNow(job'[t].target, job'[t].subject)
<1>1. job[t] \in Job /\ job[t].subject \in Subject
  BY JobNow
<1>2. NewRow(l) \in Row
  BY NewRowFree
<1>3. link'[NewRow(l)] = [user |-> l, subject |-> job[t].subject, revoked |-> FALSE]
  BY <1>2 DEF Saves, IInv, TypeOK
<1>4. link'[NewRow(l)] # None
  BY <1>1, <1>3, NewLinkRow
<1>5. job'[t].target = l /\ job'[t].subject = job[t].subject
  BY <1>1, GoneOn DEF Commits
<1> HIDE DEF NewRow
<1>6. link'[NewRow(l)].user = l /\ link'[NewRow(l)].subject = job[t].subject
  BY <1>3
<1>7. QED
  BY <1>2, <1>4, <1>5, <1>6 DEF LinkedNow

LEMMA CommitIsLinked ==
    ASSUME IInv, NEW t \in Thread, CommitAttach(t) \/ CommitCreate(t), job'[t] # None
    PROVE  LinkedNow(job'[t].target, job'[t].subject)
<1>1. job[t] # None /\ ~Ends(t)
  BY OverJob DEF CommitAttach, CommitCreate, At
<1>2. CASE CommitAttach(t)
  <2>1. At(t, "attach") /\ job[t].target \in Local
    BY <1>1, <1>2, Writing DEF CommitAttach
  <2>2. /\ RowsOf(job[t].target) = {} /\ Commits(t, job[t].target)
        /\ Saves(job[t].target, NewRow(job[t].target), job[t].subject)
    BY <1>1, <1>2 DEF CommitAttach, RolledBack, Insertable
  <2>3. QED
    BY <1>1, <2>1, <2>2, NewRowIsLinked
<1>3. CASE CommitCreate(t)
  <2>1. PICK l \in Local : /\ ~Exists(l) /\ Saves(l, NewRow(l), job[t].subject)
                           /\ Commits(t, l)
    BY <1>1, <1>3 DEF CommitCreate, RolledBack
  <2>2. RowsOf(l) = {}
    BY <2>1 DEF IInv, RowsOK, RowsOf
  <2>3. QED
    BY <1>1, <2>1, <2>2, NewRowIsLinked
<1>4. QED
  BY <1>2, <1>3

\* Only a commit brings a callback to its sign-in.
LEMMA EntersCommitted ==
    ASSUME IInv, [Next]_vars, NEW t \in Thread, ~At(t, "committed"),
           job'[t] # None, job'[t].step = "committed"
    PROVE  CommitTouch(t) \/ CommitAttach(t) \/ CommitCreate(t)
<1>1. job'[t] # job[t]
  BY DEF At
<1>2. ASSUME NEW b \in Browser,
             \/ StartLogin(b) \/ StartLink(b) \/ CallbackFails(b)
             \/ \E l \in Local : LocalLogin(b, l)
             \/ Logout(b) \/ SetPassword(b) \/ Unlink(b) \/ DeleteLinks(b)
      PROVE  FALSE
  BY <1>1, <1>2
  DEF StartLogin, StartLink, CallbackFails, LocalLogin, Logout, SetPassword, Unlink,
      DeleteLinks
<1>3. ASSUME NEW b \in Browser, NEW u \in Thread, NEW s \in Subject, Redeem(u, b, s)
      PROVE  FALSE
  BY <1>1, <1>3 DEF Redeem, IInv, TypeOK
<1>4. ASSUME NEW u \in Thread, Ends(u) PROVE FALSE
  BY <1>1, <1>4 DEF Ends, IInv, TypeOK
<1>5. ASSUME NEW u \in Thread, NEW step \in {"unlinked", "touch", "attach", "create", "relink"},
             NEW c, NEW k, NEW l, At(u, "redeemed") \/ At(u, "unlinked"), Goes(u, step, c, k, l)
      PROVE  FALSE
  <2>1. u = t
    BY <1>1, <1>5 DEF Goes, IInv, TypeOK
  <2>2. job'[t].step = step
    BY <1>5, <2>1, GoneOn DEF At
  <2>3. QED
    BY <1>5, <2>2
<1>6. ASSUME NEW u \in Thread, FindLink(u) \/ FindAccount(u) \/ FindOwnLink(u) PROVE FALSE
  BY <1>4, <1>5, <1>6 DEF FindLink, FindAccount, FindOwnLink
<1>7. ASSUME NEW u \in Thread, CommitRelink(u) \/ LoginUser(u) PROVE FALSE
  BY <1>4, <1>7 DEF CommitRelink, RolledBack, LoginUser
<1>8. ASSUME NEW u \in Thread, CommitTouch(u) \/ CommitAttach(u) \/ CommitCreate(u)
      PROVE  u = t
  <2>1. Ends(u) \/ \E l \in Local : Commits(u, l)
    BY <1>8, CommittedJob
  <2>2. QED
    BY <1>1, <2>1 DEF Ends, Commits, Goes, IInv, TypeOK
<1>9. ASSUME NEW k \in Row, Revoke(k) PROVE FALSE
  BY <1>1, <1>9 DEF Revoke
<1>10. ASSUME NEW s \in Subject, NEW e \in Email, ProviderVerifies(s, e) PROVE FALSE
  BY <1>1, <1>10 DEF ProviderVerifies
<1>11. ~UNCHANGED vars
  BY <1>1 DEF vars
<1>12. QED
  BY <1>2, <1>3, <1>6, <1>7, <1>8, <1>9, <1>10, <1>11 DEF Next

\* A callback that has committed and ends with a session changed has signed in.
LEMMA LeavesCommitted ==
    ASSUME IInv, [Next]_vars, NEW t \in Thread, At(t, "committed"), session' # session,
           job'[t] = None
    PROVE  session'[job[t].browser].user = job[t].target
<1>1. job[t] # None /\ job[t] \in Job /\ job[t].step = "committed" /\ job'[t] # job[t]
  BY DEF At, IInv, TypeOK
<1>2. LoginUser(t)
  <2>1. ASSUME NEW b \in Browser,
               \/ StartLogin(b) \/ StartLink(b) \/ CallbackFails(b)
               \/ \E l \in Local : LocalLogin(b, l)
               \/ Logout(b) \/ SetPassword(b) \/ Unlink(b) \/ DeleteLinks(b)
        PROVE  FALSE
    BY <1>1, <2>1
    DEF StartLogin, StartLink, CallbackFails, LocalLogin, Logout, SetPassword, Unlink,
        DeleteLinks
  <2>2. ASSUME NEW b \in Browser, NEW u \in Thread, NEW s \in Subject, Redeem(u, b, s)
        PROVE  FALSE
    BY <1>1, <2>2 DEF Redeem, IInv, TypeOK
  <2>3. ASSUME NEW u \in Thread,
               \/ FindLink(u) \/ FindAccount(u) \/ FindOwnLink(u)
               \/ CommitTouch(u) \/ CommitAttach(u) \/ CommitCreate(u) \/ CommitRelink(u)
        PROVE  FALSE
    BY <2>3 DEF FindLink, FindAccount, FindOwnLink, CommitTouch, CommitAttach,
                CommitCreate, CommitRelink, RolledBack
  <2>4. ASSUME NEW u \in Thread, LoginUser(u) PROVE u = t
    BY <1>1, <2>4 DEF LoginUser, Ends, IInv, TypeOK
  <2>5. ASSUME NEW k \in Row, Revoke(k) PROVE FALSE
    BY <2>5 DEF Revoke
  <2>6. ASSUME NEW s \in Subject, NEW e \in Email, ProviderVerifies(s, e) PROVE FALSE
    BY <2>6 DEF ProviderVerifies
  <2>7. ~UNCHANGED vars
    BY DEF vars
  <2>8. QED
    BY <2>1, <2>2, <2>3, <2>4, <2>5, <2>6, <2>7 DEF Next
<1>3. session' = [session EXCEPT ![job[t].browser] = [user |-> job[t].target, flow |-> None]]
  BY <1>2 DEF LoginUser
<1>4. job[t].browser \in Browser
  BY <1>1 DEF Job
<1>5. QED
  BY <1>3, <1>4 DEF IInv, TypeOK

\* A callback signs in to the account its identity was linked to when its transaction
\* committed; the link may have been revoked since it was read, and may be gone since the
\* commit.
THEOREM SignsInToTheLinked == Spec => SignsInLinked
<1> DEFINE Signs ==
      \A t \in Thread :
        /\ ~At(t, "committed") /\ At(t, "committed")' =>
             Linked(job[t].target, job[t].subject)'
        /\ At(t, "committed") /\ session' # session /\ job'[t] = None =>
             session'[job[t].browser].user = job[t].target
<1>1. IInv /\ [Next]_vars => Signs
  <2>1. SUFFICES ASSUME IInv, [Next]_vars, NEW t \in Thread,
                        ~At(t, "committed"), At(t, "committed")'
                 PROVE  Linked(job[t].target, job[t].subject)'
    BY LeavesCommitted
  <2>2. job'[t] # None /\ job'[t].step = "committed"
    BY <2>1 DEF At
  <2>3. CommitTouch(t) \/ CommitAttach(t) \/ CommitCreate(t)
    BY <2>1, <2>2, EntersCommitted
  <2>4. LinkedNow(job'[t].target, job'[t].subject)
    BY <2>1, <2>2, <2>3, TouchIsLinked, CommitIsLinked
  <2>5. QED
    BY <2>4 DEF LinkedNow, Linked, RowsOf, RowsFor, Rows
<1>2. QED
  BY Invariance, <1>1, PTL DEF Spec, SignsInLinked
=============================================================================
