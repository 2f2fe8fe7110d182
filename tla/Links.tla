-------------------------------- MODULE Links --------------------------------
(***************************************************************************)
(* Which account of an application a TG11 identity signs in to: the link   *)
(* rows of the Django client and the rules that make, refuse and remove    *)
(* them (src/clients/django/tg11_auth/services.py, views.py, models.py).   *)
(*                                                                         *)
(* A callback runs in a thread of its own.  It redeems its code and reads  *)
(* the provider's userinfo later; its transaction reads the link, then the *)
(* account, and writes at the end; the session is signed in after the      *)
(* commit.  Other requests come in between at each of these points.  The   *)
(* database refuses a second row of a user or of a subject, and takes the  *)
(* whole transaction back.                                                 *)
(***************************************************************************)
EXTENDS Integers

CONSTANTS Local,       \* the application's accounts, those not yet created included
          Subject,     \* TG11 identities
          Email,
          Registered,  \* the address that each identity has at first
          Keys,        \* how many primary keys an account's link rows take in turn
          Thread,      \* callbacks that may run at once
          Browser,
          Autolink,    \* TG11_AUTH_AUTOLINK_VERIFIED_EMAIL
          Autocreate,  \* TG11_AUTH_AUTOCREATE
          None

ASSUME SettingsAssumption == Autolink \in BOOLEAN /\ Autocreate \in BOOLEAN
ASSUME RegisteredAssumption ==
    /\ Registered \in [Subject -> Email]
    /\ \A s, q \in Subject : s # q => Registered[s] # Registered[q]

\* The database gives every row a key of its own: there are more of them than callbacks
\* hold, so the bound on them never bites.
ASSUME KeysAssumption ==
    /\ Keys \in Nat \ {0}
    /\ \A held \in [Thread -> 1..Keys] : \E n \in 1..Keys : \A t \in Thread : held[t] # n

VARIABLES account,   \* the accounts' rows; None: not created yet
          link,      \* the link rows
          idp,       \* what TG11 says of each identity's address at present
          session,   \* a browser's session here: its user and its flow
          job,       \* the callbacks under way
          unlinking, \* the account whose links a browser's request is about to delete
          shown      \* history: the addresses TG11 has verified for each identity

vars == <<account, link, idp, session, job, unlinking, shown>>

\* The primary key of a link row: its account and a number.
Row     == Local \X (1..Keys)
Account == [email : Email, password : BOOLEAN]
LinkRow == [user : Local, subject : Subject, revoked : BOOLEAN]
Claims  == [email : Email, verified : BOOLEAN]
Flow    == [mode : {"login", "link"}, by : Local \cup {None}]
Job     == [step : {"redeemed", "unlinked", "touch", "attach", "create", "relink",
                    "committed"},
            browser : Browser, flow : Flow, user : Local \cup {None},
            subject : Subject, claims : Claims \cup {None},
            row : Row \cup {None}, target : Local \cup {None}]

ASSUME NoneAssumption ==
    /\ None \notin Local /\ None \notin Row /\ None \notin Account
    /\ None \notin LinkRow /\ None \notin Claims /\ None \notin Flow /\ None \notin Job

Exists(l) == account[l] # None
Rows      == {k \in Row : link[k] # None}
RowsOf(l) == {k \in Rows : link[k].user = l}
RowsFor(s) == {k \in Rows : link[k].subject = s}

Init ==
    /\ account \in [Local -> {None} \cup [email : Email, password : {TRUE}]]
    /\ link = [k \in Row |-> None]
    /\ idp = [s \in Subject |-> [email |-> Registered[s], verified |-> FALSE]]
    /\ session = [b \in Browser |-> [user |-> None, flow |-> None]]
    /\ job = [t \in Thread |-> None]
    /\ unlinking = [b \in Browser |-> None]
    /\ shown = [s \in Subject |-> {}]

(***************************************************************************)
(* views.py: starting, and the first half of the callback                  *)
(***************************************************************************)
\* login and link, _start: a new flow takes the place of the one before it.
StartLogin(b) ==
    /\ session' = [session EXCEPT ![b].flow = [mode |-> "login", by |-> None]]
    /\ UNCHANGED <<account, link, idp, job, unlinking, shown>>

StartLink(b) ==
    /\ session[b].user # None
    /\ session' = [session EXCEPT ![b].flow = [mode |-> "link", by |-> session[b].user]]
    /\ UNCHANGED <<account, link, idp, job, unlinking, shown>>

\* The flow is used up before anything else, whatever the provider answers.
CallbackFails(b) ==
    /\ session[b].flow # None
    /\ session' = [session EXCEPT ![b].flow = None]
    /\ UNCHANGED <<account, link, idp, job, unlinking, shown>>

\* Mutant of Redeem: the flow is read after it was taken out of the session.
RedeemLate(t, b, s) ==
    /\ job[t] = None
    /\ session[b].flow # None
    /\ session' = [session EXCEPT ![b].flow = None]
    /\ job' = [job EXCEPT ![t] =
                 [step |-> "redeemed", browser |-> b, flow |-> session'[b].flow,
                  user |-> None, subject |-> s, claims |-> idp[s],
                  row |-> None, target |-> None]]
    /\ UNCHANGED <<account, link, idp, unlinking, shown>>

\* exchange: the ID token says what TG11 knew of s when the code was redeemed.  Only a
\* sign-in looks at the address.
Redeem(t, b, s) ==
    /\ job[t] = None
    /\ session[b].flow # None
    /\ session' = [session EXCEPT ![b].flow = None]
    /\ job' = [job EXCEPT ![t] =
                 [step |-> "redeemed", browser |-> b, flow |-> session[b].flow,
                  user |-> IF session[b].flow.mode = "link" THEN session[b].user ELSE None,
                  subject |-> s,
                  claims |-> IF session[b].flow.mode = "link" THEN None ELSE idp[s],
                  row |-> None, target |-> None]]
    /\ UNCHANGED <<account, link, idp, unlinking, shown>>

(***************************************************************************)
(* services.py: the transaction                                            *)
(***************************************************************************)
\* _merge_userinfo: the newer address and its flag, if userinfo answers
MergedClaims(t) == {job[t].claims, idp[job[t].subject]}

At(t, step) == job[t] # None /\ job[t].step = step
Goes(t, step, c, k, l) ==
    job' = [job EXCEPT ![t].step = step, ![t].claims = c, ![t].row = k, ![t].target = l]
Ends(t) == job' = [job EXCEPT ![t] = None]

\* resolve_user with the subject's link.  It may also refuse: an account that is
\* not active, there or here, no second factor, the application's own guard.
FindLink(t) ==
    /\ At(t, "redeemed") /\ job[t].flow.mode = "login"
    /\ \/ Ends(t)
       \/ \E k \in RowsFor(job[t].subject) :
            /\ ~link[k].revoked
            /\ Goes(t, "touch", None, k, link[k].user)
       \/ /\ RowsFor(job[t].subject) = {}
          /\ \E c \in MergedClaims(t) : Goes(t, "unlinked", c, None, None)
    /\ UNCHANGED <<account, link, idp, session, unlinking, shown>>

\* Mutant of FindAccount: the address need not be verified.
FindAccountAny(t) ==
    LET known == {l \in Local : Exists(l) /\ account[l].email = job[t].claims.email}
    IN  /\ At(t, "unlinked")
        /\ \/ Ends(t)
           \/ \E l \in known :
                /\ Autolink /\ RowsOf(l) = {}
                /\ Goes(t, "attach", job[t].claims, None, l)
           \/ /\ known = {} /\ Autocreate
              /\ Goes(t, "create", job[t].claims, None, None)
        /\ UNCHANGED <<account, link, idp, session, unlinking, shown>>

\* resolve_user without one: by address, or a new account
FindAccount(t) ==
    LET known == {l \in Local : Exists(l) /\ account[l].email = job[t].claims.email}
    IN  /\ At(t, "unlinked")
        /\ \/ Ends(t)
           \/ \E l \in known :
                /\ job[t].claims.verified /\ Autolink
                /\ RowsOf(l) = {}
                /\ Goes(t, "attach", job[t].claims, None, l)
           \/ /\ known = {} /\ Autocreate
              /\ Goes(t, "create", job[t].claims, None, None)
        /\ UNCHANGED <<account, link, idp, session, unlinking, shown>>

\* Mutant of FindOwnLink: a link to another identity is not refused.
FindOwnLinkAny(t) ==
    LET l == job[t].user
    IN  /\ At(t, "redeemed") /\ job[t].flow.mode = "link"
        /\ l # None
        /\ \A k \in RowsFor(job[t].subject) : link[k].user = l
        /\ \E k \in IF RowsOf(l) = {} THEN {None} ELSE RowsOf(l) :
             Goes(t, "relink", None, k, l)
        /\ UNCHANGED <<account, link, idp, session, unlinking, shown>>

\* link_to_current_user
FindOwnLink(t) ==
    LET l == job[t].user
    IN  /\ At(t, "redeemed") /\ job[t].flow.mode = "link"
        /\ \/ Ends(t)
           \/ /\ l # None
              /\ \A k \in RowsFor(job[t].subject) : link[k].user = l
              /\ \A k \in RowsOf(l) : link[k].subject = job[t].subject
              /\ \E k \in IF RowsOf(l) = {} THEN {None} ELSE RowsOf(l) :
                   Goes(t, "relink", None, k, l)
        /\ UNCHANGED <<account, link, idp, session, unlinking, shown>>

(***************************************************************************)
(* The writes and the commit                                               *)
(***************************************************************************)
\* The constraints of TG11IdentityLink: one row for a user, one for a subject
Insertable(l, s) == RowsOf(l) = {} /\ RowsFor(s) = {}
NewRow(l) ==
    LET held == Rows \cup {job[t].row : t \in {u \in Thread : job[u] # None}}
    IN  CHOOSE k \in {l} \X (1..Keys) :
          k \notin held /\ \A n \in 1..Keys : n < k[2] => <<l, n>> \in held
Saves(l, k, s) ==
    link' = [link EXCEPT ![k] = [user |-> l, subject |-> s, revoked |-> FALSE]]

\* A statement the database refuses takes the transaction back.
RolledBack(t) == Ends(t) /\ UNCHANGED <<account, link, idp, session, unlinking, shown>>

\* resolve_user has committed: l is the account to sign in to.
Commits(t, l) == Goes(t, "committed", None, None, l)

\* Mutant of CommitTouch: the whole row is saved, as it was read.
CommitTouchAll(t) ==
    /\ At(t, "touch")
    /\ IF job[t].row \in Rows
       THEN /\ Commits(t, job[t].target)
            /\ link' = [link EXCEPT ![job[t].row].revoked = FALSE]
            /\ UNCHANGED <<account, idp, session, unlinking, shown>>
       ELSE RolledBack(t)

\* Mutant of CommitTouch: a row that is gone does not matter.
CommitTouchAnyway(t) ==
    /\ At(t, "touch")
    /\ Commits(t, job[t].target)
    /\ UNCHANGED <<account, link, idp, session, unlinking, shown>>

\* _refresh_snapshot and touch: only the columns they name are written, and a
\* row that is gone is an error.
CommitTouch(t) ==
    /\ At(t, "touch")
    /\ IF job[t].row \in Rows
       THEN /\ Commits(t, job[t].target)
            /\ UNCHANGED <<account, link, idp, session, unlinking, shown>>
       ELSE RolledBack(t)

\* _make_link for an account that was there
CommitAttach(t) ==
    LET l == job[t].target s == job[t].subject
    IN  /\ At(t, "attach")
        /\ IF Insertable(l, s)
           THEN /\ Commits(t, l)
                /\ Saves(l, NewRow(l), s)
                /\ UNCHANGED <<account, idp, session, unlinking, shown>>
           ELSE RolledBack(t)

\* create_local_user and _make_link, in one transaction; the application's own
\* account model may refuse.
CommitCreate(t) ==
    LET s == job[t].subject
    IN  /\ At(t, "create")
        /\ \/ /\ RowsFor(s) = {}
              /\ \E l \in Local :
                   /\ ~Exists(l)
                   /\ account' = [account EXCEPT ![l] =
                                   [email |-> job[t].claims.email, password |-> FALSE]]
                   /\ Saves(l, NewRow(l), s)
                   /\ Commits(t, l)
              /\ UNCHANGED <<idp, session, unlinking, shown>>
           \/ RolledBack(t)

\* save() of the whole row: an UPDATE, or an INSERT, under the same key, when the row
\* that was read is gone
CommitRelink(t) ==
    LET l == job[t].target s == job[t].subject k == job[t].row
    IN  /\ At(t, "relink")
        /\ \/ /\ k \in Rows
              /\ RowsFor(s) \subseteq {k} /\ RowsOf(l) \subseteq {k}
              /\ Saves(l, k, s)
              /\ Ends(t)
              /\ UNCHANGED <<account, idp, session, unlinking, shown>>
           \/ /\ k \notin Rows
              /\ Insertable(l, s)
              /\ Saves(l, IF k = None THEN NewRow(l) ELSE k, s)
              /\ Ends(t)
              /\ UNCHANGED <<account, idp, session, unlinking, shown>>
           \/ /\ IF k \in Rows THEN RowsFor(s) \cup RowsOf(l) # {k} ELSE ~Insertable(l, s)
              /\ RolledBack(t)

\* _login_user, after the transaction: the session has the new user, and nothing of a
\* flow.  Nothing looks at the link again.
LoginUser(t) ==
    /\ At(t, "committed")
    /\ session' = [session EXCEPT ![job[t].browser] = [user |-> job[t].target, flow |-> None]]
    /\ Ends(t)
    /\ UNCHANGED <<account, link, idp, unlinking, shown>>

(***************************************************************************)
(* What else the user does at the application                              *)
(***************************************************************************)
\* Signing in with a password, as somebody else than before: Django drops the session
\* of another user.
LocalLogin(b, l) ==
    /\ Exists(l) /\ account[l].password
    /\ session[b].user # l
    /\ session' = [session EXCEPT ![b] =
                     [user |-> l,
                      flow |-> IF session[b].user = None THEN session[b].flow ELSE None]]
    /\ UNCHANGED <<account, link, idp, job, unlinking, shown>>

Logout(b) ==
    /\ session[b].user # None
    /\ session' = [session EXCEPT ![b] = [user |-> None, flow |-> None]]
    /\ UNCHANGED <<account, link, idp, job, unlinking, shown>>

SetPassword(b) ==
    /\ session[b].user # None /\ ~account[session[b].user].password
    /\ account' = [account EXCEPT ![session[b].user].password = TRUE]
    /\ UNCHANGED <<link, idp, session, job, unlinking, shown>>

\* Mutant of Unlink: not refused to an account without a password
UnlinkAny(b) ==
    LET l == session[b].user
    IN  /\ l # None
        /\ unlinking[b] = None
        /\ unlinking' = [unlinking EXCEPT ![b] = l]
        /\ UNCHANGED <<account, link, idp, session, job, shown>>

\* unlink: refused to an account that has no password when it looks.  A browser's
\* request waits for the one before.
Unlink(b) ==
    LET l == session[b].user
    IN  /\ l # None
        /\ account[l].password
        /\ unlinking[b] = None
        /\ unlinking' = [unlinking EXCEPT ![b] = l]
        /\ UNCHANGED <<account, link, idp, session, job, shown>>

\* services.unlink deletes whatever links the account has by then.  The flow is dropped,
\* unless the session had none to drop or is no longer the browser's.
DeleteLinks(b) ==
    LET l == unlinking[b]
    IN  /\ l # None
        /\ link' = [k \in Row |-> IF k \in RowsOf(l) THEN None ELSE link[k]]
        /\ unlinking' = [unlinking EXCEPT ![b] = None]
        /\ \/ session' = session
           \/ /\ session[b].user = l
              /\ session' = [session EXCEPT ![b].flow = None]
        /\ UNCHANGED <<account, idp, job, shown>>

(***************************************************************************)
(* The application's administrator, and TG11                               *)
(***************************************************************************)
Revoke(k) ==
    /\ k \in Rows /\ ~link[k].revoked
    /\ link' = [link EXCEPT ![k].revoked = TRUE]
    /\ UNCHANGED <<account, idp, session, job, unlinking, shown>>

\* An address is verified, at registration or when it takes another's place.
ProviderVerifies(s, e) ==
    /\ \A q \in Subject \ {s} : idp[q].email # e
    /\ idp[s] # [email |-> e, verified |-> TRUE]
    /\ idp' = [idp EXCEPT ![s] = [email |-> e, verified |-> TRUE]]
    /\ shown' = [shown EXCEPT ![s] = @ \cup {e}]
    /\ UNCHANGED <<account, link, session, job, unlinking>>

Next ==
    \/ \E b \in Browser :
         \/ StartLogin(b) \/ StartLink(b) \/ CallbackFails(b)
         \/ \E t \in Thread, s \in Subject : Redeem(t, b, s)
         \/ \E l \in Local : LocalLogin(b, l)
         \/ Logout(b) \/ SetPassword(b) \/ Unlink(b) \/ DeleteLinks(b)
    \/ \E t \in Thread :
         \/ FindLink(t) \/ FindAccount(t) \/ FindOwnLink(t)
         \/ CommitTouch(t) \/ CommitAttach(t) \/ CommitCreate(t) \/ CommitRelink(t)
         \/ LoginUser(t)
    \/ \E k \in Row : Revoke(k)
    \/ \E s \in Subject, e \in Email : ProviderVerifies(s, e)

Spec == Init /\ [][Next]_vars

(***************************************************************************)
(* Properties                                                              *)
(***************************************************************************)
TypeOK ==
    /\ account \in [Local -> Account \cup {None}]
    /\ link \in [Row -> LinkRow \cup {None}]
    /\ idp \in [Subject -> Claims]
    /\ session \in [Browser -> [user : Local \cup {None}, flow : Flow \cup {None}]]
    /\ job \in [Thread -> Job \cup {None}]
    /\ unlinking \in [Browser -> Local \cup {None}]
    /\ shown \in [Subject -> SUBSET Email]

\* An account without a password has a link, a revoked one perhaps, through every
\* overlap of its creation, unlinking and relinking (create_local_user, unlink).
NotLockedOut ==
    \A l \in Local : Exists(l) /\ ~account[l].password => RowsOf(l) # {}

\* A row's key is of its account, which is there.
RowsOK == \A k \in Rows : link[k].user = k[1] /\ Exists(k[1])

\* Who is signed in is there, and a flow that links is of nobody else.
SessionsOK ==
    \A b \in Browser :
        /\ session[b].user # None => Exists(session[b].user)
        /\ session[b].flow # None /\ session[b].flow.mode = "link" =>
             session[b].user # None /\ session[b].flow.by = session[b].user

ClaimsOK == \A s \in Subject : idp[s].verified => idp[s].email \in shown[s]

\* What a callback has read was so, and some of it cannot have changed.
JobsOK ==
    \A t \in Thread : job[t] # None =>
        /\ job[t].flow.mode = "link" =>
             /\ job[t].user # None /\ job[t].user = job[t].flow.by
             /\ Exists(job[t].user)
        /\ At(t, "redeemed") /\ job[t].flow.mode = "login" => job[t].claims # None
        /\ job[t].step \in {"unlinked", "attach", "create"} => job[t].claims # None
        /\ job[t].claims # None /\ job[t].claims.verified =>
             job[t].claims.email \in shown[job[t].subject]
        /\ job[t].step \in {"attach", "committed"} =>
             job[t].target # None /\ Exists(job[t].target)
        /\ At(t, "attach") =>
             /\ job[t].claims.verified
             /\ account[job[t].target].email = job[t].claims.email
        /\ At(t, "touch") => job[t].row # None
        /\ At(t, "relink") => job[t].flow.mode = "link" /\ job[t].target = job[t].user

\* The row a callback holds is of the account and the identity it has read there, or
\* gone: its key is not given to another, and all who hold it have read the same there.
HeldOK ==
    \A t \in Thread : job[t] # None /\ job[t].row # None =>
        /\ job[t].row[1] = job[t].target
        /\ job[t].row \in Rows => link[job[t].row].subject = job[t].subject
        /\ \A u \in Thread : job[u] # None /\ job[u].row = job[t].row =>
             job[u].subject = job[t].subject

\* Who is about to lose the links had a password, and nothing takes it away.
UnlinkingOK ==
    \A b \in Browser : unlinking[b] # None =>
        Exists(unlinking[b]) /\ account[unlinking[b]].password

\* The inductive invariant behind the theorems of LinksProofs.
IInv ==
    /\ TypeOK
    /\ RowsOK
    /\ SessionsOK
    /\ ClaimsOK
    /\ JobsOK
    /\ HeldOK
    /\ UnlinkingOK
    /\ NotLockedOut

\* A link that was revoked comes back only when its user links again: a
\* sign-in that read it before does not write it back (resolve_user, touch).
RevokedStaysRevoked ==
    [][\A k \in Rows :
         link[k].revoked /\ link'[k] # None /\ ~link'[k].revoked =>
           \E t \in Thread : At(t, "relink") /\ job[t].target = link[k].user]_link

\* A link row never changes hands: it keeps its account and its identity.
NeverRepointed ==
    [][\A k \in Rows : link'[k] # None =>
         link'[k].user = link[k].user /\ link'[k].subject = link[k].subject]_link

\* A link is made with proof: of an account that was there before, by a flow that
\* was started signed in to it, or because its own address is one TG11 has verified for
\* that identity; otherwise with the account itself, which gets the identity's address
\* (link_to_current_user, resolve_user).
LinkedWithProof ==
    [][\A k \in Row \ Rows : link'[k] # None =>
         LET l == link'[k].user IN
         \E t \in Thread :
           /\ job[t] # None /\ job[t].subject = link'[k].subject
           /\ \/ At(t, "create") /\ ~Exists(l) /\ account'[l].email = job[t].claims.email
              \/ At(t, "relink") /\ job[t].target = l /\ job[t].flow.by = l
              \/ /\ At(t, "attach") /\ job[t].target = l
                 /\ account[l].email = job[t].claims.email
                 /\ job[t].claims.email \in shown[job[t].subject]]_link

\* A callback signs in to the account that its identity was linked to when its
\* transaction committed, whatever others had unlinked or linked since it read the
\* link (resolve_user, _login_user).  A link may go between the commit and the sign-in,
\* and be revoked from the moment it was read: the callback signs in all the same.
Linked(l, s) == RowsOf(l) \cap RowsFor(s) # {}
SignsInLinked ==
    [][\A t \in Thread :
         /\ ~At(t, "committed") /\ At(t, "committed")' =>
              Linked(job[t].target, job[t].subject)'
         /\ At(t, "committed") /\ session' # session /\ job'[t] = None =>
              session'[job[t].browser].user = job[t].target]_job
=============================================================================
