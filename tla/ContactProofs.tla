---------------------------- MODULE ContactProofs ----------------------------
(***************************************************************************)
(* Theorems about Contact, for every number of accounts, addresses, links, *)
(* sessions and overlapping requests.                                      *)
(***************************************************************************)
EXTENDS Contact, TLAPS

-----------------------------------------------------------------------------
(* Rows and jobs *)

LEMMA UserKinds ==
    ASSUME NEW row \in UserRow
    PROVE  /\ row = NoUser \/ row \in [email: Address, email_verified: BOOLEAN,
                                       pending_email: Address \cup {None},
                                       password: Password, weak: BOOLEAN,
                                       phone: Number \cup {None}, phone_verified: BOOLEAN]
           /\ row = NoUser <=> row.email = None
BY ContactAssumption DEF UserRow, NoUser

\* What a row of users is after one of its columns is written.
Known == UserRow \ {NoUser}

LEMMA KnownFields ==
    ASSUME NEW row \in Known
    PROVE  /\ row.email \in Address /\ row.email_verified \in BOOLEAN
           /\ row.pending_email \in Address \cup {None}
           /\ row.password \in Password /\ row.weak \in BOOLEAN
           /\ row.phone \in Number \cup {None} /\ row.phone_verified \in BOOLEAN
BY DEF Known, UserRow

LEMMA KnownColumns ==
    ASSUME NEW a \in Address, NEW e \in BOOLEAN, NEW d \in Address \cup {None},
           NEW p \in Password, NEW w \in BOOLEAN, NEW n \in Number \cup {None},
           NEW v \in BOOLEAN
    PROVE  [email |-> a, email_verified |-> e, pending_email |-> d, password |-> p,
            weak |-> w, phone |-> n, phone_verified |-> v] \in Known
<1> DEFINE row == [email |-> a, email_verified |-> e, pending_email |-> d,
                   password |-> p, weak |-> w, phone |-> n, phone_verified |-> v]
<1>1. row \in UserRow
  BY DEF UserRow
<1>2. row.email # None
  BY ContactAssumption
<1>3. QED
  BY <1>1, <1>2, UserKinds DEF Known

LEMMA LinkKinds ==
    ASSUME NEW link \in LinkRow
    PROVE  /\ link.action = "none" <=> link = NoLink
           /\ link # NoLink => /\ link.user \in User /\ link.open \in BOOLEAN
                               /\ link.to \in Address \cup Number
           /\ link.action \in {"verify_email", "reset_password", "change_email"} =>
                link.to \in Address
           /\ link.action = "verify_phone" => link.to \in Number
           /\ link.action \in {"none", "verify_email", "reset_password", "change_email",
                               "verify_phone"}
<1>1. CASE link = NoLink
  BY <1>1 DEF NoLink
<1>2. CASE link \in [action: {"verify_email", "reset_password"}, user: User, to: Address,
                     open: BOOLEAN]
  BY <1>2 DEF NoLink
<1>3. CASE link \in [action: {"change_email"}, user: User, to: Address, open: BOOLEAN]
  BY <1>3 DEF NoLink
<1>4. CASE link \in [action: {"verify_phone"}, user: User, to: Number, open: BOOLEAN]
  BY <1>4 DEF NoLink
<1>5. QED
  BY <1>1, <1>2, <1>3, <1>4 DEF LinkRow

\* A link that is opened or expires is the same link.
LEMMA OpenedLink ==
    ASSUME NEW link \in LinkRow, link # NoLink
    PROVE  /\ [link EXCEPT !.open = FALSE] \in LinkRow
           /\ [link EXCEPT !.open = FALSE] # NoLink
           /\ [link EXCEPT !.open = FALSE].action = link.action
           /\ [link EXCEPT !.open = FALSE].user = link.user
           /\ [link EXCEPT !.open = FALSE].to = link.to
           /\ [link EXCEPT !.open = FALSE].open = FALSE
<1> DEFINE new == [link EXCEPT !.open = FALSE]
<1>2. CASE link \in [action: {"verify_email", "reset_password"}, user: User, to: Address,
                     open: BOOLEAN]
  <2>1. new \in [action: {"verify_email", "reset_password"}, user: User, to: Address,
                 open: BOOLEAN]
    BY <1>2
  <2>2. QED
    BY <1>2, <2>1, LinkKinds DEF LinkRow
<1>3. CASE link \in [action: {"change_email"}, user: User, to: Address, open: BOOLEAN]
  <2>1. new \in [action: {"change_email"}, user: User, to: Address, open: BOOLEAN]
    BY <1>3
  <2>2. QED
    BY <1>3, <2>1, LinkKinds DEF LinkRow
<1>4. CASE link \in [action: {"verify_phone"}, user: User, to: Number, open: BOOLEAN]
  <2>1. new \in [action: {"verify_phone"}, user: User, to: Number, open: BOOLEAN]
    BY <1>4
  <2>2. QED
    BY <1>4, <2>1, LinkKinds DEF LinkRow
<1>5. QED
  BY <1>2, <1>3, <1>4 DEF LinkRow

LEMMA SessionKinds ==
    ASSUME NEW session \in SessionRow
    PROVE  /\ session.live => session # NoSession
           /\ session # NoSession =>
                /\ session.live \in BOOLEAN
                /\ session.user \in User /\ session.password \in Password
                /\ [session EXCEPT !.live = FALSE] \in SessionRow
                /\ [session EXCEPT !.live = FALSE].user = session.user
                /\ [session EXCEPT !.live = FALSE] # NoSession
                /\ ~[session EXCEPT !.live = FALSE].live
                /\ \A p \in Password :
                     /\ [session EXCEPT !.password = p] \in SessionRow
                     /\ [session EXCEPT !.password = p].user = session.user
                     /\ [session EXCEPT !.password = p].password = p
                     /\ [session EXCEPT !.password = p] # NoSession
<1>1. NoSession.live = FALSE
  BY DEF NoSession
<1>2. CASE session \in [live: BOOLEAN, user: User, password: Password]
  <2>1. [session EXCEPT !.live = FALSE] \in [live: BOOLEAN, user: User, password: Password]
    BY <1>2
  <2>2. \A p \in Password :
          [session EXCEPT !.password = p] \in [live: BOOLEAN, user: User, password: Password]
    BY <1>2
  <2>3. ASSUME NEW other \in [live: BOOLEAN, user: User, password: Password]
        PROVE  other # NoSession /\ other \in SessionRow
    <3>1. "user" \in DOMAIN other /\ "user" \notin DOMAIN NoSession
      BY DEF NoSession
    <3>2. QED
      BY <3>1 DEF SessionRow
  <2>4. QED
    BY <1>2, <2>1, <2>2, <2>3
<1>3. QED
  BY <1>1, <1>2 DEF SessionRow

LEMMA JobKinds ==
    ASSUME NEW job \in Job
    PROVE  /\ job.op \in {"idle", "login", "verify", "reset", "password", "change",
                          "confirm", "phone_set", "phone_verify", "phone_remove"}
           /\ job.op = "idle" => job = Idle
           /\ job.op \in {"login", "password", "change", "phone_set", "phone_verify",
                          "phone_remove"} => job.user \in User
           /\ job.op \in {"verify", "reset", "confirm", "phone_verify"} => job.link \in Link
           /\ job.op \in {"login", "reset", "password"} => job.password \in Password
           /\ job.op \in {"reset", "password"} => job.listed \subseteq Session
           /\ job.op = "login" => job.weak \in BOOLEAN
           /\ job.op = "password" => job.own \in Session
           /\ job.op = "change" => job.to \in Address
           /\ job.op \in {"change", "confirm"} => job.was \in Address \cup {None}
           /\ job.op = "phone_set" => job.number \in Number
           /\ job.op \in {"phone_set", "phone_remove"} =>
                job.was \in Number \cup {None} /\ job.was_verified \in BOOLEAN
<1>1. CASE job = Idle
  BY <1>1 DEF Idle
<1>2. CASE job \in [op: {"login"}, user: User, password: Password, weak: BOOLEAN,
                    signs_in: BOOLEAN]
  BY <1>2
<1>3. CASE job \in [op: {"verify"}, link: Link]
  BY <1>3
<1>4. CASE job \in [op: {"reset"}, link: Link, password: Password, listed: SUBSET Session]
  BY <1>4
<1>5. CASE job \in [op: {"password"}, user: User, password: Password, own: Session,
                    listed: SUBSET Session]
  BY <1>5
<1>6. CASE job \in [op: {"change"}, user: User, to: Address, was: Address \cup {None}]
  BY <1>6
<1>7. CASE job \in [op: {"confirm"}, link: Link, was: Address \cup {None}]
  BY <1>7
<1>8. CASE job \in [op: {"phone_set"}, user: User, number: Number,
                    was: Number \cup {None}, was_verified: BOOLEAN]
  BY <1>8
<1>9. CASE job \in [op: {"phone_verify"}, user: User, link: Link]
  BY <1>9
<1>10. CASE job \in [op: {"phone_remove"}, user: User, was: Number \cup {None},
                     was_verified: BOOLEAN]
  BY <1>10
<1>11. QED
  BY <1>1, <1>2, <1>3, <1>4, <1>5, <1>6, <1>7, <1>8, <1>9, <1>10 DEF Job

LEMMA IdleJob == Idle \in Job /\ Idle.op = "idle"
BY DEF Job, Idle

-----------------------------------------------------------------------------
(* What one step does to a row of users *)

Created(u) ==
    \E a \in Address, p \in Password, v \in BOOLEAN :
        /\ users[u] = NoUser /\ users'[u] = NewUser(a, p, v)
        /\ v => <<u, a>> \in proved'

\* The password, or what becomes of it in a release that hashes longer.
Rewritten(u) ==
    \E p \in Password, w \in BOOLEAN :
        /\ OnItsWay(u, p)
        /\ users'[u] = [users[u] EXCEPT !.password = p, !.weak = w]

Pending(u) ==
    \E d \in Address \cup {None} : users'[u] = [users[u] EXCEPT !.pending_email = d]

Verified(u) ==
    \E l \in Link :
        /\ links[l].action = "verify_email" /\ links[l].user = u
        /\ users'[u] = [users[u] EXCEPT !.email_verified = TRUE]
        /\ proved' = proved \cup {<<u, links[l].to>>}

Moved(u) ==
    \E a \in Address, d \in Address \cup {None} :
        /\ users'[u] = [users[u] EXCEPT !.email = a, !.email_verified = TRUE,
                                        !.pending_email = d]
        /\ <<u, a>> \in proved'

Phoned(u) ==
    \E t \in Thread, n \in Number \cup {None}, v \in BOOLEAN :
        /\ PhoneJob(t, u) /\ threads'[t] = Idle
        /\ users'[u] = [users[u] EXCEPT !.phone = n, !.phone_verified = v]
        /\ u \notin overlapped /\ v /\ n # None => <<u, n>> \in proved'

\* Either the row stays, or a request of one of six kinds commits.
UserChange(u) ==
    \/ users'[u] = users[u] \/ Created(u)
    \/ /\ users[u] \in Known
       /\ Rewritten(u) \/ Pending(u) \/ Verified(u) \/ Moved(u) \/ Phoned(u)

LEMMA CommitResetUsers ==
    ASSUME IInv, NEW t \in Thread, CommitReset(t), NEW u \in User PROVE UserChange(u)
<1> DEFINE job == threads[t]
           owner == links[job.link].user
<1>1. job \in Job /\ job.op = "reset"
  BY DEF IInv, TypeOK, CommitReset, Doing
<1>2. job.link \in Link /\ job.password \in Password
  BY <1>1, JobKinds
<1>3. links[job.link] \in LinkRow /\ links[job.link].action = "reset_password"
  BY <1>1, <1>2 DEF IInv, TypeOK, JobsOK, Doing
<1>4. owner \in User /\ users[owner] \in Known
  BY <1>2, <1>3, LinkKinds DEF IInv, TypeOK, OwnersOK, Exists, Known
<1>5. u # owner => users'[u] = users[u]
  BY DEF CommitReset, IInv, TypeOK
<1>6. u = owner => users'[u] = [users[u] EXCEPT !.password = job.password, !.weak = FALSE]
  BY <1>4 DEF CommitReset, IInv, TypeOK
<1>7. OnItsWay(owner, job.password)
  BY <1>1 DEF OnItsWay, Doing
<1> HIDE DEF owner, job
<1>8. QED
  BY <1>2, <1>4, <1>5, <1>6, <1>7 DEF UserChange, Rewritten

LEMMA CommitPasswordUsers ==
    ASSUME IInv, NEW t \in Thread, CommitPassword(t), NEW u \in User PROVE UserChange(u)
<1> DEFINE job == threads[t]
           owner == job.user
<1>1. job \in Job /\ job.op = "password"
  BY DEF IInv, TypeOK, CommitPassword, Doing
<1>2. owner \in User /\ job.password \in Password
  BY <1>1, JobKinds
<1>4. users[owner] \in Known
  BY <1>1, <1>2 DEF IInv, TypeOK, JobsOK, Exists, Known
<1>5. u # owner => users'[u] = users[u]
  BY DEF CommitPassword, IInv, TypeOK
<1>6. u = owner => users'[u] = [users[u] EXCEPT !.password = job.password, !.weak = FALSE]
  BY <1>2 DEF CommitPassword, IInv, TypeOK
<1>7. OnItsWay(owner, job.password)
  BY <1>1 DEF OnItsWay, Doing
<1> HIDE DEF owner, job
<1>8. QED
  BY <1>2, <1>4, <1>5, <1>6, <1>7 DEF UserChange, Rewritten

LEMMA CommitLoginUsers ==
    ASSUME IInv, NEW t \in Thread, NEW s \in Session, CommitLogin(t, s), NEW u \in User
    PROVE  UserChange(u)
<1> DEFINE job == threads[t]
           owner == job.user
<1>1. job \in Job /\ job.op = "login"
  BY DEF IInv, TypeOK, CommitLogin, Doing
<1>2. owner \in User /\ job.password \in Password
  BY <1>1, JobKinds
<1>3. users[owner] \in Known
  BY <1>1, <1>2 DEF IInv, TypeOK, JobsOK, Exists, Known
<1>4. CASE UNCHANGED users
  BY <1>4 DEF UserChange
<1>5. CASE users' = [users EXCEPT ![owner].password = job.password, ![owner].weak = FALSE]
  <2>1. u # owner => users'[u] = users[u]
    BY <1>5 DEF IInv, TypeOK
  <2>2. u = owner => users'[u] = [users[u] EXCEPT !.password = job.password, !.weak = FALSE]
    BY <1>2, <1>5 DEF IInv, TypeOK
  <2>3. OnItsWay(owner, job.password)
    BY <1>1 DEF OnItsWay
  <2> HIDE DEF owner, job
  <2>4. QED
    BY <1>2, <1>3, <2>1, <2>2, <2>3 DEF UserChange, Rewritten
<1>6. QED
  BY <1>4, <1>5 DEF CommitLogin, Rehashed

LEMMA UpgradeUsers == ASSUME IInv, Upgrade, NEW u \in User PROVE UserChange(u)
<1>1. CASE users[u] = NoUser
  BY <1>1 DEF Upgrade, Exists, UserChange
<1>2. CASE users[u] # NoUser
  <2>1. users[u] \in Known
    BY <1>2 DEF IInv, TypeOK, Known
  <2>2. users'[u] = [users[u] EXCEPT !.weak = TRUE]
    BY <1>2 DEF Upgrade, Exists
  <2>3. [users[u] EXCEPT !.weak = TRUE]
          = [users[u] EXCEPT !.password = users[u].password, !.weak = TRUE]
    BY <2>1 DEF Known, UserRow
  <2>4. users[u].password \in Password /\ OnItsWay(u, users[u].password)
    BY <1>2, <2>1, KnownFields DEF OnItsWay, Exists
  <2>5. QED
    BY <2>1, <2>2, <2>3, <2>4 DEF UserChange, Rewritten
<1>3. QED
  BY <1>1, <1>2

LEMMA CommitVerifyUsers ==
    ASSUME IInv, NEW t \in Thread, CommitVerify(t), NEW u \in User PROVE UserChange(u)
<1> DEFINE l == threads[t].link
           owner == links[l].user
<1>1. threads[t] \in Job /\ threads[t].op = "verify"
  BY DEF IInv, TypeOK, CommitVerify, Doing
<1>2. l \in Link
  BY <1>1, JobKinds
<1>3. links[l] \in LinkRow /\ links[l].action = "verify_email"
  BY <1>1, <1>2 DEF IInv, TypeOK, JobsOK, Doing
<1>4. owner \in User /\ users[owner] \in Known
  BY <1>2, <1>3, LinkKinds DEF IInv, TypeOK, OwnersOK, Exists, Known
<1>5. u # owner => users'[u] = users[u]
  BY DEF CommitVerify, IInv, TypeOK
<1>6. u = owner => /\ users'[u] = [users[u] EXCEPT !.email_verified = TRUE]
                   /\ proved' = proved \cup {<<u, links[l].to>>}
  BY <1>4 DEF CommitVerify, IInv, TypeOK
<1>7. QED
  BY <1>2, <1>3, <1>4, <1>5, <1>6 DEF UserChange, Verified

LEMMA CommitChangeUsers ==
    ASSUME IInv, NEW t \in Thread, NEW l \in Link, CommitChange(t, l), NEW u \in User
    PROVE  UserChange(u)
<1> DEFINE job == threads[t]
           owner == job.user
           new == Written(job.was, job.to, users[owner].pending_email)
<1>1. job \in Job /\ job.op = "change"
  BY DEF IInv, TypeOK, CommitChange, Doing
<1>2. owner \in User /\ job.to \in Address
  BY <1>1, JobKinds
<1>4. users[owner] \in Known
  BY <1>1, <1>2 DEF IInv, TypeOK, JobsOK, Exists, Known
<1>5. new \in Address \cup {None}
  BY <1>2, <1>4, KnownFields DEF Written
<1>6. u # owner => users'[u] = users[u]
  BY DEF CommitChange, IInv, TypeOK
<1>7. u = owner => users'[u] = [users[u] EXCEPT !.pending_email = new]
  BY <1>2 DEF CommitChange, IInv, TypeOK
<1> HIDE DEF owner, job, new
<1>8. QED
  BY <1>4, <1>5, <1>6, <1>7 DEF UserChange, Pending

LEMMA CancelChangeUsers ==
    ASSUME IInv, NEW v \in User, CancelChange(v), NEW u \in User PROVE UserChange(u)
<1>1. users[v] \in Known
  BY DEF CancelChange, IInv, TypeOK, Exists, Known
<1>2. u # v => users'[u] = users[u]
  BY DEF CancelChange, IInv, TypeOK
<1>3. u = v => users'[u] = [users[u] EXCEPT !.pending_email = None]
  BY DEF CancelChange, IInv, TypeOK
<1>4. QED
  BY <1>1, <1>2, <1>3 DEF UserChange, Pending

LEMMA CommitConfirmUsers ==
    ASSUME IInv, NEW t \in Thread, CommitConfirm(t), NEW u \in User PROVE UserChange(u)
<1> DEFINE l == threads[t].link
           owner == links[l].user
           new == Written(threads[t].was, None, users[owner].pending_email)
<1>1. threads[t] \in Job /\ threads[t].op = "confirm"
  BY DEF IInv, TypeOK, CommitConfirm, Doing
<1>2. l \in Link
  BY <1>1, JobKinds
<1>3. links[l] \in LinkRow /\ links[l].action = "change_email"
  BY <1>1, <1>2 DEF IInv, TypeOK, JobsOK, Doing
<1>4. owner \in User /\ users[owner] \in Known /\ links[l].to \in Address
  BY <1>2, <1>3, LinkKinds DEF IInv, TypeOK, OwnersOK, Exists, Known
<1>5. new \in Address \cup {None}
  BY <1>4, KnownFields DEF Written
<1>6. u # owner => users'[u] = users[u]
  BY DEF CommitConfirm, IInv, TypeOK
<1>7. u = owner => /\ users'[u] = [users[u] EXCEPT !.email = links[l].to,
                                     !.email_verified = TRUE, !.pending_email = new]
                   /\ <<u, links[l].to>> \in proved'
  BY <1>4 DEF CommitConfirm, IInv, TypeOK
<1> HIDE DEF owner, new, l
<1>8. QED
  BY <1>4, <1>5, <1>6, <1>7 DEF UserChange, Moved

LEMMA CommitPhoneSetUsers ==
    ASSUME IInv, NEW t \in Thread, NEW l \in Link, CommitPhoneSet(t, l), NEW u \in User
    PROVE  UserChange(u)
<1> DEFINE job == threads[t]
           owner == job.user
           n == Written(job.was, job.number, users[owner].phone)
           v == Written(job.was_verified, FALSE, users[owner].phone_verified)
<1>1. job \in Job /\ job.op = "phone_set"
  BY DEF IInv, TypeOK, CommitPhoneSet, Doing
<1>2. owner \in User /\ job.number \in Number /\ PhoneJob(t, owner)
  BY <1>1, JobKinds DEF PhoneJob
<1>3. users[owner] \in Known
  BY <1>1, <1>2 DEF IInv, TypeOK, JobsOK, Exists, Known
<1>4. n \in Number \cup {None} /\ v \in BOOLEAN
  BY <1>2, <1>3, KnownFields DEF Written
<1>5. owner \notin overlapped => ~v
  <2>1. owner \notin overlapped => users[owner].phone_verified = job.was_verified
    BY <1>1, <1>2 DEF IInv, PhoneJobsOK
  <2>2. QED
    BY <2>1 DEF Written
<1>6. u # owner => users'[u] = users[u]
  BY DEF CommitPhoneSet, IInv, TypeOK
<1>7. u = owner => users'[u] = [users[u] EXCEPT !.phone = n, !.phone_verified = v]
  BY <1>2 DEF CommitPhoneSet, IInv, TypeOK
<1>8. threads'[t] = Idle
  BY DEF CommitPhoneSet, Finish, IInv, TypeOK
<1> HIDE DEF owner, job, n, v
<1>9. QED
  BY <1>2, <1>3, <1>4, <1>5, <1>6, <1>7, <1>8 DEF UserChange, Phoned

LEMMA CommitPhoneRemoveUsers ==
    ASSUME IInv, NEW t \in Thread, CommitPhoneRemove(t), NEW u \in User
    PROVE  UserChange(u)
<1> DEFINE job == threads[t]
           owner == job.user
           n == Written(job.was, None, users[owner].phone)
           v == Written(job.was_verified, FALSE, users[owner].phone_verified)
<1>1. job \in Job /\ job.op = "phone_remove"
  BY DEF IInv, TypeOK, CommitPhoneRemove, Doing
<1>2. owner \in User /\ PhoneJob(t, owner)
  BY <1>1, JobKinds DEF PhoneJob
<1>3. users[owner] \in Known
  BY <1>1, <1>2 DEF IInv, TypeOK, JobsOK, Exists, Known
<1>4. n \in Number \cup {None} /\ v \in BOOLEAN
  BY <1>2, <1>3, KnownFields DEF Written
<1>5. owner \notin overlapped => ~v
  <2>1. owner \notin overlapped => users[owner].phone_verified = job.was_verified
    BY <1>1, <1>2 DEF IInv, PhoneJobsOK
  <2>2. QED
    BY <2>1 DEF Written
<1>6. u # owner => users'[u] = users[u]
  BY DEF CommitPhoneRemove, IInv, TypeOK
<1>7. u = owner => users'[u] = [users[u] EXCEPT !.phone = n, !.phone_verified = v]
  BY <1>2 DEF CommitPhoneRemove, IInv, TypeOK
<1>8. threads'[t] = Idle
  BY DEF CommitPhoneRemove, Finish, IInv, TypeOK
<1> HIDE DEF owner, job, n, v
<1>9. QED
  BY <1>2, <1>3, <1>4, <1>5, <1>6, <1>7, <1>8 DEF UserChange, Phoned

LEMMA CommitPhoneVerifyUsers ==
    ASSUME IInv, NEW t \in Thread, CommitPhoneVerify(t), NEW u \in User
    PROVE  UserChange(u)
<1> DEFINE job == threads[t]
           owner == job.user
           n == users[owner].phone
<1>1. job \in Job /\ job.op = "phone_verify"
  BY DEF IInv, TypeOK, CommitPhoneVerify, Doing
<1>2. owner \in User /\ PhoneJob(t, owner)
  BY <1>1, JobKinds DEF PhoneJob
<1>3. users[owner] \in Known
  BY <1>1, <1>2 DEF IInv, TypeOK, JobsOK, Exists, Known
<1>4. n \in Number \cup {None}
  BY <1>3, KnownFields
<1>5. owner \notin overlapped => <<owner, n>> \in proved'
  <2>1. owner \notin overlapped => n = links[job.link].to
    BY <1>1, <1>2 DEF IInv, PhoneJobsOK, Doing
  <2>2. QED
    BY <2>1 DEF CommitPhoneVerify
<1>6. u # owner => users'[u] = users[u]
  BY DEF CommitPhoneVerify, IInv, TypeOK
<1>7. u = owner => users'[u] = [users[u] EXCEPT !.phone = n, !.phone_verified = TRUE]
  <2>1. u = owner => users'[u] = [users[u] EXCEPT !.phone_verified = TRUE]
    BY <1>2 DEF CommitPhoneVerify, IInv, TypeOK
  <2>2. [users[owner] EXCEPT !.phone_verified = TRUE]
          = [users[owner] EXCEPT !.phone = n, !.phone_verified = TRUE]
    BY <1>3 DEF Known, UserRow
  <2>3. QED
    BY <2>1, <2>2
<1>8. threads'[t] = Idle
  BY DEF CommitPhoneVerify, Finish, IInv, TypeOK
<1> HIDE DEF owner, job, n
<1>9. QED
  BY <1>2, <1>3, <1>4, <1>5, <1>6, <1>7, <1>8 DEF UserChange, Phoned

LEMMA NewUsers ==
    ASSUME IInv, NEW v \in User, NEW a \in Address, NEW p \in Password,
           \/ \E l \in Link, s \in Session : Register(v, a, p, l, s)
           \/ CreateUser(v, a, p),
           NEW u \in User
    PROVE  UserChange(u)
<1>1. u # v => users'[u] = users[u]
  BY DEF Register, CreateUser, IInv, TypeOK
<1>2. users[v] = NoUser
  BY DEF Register, CreateUser, Exists
<1>3. CASE \E l \in Link, s \in Session : Register(v, a, p, l, s)
  <2>1. users'[v] = NewUser(a, p, FALSE)
    BY <1>3 DEF Register, IInv, TypeOK
  <2>2. QED
    BY <1>1, <1>2, <2>1 DEF UserChange, Created
<1>4. CASE CreateUser(v, a, p)
  <2>1. users'[v] = NewUser(a, p, TRUE) /\ <<v, a>> \in proved'
    BY <1>4 DEF CreateUser, IInv, TypeOK
  <2>2. QED
    BY <1>1, <1>2, <2>1 DEF UserChange, Created
<1>5. QED
  BY <1>3, <1>4

\* What any step does to one account.
LEMMA UserStep == ASSUME IInv, [Next]_vars, NEW u \in User PROVE UserChange(u)
<1>1. CASE UNCHANGED users
  BY <1>1 DEF UserChange
<1>2. CASE AccountNext
  BY <1>1, <1>2, NewUsers DEF AccountNext, Resend, Forgot, Expires
<1>3. CASE SignInNext
  BY <1>1, <1>3, CommitLoginUsers, UpgradeUsers
  DEF SignInNext, BeginLogin, SecondStep, CookieExpires, EndSession
<1>4. CASE PasswordNext
  BY <1>1, <1>4, CommitResetUsers, CommitPasswordUsers
  DEF PasswordNext, BeginReset, BeginPassword, ResetRefused
<1>5. CASE EmailNext
  BY <1>1, <1>5, CommitVerifyUsers, CommitChangeUsers, CancelChangeUsers,
     CommitConfirmUsers
  DEF EmailNext, BeginVerify, BeginConfirm, BeginChange
<1>6. CASE PhoneNext
  BY <1>1, <1>6, CommitPhoneSetUsers, CommitPhoneRemoveUsers, CommitPhoneVerifyUsers
  DEF PhoneNext, BeginPhoneSet, BeginPhoneVerify, BeginPhoneRemove
<1>7. ASSUME NEW t \in Thread, RequestFails(t) PROVE UNCHANGED users
  BY <1>7 DEF RequestFails
<1>8. QED
  BY <1>1, <1>2, <1>3, <1>4, <1>5, <1>6, <1>7 DEF Next, vars

\* An account that is there stays there.
LEMMA UsersStay ==
    ASSUME IInv, [Next]_vars, NEW u \in User, users[u] # NoUser
    PROVE  users'[u] \in Known
<1>1. users[u] \in Known
  BY DEF IInv, TypeOK, Known
<1>2. /\ users[u].email \in Address /\ users[u].email_verified \in BOOLEAN
      /\ users[u].pending_email \in Address \cup {None}
      /\ users[u].password \in Password /\ users[u].weak \in BOOLEAN
      /\ users[u].phone \in Number \cup {None} /\ users[u].phone_verified \in BOOLEAN
  BY <1>1, KnownFields
<1>3. \/ users'[u] = users[u]
      \/ Rewritten(u) \/ Pending(u) \/ Verified(u) \/ Moved(u) \/ Phoned(u)
  BY UserStep DEF UserChange, Created
<1> DEFINE Columns == [email: Address, email_verified: BOOLEAN,
                       pending_email: Address \cup {None}, password: Password,
                       weak: BOOLEAN, phone: Number \cup {None}, phone_verified: BOOLEAN]
<1>4. users[u] \in Columns
  BY <1>1, UserKinds DEF Known
<1>5. ASSUME users'[u] \in Columns PROVE users'[u] \in Known
  <2>1. users'[u] \in UserRow /\ users'[u].email # None
    BY <1>5, ContactAssumption DEF UserRow
  <2>2. QED
    BY <2>1, UserKinds DEF Known
<1>6. CASE Rewritten(u)
  BY <1>4, <1>5, <1>6 DEF Rewritten
<1>7. CASE Pending(u)
  BY <1>4, <1>5, <1>7 DEF Pending
<1>8. CASE Verified(u)
  BY <1>4, <1>5, <1>8 DEF Verified
<1>9. CASE Moved(u)
  <2>1. PICK a \in Address, d \in Address \cup {None} :
          users'[u] = [users[u] EXCEPT !.email = a, !.email_verified = TRUE,
                                       !.pending_email = d]
    BY <1>9 DEF Moved
  <2>2. QED
    BY <1>4, <1>5, <2>1
<1>10. CASE Phoned(u)
  <2>1. PICK n \in Number \cup {None}, v \in BOOLEAN :
          users'[u] = [users[u] EXCEPT !.phone = n, !.phone_verified = v]
    BY <1>10 DEF Phoned
  <2>2. QED
    BY <1>4, <1>5, <2>1
<1>11. QED
  BY <1>1, <1>3, <1>6, <1>7, <1>8, <1>9, <1>10

-----------------------------------------------------------------------------
(* What one step does to a link *)

NewLink(l) ==
    /\ links[l] = NoLink /\ links'[l] \in LinkRow /\ links'[l] # NoLink
    /\ users'[links'[l].user] # NoUser
    /\ links'[l].action = "verify_email" => links'[l].to = users'[links'[l].user].email

LinkChange(l) ==
    \/ links'[l] = links[l]
    \/ links[l] # NoLink /\ links'[l] = [links[l] EXCEPT !.open = FALSE]
    \/ NewLink(l)

LEMMA OpenedLinks ==
    ASSUME IInv, NEW m \in Link, links[m] # NoLink, Opened(m), NEW l \in Link
    PROVE  LinkChange(l)
BY DEF IInv, TypeOK, Opened, LinkChange

LEMMA SentLinks ==
    ASSUME IInv, [Next]_vars, NEW m \in Link, NEW action, NEW u \in User, NEW to,
           Sent(m, action, u, to), users'[u] # NoUser,
           \/ action \in {"verify_email", "reset_password", "change_email"} /\ to \in Address
           \/ action = "verify_phone" /\ to \in Number,
           action = "verify_email" => to = users'[u].email,
           NEW l \in Link
    PROVE  LinkChange(l)
<1> DEFINE new == [action |-> action, user |-> u, to |-> to, open |-> TRUE]
<1>1. new \in LinkRow
  BY DEF LinkRow
<1>2. new # NoLink
  BY DEF NoLink
<1>3. links[m] = NoLink /\ links'[m] = new /\ (l # m => links'[l] = links[l])
  BY DEF IInv, TypeOK, Sent
<1>4. new.action = action /\ new.user = u /\ new.to = to
  OBVIOUS
<1> HIDE DEF new
<1>5. QED
  BY <1>1, <1>2, <1>3, <1>4 DEF LinkChange, NewLink

\* The link a request holds is there.
LEMMA HeldLinks ==
    ASSUME IInv, NEW t \in Thread,
           threads[t].op \in {"verify", "reset", "confirm", "phone_verify"}
    PROVE  /\ threads[t].link \in Link /\ links[threads[t].link] \in LinkRow
           /\ links[threads[t].link] # NoLink /\ links[threads[t].link].user \in User
           /\ users[links[threads[t].link].user] # NoUser
<1>1. threads[t] \in Job
  BY DEF IInv, TypeOK
<1>2. threads[t].link \in Link
  BY <1>1, JobKinds
<1>3. links[threads[t].link] \in LinkRow
  BY <1>2 DEF IInv, TypeOK
<1>4. links[threads[t].link].action \in {"verify_email", "reset_password", "change_email",
                                         "verify_phone"}
  BY DEF IInv, JobsOK, Doing
<1>5. links[threads[t].link] # NoLink /\ links[threads[t].link].user \in User
  BY <1>3, <1>4, LinkKinds DEF NoLink
<1>6. QED
  BY <1>2, <1>3, <1>5 DEF IInv, OwnersOK, Exists

\* The account a request is about is there.
LEMMA HeldUsers ==
    ASSUME IInv, NEW t \in Thread,
           threads[t].op \in {"login", "password", "change", "phone_set", "phone_verify",
                              "phone_remove"}
    PROVE  threads[t].user \in User /\ users[threads[t].user] # NoUser
<1>1. threads[t] \in Job
  BY DEF IInv, TypeOK
<1>2. threads[t].user \in User
  BY <1>1, JobKinds
<1>3. QED
  BY <1>2 DEF IInv, JobsOK, Exists

LEMMA UsableLinks ==
    ASSUME IInv, NEW l \in Link, NEW action, Usable(l, action), action # "none"
    PROVE  /\ links[l] # NoLink /\ links[l] \in LinkRow /\ links[l].user \in User
           /\ users[links[l].user] # NoUser
<1>1. links[l] \in LinkRow /\ links[l] # NoLink
  BY DEF IInv, TypeOK, Usable, NoLink
<1>2. QED
  BY <1>1, LinkKinds DEF IInv, OwnersOK, Exists

LEMMA LinkStep == ASSUME IInv, [Next]_vars, NEW l \in Link PROVE LinkChange(l)
<1>1. CASE UNCHANGED links
  BY <1>1 DEF LinkChange
<1>2. CASE AccountNext
  <2>1. ASSUME NEW u \in User, NEW a \in Address, NEW p \in Password, NEW m \in Link,
               NEW s \in Session, Register(u, a, p, m, s)
        PROVE  LinkChange(l)
    <3>1. users'[u] = NewUser(a, p, FALSE)
      BY <2>1 DEF Register, IInv, TypeOK
    <3>2. users'[u] # NoUser /\ users'[u].email = a
      BY <3>1, ContactAssumption DEF NewUser, NoUser
    <3>3. Sent(m, "verify_email", u, a)
      BY <2>1 DEF Register
    <3>4. QED
      BY <3>2, <3>3, SentLinks
  <2>2. ASSUME NEW u \in User, NEW m \in Link, Resend(u, m) PROVE LinkChange(l)
    <3>1. users[u] \in Known /\ users' = users
      BY <2>2 DEF Resend, Exists, Known, IInv, TypeOK
    <3>2. users[u].email \in Address /\ users'[u] # NoUser
      BY <3>1, KnownFields DEF Known
    <3>3. Sent(m, "verify_email", u, users[u].email)
      BY <2>2 DEF Resend
    <3>4. QED
      BY <3>1, <3>2, <3>3, SentLinks
  <2>3. ASSUME NEW u \in User, NEW m \in Link, Forgot(u, m) PROVE LinkChange(l)
    <3>1. users[u] \in Known /\ users' = users
      BY <2>3 DEF Forgot, Exists, Known, IInv, TypeOK
    <3>2. users[u].email \in Address /\ users'[u] # NoUser
      BY <3>1, KnownFields DEF Known
    <3>3. Sent(m, "reset_password", u, users[u].email)
      BY <2>3 DEF Forgot
    <3>4. QED
      BY <3>1, <3>2, <3>3, SentLinks
  <2>4. ASSUME NEW m \in Link, Expires(m) PROVE LinkChange(l)
    BY <2>4, OpenedLinks DEF Expires
  <2>5. QED
    BY <1>1, <1>2, <2>1, <2>2, <2>3, <2>4 DEF AccountNext, CreateUser
<1>3. CASE SignInNext
  BY <1>1, <1>3
  DEF SignInNext, BeginLogin, CommitLogin, SecondStep, CookieExpires, EndSession, Upgrade
<1>4. CASE PasswordNext
  <2>1. ASSUME NEW t \in Thread, CommitReset(t) PROVE LinkChange(l)
    <3>1. threads[t].op = "reset" /\ Opened(threads[t].link)
      BY <2>1 DEF CommitReset, Doing
    <3>2. QED
      BY <3>1, HeldLinks, OpenedLinks
  <2>2. ASSUME NEW m \in Link, ResetRefused(m) PROVE LinkChange(l)
    BY <2>2, UsableLinks, OpenedLinks DEF ResetRefused
  <2>3. QED
    BY <1>1, <1>4, <2>1, <2>2 DEF PasswordNext, BeginReset, BeginPassword, CommitPassword
<1>5. CASE EmailNext
  <2>1. ASSUME NEW t \in Thread, CommitVerify(t) \/ CommitConfirm(t) PROVE LinkChange(l)
    <3>1. threads[t].op \in {"verify", "confirm"} /\ Opened(threads[t].link)
      BY <2>1 DEF CommitVerify, CommitConfirm, Doing
    <3>2. QED
      BY <3>1, HeldLinks, OpenedLinks
  <2>2. ASSUME NEW t \in Thread, NEW m \in Link, CommitChange(t, m) PROVE LinkChange(l)
    <3>1. threads[t].op = "change" /\ threads[t] \in Job
      BY <2>2 DEF CommitChange, Doing, IInv, TypeOK
    <3>2. threads[t].to \in Address
      BY <3>1, JobKinds
    <3>3. threads[t].user \in User /\ users'[threads[t].user] # NoUser
      BY <3>1, HeldUsers, UsersStay DEF Known
    <3>4. Sent(m, "change_email", threads[t].user, threads[t].to)
      BY <2>2 DEF CommitChange
    <3>5. QED
      BY <3>2, <3>3, <3>4, SentLinks
  <2>3. QED
    BY <1>1, <1>5, <2>1, <2>2
    DEF EmailNext, BeginVerify, BeginConfirm, BeginChange, CancelChange
<1>6. CASE PhoneNext
  <2>1. ASSUME NEW t \in Thread, CommitPhoneVerify(t) PROVE LinkChange(l)
    <3>1. threads[t].op = "phone_verify" /\ Opened(threads[t].link)
      BY <2>1 DEF CommitPhoneVerify, Doing
    <3>2. QED
      BY <3>1, HeldLinks, OpenedLinks
  <2>2. ASSUME NEW t \in Thread, NEW m \in Link, CommitPhoneSet(t, m) PROVE LinkChange(l)
    <3>1. threads[t].op = "phone_set" /\ threads[t] \in Job
      BY <2>2 DEF CommitPhoneSet, Doing, IInv, TypeOK
    <3>2. threads[t].number \in Number
      BY <3>1, JobKinds
    <3>3. threads[t].user \in User /\ users'[threads[t].user] # NoUser
      BY <3>1, HeldUsers, UsersStay DEF Known
    <3>4. Sent(m, "verify_phone", threads[t].user, threads[t].number)
      BY <2>2 DEF CommitPhoneSet
    <3>5. QED
      BY <3>2, <3>3, <3>4, SentLinks
  <2>3. QED
    BY <1>1, <1>6, <2>1, <2>2
    DEF PhoneNext, BeginPhoneSet, BeginPhoneVerify, BeginPhoneRemove, CommitPhoneRemove
<1>7. ASSUME NEW t \in Thread, RequestFails(t) PROVE UNCHANGED links
  BY <1>7 DEF RequestFails
<1>8. QED
  BY <1>1, <1>2, <1>3, <1>4, <1>5, <1>6, <1>7 DEF Next, vars

\* A link that is there stays the same link.
LEMMA LinksStay ==
    ASSUME IInv, [Next]_vars, NEW l \in Link, links[l] # NoLink
    PROVE  /\ links'[l] \in LinkRow /\ links'[l] # NoLink
           /\ links'[l].action = links[l].action /\ links'[l].user = links[l].user
           /\ links'[l].to = links[l].to
           /\ ~links[l].open => ~links'[l].open
<1>1. links[l] \in LinkRow
  BY DEF IInv, TypeOK
<1>2. links'[l] = links[l] \/ links'[l] = [links[l] EXCEPT !.open = FALSE]
  BY LinkStep DEF LinkChange, NewLink
<1>3. QED
  BY <1>1, <1>2, OpenedLink

-----------------------------------------------------------------------------
(* What one step does to a session and to the cookies *)

NewSession(s) ==
    \E u \in User, p \in Password :
        /\ sessions[s] = NoSession /\ users'[u] # NoUser
        /\ sessions'[s] = [live |-> TRUE, user |-> u, password |-> p]
        /\ users[u] # NoUser => OnItsWay(u, p)

\* The session that changed the password rests on the new one.
Renewed(s) ==
    \E t \in Thread :
        /\ Doing(t, "password") /\ threads[t].own = s
        /\ sessions[s] # NoSession /\ sessions[s].user = threads[t].user
        /\ sessions'[s] \in {[sessions[s] EXCEPT !.password = threads[t].password],
                             [sessions[s] EXCEPT !.live = FALSE,
                                                 !.password = threads[t].password]}

SessionChange(s) ==
    \/ sessions'[s] = sessions[s]
    \/ NewSession(s)
    \/ sessions[s] # NoSession /\ sessions'[s] = [sessions[s] EXCEPT !.live = FALSE]
    \/ Renewed(s)

LEMMA StartedSessions ==
    ASSUME IInv, [Next]_vars, NEW r \in Session, NEW u \in User, NEW p \in Password,
           Started(r, u, p), users'[u] # NoUser, users[u] # NoUser => OnItsWay(u, p),
           NEW s \in Session
    PROVE  SessionChange(s)
BY DEF IInv, TypeOK, Started, SessionChange, NewSession

LEMMA EndedSessions ==
    ASSUME IInv, NEW listed, \A r \in listed : sessions[r] # NoSession,
           sessions' = Ended(listed), NEW s \in Session
    PROVE  SessionChange(s)
BY DEF Ended, SessionChange

LEMMA SessionStep == ASSUME IInv, [Next]_vars, NEW s \in Session PROVE SessionChange(s)
<1>1. CASE UNCHANGED sessions
  BY <1>1 DEF SessionChange
<1>2. CASE AccountNext
  <2>1. ASSUME NEW u \in User, NEW a \in Address, NEW p \in Password, NEW l \in Link,
               NEW r \in Session, Register(u, a, p, l, r)
        PROVE  SessionChange(s)
    <3>1. users'[u] = NewUser(a, p, FALSE) /\ users[u] = NoUser
      BY <2>1 DEF Register, Exists, IInv, TypeOK
    <3>2. users'[u] # NoUser
      BY <3>1, ContactAssumption DEF NewUser, NoUser
    <3>3. UNCHANGED sessions \/ Started(r, u, p)
      BY <2>1 DEF Register
    <3>4. QED
      BY <1>1, <3>1, <3>2, <3>3, StartedSessions
  <2>2. QED
    BY <1>1, <1>2, <2>1 DEF AccountNext, CreateUser, Resend, Forgot, Expires
<1>3. CASE SignInNext
  <2>1. ASSUME NEW u \in User, NEW p \in Password, NEW r \in Session, SecondStep(u, p, r)
        PROVE  SessionChange(s)
    <3>1. <<u, p>> \in cookies /\ Started(r, u, p) /\ users' = users
      BY <2>1 DEF SecondStep
    <3>2. users[u] # NoUser /\ OnItsWay(u, p)
      BY <3>1 DEF IInv, OwnersOK, Exists, OnItsWay
    <3>3. QED
      BY <3>1, <3>2, StartedSessions
  <2>2. ASSUME NEW t \in Thread, NEW r \in Session, CommitLogin(t, r)
        PROVE  SessionChange(s)
    <3>1. threads[t].op = "login" /\ threads[t] \in Job
      BY <2>2 DEF CommitLogin, Doing, IInv, TypeOK
    <3>2. /\ threads[t].user \in User /\ threads[t].password \in Password
          /\ users'[threads[t].user] # NoUser
      BY <3>1, HeldUsers, UsersStay, JobKinds DEF Known
    <3>3. OnItsWay(threads[t].user, threads[t].password)
      BY <3>1 DEF OnItsWay
    <3>4. UNCHANGED sessions \/ Started(r, threads[t].user, threads[t].password)
      BY <2>2 DEF CommitLogin
    <3>5. QED
      BY <1>1, <3>2, <3>3, <3>4, StartedSessions
  <2>3. ASSUME NEW r \in Session, EndSession(r) PROVE SessionChange(s)
    <3>1. sessions[r] # NoSession /\ sessions' = Ended({r})
      BY <2>3, SessionKinds DEF EndSession, IInv, TypeOK
    <3>2. QED
      BY <3>1, EndedSessions
  <2>4. QED
    BY <1>1, <1>3, <2>1, <2>2, <2>3 DEF SignInNext, BeginLogin, CookieExpires, Upgrade
<1>4. CASE PasswordNext
  <2>1. ASSUME NEW t \in Thread, CommitReset(t) PROVE SessionChange(s)
    <3>1. \A r \in threads[t].listed : sessions[r] # NoSession
      BY <2>1 DEF CommitReset, Doing, IInv, JobsOK
    <3>2. sessions' = Ended(threads[t].listed)
      BY <2>1 DEF CommitReset
    <3>3. QED
      BY <3>1, <3>2, EndedSessions
  <2>2. ASSUME NEW t \in Thread, CommitPassword(t) PROVE SessionChange(s)
    <3>1. threads[t].op = "password" /\ threads[t] \in Job
      BY <2>2 DEF CommitPassword, Doing, IInv, TypeOK
    <3>2. threads[t].own \in Session
      BY <3>1, JobKinds
    <3>3. /\ \A r \in threads[t].listed : sessions[r] # NoSession
          /\ sessions[threads[t].own] # NoSession
          /\ sessions[threads[t].own].user = threads[t].user
      BY <3>1 DEF IInv, JobsOK, Doing
    <3>4. sessions' = [Ended(threads[t].listed) EXCEPT
                         ![threads[t].own].password = threads[t].password]
      BY <2>2 DEF CommitPassword
    <3>5. CASE s # threads[t].own
      BY <3>3, <3>4, <3>5 DEF Ended, SessionChange
    <3>6. CASE s = threads[t].own
      <4>1. sessions'[s] = [Ended(threads[t].listed)[s] EXCEPT
                              !.password = threads[t].password]
        BY <3>4, <3>6 DEF Ended
      <4>2. Ended(threads[t].listed)[s] \in
              {sessions[s], [sessions[s] EXCEPT !.live = FALSE]}
        BY DEF Ended
      <4>3. Renewed(s)
        BY <3>1, <3>3, <3>6, <4>1, <4>2 DEF Renewed, Doing
      <4>4. QED
        BY <4>3 DEF SessionChange
    <3>7. QED
      BY <3>5, <3>6
  <2>3. QED
    BY <1>1, <1>4, <2>1, <2>2 DEF PasswordNext, BeginReset, BeginPassword, ResetRefused
<1>5. CASE EmailNext
  BY <1>1, <1>5
  DEF EmailNext, BeginVerify, BeginConfirm, BeginChange, CommitVerify, CommitConfirm,
      CommitChange, CancelChange
<1>6. CASE PhoneNext
  BY <1>1, <1>6
  DEF PhoneNext, BeginPhoneSet, BeginPhoneVerify, BeginPhoneRemove, CommitPhoneSet,
      CommitPhoneVerify, CommitPhoneRemove
<1>7. ASSUME NEW t \in Thread, RequestFails(t) PROVE UNCHANGED sessions
  BY <1>7 DEF RequestFails
<1>8. QED
  BY <1>1, <1>2, <1>3, <1>4, <1>5, <1>6, <1>7 DEF Next, vars

\* A session that is there stays there and keeps its owner.
LEMMA SessionsStay ==
    ASSUME IInv, [Next]_vars, NEW s \in Session, sessions[s] # NoSession
    PROVE  /\ sessions'[s] \in SessionRow /\ sessions'[s] # NoSession
           /\ sessions'[s].user = sessions[s].user
<1>1. sessions[s] \in SessionRow
  BY DEF IInv, TypeOK
<1>2. CASE Renewed(s)
  <2>1. PICK t \in Thread :
          /\ threads[t].op = "password"
          /\ sessions'[s] \in {[sessions[s] EXCEPT !.password = threads[t].password],
                               [sessions[s] EXCEPT !.live = FALSE,
                                                   !.password = threads[t].password]}
    BY <1>2 DEF Renewed, Doing
  <2>2. threads[t].password \in Password
    BY <2>1, JobKinds DEF IInv, TypeOK
  <2> DEFINE over == [sessions[s] EXCEPT !.live = FALSE]
  <2>3. over \in SessionRow /\ over # NoSession /\ over.user = sessions[s].user
    BY <1>1, SessionKinds
  <2>4. \E base \in {sessions[s], over} :
          sessions'[s] = [base EXCEPT !.password = threads[t].password]
    BY <2>1
  <2> HIDE DEF over
  <2>5. PICK base \in {sessions[s], over} :
          sessions'[s] = [base EXCEPT !.password = threads[t].password]
    BY <2>4
  <2>6. base \in SessionRow /\ base # NoSession /\ base.user = sessions[s].user
    BY <1>1, <2>3
  <2>7. \A p \in Password : /\ [base EXCEPT !.password = p] \in SessionRow
                            /\ [base EXCEPT !.password = p].user = base.user
                            /\ [base EXCEPT !.password = p] # NoSession
    BY <2>6, SessionKinds
  <2>8. QED
    BY <2>2, <2>5, <2>6, <2>7
<1>3. CASE sessions'[s] = [sessions[s] EXCEPT !.live = FALSE]
  BY <1>1, <1>3, SessionKinds
<1>4. CASE sessions'[s] = sessions[s]
  BY <1>1, <1>4
<1>5. ~NewSession(s)
  BY DEF NewSession
<1>6. QED
  BY <1>2, <1>3, <1>4, <1>5, SessionStep DEF SessionChange

\* A cookie is given for a password that was verified.
LEMMA CookieStep ==
    ASSUME IInv, [Next]_vars
    PROVE  /\ cookies' \subseteq User \X Password
           /\ \A u \in User, p \in Password :
                <<u, p>> \in cookies' => users[u] # NoUser /\ OnItsWay(u, p)
<1> DEFINE Goal == /\ cookies' \subseteq User \X Password
                   /\ \A u \in User, p \in Password :
                        <<u, p>> \in cookies' => users[u] # NoUser /\ OnItsWay(u, p)
<1>0. /\ cookies \subseteq User \X Password
      /\ \A u \in User, p \in Password :
           <<u, p>> \in cookies => users[u] # NoUser /\ OnItsWay(u, p)
  BY DEF IInv, TypeOK, OwnersOK, Exists, OnItsWay
<1>1. CASE UNCHANGED cookies
  BY <1>0, <1>1
<1>2. CASE AccountNext
  BY <1>1, <1>2 DEF AccountNext, Register, CreateUser, Resend, Forgot, Expires
<1>3. CASE SignInNext
  <2>1. ASSUME NEW t \in Thread, NEW s \in Session, CommitLogin(t, s) PROVE Goal
    <3>1. threads[t].op = "login" /\ threads[t] \in Job
      BY <2>1 DEF CommitLogin, Doing, IInv, TypeOK
    <3>2. /\ threads[t].user \in User /\ threads[t].password \in Password
          /\ users[threads[t].user] # NoUser
      BY <3>1, HeldUsers, JobKinds
    <3>3. OnItsWay(threads[t].user, threads[t].password)
      BY <3>1 DEF OnItsWay
    <3>4. cookies' = cookies \/ cookies' = cookies \cup {<<threads[t].user, threads[t].password>>}
      BY <2>1 DEF CommitLogin
    <3>5. QED
      BY <1>0, <3>2, <3>3, <3>4
  <2>2. ASSUME NEW u \in User, NEW p \in Password, CookieExpires(u, p) PROVE Goal
    BY <1>0, <2>2 DEF CookieExpires
  <2>3. QED
    BY <1>1, <1>3, <2>1, <2>2 DEF SignInNext, BeginLogin, SecondStep, EndSession, Upgrade
<1>4. CASE PasswordNext
  BY <1>1, <1>4
  DEF PasswordNext, BeginReset, BeginPassword, CommitReset, CommitPassword, ResetRefused
<1>5. CASE EmailNext
  BY <1>1, <1>5
  DEF EmailNext, BeginVerify, BeginConfirm, BeginChange, CommitVerify, CommitConfirm,
      CommitChange, CancelChange
<1>6. CASE PhoneNext
  BY <1>1, <1>6
  DEF PhoneNext, BeginPhoneSet, BeginPhoneVerify, BeginPhoneRemove, CommitPhoneSet,
      CommitPhoneVerify, CommitPhoneRemove
<1>7. ASSUME NEW t \in Thread, RequestFails(t) PROVE UNCHANGED cookies
  BY <1>7 DEF RequestFails
<1>8. QED
  BY <1>1, <1>2, <1>3, <1>4, <1>5, <1>6, <1>7 DEF Next, vars

-----------------------------------------------------------------------------
(* What one step does to a request *)

\* What a request that begins in this step is.
Begins(t) ==
    \/ \E u \in User, p \in Password : BeginLogin(t, u, p)
    \/ \E l \in Link, p \in Password : BeginReset(t, l, p)
    \/ \E s \in Session, p \in Password : BeginPassword(t, s, p)
    \/ \E l \in Link : BeginVerify(t, l)
    \/ \E u \in User, a \in Address : BeginChange(t, u, a)
    \/ \E l \in Link : BeginConfirm(t, l)
    \/ \E u \in User, n \in Number : BeginPhoneSet(t, u, n)
    \/ \E l \in Link : BeginPhoneVerify(t, l)
    \/ \E u \in User : BeginPhoneRemove(t, u)

LEMMA BegunThread ==
    ASSUME TypeOK, NEW t \in Thread, NEW job, Begin(t, job)
    PROVE  /\ threads'[t] = job /\ threads[t] = Idle
           /\ \A other \in Thread \ {t} : threads'[other] = threads[other]
BY DEF TypeOK, Begin

\* A request is as it was, over, or begins in this step.
LEMMA ThreadStep ==
    ASSUME IInv, [Next]_vars, NEW t \in Thread
    PROVE  threads'[t] = threads[t] \/ threads'[t] = Idle \/ Begins(t)
<1> DEFINE Goal == threads'[t] = threads[t] \/ threads'[t] = Idle \/ Begins(t)
<1>0. TypeOK
  BY DEF IInv
<1>1. CASE UNCHANGED threads
  BY <1>1
<1>2. ASSUME NEW q \in Thread, Finish(q) PROVE Goal
  BY <1>0, <1>2 DEF Finish, TypeOK
<1>3. ASSUME NEW q \in Thread, q # t, NEW job, Begin(q, job) PROVE Goal
  BY <1>0, <1>3, BegunThread
<1>4. CASE AccountNext
  BY <1>1, <1>4 DEF AccountNext, Register, CreateUser, Resend, Forgot, Expires
<1>5. CASE SignInNext
  <2>1. ASSUME NEW q \in Thread, NEW u \in User, NEW p \in Password, BeginLogin(q, u, p)
        PROVE  Goal
    BY <1>3, <2>1 DEF BeginLogin, Begins
  <2>2. CASE Upgrade
    BY <2>2 DEF Upgrade
  <2>3. QED
    BY <1>1, <1>2, <1>5, <2>1, <2>2
    DEF SignInNext, CommitLogin, SecondStep, CookieExpires, EndSession
<1>6. CASE PasswordNext
  <2>1. ASSUME NEW q \in Thread, NEW l \in Link, NEW p \in Password, BeginReset(q, l, p)
        PROVE  Goal
    BY <1>3, <2>1 DEF BeginReset, Begins
  <2>2. ASSUME NEW q \in Thread, NEW s \in Session, NEW p \in Password,
               BeginPassword(q, s, p)
        PROVE  Goal
    BY <1>3, <2>2 DEF BeginPassword, Begins
  <2>3. QED
    BY <1>1, <1>2, <1>6, <2>1, <2>2
    DEF PasswordNext, CommitReset, CommitPassword, ResetRefused
<1>7. CASE EmailNext
  <2>1. ASSUME NEW q \in Thread, NEW l \in Link, BeginVerify(q, l) PROVE Goal
    BY <1>3, <2>1 DEF BeginVerify, Begins
  <2>2. ASSUME NEW q \in Thread, NEW l \in Link, BeginConfirm(q, l) PROVE Goal
    BY <1>3, <2>2 DEF BeginConfirm, Begins
  <2>3. ASSUME NEW q \in Thread, NEW u \in User, NEW a \in Address, BeginChange(q, u, a)
        PROVE  Goal
    BY <1>3, <2>3 DEF BeginChange, Begins
  <2>4. QED
    BY <1>1, <1>2, <1>7, <2>1, <2>2, <2>3
    DEF EmailNext, CommitVerify, CommitConfirm, CommitChange, CancelChange
<1>8. CASE PhoneNext
  <2>1. ASSUME NEW q \in Thread, NEW u \in User, NEW n \in Number, BeginPhoneSet(q, u, n)
        PROVE  Goal
    BY <1>3, <2>1 DEF BeginPhoneSet, Begins
  <2>2. ASSUME NEW q \in Thread, NEW l \in Link, BeginPhoneVerify(q, l) PROVE Goal
    BY <1>3, <2>2 DEF BeginPhoneVerify, Begins
  <2>3. ASSUME NEW q \in Thread, NEW u \in User, BeginPhoneRemove(q, u) PROVE Goal
    BY <1>3, <2>3 DEF BeginPhoneRemove, Begins
  <2>4. QED
    BY <1>2, <1>8, <2>1, <2>2, <2>3
    DEF PhoneNext, CommitPhoneSet, CommitPhoneVerify, CommitPhoneRemove
<1>9. ASSUME NEW q \in Thread, RequestFails(q) PROVE Goal
  BY <1>2, <1>9 DEF RequestFails
<1>10. QED
  BY <1>1, <1>4, <1>5, <1>6, <1>7, <1>8, <1>9 DEF Next, vars

\* What JobsOK says of one request, after the step.
JobKept(t) ==
    /\ threads'[t].op \in {"login", "password", "change", "phone_set", "phone_verify",
                           "phone_remove"} => users'[threads'[t].user] # NoUser
    /\ threads'[t].op = "verify" => links'[threads'[t].link].action = "verify_email"
    /\ threads'[t].op = "confirm" => links'[threads'[t].link].action = "change_email"
    /\ threads'[t].op = "reset" => links'[threads'[t].link].action = "reset_password"
    /\ threads'[t].op \in {"reset", "password"} =>
         \A s \in threads'[t].listed : sessions'[s] # NoSession
    /\ threads'[t].op = "password" =>
         /\ sessions'[threads'[t].own] # NoSession
         /\ sessions'[threads'[t].own].user = threads'[t].user
    /\ threads'[t].op = "phone_verify" =>
         /\ links'[threads'[t].link].action = "verify_phone"
         /\ links'[threads'[t].link].user = threads'[t].user

\* A request that begins reads rows that are there.
LEMMA BegunJobs ==
    ASSUME IInv, NEW t \in Thread, Begins(t)
    PROVE  threads'[t] \in Job /\ JobKept(t)
<1> DEFINE Goal == threads'[t] \in Job /\ JobKept(t)
<1>0. TypeOK
  BY DEF IInv
<1>1. ASSUME NEW u \in User, NEW p \in Password, BeginLogin(t, u, p) PROVE Goal
  <2>1. users[u] \in Known /\ users' = users
    BY <1>0, <1>1 DEF BeginLogin, Exists, Known, TypeOK
  <2>2. PICK b \in BOOLEAN :
          threads'[t] = [op |-> "login", user |-> u, password |-> p,
                         weak |-> users[u].weak, signs_in |-> b]
    BY <1>0, <1>1, BegunThread DEF BeginLogin
  <2>3. users[u].weak \in BOOLEAN
    BY <2>1, KnownFields
  <2>4. threads'[t] \in Job
    BY <2>2, <2>3 DEF Job
  <2>5. QED
    BY <2>1, <2>2, <2>4 DEF JobKept, Known
<1>2. ASSUME NEW l \in Link, NEW p \in Password, BeginReset(t, l, p) PROVE Goal
  <2>1. UNCHANGED <<links, sessions>> /\ links[l].action = "reset_password"
    BY <1>2 DEF BeginReset, Usable
  <2>2. threads'[t] = [op |-> "reset", link |-> l, password |-> p,
                       listed |-> LiveSessions(links[l].user)]
    BY <1>0, <1>2, BegunThread DEF BeginReset
  <2>3. /\ LiveSessions(links[l].user) \subseteq Session
        /\ \A s \in LiveSessions(links[l].user) : sessions[s] # NoSession
    BY <1>0, SessionKinds DEF LiveSessions, TypeOK
  <2>4. threads'[t] \in Job
    BY <2>2, <2>3 DEF Job
  <2>5. QED
    BY <2>1, <2>2, <2>3, <2>4 DEF JobKept
<1>3. ASSUME NEW s \in Session, NEW p \in Password, BeginPassword(t, s, p) PROVE Goal
  <2> DEFINE u == sessions[s].user
             listed == LiveSessions(u) \ {s}
  <2>1. UNCHANGED <<users, sessions>> /\ sessions[s] # NoSession /\ u \in User
    BY <1>0, <1>3, SessionKinds DEF BeginPassword, TypeOK
  <2>2. threads'[t] = [op |-> "password", user |-> u, password |-> p, own |-> s,
                       listed |-> listed]
    BY <1>0, <1>3, BegunThread DEF BeginPassword
  <2>3. /\ listed \subseteq Session
        /\ \A r \in listed : sessions[r] # NoSession
    BY <1>0, SessionKinds DEF LiveSessions, TypeOK
  <2>4. users[u] # NoUser
    BY <2>1 DEF IInv, OwnersOK, Exists
  <2> HIDE DEF listed
  <2>5. threads'[t] \in Job
    BY <2>1, <2>2, <2>3 DEF Job
  <2>6. QED
    BY <2>1, <2>2, <2>3, <2>4, <2>5 DEF JobKept
<1>4. ASSUME NEW l \in Link, BeginVerify(t, l) PROVE Goal
  <2>1. threads'[t] = [op |-> "verify", link |-> l]
    BY <1>0, <1>4, BegunThread DEF BeginVerify
  <2>2. threads'[t] \in Job
    BY <2>1 DEF Job
  <2>3. QED
    BY <1>4, <2>1, <2>2 DEF JobKept, BeginVerify, Usable
<1>5. ASSUME NEW u \in User, NEW a \in Address, BeginChange(t, u, a) PROVE Goal
  <2>1. users[u] \in Known /\ users' = users
    BY <1>0, <1>5 DEF BeginChange, Exists, Known, TypeOK
  <2>2. threads'[t] = [op |-> "change", user |-> u, to |-> a,
                       was |-> users[u].pending_email]
    BY <1>0, <1>5, BegunThread DEF BeginChange
  <2>3. users[u].pending_email \in Address \cup {None}
    BY <2>1, KnownFields
  <2>4. threads'[t] \in Job
    BY <2>2, <2>3 DEF Job
  <2>5. QED
    BY <2>1, <2>2, <2>4 DEF JobKept, Known
<1>6. ASSUME NEW l \in Link, BeginConfirm(t, l) PROVE Goal
  <2>1. links[l].action = "change_email" /\ links' = links
    BY <1>6 DEF BeginConfirm, Usable
  <2>2. users[links[l].user] \in Known
    BY <1>0, <1>6, UsableLinks DEF BeginConfirm, Known, TypeOK
  <2>3. threads'[t] = [op |-> "confirm", link |-> l,
                       was |-> users[links[l].user].pending_email]
    BY <1>0, <1>6, BegunThread DEF BeginConfirm
  <2>4. users[links[l].user].pending_email \in Address \cup {None}
    BY <2>2, KnownFields
  <2>5. threads'[t] \in Job
    BY <2>3, <2>4 DEF Job
  <2>6. QED
    BY <2>1, <2>3, <2>5 DEF JobKept
<1>7. ASSUME NEW u \in User, NEW n \in Number, BeginPhoneSet(t, u, n) PROVE Goal
  <2>1. users[u] \in Known /\ users' = users
    BY <1>0, <1>7 DEF BeginPhoneSet, Exists, Known, TypeOK
  <2>2. threads'[t] = [op |-> "phone_set", user |-> u, number |-> n,
                       was |-> users[u].phone, was_verified |-> users[u].phone_verified]
    BY <1>0, <1>7, BegunThread DEF BeginPhoneSet
  <2>3. users[u].phone \in Number \cup {None} /\ users[u].phone_verified \in BOOLEAN
    BY <2>1, KnownFields
  <2>4. threads'[t] \in Job
    BY <2>2, <2>3 DEF Job
  <2>5. QED
    BY <2>1, <2>2, <2>4 DEF JobKept, Known
<1>8. ASSUME NEW l \in Link, BeginPhoneVerify(t, l) PROVE Goal
  <2>1. links[l].action = "verify_phone" /\ UNCHANGED <<users, links>>
    BY <1>8 DEF BeginPhoneVerify, Usable
  <2>2. links[l].user \in User /\ users[links[l].user] # NoUser
    BY <1>8, UsableLinks DEF BeginPhoneVerify
  <2>3. threads'[t] = [op |-> "phone_verify", user |-> links[l].user, link |-> l]
    BY <1>0, <1>8, BegunThread DEF BeginPhoneVerify
  <2>4. threads'[t] \in Job
    BY <2>2, <2>3 DEF Job
  <2>5. QED
    BY <2>1, <2>2, <2>3, <2>4 DEF JobKept
<1>9. ASSUME NEW u \in User, BeginPhoneRemove(t, u) PROVE Goal
  <2>1. users[u] \in Known /\ users' = users
    BY <1>0, <1>9 DEF BeginPhoneRemove, Exists, Known, TypeOK
  <2>2. threads'[t] = [op |-> "phone_remove", user |-> u,
                       was |-> users[u].phone, was_verified |-> users[u].phone_verified]
    BY <1>0, <1>9, BegunThread DEF BeginPhoneRemove
  <2>3. users[u].phone \in Number \cup {None} /\ users[u].phone_verified \in BOOLEAN
    BY <2>1, KnownFields
  <2>4. threads'[t] \in Job
    BY <2>2, <2>3 DEF Job
  <2>5. QED
    BY <2>1, <2>2, <2>4 DEF JobKept, Known
<1>10. QED
  BY <1>1, <1>2, <1>3, <1>4, <1>5, <1>6, <1>7, <1>8, <1>9 DEF Begins

-----------------------------------------------------------------------------
(* Types *)

\* Steps change rows of the tables, never what rows there are.
LEMMA Tables ==
    ASSUME TypeOK, [Next]_vars
    PROVE  /\ users' = [u \in User |-> users'[u]]
           /\ links' = [l \in Link |-> links'[l]]
           /\ sessions' = [s \in Session |-> sessions'[s]]
           /\ threads' = [t \in Thread |-> threads'[t]]
<1> DEFINE Users == users' = [u \in User |-> users'[u]]
           Links == links' = [l \in Link |-> links'[l]]
           Sessions == sessions' = [s \in Session |-> sessions'[s]]
           Threads == threads' = [t \in Thread |-> threads'[t]]
<1>1. /\ UNCHANGED users => Users
      /\ UNCHANGED links => Links
      /\ UNCHANGED sessions => Sessions
      /\ UNCHANGED threads => Threads
  BY DEF TypeOK
<1>2. ASSUME NEW l \in Link, NEW action, NEW u, NEW to, Sent(l, action, u, to) \/ Opened(l)
      PROVE  Links
  BY <1>2 DEF Sent, Opened, TypeOK
<1>3. ASSUME NEW l, Opened(l) PROVE Links
  BY <1>3 DEF Opened, TypeOK
<1>4. ASSUME NEW s, NEW u, NEW p, Started(s, u, p) PROVE Sessions
  BY <1>4 DEF Started, TypeOK
<1>5. ASSUME NEW listed, sessions' = Ended(listed) PROVE Sessions
  BY <1>5 DEF Ended
<1>6. ASSUME NEW t, NEW job, Begin(t, job) PROVE Threads
  BY <1>6 DEF Begin, TypeOK
<1>7. ASSUME NEW t, Finish(t) PROVE Threads
  BY <1>7 DEF Finish, TypeOK
<1> HIDE DEF Links, Sessions, Threads
<1>8. CASE AccountNext
  <2>1. Users
    BY <1>1, <1>8
    DEF AccountNext, Register, CreateUser, Resend, Forgot, Expires, TypeOK
  <2>2. Links
    BY <1>1, <1>2, <1>3, <1>8
    DEF AccountNext, Register, CreateUser, Resend, Forgot, Expires
  <2>3. Sessions /\ Threads
    BY <1>1, <1>4, <1>8
    DEF AccountNext, Register, CreateUser, Resend, Forgot, Expires
  <2>4. QED
    BY <2>1, <2>2, <2>3 DEF Links, Sessions, Threads
<1>9. CASE SignInNext
  <2>1. Users
    BY <1>1, <1>9
    DEF SignInNext, BeginLogin, CommitLogin, Rehashed, SecondStep, CookieExpires,
        EndSession, Upgrade, TypeOK
  <2>2. Links
    BY <1>1, <1>9
    DEF SignInNext, BeginLogin, CommitLogin, SecondStep, CookieExpires, EndSession, Upgrade
  <2>3. Sessions
    BY <1>1, <1>4, <1>5, <1>9
    DEF SignInNext, BeginLogin, CommitLogin, SecondStep, CookieExpires, EndSession, Upgrade
  <2>4. Threads
    <3>1. CASE Upgrade
      BY <3>1 DEF Upgrade, Threads
    <3>2. CASE ~Upgrade
      BY <1>1, <1>6, <1>7, <1>9, <3>2
      DEF SignInNext, BeginLogin, CommitLogin, SecondStep, CookieExpires, EndSession
    <3>3. QED
      BY <3>1, <3>2
  <2>5. QED
    BY <2>1, <2>2, <2>3, <2>4 DEF Links, Sessions, Threads
<1>10. CASE PasswordNext
  <2>1. Users
    BY <1>1, <1>10
    DEF PasswordNext, BeginReset, BeginPassword, CommitReset, CommitPassword,
        ResetRefused, TypeOK
  <2>2. Links /\ Threads
    BY <1>1, <1>3, <1>6, <1>7, <1>10
    DEF PasswordNext, BeginReset, BeginPassword, CommitReset, CommitPassword, ResetRefused
  <2>3. Sessions
    <3>1. ASSUME NEW t \in Thread, CommitPassword(t) PROVE Sessions
      BY <3>1 DEF CommitPassword, Ended, Sessions
    <3>2. QED
      BY <1>1, <1>5, <1>10, <3>1
      DEF PasswordNext, BeginReset, BeginPassword, CommitReset, ResetRefused
  <2>4. QED
    BY <2>1, <2>2, <2>3 DEF Links, Sessions, Threads
<1>11. CASE EmailNext
  <2>1. Users
    BY <1>1, <1>11
    DEF EmailNext, BeginVerify, BeginConfirm, BeginChange, CommitVerify, CommitConfirm,
        CommitChange, CancelChange, TypeOK
  <2>2. Links /\ Sessions /\ Threads
    BY <1>1, <1>2, <1>3, <1>6, <1>7, <1>11
    DEF EmailNext, BeginVerify, BeginConfirm, BeginChange, CommitVerify, CommitConfirm,
        CommitChange, CancelChange
  <2>3. QED
    BY <2>1, <2>2 DEF Links, Sessions, Threads
<1>12. CASE PhoneNext
  <2>1. Users
    BY <1>1, <1>12
    DEF PhoneNext, BeginPhoneSet, BeginPhoneVerify, BeginPhoneRemove, CommitPhoneSet,
        CommitPhoneVerify, CommitPhoneRemove, TypeOK
  <2>2. Links /\ Sessions /\ Threads
    BY <1>1, <1>2, <1>3, <1>6, <1>7, <1>12
    DEF PhoneNext, BeginPhoneSet, BeginPhoneVerify, BeginPhoneRemove, CommitPhoneSet,
        CommitPhoneVerify, CommitPhoneRemove
  <2>3. QED
    BY <2>1, <2>2 DEF Links, Sessions, Threads
<1>13. ASSUME NEW t \in Thread, RequestFails(t) PROVE Users /\ Links /\ Sessions /\ Threads
  BY <1>1, <1>7, <1>13 DEF RequestFails
<1>14. CASE UNCHANGED vars
  BY <1>1, <1>14 DEF vars, Links, Sessions, Threads
<1>15. QED
  BY <1>8, <1>9, <1>10, <1>11, <1>12, <1>13, <1>14 DEF Next, Links, Sessions, Threads

\* What is proved, and whose requests have overlapped, is not forgotten.
LEMMA History ==
    ASSUME IInv, [Next]_vars
    PROVE  /\ proved \subseteq proved' /\ overlapped \subseteq overlapped'
           /\ proved' \subseteq User \X (Address \cup Number)
           /\ overlapped' \subseteq User
<1>0. proved \subseteq User \X (Address \cup Number) /\ overlapped \subseteq User
  BY DEF IInv, TypeOK
<1> DEFINE Proved == proved \subseteq proved' /\ proved' \subseteq User \X (Address \cup Number)
           Overlapped == overlapped \subseteq overlapped' /\ overlapped' \subseteq User
<1>1. (UNCHANGED proved => Proved) /\ (UNCHANGED overlapped => Overlapped)
  BY <1>0
<1>2. ASSUME NEW t \in Thread, CommitVerify(t) \/ CommitConfirm(t) PROVE Proved
  <2>1. threads[t].op \in {"verify", "confirm"} /\ threads[t] \in Job
    BY <1>2 DEF CommitVerify, CommitConfirm, Doing, IInv, TypeOK
  <2>2. links[threads[t].link].to \in Address /\ links[threads[t].link].user \in User
    BY <2>1, HeldLinks, LinkKinds DEF IInv, JobsOK, Doing
  <2>3. proved' = proved \cup {<<links[threads[t].link].user, links[threads[t].link].to>>}
    BY <1>2 DEF CommitVerify, CommitConfirm
  <2>4. QED
    BY <1>0, <2>2, <2>3
<1>3. ASSUME NEW t \in Thread, CommitPhoneVerify(t) PROVE Proved
  <2>1. threads[t].op = "phone_verify" /\ threads[t] \in Job
    BY <1>3 DEF CommitPhoneVerify, Doing, IInv, TypeOK
  <2>2. links[threads[t].link].to \in Number /\ threads[t].user \in User
    BY <2>1, HeldLinks, HeldUsers, LinkKinds DEF IInv, JobsOK, Doing
  <2>3. QED
    BY <1>0, <1>3, <2>2 DEF CommitPhoneVerify
<1>4. ASSUME NEW t \in Thread, NEW u \in User, NotesOverlap(t, u) PROVE Overlapped
  BY <1>0, <1>4 DEF NotesOverlap
<1>5. ASSUME NEW u \in User, NEW a \in Address, NEW p \in Password, CreateUser(u, a, p)
      PROVE  Proved
  BY <1>0, <1>5 DEF CreateUser
<1> HIDE DEF Proved, Overlapped
<1>6. CASE AccountNext
  BY <1>1, <1>5, <1>6
  DEF AccountNext, Register, CreateUser, Resend, Forgot, Expires, Overlapped, Proved
<1>7. CASE SignInNext
  BY <1>1, <1>7
  DEF SignInNext, BeginLogin, CommitLogin, SecondStep, CookieExpires, EndSession, Upgrade,
      Overlapped, Proved
<1>8. CASE PasswordNext
  BY <1>1, <1>8
  DEF PasswordNext, BeginReset, BeginPassword, CommitReset, CommitPassword, ResetRefused,
      Overlapped, Proved
<1>9. CASE EmailNext
  BY <1>1, <1>2, <1>9
  DEF EmailNext, BeginVerify, BeginConfirm, BeginChange, CommitVerify, CommitConfirm,
      CommitChange, CancelChange, Overlapped, Proved
<1>10. CASE PhoneNext
  <2>1. ASSUME NEW t \in Thread, NEW l \in Link, BeginPhoneVerify(t, l) PROVE Overlapped
    BY <1>4, <2>1, UsableLinks DEF BeginPhoneVerify
  <2>2. Overlapped
    BY <1>1, <1>4, <1>10, <2>1
    DEF PhoneNext, BeginPhoneSet, BeginPhoneRemove, CommitPhoneSet, CommitPhoneVerify,
        CommitPhoneRemove
  <2>3. Proved
    BY <1>1, <1>3, <1>10
    DEF PhoneNext, BeginPhoneSet, BeginPhoneVerify, BeginPhoneRemove, CommitPhoneSet,
        CommitPhoneRemove
  <2>4. QED
    BY <2>2, <2>3 DEF Overlapped, Proved
<1>11. ASSUME NEW t \in Thread, RequestFails(t) PROVE Overlapped /\ Proved
  BY <1>1, <1>11 DEF RequestFails
<1>12. QED
  BY <1>1, <1>6, <1>7, <1>8, <1>9, <1>10, <1>11 DEF Next, vars, Overlapped, Proved

\* A row that a step changes has the columns it should have.
LEMMA NewRows ==
    ASSUME IInv, [Next]_vars
    PROVE  /\ \A u \in User : users'[u] \in UserRow
           /\ \A l \in Link : links'[l] \in LinkRow
           /\ \A s \in Session : sessions'[s] \in SessionRow
           /\ \A t \in Thread : threads'[t] \in Job
<1>1. ASSUME NEW u \in User PROVE users'[u] \in UserRow
  <2>1. CASE users[u] # NoUser
    BY <2>1, UsersStay DEF Known
  <2>2. CASE users'[u] = users[u]
    BY <2>2 DEF IInv, TypeOK
  <2>3. CASE Created(u)
    BY <2>3 DEF Created, NewUser, UserRow
  <2>4. QED
    BY <2>1, <2>2, <2>3, UserStep DEF UserChange, Known
<1>2. ASSUME NEW l \in Link PROVE links'[l] \in LinkRow
  <2>1. CASE links[l] # NoLink
    BY <2>1, LinksStay
  <2>2. QED
    BY <2>1, LinkStep DEF LinkChange, NewLink, IInv, TypeOK
<1>3. ASSUME NEW s \in Session PROVE sessions'[s] \in SessionRow
  <2>1. CASE sessions[s] # NoSession
    BY <2>1, SessionsStay
  <2>2. CASE NewSession(s)
    BY <2>2 DEF NewSession, SessionRow
  <2>3. CASE sessions'[s] = sessions[s]
    BY <2>3 DEF IInv, TypeOK
  <2>4. QED
    BY <2>1, <2>2, <2>3, SessionStep DEF SessionChange, Renewed
<1>4. ASSUME NEW t \in Thread PROVE threads'[t] \in Job
  BY ThreadStep, BegunJobs, IdleJob DEF IInv, TypeOK
<1>5. QED
  BY <1>1, <1>2, <1>3, <1>4

LEMMA StepTypeOK == ASSUME IInv, [Next]_vars PROVE TypeOK'
<1>0. TypeOK
  BY DEF IInv
<1>1. users' \in [User -> UserRow]
  BY <1>0, Tables, NewRows
<1>2. links' \in [Link -> LinkRow]
  BY <1>0, Tables, NewRows
<1>3. sessions' \in [Session -> SessionRow]
  BY <1>0, Tables, NewRows
<1>4. threads' \in [Thread -> Job]
  BY <1>0, Tables, NewRows
<1>5. QED
  BY <1>1, <1>2, <1>3, <1>4, CookieStep, History DEF TypeOK

-----------------------------------------------------------------------------
(* The invariant *)

LEMMA StepOwnersOK == ASSUME IInv, [Next]_vars PROVE OwnersOK'
<1>1. ASSUME NEW l \in Link, links'[l] # NoLink PROVE users'[links'[l].user] # NoUser
  <2>1. CASE links[l] # NoLink
    <3>1. links[l].user \in User /\ users[links[l].user] # NoUser
      BY <2>1, LinkKinds DEF IInv, TypeOK, OwnersOK, Exists
    <3>2. QED
      BY <2>1, <3>1, LinksStay, UsersStay DEF Known
  <2>2. QED
    BY <1>1, <2>1, LinkStep DEF LinkChange, NewLink
<1>2. ASSUME NEW s \in Session, sessions'[s] # NoSession
      PROVE  users'[sessions'[s].user] # NoUser
  <2>1. CASE sessions[s] # NoSession
    <3>1. sessions[s].user \in User /\ users[sessions[s].user] # NoUser
      BY <2>1, SessionKinds DEF IInv, TypeOK, OwnersOK, Exists
    <3>2. QED
      BY <2>1, <3>1, SessionsStay, UsersStay DEF Known
  <2>2. CASE NewSession(s)
    BY <2>2 DEF NewSession
  <2>3. QED
    BY <1>2, <2>1, <2>2, SessionStep DEF SessionChange, Renewed
<1>3. ASSUME NEW u \in User, NEW p \in Password, <<u, p>> \in cookies'
      PROVE  users'[u] # NoUser
  BY <1>3, CookieStep, UsersStay DEF Known
<1>4. QED
  BY <1>1, <1>2, <1>3 DEF OwnersOK, Exists

\* An account keeps its address or has proved its new one.
LEMMA AddressKept ==
    ASSUME IInv, [Next]_vars, NEW u \in User, users[u] # NoUser
    PROVE  users'[u].email = users[u].email \/ <<u, users'[u].email>> \in proved'
<1>1. users[u] \in UserRow
  BY DEF IInv, TypeOK
<1>2. CASE Moved(u)
  BY <1>1, <1>2 DEF Moved, UserRow, NoUser
<1>3. CASE Rewritten(u) \/ Pending(u) \/ Verified(u)
  BY <1>1, <1>3 DEF Rewritten, Pending, Verified, UserRow, NoUser
<1>4. CASE Phoned(u)
  BY <1>1, <1>4 DEF Phoned, UserRow, NoUser
<1>5. QED
  BY <1>2, <1>3, <1>4, UserStep DEF UserChange, Created

LEMMA StepVerifyLinksOK == ASSUME IInv, [Next]_vars PROVE VerifyLinksOK'
<1>1. ASSUME NEW l \in Link, links'[l].action = "verify_email"
      PROVE  \/ links'[l].to = users'[links'[l].user].email
             \/ <<links'[l].user, users'[links'[l].user].email>> \in proved'
  <2>1. CASE links[l] # NoLink
    <3>1. links[l].user \in User /\ users[links[l].user] # NoUser
      BY <2>1, LinkKinds DEF IInv, TypeOK, OwnersOK, Exists
    <3>2. links[l].action = "verify_email" /\ links'[l].user = links[l].user
          /\ links'[l].to = links[l].to
      BY <1>1, <2>1, LinksStay
    <3>3. \/ links[l].to = users[links[l].user].email
          \/ <<links[l].user, users[links[l].user].email>> \in proved
      BY <3>2 DEF IInv, VerifyLinksOK
    <3>4. QED
      BY <3>1, <3>2, <3>3, AddressKept, History
  <2>2. CASE NewLink(l)
    BY <1>1, <2>2 DEF NewLink
  <2>3. CASE links[l] = NoLink /\ links'[l] = links[l]
    BY <1>1, <2>3 DEF NoLink
  <2>4. QED
    BY <2>1, <2>2, <2>3, LinkStep DEF LinkChange
<1>2. QED
  BY <1>1 DEF VerifyLinksOK

LEMMA StepJobsOK == ASSUME IInv, [Next]_vars PROVE JobsOK'
<1>1. ASSUME NEW t \in Thread PROVE JobKept(t)
  <2>1. CASE Begins(t)
    BY <2>1, BegunJobs
  <2>2. CASE threads'[t] = Idle
    BY <2>2, IdleJob DEF JobKept
  <2>3. CASE threads'[t] = threads[t]
    <3> DEFINE job == threads[t]
    <3>0. job \in Job
      BY DEF IInv, TypeOK
    <3>1. job.op \in {"login", "password", "change", "phone_set", "phone_verify",
                      "phone_remove"} => users'[job.user] # NoUser
      BY HeldUsers, UsersStay DEF Known
    <3>2. job.op \in {"verify", "reset", "confirm", "phone_verify"} =>
            /\ links'[job.link].action = links[job.link].action
            /\ links'[job.link].user = links[job.link].user
      BY HeldLinks, LinksStay
    <3>3. job.op \in {"reset", "password"} => \A s \in job.listed : sessions'[s] # NoSession
      <4>1. SUFFICES ASSUME job.op \in {"reset", "password"}, NEW s \in job.listed
                     PROVE  sessions'[s] # NoSession
        OBVIOUS
      <4>2. s \in Session /\ sessions[s] # NoSession
        BY <3>0, <4>1, JobKinds DEF IInv, JobsOK
      <4>3. QED
        BY <4>2, SessionsStay
    <3>4. job.op = "password" =>
            sessions'[job.own] # NoSession /\ sessions'[job.own].user = job.user
      <4>1. SUFFICES ASSUME job.op = "password"
                     PROVE  sessions'[job.own] # NoSession /\ sessions'[job.own].user = job.user
        OBVIOUS
      <4>2. /\ job.own \in Session /\ sessions[job.own] # NoSession
            /\ sessions[job.own].user = job.user
        BY <3>0, <4>1, JobKinds DEF IInv, JobsOK, Doing
      <4>3. QED
        BY <4>2, SessionsStay
    <3>5. /\ job.op = "verify" => links[job.link].action = "verify_email"
          /\ job.op = "confirm" => links[job.link].action = "change_email"
          /\ job.op = "reset" => links[job.link].action = "reset_password"
          /\ job.op = "phone_verify" =>
               links[job.link].action = "verify_phone" /\ links[job.link].user = job.user
      BY DEF IInv, JobsOK, Doing
    <3>6. QED
      BY <2>3, <3>1, <3>2, <3>3, <3>4, <3>5 DEF JobKept
  <2>4. QED
    BY <2>1, <2>2, <2>3, ThreadStep
<1>2. QED
  BY <1>1 DEF JobsOK, JobKept, Doing, Exists

LEMMA StepEmailProved == ASSUME IInv, [Next]_vars PROVE EmailProved'
<1>1. ASSUME NEW u \in User, users'[u] # NoUser, users'[u].email_verified
      PROVE  <<u, users'[u].email>> \in proved'
  <2>1. CASE Created(u)
    BY <1>1, <2>1 DEF Created, NewUser
  <2>2. CASE users[u] = NoUser
    BY <1>1, <2>1, <2>2, UserStep DEF UserChange, Known
  <2>3. CASE users[u] # NoUser
    <3>0. users[u] \in UserRow
      BY DEF IInv, TypeOK
    <3>1. CASE Verified(u)
      <4>1. PICK l \in Link : /\ links[l].action = "verify_email" /\ links[l].user = u
                              /\ users'[u] = [users[u] EXCEPT !.email_verified = TRUE]
                              /\ proved' = proved \cup {<<u, links[l].to>>}
        BY <3>1 DEF Verified
      <4>2. links[l].to = users[u].email \/ <<u, users[u].email>> \in proved
        BY <4>1 DEF IInv, VerifyLinksOK
      <4>3. users'[u].email = users[u].email
        BY <2>3, <3>0, <4>1 DEF UserRow
      <4>4. QED
        BY <4>1, <4>2, <4>3
    <3>2. CASE Moved(u)
      BY <2>3, <3>0, <3>2 DEF Moved, UserRow
    <3>3. CASE /\ users'[u].email = users[u].email
               /\ users'[u].email_verified = users[u].email_verified
      <4>1. <<u, users[u].email>> \in proved
        BY <1>1, <2>3, <3>3 DEF IInv, EmailProved, Exists
      <4>2. QED
        BY <3>3, <4>1, History
    <3>4. CASE users'[u] = users[u] \/ Rewritten(u) \/ Pending(u)
      BY <2>3, <3>0, <3>3, <3>4 DEF Rewritten, Pending, UserRow
    <3>5. CASE Phoned(u)
      BY <2>3, <3>0, <3>3, <3>5 DEF Phoned, UserRow
    <3>6. QED
      BY <2>3, <3>1, <3>2, <3>4, <3>5, UserStep DEF UserChange, Created
  <2>4. QED
    BY <2>2, <2>3
<1>2. QED
  BY <1>1 DEF EmailProved, Exists

LEMMA StepPhoneProved == ASSUME IInv, [Next]_vars PROVE PhoneProved'
<1>1. ASSUME NEW u \in User, u \notin overlapped', users'[u] # NoUser,
             users'[u].phone_verified, users'[u].phone # None
      PROVE  <<u, users'[u].phone>> \in proved'
  <2>0. u \notin overlapped
    BY <1>1, History
  <2>1. CASE Created(u)
    BY <1>1, <2>1 DEF Created, NewUser
  <2>2. CASE users[u] = NoUser
    BY <1>1, <2>1, <2>2, UserStep DEF UserChange, Known
  <2>3. CASE users[u] # NoUser
    <3>0. users[u] \in UserRow
      BY DEF IInv, TypeOK
    <3>1. CASE Phoned(u)
      BY <1>1, <2>0, <2>3, <3>0, <3>1 DEF Phoned, UserRow
    <3>2. CASE /\ users'[u].phone = users[u].phone
               /\ users'[u].phone_verified = users[u].phone_verified
      <4>1. <<u, users[u].phone>> \in proved
        BY <1>1, <2>0, <2>3, <3>2 DEF IInv, PhoneProved, Exists
      <4>2. QED
        BY <3>2, <4>1, History
    <3>3. CASE users'[u] = users[u] \/ Rewritten(u) \/ Pending(u)
      BY <2>3, <3>0, <3>2, <3>3 DEF Rewritten, Pending, UserRow
    <3>4. CASE Verified(u) \/ Moved(u)
      BY <2>3, <3>0, <3>2, <3>4 DEF Verified, Moved, UserRow
    <3>5. QED
      BY <2>3, <3>1, <3>3, <3>4, UserStep DEF UserChange, Created
  <2>4. QED
    BY <2>2, <2>3
<1>2. QED
  BY <1>1 DEF PhoneProved, Exists

\* The rows a request about the phone has read change by that request alone.
LEMMA PhoneKept ==
    ASSUME IInv, [Next]_vars, NEW u \in User \ overlapped', NEW t \in Thread,
           PhoneJob(t, u), threads'[t] = threads[t]
    PROVE  users'[u].phone = users[u].phone /\ users'[u].phone_verified = users[u].phone_verified
<1>0. u \notin overlapped /\ users[u] \in UserRow
  BY History DEF IInv, TypeOK
<1>1. users[u] # NoUser
  BY DEF IInv, JobsOK, PhoneJob, Exists
<1>2. CASE Phoned(u)
  <2>1. PICK q \in Thread : PhoneJob(q, u) /\ threads'[q] = Idle
    BY <1>2 DEF Phoned
  <2>2. q = t
    BY <1>0, <2>1 DEF IInv, PhoneJobsOK
  <2>3. QED
    BY <2>1, <2>2, IdleJob DEF PhoneJob
<1>3. CASE users'[u] = users[u] \/ Rewritten(u) \/ Pending(u)
  BY <1>0, <1>1, <1>3 DEF Rewritten, Pending, UserRow
<1>4. CASE Verified(u) \/ Moved(u)
  BY <1>0, <1>1, <1>4 DEF Verified, Moved, UserRow
<1>5. QED
  BY <1>1, <1>2, <1>3, <1>4, UserStep DEF UserChange, Created

\* A request about the phone that begins while another is in flight is an overlap.
LEMMA BeginsAlone ==
    ASSUME IInv, NEW t \in Thread, Begins(t), NEW u \in User \ overlapped',
           threads'[t].op \in {"phone_set", "phone_verify", "phone_remove"},
           threads'[t].user = u
    PROVE  /\ \A other \in Thread \ {t} : ~PhoneJob(other, u) /\ threads'[other] = threads[other]
           /\ threads'[t].op = "phone_verify" => users'[u].phone = links'[threads'[t].link].to
           /\ threads'[t].op \in {"phone_set", "phone_remove"} =>
                /\ users'[u].phone = threads'[t].was
                /\ users'[u].phone_verified = threads'[t].was_verified
<1> DEFINE Goal ==
      /\ \A other \in Thread \ {t} : ~PhoneJob(other, u) /\ threads'[other] = threads[other]
      /\ threads'[t].op = "phone_verify" => users'[u].phone = links'[threads'[t].link].to
      /\ threads'[t].op \in {"phone_set", "phone_remove"} =>
           /\ users'[u].phone = threads'[t].was
           /\ users'[u].phone_verified = threads'[t].was_verified
<1>0. TypeOK
  BY DEF IInv
<1>1. ASSUME NEW v \in User, NotesOverlap(t, v), v = u
      PROVE  \A other \in Thread \ {t} : ~PhoneJob(other, u)
  BY <1>1 DEF NotesOverlap
<1>2. ASSUME NEW v \in User, NEW n \in Number, BeginPhoneSet(t, v, n) PROVE Goal
  <2>1. threads'[t] = [op |-> "phone_set", user |-> v, number |-> n,
                       was |-> users[v].phone, was_verified |-> users[v].phone_verified]
        /\ \A other \in Thread \ {t} : threads'[other] = threads[other]
    BY <1>0, <1>2, BegunThread DEF BeginPhoneSet
  <2>2. v = u
    BY <2>1
  <2>3. QED
    BY <1>1, <1>2, <2>1, <2>2 DEF BeginPhoneSet
<1>3. ASSUME NEW l \in Link, BeginPhoneVerify(t, l) PROVE Goal
  <2>1. threads'[t] = [op |-> "phone_verify", user |-> links[l].user, link |-> l]
        /\ \A other \in Thread \ {t} : threads'[other] = threads[other]
    BY <1>0, <1>3, BegunThread DEF BeginPhoneVerify
  <2>2. links[l].user = u
    BY <2>1
  <2>3. QED
    BY <1>1, <1>3, <2>1, <2>2 DEF BeginPhoneVerify
<1>4. ASSUME NEW v \in User, BeginPhoneRemove(t, v) PROVE Goal
  <2>1. threads'[t] = [op |-> "phone_remove", user |-> v,
                       was |-> users[v].phone, was_verified |-> users[v].phone_verified]
        /\ \A other \in Thread \ {t} : threads'[other] = threads[other]
    BY <1>0, <1>4, BegunThread DEF BeginPhoneRemove
  <2>2. v = u
    BY <2>1
  <2>3. QED
    BY <1>1, <1>4, <2>1, <2>2 DEF BeginPhoneRemove
<1>5. ASSUME NEW v \in User, NEW p \in Password, BeginLogin(t, v, p) PROVE FALSE
  BY <1>0, <1>5, BegunThread DEF BeginLogin
<1>6. ASSUME NEW l \in Link, NEW p \in Password, BeginReset(t, l, p) PROVE FALSE
  BY <1>0, <1>6, BegunThread DEF BeginReset
<1>7. ASSUME NEW s \in Session, NEW p \in Password, BeginPassword(t, s, p) PROVE FALSE
  BY <1>0, <1>7, BegunThread DEF BeginPassword
<1>8. ASSUME NEW l \in Link, BeginVerify(t, l) PROVE FALSE
  BY <1>0, <1>8, BegunThread DEF BeginVerify
<1>9. ASSUME NEW v \in User, NEW a \in Address, BeginChange(t, v, a) PROVE FALSE
  BY <1>0, <1>9, BegunThread DEF BeginChange
<1>10. ASSUME NEW l \in Link, BeginConfirm(t, l) PROVE FALSE
  BY <1>0, <1>10, BegunThread DEF BeginConfirm
<1>11. QED
  BY <1>2, <1>3, <1>4, <1>5, <1>6, <1>7, <1>8, <1>9, <1>10 DEF Begins

LEMMA StepPhoneJobsOK == ASSUME IInv, [Next]_vars PROVE PhoneJobsOK'
<1> DEFINE Phones(t, u) ==
      threads'[t].op \in {"phone_set", "phone_verify", "phone_remove"} /\ threads'[t].user = u
<1>1. ASSUME NEW t \in Thread, NEW u \in User \ overlapped', Phones(t, u)
      PROVE  /\ \A other \in Thread \ {t} : ~Phones(other, u)
             /\ threads'[t].op = "phone_verify" => users'[u].phone = links'[threads'[t].link].to
             /\ threads'[t].op \in {"phone_set", "phone_remove"} =>
                  /\ users'[u].phone = threads'[t].was
                  /\ users'[u].phone_verified = threads'[t].was_verified
  <2>0. u \in User \ overlapped
    BY History
  <2>1. CASE Begins(t)
    BY <1>1, <2>1, BeginsAlone DEF PhoneJob
  <2>2. CASE threads'[t] = threads[t]
    <3>1. PhoneJob(t, u)
      BY <1>1, <2>2 DEF PhoneJob
    <3>2. /\ \A other \in Thread \ {t} : ~PhoneJob(other, u)
          /\ threads[t].op = "phone_verify" => users[u].phone = links[threads[t].link].to
          /\ threads[t].op \in {"phone_set", "phone_remove"} =>
               /\ users[u].phone = threads[t].was
               /\ users[u].phone_verified = threads[t].was_verified
      BY <2>0, <3>1 DEF IInv, PhoneJobsOK, Doing
    <3>3. users'[u].phone = users[u].phone /\ users'[u].phone_verified = users[u].phone_verified
      BY <2>2, <3>1, PhoneKept
    <3>4. ASSUME NEW other \in Thread \ {t}, Phones(other, u) PROVE FALSE
      <4>1. CASE Begins(other)
        BY <3>1, <3>4, <4>1, BeginsAlone
      <4>2. CASE threads'[other] = threads[other]
        BY <3>2, <3>4, <4>2 DEF PhoneJob
      <4>3. QED
        BY <3>4, <4>1, <4>2, ThreadStep, IdleJob
    <3>5. threads[t].op = "phone_verify" =>
            links'[threads[t].link].to = links[threads[t].link].to
      BY HeldLinks, LinksStay
    <3>6. QED
      BY <2>2, <3>2, <3>3, <3>4, <3>5
  <2>3. QED
    BY <1>1, <2>1, <2>2, ThreadStep, IdleJob
<1>2. QED
  BY <1>1 DEF PhoneJobsOK, PhoneJob, Doing

LEMMA InitIInv == Init => IInv
<1> SUFFICES ASSUME Init PROVE IInv
  OBVIOUS
<1>1. TypeOK
  <2>1. users \in [User -> UserRow]
    BY DEF Init, UserRow
  <2>2. links \in [Link -> LinkRow]
    BY DEF Init, LinkRow
  <2>3. sessions \in [Session -> SessionRow]
    BY DEF Init, SessionRow
  <2>4. threads \in [Thread -> Job]
    BY IdleJob DEF Init
  <2>5. QED
    BY <2>1, <2>2, <2>3, <2>4 DEF Init, TypeOK
<1>2. \A t \in Thread : threads[t].op = "idle"
  BY IdleJob DEF Init
<1>3. OwnersOK /\ VerifyLinksOK /\ EmailProved /\ PhoneProved
  BY DEF Init, OwnersOK, VerifyLinksOK, EmailProved, PhoneProved, Exists, NoLink
<1>4. JobsOK /\ PhoneJobsOK
  BY <1>2 DEF JobsOK, PhoneJobsOK, PhoneJob, Doing
<1>5. QED
  BY <1>1, <1>3, <1>4 DEF IInv

\* Accounts, links, sessions and what requests keep of them agree, in every state.
THEOREM Invariance == Spec => []IInv
<1>1. IInv /\ [Next]_vars => IInv'
  BY StepTypeOK, StepOwnersOK, StepVerifyLinksOK, StepJobsOK, StepPhoneJobsOK,
     StepEmailProved, StepPhoneProved
  DEF IInv
<1>2. QED
  BY InitIInv, <1>1, PTL DEF Spec

\* The tables of accounts, links and sessions, and the requests in flight, have the
\* columns of their kinds.
THEOREM TypeCorrect == Spec => []TypeOK
<1>1. IInv => TypeOK
  BY DEF IInv
<1>2. QED
  BY Invariance, <1>1, PTL

\* Whatever links of earlier and other addresses are still good, an address that is said
\* to be verified has been opened by its user, or vouched for.
THEOREM VerifiedIsProved == Spec => []EmailProved
<1>1. IInv => EmailProved
  BY DEF IInv
<1>2. QED
  BY Invariance, <1>1, PTL

\* A user who never did two things about the phone at once has answered the number that
\* is said to be verified.
THEOREM NumberIsProved == Spec => []PhoneProved
<1>1. IInv => PhoneProved
  BY DEF IInv
<1>2. QED
  BY Invariance, <1>1, PTL

-----------------------------------------------------------------------------
(* Steps *)

\* A request that begins holds a link that is still good.
LEMMA BegunHolds ==
    ASSUME IInv, NEW t \in Thread, Begins(t),
           threads'[t].op \in {"verify", "reset", "confirm", "phone_verify"}
    PROVE  links[threads'[t].link].open
<1>0. TypeOK
  BY DEF IInv
<1>1. ASSUME NEW l \in Link, NEW p \in Password, BeginReset(t, l, p)
      PROVE  threads'[t].link = l /\ links[l].open
  BY <1>0, <1>1, BegunThread DEF BeginReset, Usable
<1>2. ASSUME NEW l \in Link, BeginVerify(t, l) PROVE threads'[t].link = l /\ links[l].open
  BY <1>0, <1>2, BegunThread DEF BeginVerify, Usable
<1>3. ASSUME NEW l \in Link, BeginConfirm(t, l) PROVE threads'[t].link = l /\ links[l].open
  BY <1>0, <1>3, BegunThread DEF BeginConfirm, Usable
<1>4. ASSUME NEW l \in Link, BeginPhoneVerify(t, l)
      PROVE  threads'[t].link = l /\ links[l].open
  BY <1>0, <1>4, BegunThread DEF BeginPhoneVerify, Usable
<1>5. ASSUME NEW v \in User, NEW p \in Password, BeginLogin(t, v, p) PROVE FALSE
  BY <1>0, <1>5, BegunThread DEF BeginLogin
<1>6. ASSUME NEW s \in Session, NEW p \in Password, BeginPassword(t, s, p) PROVE FALSE
  BY <1>0, <1>6, BegunThread DEF BeginPassword
<1>7. ASSUME NEW v \in User, NEW a \in Address, BeginChange(t, v, a) PROVE FALSE
  BY <1>0, <1>7, BegunThread DEF BeginChange
<1>8. ASSUME NEW v \in User, NEW n \in Number, BeginPhoneSet(t, v, n) PROVE FALSE
  BY <1>0, <1>8, BegunThread DEF BeginPhoneSet
<1>9. ASSUME NEW v \in User, BeginPhoneRemove(t, v) PROVE FALSE
  BY <1>0, <1>9, BegunThread DEF BeginPhoneRemove
<1>10. QED
  BY <1>1, <1>2, <1>3, <1>4, <1>5, <1>6, <1>7, <1>8, <1>9 DEF Begins

LEMMA StepSpent == ASSUME IInv, [Next]_vars PROVE Spent \subseteq Spent'
<1>1. SUFFICES ASSUME NEW l \in Spent PROVE l \in Spent'
  OBVIOUS
<1>2. /\ l \in Link /\ links[l] # NoLink /\ ~links[l].open
      /\ \A t \in Thread : ~Holds(t, l)
  BY DEF Spent
<1>3. links'[l] # NoLink /\ ~links'[l].open
  BY <1>2, LinksStay
<1>4. ASSUME NEW t \in Thread,
             threads'[t].op \in {"verify", "reset", "confirm", "phone_verify"},
             threads'[t].link = l
      PROVE  FALSE
  <2>1. CASE Begins(t)
    BY <1>2, <1>4, <2>1, BegunHolds
  <2>2. CASE threads'[t] = threads[t]
    BY <1>2, <1>4, <2>2 DEF Holds
  <2>3. QED
    BY <1>4, <2>1, <2>2, ThreadStep, IdleJob
<1>5. QED
  BY <1>2, <1>3, <1>4 DEF Spent, Holds

\* A link or a code that was used or has expired, and that no request still holds, does
\* nothing any more, however requests overlap.
THEOREM SpentStaysSpent == Spec => SpentDoesNothing
<1>1. IInv /\ [Next]_vars => Spent \subseteq Spent'
  BY StepSpent
<1>2. IInv /\ UNCHANGED vars => Spent \subseteq Spent'
  BY <1>1
<1>3. QED
  BY Invariance, <1>1, <1>2, PTL DEF Spec, SpentDoesNothing

LEMMA BegunLogins ==
    ASSUME IInv, NEW t \in Thread, Begins(t), threads'[t].op = "login"
    PROVE  \E u \in User, p \in Password : BeginLogin(t, u, p)
<1>0. TypeOK
  BY DEF IInv
<1>1. ASSUME NEW l \in Link, NEW p \in Password, BeginReset(t, l, p) PROVE FALSE
  BY <1>0, <1>1, BegunThread DEF BeginReset
<1>2. ASSUME NEW l \in Link, BeginVerify(t, l) PROVE FALSE
  BY <1>0, <1>2, BegunThread DEF BeginVerify
<1>3. ASSUME NEW l \in Link, BeginConfirm(t, l) PROVE FALSE
  BY <1>0, <1>3, BegunThread DEF BeginConfirm
<1>4. ASSUME NEW l \in Link, BeginPhoneVerify(t, l) PROVE FALSE
  BY <1>0, <1>4, BegunThread DEF BeginPhoneVerify
<1>5. ASSUME NEW s \in Session, NEW p \in Password, BeginPassword(t, s, p) PROVE FALSE
  BY <1>0, <1>5, BegunThread DEF BeginPassword
<1>6. ASSUME NEW u \in User, NEW a \in Address, BeginChange(t, u, a) PROVE FALSE
  BY <1>0, <1>6, BegunThread DEF BeginChange
<1>7. ASSUME NEW u \in User, NEW n \in Number, BeginPhoneSet(t, u, n) PROVE FALSE
  BY <1>0, <1>7, BegunThread DEF BeginPhoneSet
<1>8. ASSUME NEW u \in User, BeginPhoneRemove(t, u) PROVE FALSE
  BY <1>0, <1>8, BegunThread DEF BeginPhoneRemove
<1>9. QED
  BY <1>1, <1>2, <1>3, <1>4, <1>5, <1>6, <1>7, <1>8 DEF Begins

\* What carries a password after a step, unless it is chosen again, carried it before.
LEMMA StepReplaced ==
    ASSUME IInv, [Next]_vars, NEW u \in User, NEW p \in Password,
           users[u] # NoUser, ~OnItsWay(u, p)
    PROVE  /\ ~(users'[u] # NoUser /\ users'[u].password = p)
           /\ <<u, p>> \notin cookies'
           /\ \A t \in Thread :
                ~(/\ threads'[t].op = "login"
                  /\ threads'[t].user = u /\ threads'[t].password = p)
           /\ \A s \in Session :
                sessions'[s].live /\ sessions'[s].user = u /\ sessions'[s].password = p
                  => sessions[s] = sessions'[s]
<1>0. users[u] \in UserRow /\ TypeOK
  BY DEF IInv, TypeOK
<1>1. users'[u].password # p
  <2>0. users[u].password # p
    BY DEF OnItsWay, Exists
  <2>1. CASE Rewritten(u)
    <3>1. PICK q \in Password, w \in BOOLEAN :
            /\ OnItsWay(u, q)
            /\ users'[u] = [users[u] EXCEPT !.password = q, !.weak = w]
      BY <2>1 DEF Rewritten
    <3>2. users'[u].password = q
      BY <1>0, <3>1 DEF UserRow, NoUser
    <3>3. QED
      BY <3>1, <3>2
  <2>2. CASE users'[u] = users[u] \/ Pending(u) \/ Verified(u)
    BY <1>0, <2>0, <2>2 DEF Pending, Verified, UserRow, NoUser
  <2>3. CASE Moved(u) \/ Phoned(u)
    BY <1>0, <2>0, <2>3 DEF Moved, Phoned, UserRow, NoUser
  <2>4. QED
    BY <2>1, <2>2, <2>3, UserStep DEF UserChange, Created
<1>2. <<u, p>> \notin cookies'
  BY CookieStep
<1>3. ASSUME NEW t \in Thread, threads'[t].op = "login",
             threads'[t].user = u, threads'[t].password = p
      PROVE  FALSE
  <2>1. CASE threads'[t] = threads[t]
    BY <1>3, <2>1 DEF OnItsWay
  <2>2. ASSUME NEW v \in User, NEW q \in Password, BeginLogin(t, v, q) PROVE FALSE
    <3>1. PICK b \in BOOLEAN :
            threads'[t] = [op |-> "login", user |-> v, password |-> q,
                           weak |-> users[v].weak, signs_in |-> b]
      BY <1>0, <2>2, BegunThread DEF BeginLogin
    <3>2. v = u /\ q = p
      BY <1>3, <3>1
    <3>3. QED
      BY <2>2, <3>2 DEF BeginLogin, OnItsWay
  <2>3. CASE Begins(t)
    BY <1>3, <2>2, <2>3, BegunLogins
  <2>4. QED
    BY <1>3, <2>1, <2>3, ThreadStep, IdleJob
<1>4. ASSUME NEW s \in Session, sessions'[s].live, sessions'[s].user = u,
             sessions'[s].password = p
      PROVE  sessions[s] = sessions'[s]
  <2>1. sessions[s] \in SessionRow
    BY <1>0 DEF TypeOK
  <2>2. CASE NewSession(s)
    BY <1>4, <2>2 DEF NewSession
  <2>3. CASE sessions[s] # NoSession /\ sessions'[s] = [sessions[s] EXCEPT !.live = FALSE]
    BY <1>4, <2>1, <2>3, SessionKinds
  <2>4. CASE Renewed(s)
    <3>1. PICK t \in Thread :
            /\ threads[t].op = "password"
            /\ sessions[s] # NoSession /\ sessions[s].user = threads[t].user
            /\ sessions'[s] \in {[sessions[s] EXCEPT !.password = threads[t].password],
                                 [sessions[s] EXCEPT !.live = FALSE,
                                                     !.password = threads[t].password]}
      BY <2>4 DEF Renewed, Doing
    <3>2. sessions[s] \in [live: BOOLEAN, user: User, password: Password]
      BY <2>1, <3>1 DEF SessionRow
    <3>3. sessions'[s].password = threads[t].password
      BY <3>1, <3>2
    <3>4. sessions'[s].user = threads[t].user
      BY <3>1, <3>2
    <3>5. QED
      BY <1>4, <3>1, <3>3, <3>4 DEF OnItsWay
  <2>5. QED
    BY <2>2, <2>3, <2>4, SessionStep DEF SessionChange
<1>5. QED
  BY <1>1, <1>2, <1>3, <1>4

\* A password that was replaced, and that no request or cookie from before still carries,
\* neither signs anybody in nor comes back, unless it is chosen again.
THEOREM ReplacedIsGone == Spec => ReplacedStaysReplaced
<1> DEFINE Gone ==
      \A u \in User, p \in Password : Exists(u) /\ ~OnItsWay(u, p) =>
        /\ OnItsWay(u, p)' => Chosen(u, p)'
        /\ \A s \in Session :
             sessions'[s].live /\ sessions'[s].user = u /\ sessions'[s].password = p
               => sessions[s] = sessions'[s]
<1>1. IInv /\ [Next]_vars => Gone
  <2>1. SUFFICES ASSUME IInv, [Next]_vars, NEW u \in User, NEW p \in Password,
                        Exists(u), ~OnItsWay(u, p)
                 PROVE  /\ OnItsWay(u, p)' => Chosen(u, p)'
                        /\ \A s \in Session :
                             /\ sessions'[s].live /\ sessions'[s].user = u
                             /\ sessions'[s].password = p
                             => sessions[s] = sessions'[s]
    OBVIOUS
  <2>2. OnItsWay(u, p)' => Chosen(u, p)'
    BY <2>1, StepReplaced DEF OnItsWay, Chosen, Exists, Doing
  <2>3. QED
    BY <2>1, <2>2, StepReplaced DEF Exists
<1>2. QED
  BY Invariance, <1>1, PTL DEF Spec, ReplacedStaysReplaced
=============================================================================
