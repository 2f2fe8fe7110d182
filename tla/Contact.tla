------------------------------ MODULE Contact ------------------------------
(***************************************************************************)
(* Accounts and how they are reached (tg11/accounts.py, handlers of        *)
(* tg11/web.py and tg11/profile.py): registration, passwords, the links    *)
(* and codes that are mailed and texted, email and phone.                  *)
(*                                                                         *)
(* All these handlers are plain functions on the thread pool.  One whose   *)
(* reads still matter when it commits takes two steps: Begin... reads and  *)
(* keeps what it read in its thread, Commit... writes the columns it       *)
(* assigned.  A column assigned the value that was read is not written.    *)
(***************************************************************************)
EXTENDS FiniteSets

CONSTANTS
    User, Address, Number, Password,
    Link,       \* rows of action_tokens ever inserted: links and texted codes
    Session,    \* rows of user_sessions ever inserted
    Thread,     \* requests in flight
    None,       \* the empty string
    RequireVerification     \* TG11_REQUIRE_EMAIL_VERIFICATION

ASSUME ContactAssumption ==
    None \notin Address \cup Number /\ RequireVerification \in BOOLEAN

VARIABLES
    users,      \* the table users
    links,      \* the table action_tokens
    sessions,   \* the table user_sessions
    cookies,    \* signed cookies between the two steps of a sign-in
    threads,    \* what each request in flight has read
    proved,     \* history: who has opened what was sent to an address or number
    overlapped  \* history: whose requests about the phone have overlapped

vars == <<users, links, sessions, cookies, threads, proved, overlapped>>

-----------------------------------------------------------------------------

NoUser == [email |-> None]
UserRow ==
    {NoUser} \cup
    [email: Address, email_verified: BOOLEAN, pending_email: Address \cup {None},
     password: Password,
     weak: BOOLEAN,             \* hashed with fewer iterations than today
     phone: Number \cup {None}, phone_verified: BOOLEAN]

\* `to` is where it was sent; `open` is: neither used nor expired.
NoLink == [action |-> "none"]
LinkRow ==
    {NoLink} \cup
    [action: {"verify_email", "reset_password"}, user: User, to: Address, open: BOOLEAN]
    \cup [action: {"change_email"}, user: User, to: Address, open: BOOLEAN]
    \cup [action: {"verify_phone"}, user: User, to: Number, open: BOOLEAN]

\* `password` is the one the session rests on: history.
NoSession == [live |-> FALSE]
SessionRow == {NoSession} \cup [live: BOOLEAN, user: User, password: Password]

Idle == [op |-> "idle"]
Job ==
         {Idle}
    \cup [op: {"login"}, user: User, password: Password, weak: BOOLEAN,
          signs_in: BOOLEAN]
    \cup [op: {"verify"}, link: Link]
    \cup [op: {"reset"}, link: Link, password: Password, listed: SUBSET Session]
    \cup [op: {"password"}, user: User, password: Password, own: Session,
          listed: SUBSET Session]
    \cup [op: {"change"}, user: User, to: Address, was: Address \cup {None}]
    \cup [op: {"confirm"}, link: Link, was: Address \cup {None}]
    \cup [op: {"phone_set"}, user: User, number: Number, was: Number \cup {None},
          was_verified: BOOLEAN]
    \cup [op: {"phone_verify"}, user: User, link: Link]
    \cup [op: {"phone_remove"}, user: User, was: Number \cup {None},
          was_verified: BOOLEAN]

TypeOK ==
    /\ users \in [User -> UserRow]
    /\ links \in [Link -> LinkRow]
    /\ sessions \in [Session -> SessionRow]
    /\ cookies \subseteq User \X Password
    /\ threads \in [Thread -> Job]
    /\ proved \subseteq User \X (Address \cup Number)
    /\ overlapped \subseteq User

Init ==
    /\ users = [u \in User |-> NoUser]
    /\ links = [l \in Link |-> NoLink]
    /\ sessions = [s \in Session |-> NoSession]
    /\ cookies = {}
    /\ threads = [t \in Thread |-> Idle]
    /\ proved = {}
    /\ overlapped = {}

-----------------------------------------------------------------------------
(* Requests and rows *)

Begin(t, job) == threads[t] = Idle /\ threads' = [threads EXCEPT ![t] = job]
Finish(t)     == threads' = [threads EXCEPT ![t] = Idle]
Doing(t, op)  == threads[t].op = op

\* A column that was read as `was` and is assigned `new`, when it is `now`.
Written(was, new, now) == IF new = was THEN now ELSE new

\* A request fails or is refused after its reads, and is rolled back.
RequestFails(t) ==
    /\ threads[t] # Idle
    /\ Finish(t)
    /\ UNCHANGED <<users, links, sessions, cookies, proved, overlapped>>

Exists(u) == users[u] # NoUser
SignedIn(u) == \E s \in Session : sessions[s].live /\ sessions[s].user = u

\* users.email is unique.
Free(a) == \A u \in User : users[u].email # a
FreeFor(u, a) == \A v \in User \ {u} : users[v].email # a

Opened(l) == links' = [links EXCEPT ![l].open = FALSE]
Sent(l, action, u, to) ==
    /\ links[l] = NoLink
    /\ links' = [links EXCEPT ![l] =
                   [action |-> action, user |-> u, to |-> to, open |-> TRUE]]

Started(s, u, p) ==
    /\ sessions[s] = NoSession
    /\ sessions' = [sessions EXCEPT ![s] = [live |-> TRUE, user |-> u, password |-> p]]

LiveSessions(u) == {s \in Session : sessions[s].live /\ sessions[s].user = u}
Ended(listed) ==
    [s \in Session |-> IF s \in listed THEN [sessions[s] EXCEPT !.live = FALSE]
                                       ELSE sessions[s]]

Expires(l) ==
    /\ links[l] # NoLink /\ links[l].open
    /\ Opened(l)
    /\ UNCHANGED <<users, sessions, cookies, threads, proved, overlapped>>

-----------------------------------------------------------------------------
(* Registration *)

NewUser(a, p, verified) ==
    [email |-> a, email_verified |-> verified, pending_email |-> None,
     password |-> p, weak |-> FALSE, phone |-> None, phone_verified |-> FALSE]

\* register_submit: two at once for one address are one, the other breaks the
\* unique index.  The new user is signed in, unless the address must be verified.
Register(u, a, p, l, s) ==
    /\ ~Exists(u) /\ Free(a)
    /\ users' = [users EXCEPT ![u] = NewUser(a, p, FALSE)]
    /\ Sent(l, "verify_email", u, a)
    /\ IF RequireVerification THEN UNCHANGED sessions ELSE Started(s, u, p)
    /\ UNCHANGED <<cookies, threads, proved, overlapped>>

\* The operator's command line vouches for the address.
CreateUser(u, a, p) ==
    /\ ~Exists(u) /\ Free(a)
    /\ users' = [users EXCEPT ![u] = NewUser(a, p, TRUE)]
    /\ proved' = proved \cup {<<u, a>>}
    /\ UNCHANGED <<links, sessions, cookies, threads, overlapped>>

\* resend_verification and forgot_submit: to the address of the moment.
Resend(u, l) ==
    /\ Exists(u) /\ SignedIn(u)
    /\ Sent(l, "verify_email", u, users[u].email)
    /\ UNCHANGED <<users, sessions, cookies, threads, proved, overlapped>>

Forgot(u, l) ==
    /\ Exists(u)
    /\ Sent(l, "reset_password", u, users[u].email)
    /\ UNCHANGED <<users, sessions, cookies, threads, proved, overlapped>>

-----------------------------------------------------------------------------
(* Signing in *)

\* Mutant of BeginLogin: a weak hash is replaced before the password is verified.
BeginLoginWeak(t, u, p) ==
    /\ Exists(u) /\ (users[u].weak \/ users[u].password = p)
    /\ RequireVerification => users[u].email_verified
    /\ Begin(t, [op |-> "login", user |-> u, password |-> p, weak |-> users[u].weak,
                 signs_in |-> TRUE])
    /\ UNCHANGED <<users, links, sessions, cookies, proved, overlapped>>

\* Only a hash to replace is left of a sign-in refused for its address, and of the
\* password that security_recovery and security_disable ask for.
OnlyRehashes(u) ==
    /\ users[u].weak
    /\ SignedIn(u) \/ (RequireVerification /\ ~users[u].email_verified)

\* authenticate, called by login_submit and those two
BeginLogin(t, u, p) ==
    /\ Exists(u) /\ users[u].password = p
    /\ \E signs_in \in BOOLEAN :
         /\ IF signs_in THEN RequireVerification => users[u].email_verified
                        ELSE OnlyRehashes(u)
         /\ Begin(t, [op |-> "login", user |-> u, password |-> p,
                      weak |-> users[u].weak, signs_in |-> signs_in])
    /\ UNCHANGED <<users, links, sessions, cookies, proved, overlapped>>

\* A weak hash is replaced, when the request commits, with a new one of the password
\* that was read.
Rehashed(job) ==
    IF job.weak
    THEN users' = [users EXCEPT ![job.user].password = job.password,
                                ![job.user].weak = FALSE]
    ELSE UNCHANGED users

\* To sign in is a session or, with a second factor, a cookie that proves the first.
CommitLogin(t, s) ==
    /\ Doing(t, "login")
    /\ LET job == threads[t]
       IN  /\ Rehashed(job)
           /\ \/ job.signs_in /\ Started(s, job.user, job.password) /\ UNCHANGED cookies
              \/ ~job.signs_in /\ UNCHANGED <<sessions, cookies>>
              \/ /\ job.signs_in
                 /\ cookies' = cookies \cup {<<job.user, job.password>>}
                 /\ UNCHANGED sessions
    /\ Finish(t)
    /\ UNCHANGED <<links, proved, overlapped>>

\* mfa_submit looks at the cookie, not at the password.  The cookie is not used up.
SecondStep(u, p, s) ==
    /\ <<u, p>> \in cookies
    /\ Started(s, u, p)
    /\ UNCHANGED <<users, links, cookies, threads, proved, overlapped>>

CookieExpires(u, p) ==
    /\ <<u, p>> \in cookies
    /\ cookies' = cookies \ {<<u, p>>}
    /\ UNCHANGED <<users, links, sessions, threads, proved, overlapped>>

\* Sign out, revoked from another session, expired.
EndSession(s) ==
    /\ sessions[s].live
    /\ sessions' = Ended({s})
    /\ UNCHANGED <<users, links, cookies, threads, proved, overlapped>>

\* A release hashes with more iterations: the service is restarted.
Upgrade ==
    /\ users' = [u \in User |-> IF Exists(u) THEN [users[u] EXCEPT !.weak = TRUE]
                                             ELSE NoUser]
    /\ threads' = [t \in Thread |-> Idle]
    /\ UNCHANGED <<links, sessions, cookies, proved, overlapped>>

-----------------------------------------------------------------------------
(* Passwords *)

Usable(l, action) == links[l].action = action /\ links[l].open

\* Mutant of BeginReset: a used link is not refused.
BeginResetAgain(t, l, p) ==
    /\ links[l].action = "reset_password"
    /\ Begin(t, [op |-> "reset", link |-> l, password |-> p,
                 listed |-> LiveSessions(links[l].user)])
    /\ UNCHANGED <<users, links, sessions, cookies, proved, overlapped>>

\* reset_submit
BeginReset(t, l, p) ==
    /\ Usable(l, "reset_password")
    /\ Begin(t, [op |-> "reset", link |-> l, password |-> p,
                 listed |-> LiveSessions(links[l].user)])
    /\ UNCHANGED <<users, links, sessions, cookies, proved, overlapped>>

CommitReset(t) ==
    /\ Doing(t, "reset")
    /\ LET job == threads[t]
           u == links[job.link].user
       IN  /\ users' = [users EXCEPT ![u].password = job.password, ![u].weak = FALSE]
           /\ sessions' = Ended(job.listed)
           /\ Opened(job.link)
    /\ Finish(t)
    /\ UNCHANGED <<cookies, proved, overlapped>>

\* A password that is too short is refused without an error: the link is used up.
ResetRefused(l) ==
    /\ Usable(l, "reset_password")
    /\ Opened(l)
    /\ UNCHANGED <<users, sessions, cookies, threads, proved, overlapped>>

\* account_password: the session that asks stays, and rests on the new password.
BeginPassword(t, s, p) ==
    /\ sessions[s].live
    /\ Begin(t, [op |-> "password", user |-> sessions[s].user, password |-> p,
                 own |-> s, listed |-> LiveSessions(sessions[s].user) \ {s}])
    /\ UNCHANGED <<users, links, sessions, cookies, proved, overlapped>>

CommitPassword(t) ==
    /\ Doing(t, "password")
    /\ LET job == threads[t]
       IN  /\ users' = [users EXCEPT ![job.user].password = job.password,
                                     ![job.user].weak = FALSE]
           /\ sessions' = [Ended(job.listed) EXCEPT ![job.own].password = job.password]
    /\ Finish(t)
    /\ UNCHANGED <<links, cookies, proved, overlapped>>

-----------------------------------------------------------------------------
(* Email *)

\* verify_email: a visit of the link is enough, nobody need be signed in.
BeginVerify(t, l) ==
    /\ Usable(l, "verify_email")
    /\ Begin(t, [op |-> "verify", link |-> l])
    /\ UNCHANGED <<users, links, sessions, cookies, proved, overlapped>>

CommitVerify(t) ==
    /\ Doing(t, "verify")
    /\ LET l == threads[t].link
       IN  /\ users' = [users EXCEPT ![links[l].user].email_verified = TRUE]
           /\ proved' = proved \cup {<<links[l].user, links[l].to>>}
           /\ Opened(l)
    /\ Finish(t)
    /\ UNCHANGED <<sessions, cookies, overlapped>>

\* email_change_request: nobody has the address yet.  The password is asked for again.
BeginChange(t, u, a) ==
    /\ Exists(u) /\ SignedIn(u) /\ Free(a)
    /\ Begin(t, [op |-> "change", user |-> u, to |-> a, was |-> users[u].pending_email])
    /\ UNCHANGED <<users, links, sessions, cookies, proved, overlapped>>

CommitChange(t, l) ==
    /\ Doing(t, "change")
    /\ LET job == threads[t]
       IN  /\ users' = [users EXCEPT ![job.user].pending_email =
                                        Written(job.was, job.to, @)]
           /\ Sent(l, "change_email", job.user, job.to)
    /\ Finish(t)
    /\ UNCHANGED <<sessions, cookies, proved, overlapped>>

\* Mutant of CancelChange: the column is set to null.
CancelChangeNull(u) ==
    /\ Exists(u) /\ SignedIn(u)
    /\ users' = [users EXCEPT ![u].pending_email = "null"]
    /\ UNCHANGED <<links, sessions, cookies, threads, proved, overlapped>>

\* email_change_cancel
CancelChange(u) ==
    /\ Exists(u) /\ SignedIn(u)
    /\ users' = [users EXCEPT ![u].pending_email = None]
    /\ UNCHANGED <<links, sessions, cookies, threads, proved, overlapped>>

\* email_change_confirm: to the address the link was sent to, if it is still free.
BeginConfirm(t, l) ==
    /\ Usable(l, "change_email") /\ Free(links[l].to)
    /\ Begin(t, [op |-> "confirm", link |-> l,
                 was |-> users[links[l].user].pending_email])
    /\ UNCHANGED <<users, links, sessions, cookies, proved, overlapped>>

\* Mutant of CommitConfirm: to the address that was asked for last.
CommitConfirmPending(t) ==
    /\ Doing(t, "confirm")
    /\ LET l == threads[t].link
           u == links[l].user
       IN  /\ users[u].pending_email # None /\ FreeFor(u, users[u].pending_email)
           /\ users' = [users EXCEPT ![u].email = users[u].pending_email,
                                     ![u].email_verified = TRUE,
                                     ![u].pending_email = None]
           /\ proved' = proved \cup {<<u, links[l].to>>}
           /\ Opened(l)
    /\ Finish(t)
    /\ UNCHANGED <<sessions, cookies, overlapped>>

\* The unique index refuses an address that another account took meanwhile.
CommitConfirm(t) ==
    /\ Doing(t, "confirm")
    /\ LET l == threads[t].link
           u == links[l].user
       IN  /\ FreeFor(u, links[l].to)
           /\ users' = [users EXCEPT ![u].email = links[l].to,
                                     ![u].email_verified = TRUE,
                                     ![u].pending_email =
                                        Written(threads[t].was, None, @)]
           /\ proved' = proved \cup {<<u, links[l].to>>}
           /\ Opened(l)
    /\ Finish(t)
    /\ UNCHANGED <<sessions, cookies, overlapped>>

-----------------------------------------------------------------------------
(* Phone *)

PhoneJob(t, u) ==
    threads[t].op \in {"phone_set", "phone_verify", "phone_remove"} /\ threads[t].user = u

\* History: two requests of one user about the phone are in flight at once.
NotesOverlap(t, u) ==
    overlapped' = IF \E other \in Thread \ {t} : PhoneJob(other, u)
                  THEN overlapped \cup {u} ELSE overlapped

\* phone_set: the number is saved as not verified and a code texted to it.
BeginPhoneSet(t, u, n) ==
    /\ Exists(u) /\ SignedIn(u)
    /\ Begin(t, [op |-> "phone_set", user |-> u, number |-> n, was |-> users[u].phone,
                 was_verified |-> users[u].phone_verified])
    /\ NotesOverlap(t, u)
    /\ UNCHANGED <<users, links, sessions, cookies, proved>>

\* Mutant of CommitPhoneSet: the earlier verification is left in the row.
CommitPhoneSetVerified(t, l) ==
    /\ Doing(t, "phone_set")
    /\ LET job == threads[t]
       IN  /\ users' = [users EXCEPT ![job.user].phone = Written(job.was, job.number, @)]
           /\ Sent(l, "verify_phone", job.user, job.number)
    /\ Finish(t)
    /\ UNCHANGED <<sessions, cookies, proved, overlapped>>

CommitPhoneSet(t, l) ==
    /\ Doing(t, "phone_set")
    /\ LET job == threads[t]
       IN  /\ users' = [users EXCEPT
                           ![job.user].phone = Written(job.was, job.number, @),
                           ![job.user].phone_verified = Written(job.was_verified, FALSE, @)]
           /\ Sent(l, "verify_phone", job.user, job.number)
    /\ Finish(t)
    /\ UNCHANGED <<sessions, cookies, proved, overlapped>>

\* phone_verify: the code counts for the number it was sent to, which is read.
BeginPhoneVerify(t, l) ==
    /\ Usable(l, "verify_phone")
    /\ SignedIn(links[l].user) /\ users[links[l].user].phone = links[l].to
    /\ Begin(t, [op |-> "phone_verify", user |-> links[l].user, link |-> l])
    /\ NotesOverlap(t, links[l].user)
    /\ UNCHANGED <<users, links, sessions, cookies, proved>>

\* The number may be another one by now.
CommitPhoneVerify(t) ==
    /\ Doing(t, "phone_verify")
    /\ LET job == threads[t]
       IN  /\ users' = [users EXCEPT ![job.user].phone_verified = TRUE]
           /\ proved' = proved \cup {<<job.user, links[job.link].to>>}
           /\ Opened(job.link)
    /\ Finish(t)
    /\ UNCHANGED <<sessions, cookies, overlapped>>

\* phone_remove
BeginPhoneRemove(t, u) ==
    /\ Exists(u) /\ SignedIn(u)
    /\ Begin(t, [op |-> "phone_remove", user |-> u, was |-> users[u].phone,
                 was_verified |-> users[u].phone_verified])
    /\ NotesOverlap(t, u)
    /\ UNCHANGED <<users, links, sessions, cookies, proved>>

CommitPhoneRemove(t) ==
    /\ Doing(t, "phone_remove")
    /\ LET job == threads[t]
       IN  users' = [users EXCEPT
                       ![job.user].phone = Written(job.was, None, @),
                       ![job.user].phone_verified = Written(job.was_verified, FALSE, @)]
    /\ Finish(t)
    /\ UNCHANGED <<links, sessions, cookies, proved, overlapped>>

-----------------------------------------------------------------------------

AccountNext ==
    \/ \E u \in User, a \in Address, p \in Password :
         \/ \E l \in Link, s \in Session : Register(u, a, p, l, s)
         \/ CreateUser(u, a, p)
    \/ \E u \in User, l \in Link : Resend(u, l) \/ Forgot(u, l)
    \/ \E l \in Link : Expires(l)

SignInNext ==
    \/ \E u \in User, p \in Password :
         \/ \E t \in Thread : BeginLogin(t, u, p)
         \/ \E s \in Session : SecondStep(u, p, s)
         \/ CookieExpires(u, p)
    \/ \E t \in Thread, s \in Session : CommitLogin(t, s)
    \/ \E s \in Session : EndSession(s)
    \/ Upgrade

PasswordNext ==
    \/ \E t \in Thread, p \in Password :
         \/ \E l \in Link : BeginReset(t, l, p)
         \/ \E s \in Session : BeginPassword(t, s, p)
    \/ \E t \in Thread : CommitReset(t) \/ CommitPassword(t)
    \/ \E l \in Link : ResetRefused(l)

EmailNext ==
    \/ \E t \in Thread, l \in Link : BeginVerify(t, l) \/ BeginConfirm(t, l)
    \/ \E t \in Thread : CommitVerify(t) \/ CommitConfirm(t)
    \/ \E t \in Thread, u \in User, a \in Address : BeginChange(t, u, a)
    \/ \E t \in Thread, l \in Link : CommitChange(t, l)
    \/ \E u \in User : CancelChange(u)

PhoneNext ==
    \/ \E t \in Thread, u \in User, n \in Number : BeginPhoneSet(t, u, n)
    \/ \E t \in Thread, l \in Link : CommitPhoneSet(t, l) \/ BeginPhoneVerify(t, l)
    \/ \E t \in Thread, u \in User : BeginPhoneRemove(t, u)
    \/ \E t \in Thread : CommitPhoneVerify(t) \/ CommitPhoneRemove(t)

Next ==
    \/ AccountNext \/ SignInNext \/ PasswordNext \/ EmailNext \/ PhoneNext
    \/ \E t \in Thread : RequestFails(t)

Spec == Init /\ [][Next]_vars

-----------------------------------------------------------------------------
(* Safety *)

\* An address that is said to be verified has been opened by its user, or vouched
\* for, whatever links of earlier and other addresses are still good.  Applications
\* link accounts on the strength of it.
EmailProved ==
    \A u \in User : Exists(u) /\ users[u].email_verified => <<u, users[u].email>> \in proved

\* A verified number has been answered by its user, if the user never did two
\* things about the phone at once.
PhoneProved ==
    \A u \in User \ overlapped :
        Exists(u) /\ users[u].phone_verified /\ users[u].phone # None
          => <<u, users[u].phone>> \in proved

\* What is sent, signed in and on its way belongs to users that exist.
OwnersOK ==
    /\ \A l \in Link : links[l] # NoLink => Exists(links[l].user)
    /\ \A s \in Session : sessions[s] # NoSession => Exists(sessions[s].user)
    /\ \A u \in User, p \in Password : <<u, p>> \in cookies => Exists(u)

\* A link that verifies an address was sent to the one its user still has, or the user
\* has changed to one that was proved.
VerifyLinksOK ==
    \A l \in Link : links[l].action = "verify_email" =>
        LET u == links[l].user
        IN  links[l].to = users[u].email \/ <<u, users[u].email>> \in proved

\* Requests keep to rows that are there, of the kind and of the user they are about.
JobsOK ==
    \A t \in Thread :
        LET job == threads[t]
        IN  /\ job.op \in {"login", "password", "change", "phone_set", "phone_verify",
                           "phone_remove"}
                 => Exists(job.user)
            /\ Doing(t, "verify") => links[job.link].action = "verify_email"
            /\ Doing(t, "confirm") => links[job.link].action = "change_email"
            /\ Doing(t, "reset") => links[job.link].action = "reset_password"
            /\ job.op \in {"reset", "password"} =>
                 \A s \in job.listed : sessions[s] # NoSession
            /\ Doing(t, "password") =>
                 sessions[job.own] # NoSession /\ sessions[job.own].user = job.user
            /\ Doing(t, "phone_verify") =>
                 links[job.link].action = "verify_phone" /\ links[job.link].user = job.user

\* Until two of a user's requests about the phone overlap, one in flight is alone, and
\* the row is as it has read it.
PhoneJobsOK ==
    \A t \in Thread : \A u \in User \ overlapped : PhoneJob(t, u) =>
        /\ \A other \in Thread \ {t} : ~PhoneJob(other, u)
        /\ Doing(t, "phone_verify") => users[u].phone = links[threads[t].link].to
        /\ threads[t].op \in {"phone_set", "phone_remove"} =>
             /\ users[u].phone = threads[t].was
             /\ users[u].phone_verified = threads[t].was_verified

\* The inductive invariant behind the theorems of ContactProofs.
IInv ==
    /\ TypeOK
    /\ OwnersOK
    /\ VerifyLinksOK
    /\ JobsOK
    /\ PhoneJobsOK
    /\ EmailProved
    /\ PhoneProved

\* A password is on its way when a request or a cookie may still act on it.
OnItsWay(u, p) ==
    \/ Exists(u) /\ users[u].password = p
    \/ <<u, p>> \in cookies
    \/ \E t \in Thread :
         /\ threads[t].op \in {"login", "password"}
         /\ threads[t].user = u /\ threads[t].password = p
    \/ \E t \in Thread :
         Doing(t, "reset") /\ links[threads[t].link].user = u /\ threads[t].password = p

Chosen(u, p) ==
    \E t \in Thread :
        \/ Doing(t, "password") /\ threads[t].user = u /\ threads[t].password = p
        \/ Doing(t, "reset") /\ links[threads[t].link].user = u /\ threads[t].password = p

\* A password that was replaced, and that no request or cookie from before still
\* carries, neither signs anybody in nor comes back, unless it is chosen again.
ReplacedStaysReplaced ==
    [][\A u \in User, p \in Password : Exists(u) /\ ~OnItsWay(u, p) =>
         /\ OnItsWay(u, p)' => Chosen(u, p)'
         /\ \A s \in Session :
              sessions'[s].live /\ sessions'[s].user = u /\ sessions'[s].password = p
                => sessions[s] = sessions'[s]]_vars

\* A link or a code that was used or has expired, and that no request still holds,
\* does nothing any more.
Holds(t, l) == threads[t].op \in {"verify", "reset", "confirm", "phone_verify"} /\ threads[t].link = l
Spent == {l \in Link : links[l] # NoLink /\ ~links[l].open /\ \A t \in Thread : ~Holds(t, l)}

SpentDoesNothing == [][Spent \subseteq Spent']_vars

-----------------------------------------------------------------------------
(* What the code says and does not do *)

\* tg11/profile.py:153: "Email change cancelled".  An address is only taken up if, when
\* its link was opened, the change was still pending.
CancelledIsCancelled ==
    [][\A t \in Thread : Doing(t, "confirm") /\ ~Doing(t, "confirm")' =>
         LET l == threads[t].link
             u == links[l].user
         IN  users'[u].email # users[u].email => threads[t].was = links[l].to]_vars
=============================================================================
