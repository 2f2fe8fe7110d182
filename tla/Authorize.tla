------------------------------ MODULE Authorize ------------------------------
(***************************************************************************)
(* One browser on its way through an authorization request at TG11         *)
(* Accounts: the authorize endpoint, the login page, the second step and   *)
(* the consent page of src/tg11/web.py.  Every request runs in a tab of    *)
(* its own; the tabs share one cookie jar.  A tab sends the cookies the    *)
(* jar holds when it sends, and the cookies an answer sets are stored when *)
(* the answer arrives, so another tab's answer can come in between.        *)
(*                                                                         *)
(* A wrong password or code shows the same form again and changes nothing  *)
(* that is modelled here (MFA counts the attempts), so it is left out.     *)
(* Requests the endpoint rejects before it looks at the session (unknown   *)
(* client, bad redirect, no PKCE) never reach the pages and are left out.  *)
(***************************************************************************)
EXTENDS Integers, FiniteSets

CONSTANTS Request,     \* one tab, and the authorization request in it
          User,        \* the accounts whose password this person knows
          WithFactor,  \* those of them that have a second factor
          Ask,         \* what requests ask for: prompt, max_age, acr_values
          Draws,       \* how many random values a tab's requests draw before they repeat
          MaxDetours,  \* how often a session or a proof of login is lost, or a tab
                       \* goes back to its request's URL, in all
          None, Keep

ASSUME WithFactorAssumption == WithFactor \subseteq User
ASSUME BoundsAssumption == MaxDetours \in Nat

\* There are more random values than a browser and its tabs can hold (InUse), so the
\* bound on them never bites.
ASSUME DrawsAssumption ==
    /\ IsFiniteSet(Request)
    /\ Draws \in Nat
    /\ Draws > 6 * (Cardinality(Request) + 1)

VARIABLES asked,     \* what the tab's request asks for; None: its `next` is /account
          page,      \* what the tab shows, or the GET it is about to send
          reply,     \* an answer under way to the tab
          jar,       \* the browser's cookies
          consents,  \* accounts that have allowed the application
          proved,    \* history: the session the last login for the request made
          lapses, reopens

web == <<asked, page, reply, jar, consents, proved, lapses, reopens>>

\* Random values, session ids and CSRF tokens: the tab that drew one, and a number.
Id      == Request \X (1..Draws)
Cookie  == {"session", "proof", "pending", "csrf"}
Session == [sid : Id, user : User, factor : BOOLEAN, old : BOOLEAN]
Proof   == [sid : Id, req : Request]

Gets   == {"authorize", "toLogin", "toMfa"}
Forms  == {"login", "mfa", "consent"}
Ended  == {"code", "error", "account", "app"}
Page   == [at : {"idle"} \cup Gets \cup Forms \cup Ended,
           csrf : Id \cup {None}, user : User \cup {None}]

CookieValue == Session \cup Proof \cup User \cup Id \cup {None, Keep}
Reply == [page : Page, set : [Cookie -> CookieValue]]

ASSUME NoneAssumption ==
    /\ Keep # None
    /\ None \notin Request /\ None \notin Ask /\ None \notin Reply
    /\ \A v \in {None, Keep} :
         v \notin Session /\ v \notin Proof /\ v \notin User /\ v \notin Id

At(where)  == [at |-> where, csrf |-> None, user |-> None]
Keeping    == [c \in Cookie |-> Keep]
NoCookies  == [c \in Cookie |-> None]

Init ==
    /\ asked = [r \in Request |-> None]
    /\ page = [r \in Request |-> At("idle")]
    /\ reply = [r \in Request |-> None]
    /\ jar = NoCookies
    /\ consents = {}
    /\ proved = [r \in Request |-> None]
    /\ lapses = 0 /\ reopens = 0

(***************************************************************************)
(* Random values.  One that nothing holds any more may be drawn again.     *)
(***************************************************************************)
Held(c) == (IF c["session"] \in Session THEN {c["session"].sid} ELSE {})
             \cup (IF c["proof"] \in Proof THEN {c["proof"].sid} ELSE {})
             \cup {c["csrf"]}
InUse ==
    Held(jar) \cup {page[r].csrf : r \in Request} \cup {proved[r] : r \in Request}
      \cup UNION {Held(reply[r].set) \cup {reply[r].page.csrf} :
                    r \in {q \in Request : reply[q] # None}}
Fresh(r) == CHOOSE i \in {r} \X (1..Draws) :
              i \notin InUse /\ \A n \in 1..Draws : n < i[2] => <<r, n>> \in InUse

(***************************************************************************)
(* A handler's answer to a tab, and the forms it renders.  A form carries  *)
(* the session's token when the handler loaded the session, and the CSRF   *)
(* cookie's otherwise, which is set when there is none.                    *)
(***************************************************************************)
Answer(r, p, set) ==
    IF set = Keeping
    THEN page' = [page EXCEPT ![r] = p] /\ reply' = reply
    ELSE reply' = [reply EXCEPT ![r] = [page |-> p, set |-> set]] /\ page' = page
Redirect(r, where) == Answer(r, At(where), Keeping)

\* Mutant of csrf_token_for: no token is made when there is none
csrf_token_forCookie(r, s) == IF s # None THEN s.sid ELSE jar["csrf"]

csrf_token_for(r, s) ==
    IF s # None THEN s.sid ELSE IF jar["csrf"] # None THEN jar["csrf"] ELSE Fresh(r)
render(r, form, s, u) ==
    Answer(r, [at |-> form, csrf |-> csrf_token_for(r, s), user |-> u],
           [Keeping EXCEPT !["csrf"] =
              IF s = None /\ jar["csrf"] = None THEN Fresh(r) ELSE Keep])

\* Mutant of csrf_protect: any token will do in a session
csrf_protectAny(r) ==
    IF jar["session"] # None THEN page[r].csrf # None ELSE page[r].csrf = jar["csrf"]

\* The token a POST must carry: the session's if there is one.
csrf_protect(r) ==
    page[r].csrf = IF jar["session"] # None THEN jar["session"].sid ELSE jar["csrf"]

\* A tab that shows `where` and waits for nothing sends its next request.
Sends(r, where) == page[r].at = where /\ reply[r] = None

(***************************************************************************)
(* GET /oauth/authorize                                                    *)
(***************************************************************************)
\* Mutant of completed_reauth: the proof is not bound to the request
completed_reauthAny(r) ==
    jar["session"] # None /\ jar["proof"] # None /\ jar["proof"].sid = jar["session"].sid

completed_reauth(r) ==
    jar["session"] # None /\ jar["proof"] = [sid |-> jar["session"].sid, req |-> r]

stale(r) ==
    /\ jar["session"] # None
    /\ \/ asked[r].maxAge = "zero"
       \/ asked[r].maxAge = "some" /\ jar["session"].old

unmet_acr(r) == jar["session"] # None /\ asked[r].mfa /\ ~jar["session"].factor

needs_login(r) ==
    \/ jar["session"] = None
    \/ (asked[r].prompt = "login" \/ stale(r)) /\ ~completed_reauth(r)
    \/ unmet_acr(r)

\* Mutant of AskLogin: a login that cannot meet the request is asked for again
AskLoginAgain(r) ==
    /\ needs_login(r)
    /\ proved' = proved
    /\ Redirect(r, IF asked[r].prompt = "none" THEN "error" ELSE "toLogin")

AskLogin(r) ==
    /\ needs_login(r)
    /\ proved' = proved
    /\ \/ /\ asked[r].prompt = "none"
          /\ Redirect(r, "error")
       \/ /\ asked[r].prompt # "none"
          /\ completed_reauth(r) /\ unmet_acr(r)
          /\ Answer(r, At("error"), [Keeping EXCEPT !["proof"] = None])
       \/ /\ asked[r].prompt # "none"
          /\ ~(completed_reauth(r) /\ unmet_acr(r))
          /\ Redirect(r, "toLogin")

AskConsent(r) ==
    /\ ~needs_login(r)
    /\ jar["session"].user \notin consents
    /\ IF asked[r].prompt = "none"
       THEN Redirect(r, "error")
       ELSE render(r, "consent", jar["session"], jar["session"].user)
    /\ proved' = proved

GiveCode(r) ==
    /\ ~needs_login(r)
    /\ jar["session"].user \in consents
    /\ Answer(r, [At("code") EXCEPT !.user = jar["session"].user],
              [Keeping EXCEPT !["proof"] =
                 IF completed_reauth(r) THEN None ELSE Keep])
    /\ proved' = [proved EXCEPT ![r] = None]

authorize(r) ==
    /\ Sends(r, "authorize")
    /\ AskLogin(r) \/ AskConsent(r) \/ GiveCode(r)
    /\ UNCHANGED <<asked, jar, consents, lapses, reopens>>

\* POST /oauth/authorize: the answer to the consent page.
authorize_consent(r, allow) ==
    /\ Sends(r, "consent")
    /\ consents' = IF csrf_protect(r) /\ allow
                   THEN consents \cup {jar["session"].user} ELSE consents
    /\ Redirect(r, IF csrf_protect(r) /\ ~allow THEN "error" ELSE "authorize")
    /\ UNCHANGED <<asked, jar, proved, lapses, reopens>>

(***************************************************************************)
(* The login page and the second step.  A request that is refused with 403 *)
(* sends its tab back to load the form again.                              *)
(***************************************************************************)
\* GET /login: only authorize sends a tab here with reauth=1.
login_page(r) ==
    /\ Sends(r, "toLogin")
    /\ IF jar["session"] # None /\ asked[r] = None
       THEN Redirect(r, "account")
       ELSE render(r, "login", jar["session"], None)
    /\ UNCHANGED <<asked, jar, consents, proved, lapses, reopens>>

\* The new session, its cookie and, for a request, the proof of this login.
SignsIn(r, u, factor) ==
    LET s == [sid |-> Fresh(r), user |-> u, factor |-> factor, old |-> FALSE]
        p == IF asked[r] = None THEN Keep ELSE [sid |-> s.sid, req |-> r]
    IN  /\ Answer(r, At(IF asked[r] = None THEN "account" ELSE "authorize"),
                  [Keeping EXCEPT !["session"] = s, !["proof"] = p, !["csrf"] = None,
                                  !["pending"] = IF factor THEN None ELSE Keep])
        /\ proved' = [proved EXCEPT ![r] = s.sid]

\* POST /login with the password of u
login_submit(r, u) ==
    /\ Sends(r, "login")
    /\ \/ /\ ~csrf_protect(r)
          /\ Redirect(r, "toLogin")
          /\ UNCHANGED <<proved>>
       \/ /\ csrf_protect(r)
          /\ u \in WithFactor
          /\ Answer(r, At("toMfa"), [Keeping EXCEPT !["pending"] = u, !["session"] = None])
          /\ UNCHANGED <<proved>>
       \/ /\ csrf_protect(r)
          /\ u \notin WithFactor
          /\ SignsIn(r, u, FALSE)
    /\ UNCHANGED <<asked, jar, consents, lapses, reopens>>

\* The first factor is no longer remembered: start over, without the request.
StartOver(r) ==
    /\ Redirect(r, "toLogin")
    /\ asked' = [asked EXCEPT ![r] = None]

\* GET /login/mfa: the handler does not load the session, so the form always
\* carries the CSRF cookie's token.
mfa_page(r) ==
    /\ Sends(r, "toMfa")
    /\ \/ jar["pending"] = None /\ StartOver(r)
       \/ /\ jar["pending"] # None
          /\ render(r, "mfa", None, jar["pending"])
          /\ asked' = asked
    /\ UNCHANGED <<jar, consents, proved, lapses, reopens>>

\* POST /login/mfa with a code that is right for the account that is pending
mfa_submit(r) ==
    /\ Sends(r, "mfa")
    /\ \/ /\ ~csrf_protect(r)
          /\ Redirect(r, "toMfa")
          /\ UNCHANGED <<asked, proved>>
       \/ /\ csrf_protect(r) /\ jar["pending"] = None
          /\ StartOver(r)
          /\ UNCHANGED <<proved>>
       \/ /\ csrf_protect(r) /\ jar["pending"] # None
          /\ SignsIn(r, jar["pending"], TRUE)
          /\ asked' = asked
    /\ UNCHANGED <<jar, consents, lapses, reopens>>

(***************************************************************************)
(* The browser and the clock                                               *)
(***************************************************************************)
\* A tab opens a request, or the login page itself.
Open(r, ask) ==
    /\ page[r].at = "idle"
    /\ asked' = [asked EXCEPT ![r] = ask]
    /\ page' = [page EXCEPT ![r] = At(IF ask = None THEN "toLogin" ELSE "authorize")]
    /\ UNCHANGED <<reply, jar, consents, proved, lapses, reopens>>

Arrive(r) ==
    /\ reply[r] # None
    /\ page' = [page EXCEPT ![r] = reply[r].page]
    /\ jar' = [c \in Cookie |-> IF reply[r].set[c] = Keep THEN jar[c] ELSE reply[r].set[c]]
    /\ reply' = [reply EXCEPT ![r] = None]
    /\ UNCHANGED <<asked, consents, proved, lapses, reopens>>

\* Back in a tab that has had its answer: the same URL is opened again.
Reopen(r) ==
    /\ lapses + reopens < MaxDetours
    /\ page[r].at \in {"code", "error", "app"}
    /\ page' = [page EXCEPT ![r] = At("authorize")]
    /\ reopens' = reopens + 1
    /\ UNCHANGED <<asked, reply, jar, consents, proved, lapses>>

\* The session ends (revoked, signed out, expired) or the proof of login does.
Lapse(c) ==
    /\ lapses + reopens < MaxDetours
    /\ jar[c] # None
    /\ jar' = [jar EXCEPT ![c] = None]
    /\ lapses' = lapses + 1
    /\ UNCHANGED <<asked, page, reply, consents, proved, reopens>>

\* The session outlives the max_age that some request asks for.
Age ==
    /\ \E r \in Request : asked[r] # None /\ asked[r].maxAge = "some"
    /\ jar["session"] # None
    /\ ~jar["session"].old
    /\ jar' = [jar EXCEPT !["session"].old = TRUE]
    /\ UNCHANGED <<asked, page, reply, consents, proved, lapses, reopens>>

\* A first factor that is not followed by the second within five minutes
PendingExpires ==
    /\ jar["pending"] # None
    /\ jar' = [jar EXCEPT !["pending"] = None]
    /\ UNCHANGED <<asked, page, reply, consents, proved, lapses, reopens>>

\* What the tab, its user and the service do to get on with the request
Continue(r) ==
    \/ authorize(r) \/ login_page(r) \/ mfa_page(r) \/ mfa_submit(r)
    \/ \E u \in User : login_submit(r, u)
    \/ \E allow \in BOOLEAN : authorize_consent(r, allow)
    \/ Arrive(r)

\* Everything but the start of a request, which is the application's (SignIn).
ServerStep ==
    \/ \E r \in Request : Open(r, None) \/ Continue(r) \/ Reopen(r)
    \/ Lapse("session") \/ Lapse("proof")
    \/ Age
    \/ PendingExpires

(***************************************************************************)
(* Properties                                                              *)
(***************************************************************************)
Value(c) == CASE c = "session" -> Session
              [] c = "proof"   -> Proof
              [] c = "pending" -> User
              [] c = "csrf"    -> Id

TypeOK ==
    /\ asked \in [Request -> Ask \cup {None}]
    /\ page \in [Request -> Page]
    /\ proved \in [Request -> Id \cup {None}]
    /\ reply = [r \in Request |-> reply[r]]
    /\ jar = [c \in Cookie |-> jar[c]]
    /\ \A r \in Request :
         /\ page[r].at \in Forms <=> page[r].csrf # None
         /\ reply[r] # None =>
              /\ reply[r].page \in Page
              /\ \A c \in Cookie : reply[r].set[c] \in Value(c) \cup {None, Keep}
    /\ \A c \in Cookie : jar[c] \in Value(c) \cup {None}
    /\ consents \subseteq User
    /\ lapses \in 0..MaxDetours /\ reopens \in 0..MaxDetours

\* A tab that follows no request is never where only a request leads.
InRequest == {"authorize", "consent", "code", "error", "app"}
RequestsOK ==
    \A r \in Request : asked[r] = None =>
        /\ page[r].at \notin InRequest
        /\ reply[r] # None => reply[r].page.at \notin InRequest

\* An answer under way is not the end of a tab, and brings no consent page: that page
\* sets no cookie, so it is there at once.
RepliesOK ==
    \A r \in Request :
        /\ page[r].at = "idle" => reply[r] = None
        /\ reply[r] # None =>
             /\ reply[r].page.at \notin {"idle", "consent"}
             /\ reply[r].page.at \in Forms <=> reply[r].page.csrf # None

\* A proof of login under way to the jar is for the tab's own request and its last
\* login; one in the jar is for the last login too, or about to be taken out.
ProofsOK ==
    \A r \in Request :
        /\ reply[r] # None /\ reply[r].set["proof"] \notin {None, Keep} =>
             reply[r].set["proof"] = [sid |-> proved[r], req |-> r]
        /\ jar["proof"] # None /\ jar["proof"].req = r =>
             /\ page[r].at # "idle"
             /\ asked[r] # None /\ asked[r].prompt = "login" =>
                  \/ jar["proof"].sid = proved[r]
                  \/ reply[r] # None /\ reply[r].set["proof"] # Keep

\* The sessions and the CSRF cookies that the browser has or that are under way to it
InSets(c) == {jar[c]} \cup {reply[r].set[c] : r \in {q \in Request : reply[q] # None}}
Sessions  == InSets("session") \ {None, Keep}
Csrfs     == InSets("csrf") \ {None, Keep}

\* A consent page carries the id of its account's session, which is no CSRF cookie and
\* no other account's.
TokensOK ==
    /\ \A s, z \in Sessions : s.sid = z.sid => s.user = z.user
    /\ \A s \in Sessions : s.sid \notin Csrfs
    /\ \A r \in Request : page[r].at = "consent" =>
         /\ page[r].csrf \notin Csrfs
         /\ \A s \in Sessions : s.sid = page[r].csrf => s.user = page[r].user

\* A code that answers a request with prompt=login comes from the session that
\* a login for this very request made, and each such login is good for one
\* code: neither a session that was there before, nor another tab's login, nor
\* a login that has been answered already will do (authorize, login_submit).
Answers(r) ==
    /\ Sends(r, "authorize")
    /\ \/ page'[r].at = "code"
       \/ reply'[r] # None /\ reply'[r].page.at = "code"
FreshLogin ==
    [][\A r \in Request :
         Answers(r) /\ asked[r].prompt = "login" => jar["session"].sid = proved[r]]_web

\* An account's consent is given on a page that was shown to that account:
\* when another tab has signed in as somebody else in the meantime, the answer
\* is refused (authorize_consent, csrf_protect).
ConsentWasShown ==
    [][\A u \in consents' \ consents :
         \E r \in Request : Sends(r, "consent") /\ page[r].user = u]_web

\* What can keep a request at the service is for its user to decide: another tab that
\* always signs in between this one's login and its return to the authorize endpoint,
\* or second steps that always come too late.
Interrupts(r) ==
    \/ \E q \in Request \ {r} : Arrive(q) /\ reply[q].set["session"] # Keep
    \/ PendingExpires
=============================================================================
