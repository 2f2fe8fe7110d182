-------------------------------- MODULE SignIn --------------------------------
(***************************************************************************)
(* Signing in to an application with TG11: the authorization server's      *)
(* pages (Authorize) composed with the views of the Django client          *)
(* (src/clients/django/tg11_auth/views.py) for one browser.  The           *)
(* application keeps one flow in its session: the request started last.    *)
(* A callback takes the flow out of the session it has loaded, exchanges   *)
(* its code at TG11, and writes the session when it is done: other views   *)
(* come in between.  What the linking rules make of an identity (Links) is *)
(* here a callback that signs in or does not.                              *)
(***************************************************************************)
EXTENDS Authorize

CONSTANT Call       \* callbacks that may be under way at once

VARIABLES flow,     \* the flow in the application's session, by its request
          local,    \* who is signed in at the application
          calling,  \* the callbacks under way, and what became of the session they loaded
          latest,   \* history: the flow started last, unless signed out since
          signIns   \* history: how often each request has signed somebody in

app  == <<flow, local, calling, latest, signIns>>
vars == <<web, app>>

\* The session a callback has loaded is as it was, has another flow, or is no more:
\* signing in and out gives the browser another one.
CallJob == [req : Request, user : User \cup {None}, session : {"same", "changed", "gone"}]
ASSUME CallAssumption == None \notin CallJob

SInit ==
    /\ Init
    /\ flow = None /\ local = None /\ latest = None
    /\ calling = [c \in Call |-> None]
    /\ signIns = [r \in Request |-> 0]

Under == {c \in Call : calling[c] # None}
Calls(r) == {c \in Under : calling[c].req = r}

\* The callbacks under way after their session has got another flow
Overtaken ==
    [c \in Call |-> IF c \in Under /\ calling[c].session = "same"
                    THEN [calling[c] EXCEPT !.session = "changed"] ELSE calling[c]]
\* ... and after it has been replaced
Orphaned ==
    [c \in Call |-> IF c \in Under THEN [calling[c] EXCEPT !.session = "gone"] ELSE None]

\* login and _start: a new flow takes the place of the one before it.
Start(r, ask) ==
    /\ Open(r, ask)
    /\ flow' = r /\ latest' = r
    /\ calling' = Overtaken
    /\ UNCHANGED <<local, signIns>>

Lands(r) ==
    /\ Sends(r, "code") \/ Sends(r, "error")
    /\ page' = [page EXCEPT ![r] = At("app")]
    /\ UNCHANGED <<asked, reply, jar, consents, proved, lapses, reopens>>

\* callback, until it has the provider's answer: the flow is out of the session it has
\* loaded, and still in the one that is stored.
CallbackBegins(r, c) ==
    /\ Lands(r)
    /\ page[r].at = "code"
    /\ flow = r
    /\ calling[c] = None
    /\ calling' = [calling EXCEPT ![c] = [req |-> r, user |-> page[r].user, session |-> "same"]]
    /\ UNCHANGED <<flow, local, latest, signIns>>

\* An error, another request's state, a flow that is gone or older than FLOW_TTL: the
\* flow is used up all the same.
CallbackRejects(r) ==
    /\ Lands(r)
    /\ flow' = None
    /\ UNCHANGED <<local, calling, latest, signIns>>

\* Mutant of CallbackSignsIn: the flow stays in the session
CallbackSignsInKeeping(c) ==
    /\ c \in Under
    /\ flow' = flow
    /\ local' = calling[c].user
    /\ calling' = [Orphaned EXCEPT ![c] = None]
    /\ signIns' = [signIns EXCEPT ![calling[c].req] = @ + 1]
    /\ UNCHANGED <<web, latest>>

\* The exchange and the linking rules give a user to sign in: login() makes a new
\* session of the one that was loaded, whatever is stored by now.
CallbackSignsIn(c) ==
    /\ c \in Under
    /\ flow' = None
    /\ local' = calling[c].user
    /\ calling' = [Orphaned EXCEPT ![c] = None]
    /\ signIns' = [signIns EXCEPT ![calling[c].req] = @ + 1]
    /\ UNCHANGED <<web, latest>>

\* A failed exchange, an identity the linking rules refuse, or a link made: the session
\* is saved as it was loaded, without a flow, unless it is no more.
CallbackFails(c) ==
    /\ c \in Under
    /\ flow' = IF calling[c].session = "gone" THEN flow ELSE None
    /\ calling' = [calling EXCEPT ![c] = None]
    /\ UNCHANGED <<web, local, latest, signIns>>

\* logout, here only or at TG11 too (rp_logout)
Logout(global) ==
    /\ local # None
    /\ flow' = None /\ local' = None /\ latest' = None
    /\ calling' = Orphaned
    /\ jar' = IF global THEN [jar EXCEPT !["session"] = None] ELSE jar
    /\ UNCHANGED <<asked, page, reply, consents, proved, lapses, reopens, signIns>>

Callback(r) == CallbackRejects(r) \/ \E c \in Call : CallbackBegins(r, c)
Returns(c) == CallbackSignsIn(c) \/ CallbackFails(c)

SNext ==
    \/ ServerStep /\ UNCHANGED app
    \/ \E r \in Request : Callback(r) \/ \E ask \in Ask : Start(r, ask)
    \/ \E c \in Call : Returns(c)
    \/ \E global \in BOOLEAN : Logout(global)

\* The browser follows redirects, the service and the application answer, and the
\* person in front of it fills in the forms; five minutes pass.
SFairness ==
    /\ \A r \in Request : WF_vars((Continue(r) /\ UNCHANGED app) \/ Callback(r))
    /\ \A c \in Call : WF_vars(Returns(c))
    /\ WF_vars(PendingExpires /\ UNCHANGED app)

SSpec == SInit /\ [][SNext]_vars /\ SFairness

(***************************************************************************)
(* Properties                                                              *)
(***************************************************************************)
STypeOK ==
    /\ TypeOK
    /\ flow \in Request \cup {None} /\ latest \in Request \cup {None}
    /\ local \in User \cup {None}
    /\ calling \in [Call -> CallJob \cup {None}]
    /\ signIns \in [Request -> Nat]

\* The flow in the application's session was started last and has signed nobody in;
\* neither has the flow of a callback whose session is still as it was, nor a tab that
\* has started nothing.
FlowOK ==
    /\ flow # None => latest = flow /\ signIns[flow] = 0
    /\ \A c \in Under : calling[c].session = "same" =>
         latest = calling[c].req /\ signIns[calling[c].req] = 0
    /\ \A r \in Request : page[r].at = "idle" => signIns[r] = 0 /\ Calls(r) = {}

\* The inductive invariant behind the theorems of SignInProofs.
IInv ==
    /\ STypeOK
    /\ RequestsOK
    /\ RepliesOK
    /\ ProofsOK
    /\ TokensOK
    /\ FlowOK

\* Only the flow that was started last signs anybody in, once, and not after a
\* sign-out, although the server gives the same request's URL a second code and
\* an older tab's code may come back later (callback, _start, logout).  The exception:
\* a callback whose session was given another flow or was replaced, by a start, a
\* sign-out or another callback, while it exchanged its code, signs in all the same.
SignsInLatestOnce ==
    [][\A r \in Request : signIns'[r] > signIns[r] =>
         \/ latest = r /\ signIns[r] = 0
         \/ \E c \in Calls(r) : calling'[c] = None /\ calling[c].session # "same"]_vars

\* What the comment in callback says of a flow, "single use, whatever happens next"
\* (views.py:175): it signs in once.  Two callbacks of one flow that overlap break it.
FlowUsedOnce == \A r \in Request : signIns[r] <= 1

\* A sign-in that was started comes back to the application and is answered there, or
\* is given up at the account page, unless its user keeps it from ending (see
\* Interrupts): the proof of login is what ends the round trip of prompt=login and
\* max_age=0.
StartedEnds ==
    \A r \in Request :
      <>[][~Interrupts(r)]_vars =>
        (page[r].at \in (Gets \cup Forms \cup {"code", "error"})
           ~> \/ page[r].at = "account"
              \/ page[r].at = "app" /\ Calls(r) = {})
=============================================================================
