------------------------------- MODULE Holds -------------------------------
(***************************************************************************)
(* The wallet of one user and the holds an application places on it        *)
(* (tg11/payments.py and its handlers in tg11/profile.py).  The application*)
(* has the consent it needs: who gives and takes that away is in Grants.   *)
(*                                                                         *)
(* The provider (Stripe, PayPal) is outside: `tokens` and `auths` are its  *)
(* state.  A call to it can be refused, or succeed and its answer be lost. *)
(*                                                                         *)
(* Creating and capturing a hold are `async def`: other requests run while *)
(* the body of the request is awaited, which for a capture is after the    *)
(* hold has been read, and plain handlers run in threads all the time.  So *)
(* a request reads (Begin...), calls the provider (Call...) and writes its *)
(* columns (Commit...), and others take steps between.  A flush takes the  *)
(* write lock until the commit: placing a hold flushes its row before it   *)
(* calls the provider, the others write only when the answer is there.     *)
(***************************************************************************)
EXTENDS Integers

CONSTANTS
    Method,     \* rows of payment_methods ever inserted
    Token,      \* the provider's payment methods (external_method_id)
    Hold,       \* holds ever placed, and the provider's authorizations
    MaxAmount,  \* bound on the amounts asked for, in minor units
    Thread      \* requests in flight

ASSUME HoldsAssumption == MaxAmount \in Nat

VARIABLES
    methods,    \* payment_methods
    holds,      \* payment_holds
    tokens,     \* the provider's: whether it will charge a token
    auths,      \* the provider's authorizations
    threads     \* what each request in flight has read and done

vars == <<methods, holds, tokens, auths, threads>>

-----------------------------------------------------------------------------

NoMethod == [status |-> "none"]
MethodRow == {NoMethod} \cup [status: {"active", "removed"}, token: Token]

NoHold == [status |-> "none"]
HoldRow ==
    {NoHold} \cup
    [status: {"authorized", "captured", "released", "failed"},
     method: Method, amount: Nat, captured_amount: Nat]

NoAuth == [state |-> "none"]
Auth == {NoAuth} \cup [state: {"held", "captured", "void"}, amount: Nat, taken: Nat]

Idle == [op |-> "idle"]
Job ==
         {Idle}
    \cup [op: {"place"}, method: Method, amount: Nat]
    \cup [op: {"placed"}, hold: Hold, row: HoldRow \ {NoHold}]
    \cup [op: {"capture", "write_captured"}, hold: Hold, amount: Nat]
    \cup [op: {"release", "write_released"}, hold: Hold]
    \cup [op: {"remove", "write_removed"}, method: Method]

TypeOK ==
    /\ methods \in [Method -> MethodRow]
    /\ holds \in [Hold -> HoldRow]
    /\ tokens \in [Token -> {"none", "attached", "detached"}]
    /\ auths \in [Hold -> Auth]
    /\ threads \in [Thread -> Job]

Init ==
    /\ methods = [m \in Method |-> NoMethod]
    /\ holds = [h \in Hold |-> NoHold]
    /\ tokens = [x \in Token |-> "none"]
    /\ auths = [h \in Hold |-> NoAuth]
    /\ threads = [t \in Thread |-> Idle]

-----------------------------------------------------------------------------
(* Requests *)

Begin(t, job)    == threads[t] = Idle /\ threads' = [threads EXCEPT ![t] = job]
Continue(t, job) == threads' = [threads EXCEPT ![t] = job]
Finish(t)        == threads' = [threads EXCEPT ![t] = Idle]

Doing(t, op) == threads[t].op = op

\* Nobody has flushed a row and not committed yet.
Unlocked == \A t \in Thread : ~Doing(t, "placed")

\* A request fails, before or after its call to the provider, and is rolled back:
\* a check, a refusal or an unreachable provider, no write lock for 30 seconds.
RequestFails(t) ==
    /\ threads[t] # Idle
    /\ Finish(t)
    /\ UNCHANGED <<methods, holds, tokens, auths>>

\* The process stops, and every request in flight with it.
Restart ==
    /\ threads' = [t \in Thread |-> Idle]
    /\ UNCHANGED <<methods, holds, tokens, auths>>

-----------------------------------------------------------------------------
(* The wallet *)

\* The user saves a card or an account at the provider.
SaveAtProvider(x) ==
    /\ tokens[x] = "none"
    /\ tokens' = [tokens EXCEPT ![x] = "attached"]
    /\ UNCHANGED <<methods, holds, auths, threads>>

\* complete_setup: a row for what was saved.  The page can be loaded again, and
\* inserts another one.
CompleteSetup(m, x) ==
    /\ methods[m] = NoMethod
    /\ tokens[x] # "none"
    /\ Unlocked
    /\ methods' = [methods EXCEPT ![m] = [status |-> "active", token |-> x]]
    /\ UNCHANGED <<holds, tokens, auths, threads>>

\* remove_method: not while a hold is open.
OpenHold(m) == \E h \in Hold : holds[h].status = "authorized" /\ holds[h].method = m

BeginRemove(t, m) ==
    /\ methods[m].status = "active"
    /\ ~OpenHold(m)
    /\ Begin(t, [op |-> "remove", method |-> m])
    /\ UNCHANGED <<methods, holds, tokens, auths>>

\* The provider is told; whether it answers is not looked at.
CallRemove(t) ==
    /\ Doing(t, "remove")
    /\ \/ tokens' = [tokens EXCEPT ![methods[threads[t].method].token] = "detached"]
       \/ UNCHANGED tokens
    /\ Continue(t, [threads[t] EXCEPT !.op = "write_removed"])
    /\ UNCHANGED <<methods, holds, auths>>

CommitRemove(t) ==
    /\ Doing(t, "write_removed") /\ Unlocked
    /\ methods' = [methods EXCEPT ![threads[t].method].status = "removed"]
    /\ Finish(t)
    /\ UNCHANGED <<holds, tokens, auths>>

-----------------------------------------------------------------------------
(* Placing a hold *)

\* Mutant of BeginPlace: a method that was removed is not refused.
BeginPlaceAnyMethod(t, m, amount) ==
    /\ methods[m] # NoMethod
    /\ amount > 0
    /\ Begin(t, [op |-> "place", method |-> m, amount |-> amount])
    /\ UNCHANGED <<methods, holds, tokens, auths>>

\* api_hold_create: on the method it names, or the default one.
BeginPlace(t, m, amount) ==
    /\ methods[m].status = "active"
    /\ amount > 0
    /\ Begin(t, [op |-> "place", method |-> m, amount |-> amount])
    /\ UNCHANGED <<methods, holds, tokens, auths>>

Fresh(h) == holds[h] = NoHold /\ auths[h] = NoAuth

\* place_hold: the row is flushed, the provider called, and its refusal written
\* into the row.  An answer that is lost is taken for a refusal.
CallAuthorize(t, h, status) ==
    /\ Doing(t, "place") /\ Unlocked
    /\ Fresh(h)
    /\ LET job == threads[t]
           Held == [state |-> "held", amount |-> job.amount, taken |-> 0]
       IN  /\ \/ /\ tokens[methods[job.method].token] = "attached"
                 /\ auths' = [auths EXCEPT ![h] = Held]
              \/ status = "failed" /\ UNCHANGED auths
           /\ Continue(t, [op |-> "placed", hold |-> h,
                           row |-> [status |-> status, method |-> job.method,
                                    amount |-> job.amount, captured_amount |-> 0]])
    /\ UNCHANGED <<methods, holds, tokens>>

CommitPlace(t) ==
    /\ Doing(t, "placed")
    /\ holds' = [holds EXCEPT ![threads[t].hold] = threads[t].row]
    /\ Finish(t)
    /\ UNCHANGED <<methods, tokens, auths>>

-----------------------------------------------------------------------------
(* Capturing and releasing a hold *)

\* Mutant of BeginCapture: the amount is not compared with the hold.
BeginCaptureMore(t, h, amount) ==
    /\ holds[h].status = "authorized"
    /\ Begin(t, [op |-> "capture", hold |-> h,
                 amount |-> IF amount = 0 THEN holds[h].amount ELSE amount])
    /\ UNCHANGED <<methods, holds, tokens, auths>>

\* api_hold_capture: an amount of 0 is no amount, and asks for all of it.
BeginCapture(t, h, amount) ==
    /\ holds[h].status = "authorized"
    /\ amount <= holds[h].amount
    /\ Begin(t, [op |-> "capture", hold |-> h,
                 amount |-> IF amount = 0 THEN holds[h].amount ELSE amount])
    /\ UNCHANGED <<methods, holds, tokens, auths>>

\* The answer of the provider is lost: the request fails.
Answer(t, op) ==
    \/ Continue(t, [threads[t] EXCEPT !.op = op])
    \/ Finish(t)

\* The provider captures what it holds, once.  It may allow more than it holds
\* (PayPal does).
CallCapture(t) ==
    /\ Doing(t, "capture")
    /\ auths[threads[t].hold].state = "held"
    /\ auths' = [auths EXCEPT ![threads[t].hold].state = "captured",
                              ![threads[t].hold].taken = threads[t].amount]
    /\ Answer(t, "write_captured")
    /\ UNCHANGED <<methods, holds, tokens>>

CommitCapture(t) ==
    /\ Doing(t, "write_captured") /\ Unlocked
    /\ holds' = [holds EXCEPT ![threads[t].hold].status = "captured",
                              ![threads[t].hold].captured_amount = threads[t].amount]
    /\ Finish(t)
    /\ UNCHANGED <<methods, tokens, auths>>

BeginRelease(t, h) ==
    /\ holds[h].status = "authorized"
    /\ Begin(t, [op |-> "release", hold |-> h])
    /\ UNCHANGED <<methods, holds, tokens, auths>>

\* Mutant of CallRelease: an error of the provider is passed over, as in remove.
CallReleaseAnyway(t) ==
    /\ Doing(t, "release")
    /\ auths' = [auths EXCEPT ![threads[t].hold].state =
                                IF @ = "held" THEN "void" ELSE @]
    /\ Continue(t, [threads[t] EXCEPT !.op = "write_released"])
    /\ UNCHANGED <<methods, holds, tokens>>

CallRelease(t) ==
    /\ Doing(t, "release")
    /\ auths[threads[t].hold].state = "held"
    /\ auths' = [auths EXCEPT ![threads[t].hold].state = "void"]
    /\ Answer(t, "write_released")
    /\ UNCHANGED <<methods, holds, tokens>>

\* Mutant of CommitRelease: the status is misspelt.
CommitReleaseMisspelt(t) ==
    /\ Doing(t, "write_released") /\ Unlocked
    /\ holds' = [holds EXCEPT ![threads[t].hold].status = "void"]
    /\ Finish(t)
    /\ UNCHANGED <<methods, tokens, auths>>

CommitRelease(t) ==
    /\ Doing(t, "write_released") /\ Unlocked
    /\ holds' = [holds EXCEPT ![threads[t].hold].status = "released"]
    /\ Finish(t)
    /\ UNCHANGED <<methods, tokens, auths>>

\* The provider gives up an authorization nobody captured in time.  The row is not
\* told: expires_at is not looked at again.
ProviderExpires(h) ==
    /\ auths[h].state = "held"
    /\ auths' = [auths EXCEPT ![h].state = "void"]
    /\ UNCHANGED <<methods, holds, tokens, threads>>

-----------------------------------------------------------------------------

WalletNext ==
    \/ \E x \in Token : SaveAtProvider(x)
    \/ \E m \in Method, x \in Token : CompleteSetup(m, x)
    \/ \E t \in Thread, m \in Method : BeginRemove(t, m)
    \/ \E t \in Thread : CallRemove(t) \/ CommitRemove(t)

HoldsNext ==
    \/ \E t \in Thread, m \in Method, amount \in 0..MaxAmount : BeginPlace(t, m, amount)
    \/ \E t \in Thread, h \in Hold, status \in {"authorized", "failed"} :
         CallAuthorize(t, h, status)
    \/ \E t \in Thread, h \in Hold, amount \in 0..MaxAmount : BeginCapture(t, h, amount)
    \/ \E t \in Thread, h \in Hold : BeginRelease(t, h)
    \/ \E t \in Thread :
         \/ CommitPlace(t)
         \/ CallCapture(t) \/ CommitCapture(t)
         \/ CallRelease(t) \/ CommitRelease(t)

EnvironmentNext ==
    \/ \E t \in Thread : RequestFails(t)
    \/ \E h \in Hold : ProviderExpires(h)
    \/ Restart

Next == WalletNext \/ HoldsNext \/ EnvironmentNext

Spec == Init /\ [][Next]_vars

-----------------------------------------------------------------------------
(* Safety *)

\* What a row says of the money is so, although captures, releases and the
\* provider's own clock overlap and answers are lost: a captured hold was captured,
\* for the amount in the row, a released hold takes nothing any more, and the
\* provider knows of every authorized one.
RowsTellTruth ==
    \A h \in Hold :
        /\ holds[h].status = "captured" =>
             auths[h].state = "captured" /\ auths[h].taken = holds[h].captured_amount
        /\ holds[h].status = "released" => auths[h].state = "void"
        /\ holds[h].status = "authorized" => auths[h].state # "none"

\* The provider is never asked to take more than the application was granted.
NeverMoreThanHeld ==
    \A h \in Hold : auths[h].state = "captured" => auths[h].taken <= auths[h].amount

\* What a request in flight relies on.  A row that is about to be inserted is not
\* there yet, and nobody else inserts it.
PlacedOK ==
    \A t \in Thread : Doing(t, "placed") =>
        LET h == threads[t].hold
            row == threads[t].row
        IN  /\ holds[h] = NoHold
            /\ row.status \in {"authorized", "failed"}
            /\ row.status = "authorized" => auths[h].state # "none"
            /\ auths[h].state # "none" => auths[h].amount = row.amount
            /\ \A u \in Thread : Doing(u, "placed") => u = t

\* A capture asks for no more than the hold.
CaptureOK ==
    \A t \in Thread : Doing(t, "capture") =>
        /\ holds[threads[t].hold].status \in {"authorized", "captured", "released"}
        /\ threads[t].amount <= holds[threads[t].hold].amount

\* A release has read a hold that was authorized.
ReleaseOK ==
    \A t \in Thread : Doing(t, "release") =>
        holds[threads[t].hold].status \in {"authorized", "captured", "released"}

Writing(t) == threads[t].op \in {"write_captured", "write_released"}

\* The outcome of a call is written by the request that made it, into a row that
\* is still authorized.
WritingOK ==
    \A t \in Thread : Writing(t) =>
        LET h == threads[t].hold
        IN  /\ holds[h].status = "authorized"
            /\ Doing(t, "write_captured") =>
                 auths[h].state = "captured" /\ auths[h].taken = threads[t].amount
            /\ Doing(t, "write_released") => auths[h].state = "void"
            /\ \A u \in Thread : Writing(u) /\ threads[u].hold = h => u = t

\* The method a request has read is there.
MethodOK ==
    \A t \in Thread : threads[t].op \in {"place", "remove", "write_removed"} =>
        methods[threads[t].method] # NoMethod

\* A row and the authorization it stands for are about the same amount.
SameAmount ==
    \A h \in Hold : holds[h] # NoHold /\ auths[h] # NoAuth => holds[h].amount = auths[h].amount

\* The inductive invariant behind the theorems of HoldsProofs.
IInv == /\ TypeOK /\ RowsTellTruth /\ NeverMoreThanHeld /\ SameAmount
        /\ PlacedOK /\ CaptureOK /\ ReleaseOK /\ WritingOK /\ MethodOK

\* A row that says how a hold ended never says anything else later.
SettledOnce ==
    [][\A h \in Hold : holds[h].status \in {"captured", "released", "failed"} =>
                       holds'[h] = holds[h]]_vars

\* Once a method is removed, and the requests that read it before are over, no
\* hold is placed on it any more, and it stays so.
Retired ==
    {m \in Method :
        /\ methods[m].status = "removed"
        /\ \A t \in Thread :
             /\ threads[t].op = "place" => threads[t].method # m
             /\ threads[t].op = "placed" => threads[t].row.method # m}

RemovedNotCharged ==
    [][/\ Retired \subseteq Retired'
       /\ \A h \in Hold : holds[h] = NoHold /\ holds'[h] # NoHold =>
                          holds'[h].method \notin Retired]_vars

-----------------------------------------------------------------------------
(* What the code says and does not do *)

\* tg11/payments.py:364: "This method has an active hold; it can be removed once
\* the hold is captured or released."
NoHoldOnRemoved == \A m \in Method : methods[m].status = "removed" => ~OpenHold(m)
=============================================================================
