-------------------------------- MODULE MFA --------------------------------
(***************************************************************************)
(* The second factors of one account: an authenticator app, its one-time   *)
(* codes, and recovery codes (tg11/mfa.py and its handlers in tg11/web.py).*)
(* Accounts share nothing here, so one is enough.                          *)
(* The failures of an account are a number here, and each function on them *)
(* (attempts_left, _record_attempt, clear_attempts) is one step.           *)
(*                                                                         *)
(* All handlers are plain `def`: they overlap on the thread pool.  An      *)
(* action named after a handler takes what it reads; the matching          *)
(* Commit... writes to the rows as they are then.  A deleted row makes an  *)
(* UPDATE of it fail, and the request is rolled back, but a second DELETE  *)
(* of it only logs a warning.                                              *)
(***************************************************************************)
EXTENDS Integers, FiniteSets

CONSTANTS
    MaxDevice,      \* bound on device rows ever inserted
    MaxStep,        \* bound on the clock, in steps of PERIOD seconds
    Recovery,       \* identifiers of recovery codes
    RecoveryCodes,  \* how many are issued at a time
    MaxAttempts,    \* wrong codes allowed per window
    Session,        \* identifiers of login sessions
    Thread          \* worker threads: requests in flight

ASSUME MFAAssumption ==
    /\ MaxDevice \in Nat /\ MaxStep \in Nat
    /\ RecoveryCodes \in Nat /\ MaxAttempts \in Nat

VARIABLES
    devices,    \* totp_devices, in the order they were inserted
    recovery,   \* recovery_codes
    attempts,   \* _attempts: failures remembered, in memory
    sessions,   \* user_sessions: the proof each one rests on (amr)
    pending,    \* somebody holds a cookie that proves the password
    now,        \* the clock
    threads     \* what each request in flight has read

vars == <<devices, recovery, attempts, sessions, pending, now, threads>>

-----------------------------------------------------------------------------

Device == 1..MaxDevice

\* The row of a device.  A step of 0 is "no code used yet": real steps are far
\* from 0, so that codes of step 0 are left out.
NoDevice == [status |-> "none", last |-> 0]
DeviceRow == [status: {"none", "unconfirmed", "confirmed", "deleted"}, last: Nat]

\* What is proved: the password alone, or a second factor with it.  A one-time
\* code is the device and the step it belongs to.
NoSession == [method |-> "none"]
Password  == [method |-> "pwd"]
OneTime   == [method: {"otp"}, device: Device, step: Nat]
Backup    == [method: {"recovery"}, code: Recovery]
Proof     == OneTime \cup Backup

Idle == [op |-> "idle"]

Job ==
         {Idle}
    \cup [op: {"login", "guess"}]
    \cup [op: {"verify"}, proof: Proof]
    \cup [op: {"provision"}, delete: SUBSET Device]
    \cup [op: {"confirm"}, proof: OneTime, codes: SUBSET Recovery,
          sessions: SUBSET Session]
    \cup [op: {"regenerate"}, codes: SUBSET Recovery]
    \cup [op: {"disable"}, devices: SUBSET Device, codes: SUBSET Recovery,
          sessions: SUBSET Session]

TypeOK ==
    /\ devices \in [Device -> DeviceRow]
    /\ recovery \in [Recovery -> {"none", "unused", "used", "deleted"}]
    /\ attempts \in Nat
    /\ sessions \in [Session -> {NoSession, Password} \cup Proof]
    /\ pending \in BOOLEAN
    /\ now \in Nat
    /\ threads \in [Thread -> Job]

Init ==
    /\ devices = [d \in Device |-> NoDevice]
    /\ recovery = [c \in Recovery |-> "none"]
    /\ attempts = 0
    /\ sessions = [s \in Session |-> NoSession]
    /\ pending = FALSE
    /\ now = 1
    /\ threads = [t \in Thread |-> Idle]

-----------------------------------------------------------------------------
(* Reading *)

Enrolled  == {d \in Device : devices[d].status \in {"unconfirmed", "confirmed"}}
Confirmed == {d \in Device : devices[d].status = "confirmed"}
Codes     == {c \in Recovery : recovery[c] \in {"unused", "used"}}

\* device_for: the query has no ORDER BY; SQLite returns the row that was
\* inserted first.
IsFirst(d, D) == d \in D /\ \A e \in D : d <= e

HasMFA == Confirmed # {}

\* Mutant of Fresh: a code may be used again in its own step.
FreshOrSame(p) == p.step >= devices[p.device].last

\* _verify_totp: a code of this step or of its neighbours, of a later step
\* than the last one accepted.
Fresh(p) == p.step > devices[p.device].last

Matches(p, d) ==
    /\ p \in OneTime
    /\ p.device = d
    /\ p.step \in (now - 1)..(now + 1)
    /\ Fresh(p)

\* verify: a one-time code of the confirmed device, or an unused recovery code.
Acceptable(p) ==
    \/ \E d \in Device : IsFirst(d, Confirmed) /\ Matches(p, d)
    \/ p \in Backup /\ recovery[p.code] = "unused"

Start(t, job) == /\ threads[t] = Idle
                 /\ threads' = [threads EXCEPT ![t] = job]
Finish(t)     == threads' = [threads EXCEPT ![t] = Idle]

SignedIn(s) == sessions[s] # NoSession

-----------------------------------------------------------------------------
(* Sign-in *)

\* POST /login with the right password: a session if there is no second
\* factor, a cookie for the second step if there is one.
Login(t) ==
    /\ ~HasMFA
    /\ Start(t, [op |-> "login"])
    /\ UNCHANGED <<devices, recovery, attempts, sessions, pending, now>>

LoginPending ==
    /\ HasMFA
    /\ pending' = TRUE
    /\ UNCHANGED <<devices, recovery, attempts, sessions, now, threads>>

CommitLogin(t, s) ==
    /\ threads[t].op = "login"
    /\ sessions[s] = NoSession
    /\ sessions' = [sessions EXCEPT ![s] = Password]
    /\ Finish(t)
    /\ UNCHANGED <<devices, recovery, attempts, pending, now>>

\* A code is looked at only while the failures remembered allow it, and
\* accepting one forgets them, before anything is committed.
Attempt == attempts < MaxAttempts /\ attempts' = 0

\* POST /login/mfa
Verify(t, p) ==
    /\ pending
    /\ Attempt
    /\ Acceptable(p)
    /\ Start(t, [op |-> "verify", proof |-> p])
    /\ UNCHANGED <<devices, recovery, sessions, pending, now>>

\* The accepted code is recorded in the row it was read from.
Spend(p) ==
    \/ /\ p.method = "otp"
       /\ p.device \in Enrolled
       /\ devices' = [devices EXCEPT ![p.device].last = p.step]
       /\ UNCHANGED recovery
    \/ /\ p.method = "recovery"
       /\ p.code \in Codes
       /\ recovery' = [recovery EXCEPT ![p.code] = "used"]
       /\ UNCHANGED devices

CommitVerify(t, s) ==
    /\ threads[t].op = "verify"
    /\ Spend(threads[t].proof)
    /\ sessions[s] = NoSession
    /\ sessions' = [sessions EXCEPT ![s] = threads[t].proof]
    /\ Finish(t)
    /\ UNCHANGED <<attempts, pending, now>>

\* A wrong code, at POST /login/mfa or in the settings: the failure is
\* remembered after the code was looked at.
Guess(t) ==
    /\ pending \/ \E s \in Session : SignedIn(s)
    /\ attempts < MaxAttempts
    /\ Start(t, [op |-> "guess"])
    /\ UNCHANGED <<devices, recovery, attempts, sessions, pending, now>>

RecordFailure(t) ==
    /\ threads[t].op = "guess"
    /\ attempts' = attempts + 1
    /\ Finish(t)
    /\ UNCHANGED <<devices, recovery, sessions, pending, now>>

-----------------------------------------------------------------------------
(* Settings: POST /account/security/... *)

\* Mutant of Provision: an enabled factor is not looked at.
ProvisionAnyway(t) ==
    /\ \E s \in Session : SignedIn(s)
    /\ Start(t, [op |-> "provision", delete |-> {d \in Device : IsFirst(d, Enrolled)}])
    /\ UNCHANGED <<devices, recovery, attempts, sessions, pending, now>>

\* enable: a new device, not confirmed, in place of the one that is not
\* confirmed yet.
Provision(t) ==
    /\ \E s \in Session : SignedIn(s)
    /\ ~HasMFA
    /\ Start(t, [op |-> "provision", delete |-> {d \in Device : IsFirst(d, Enrolled)}])
    /\ UNCHANGED <<devices, recovery, attempts, sessions, pending, now>>

Deleted(D) ==
    [d \in Device |-> IF d \in D /\ d \in Enrolled
                      THEN [devices[d] EXCEPT !.status = "deleted"] ELSE devices[d]]

CommitProvision(t, d) ==
    /\ threads[t].op = "provision"
    /\ IsFirst(d, {e \in Device : devices[e].status = "none"})
    /\ devices' = [Deleted(threads[t].delete) EXCEPT ![d].status = "unconfirmed"]
    /\ Finish(t)
    /\ UNCHANGED <<recovery, attempts, sessions, pending, now>>

\* Mutant of Confirm: any device that is not confirmed may be confirmed.
ConfirmAny(t, s, p) ==
    /\ SignedIn(s)
    /\ devices[p.device].status = "unconfirmed"
    /\ Attempt
    /\ Matches(p, p.device)
    /\ Start(t, [op |-> "confirm", proof |-> p, codes |-> Codes,
                 sessions |-> {x \in {s} : sessions[x].method # "otp"}])
    /\ UNCHANGED <<devices, recovery, sessions, pending, now>>

\* confirm: a code of the first device, which is not confirmed.  The session
\* will count as two-factor unless it does already.
Confirm(t, s, p) ==
    /\ SignedIn(s)
    /\ IsFirst(p.device, Enrolled)
    /\ devices[p.device].status = "unconfirmed"
    /\ Attempt
    /\ Matches(p, p.device)
    /\ Start(t, [op |-> "confirm", proof |-> p, codes |-> Codes,
                 sessions |-> {x \in {s} : sessions[x].method # "otp"}])
    /\ UNCHANGED <<devices, recovery, sessions, pending, now>>

\* regenerate_recovery_codes deletes the rows it has read and inserts new ones.
Reissued(old, new) ==
    [c \in Recovery |-> CASE c \in new -> "unused"
                          [] c \in old /\ c \in Codes -> "deleted"
                          [] OTHER -> recovery[c]]

Unissued(S) == /\ Cardinality(S) = RecoveryCodes
               /\ \A c \in S : recovery[c] = "none"

CommitConfirm(t, S) ==
    /\ threads[t].op = "confirm"
    /\ LET job == threads[t]
       IN  /\ job.proof.device \in Enrolled
           /\ devices' = [devices EXCEPT ![job.proof.device] =
                            [status |-> "confirmed", last |-> job.proof.step]]
           /\ Unissued(S)
           /\ recovery' = Reissued(job.codes, S)
           /\ sessions' = [s \in Session |-> IF s \in job.sessions
                                             THEN job.proof ELSE sessions[s]]
    /\ Finish(t)
    /\ UNCHANGED <<attempts, pending, now>>

\* recovery: new codes, for the password, whether or not there is a device.
Regenerate(t) ==
    /\ \E s \in Session : SignedIn(s)
    /\ Start(t, [op |-> "regenerate", codes |-> Codes])
    /\ UNCHANGED <<devices, recovery, attempts, sessions, pending, now>>

CommitRegenerate(t, S) ==
    /\ threads[t].op = "regenerate"
    /\ Unissued(S)
    /\ recovery' = Reissued(threads[t].codes, S)
    /\ Finish(t)
    /\ UNCHANGED <<devices, attempts, sessions, pending, now>>

\* disable: for the password, and a code if a factor is enabled.  The row that
\* the code would be recorded in is deleted with all others.
BeginDisable(t, s) ==
    /\ SignedIn(s)
    /\ attempts' = 0
    /\ Start(t, [op |-> "disable", devices |-> Enrolled, codes |-> Codes,
                 sessions |-> {x \in {s} : sessions[x] # Password}])
    /\ UNCHANGED <<devices, recovery, sessions, pending, now>>

DisableUnconfirmed(t, s) == ~HasMFA /\ BeginDisable(t, s)
Disable(t, s, p) ==
    HasMFA /\ attempts < MaxAttempts /\ Acceptable(p) /\ BeginDisable(t, s)

CommitDisable(t) ==
    /\ threads[t].op = "disable"
    /\ devices' = Deleted(threads[t].devices)
    /\ recovery' = Reissued(threads[t].codes, {})
    /\ sessions' = [s \in Session |-> IF s \in threads[t].sessions
                                      THEN Password ELSE sessions[s]]
    /\ Finish(t)
    /\ UNCHANGED <<attempts, pending, now>>

-----------------------------------------------------------------------------
(* Failures and time *)

\* A request fails and is rolled back, or meets a row that was deleted.
RequestFails(t) ==
    /\ threads[t] # Idle
    /\ Finish(t)
    /\ UNCHANGED <<devices, recovery, attempts, sessions, pending, now>>

\* The process restarts: the failures remembered are forgotten.
Restart ==
    /\ threads' = [t \in Thread |-> Idle]
    /\ attempts' = 0
    /\ UNCHANGED <<devices, recovery, sessions, pending, now>>

\* Mutant of Forget: a failure is forgotten again after the others were cleared.
ForgetAgain ==
    /\ attempts' = attempts - 1
    /\ UNCHANGED <<devices, recovery, sessions, pending, now, threads>>

\* A failure is forgotten ATTEMPT_WINDOW seconds later.
Forget ==
    /\ attempts > 0
    /\ attempts' = attempts - 1
    /\ UNCHANGED <<devices, recovery, sessions, pending, now, threads>>

PendingExpires ==
    /\ pending
    /\ pending' = FALSE
    /\ UNCHANGED <<devices, recovery, attempts, sessions, now, threads>>

Tick ==
    /\ now < MaxStep
    /\ now' = now + 1
    /\ UNCHANGED <<devices, recovery, attempts, sessions, pending, threads>>

-----------------------------------------------------------------------------

\* The codes somebody may enter: of any device, of any step in the window.
CurrentProof == [method: {"otp"}, device: Device, step: (now - 1)..(now + 1)] \cup Backup

SignInNext ==
    \/ LoginPending
    \/ \E t \in Thread : Login(t) \/ Guess(t) \/ RecordFailure(t)
    \/ \E t \in Thread, s \in Session : CommitLogin(t, s) \/ CommitVerify(t, s)
    \/ \E t \in Thread : \E p \in CurrentProof : Verify(t, p)

SettingsNext ==
    \/ \E t \in Thread : Provision(t) \/ Regenerate(t) \/ CommitDisable(t)
    \/ \E t \in Thread, d \in Device : CommitProvision(t, d)
    \/ \E t \in Thread, s \in Session :
         \/ \E p \in CurrentProof \ Backup : Confirm(t, s, p)
         \/ \E p \in CurrentProof : Disable(t, s, p)
         \/ DisableUnconfirmed(t, s)
    \/ \E t \in Thread, S \in SUBSET Recovery : CommitConfirm(t, S) \/ CommitRegenerate(t, S)

EnvironmentNext ==
    \/ \E t \in Thread : RequestFails(t)
    \/ Restart \/ Forget \/ PendingExpires \/ Tick

Next == SignInNext \/ SettingsNext \/ EnvironmentNext

Spec == Init /\ [][Next]_vars

-----------------------------------------------------------------------------
(* Safety *)

\* At most one device is confirmed at a time, although two may be waiting for
\* confirmation: only the first row is ever confirmed, and no row comes before
\* one that is there.
OneFactor == \A d, e \in Confirmed : d = e

\* Rows are inserted in order: no row comes before one that was read.
InOrder ==
    \A d, e \in Device :
        devices[d].status = "none" /\ d < e => devices[e].status = "none"

\* device_for returns the confirmed device, if there is one.
ConfirmedFirst == \A d \in Confirmed : IsFirst(d, Enrolled)

\* What a confirmation in flight has read as the first device is the first still,
\* or deleted.
ConfirmsFirst ==
    \A t \in Thread : threads[t].op = "confirm" =>
        LET d == threads[t].proof.device
        IN  /\ devices[d].status # "none"
            /\ d \in Enrolled => IsFirst(d, Enrolled)

\* The inductive invariant behind the theorems of MFAProofs.
IInv == TypeOK /\ InOrder /\ ConfirmedFirst /\ ConfirmsFirst

On == /\ HasMFA
      /\ \A t \in Thread : threads[t].op \notin {"login", "provision", "disable"}

\* Once a factor is enabled, and requests to sign in, enrol or disable that began before
\* (which may not know of it) are over, every session that starts rests on a second
\* factor, and the factor stays enabled until somebody disables it with a code that is
\* acceptable then.
FactorStaysOn ==
    [][On =>
         /\ On' \/ \E t \in Thread, s \in Session : \E p \in CurrentProof : Disable(t, s, p)
         /\ \A s \in Session : sessions'[s] # sessions[s] => sessions'[s] \in Proof]_vars

\* A code that cannot be used any more: its row is deleted, or records its use
\* (or a later one) and no request in flight accepted it, or an earlier one, before.
Spendings(d) == {threads[t].proof.step : t \in {u \in Thread :
                    /\ threads[u].op \in {"verify", "confirm"}
                    /\ threads[u].proof.method = "otp"
                    /\ threads[u].proof.device = d}}

ExhaustedOneTime(d, step) ==
    \/ devices[d].status = "deleted"
    \/ /\ devices[d].last >= step
       /\ \A n \in Spendings(d) : n > step

ExhaustedBackup(c) ==
    \/ recovery[c] = "deleted"
    \/ /\ recovery[c] = "used"
       /\ \A t \in Thread : threads[t].op = "verify" =>
                            threads[t].proof # [method |-> "recovery", code |-> c]

\* A code that was used up, or replaced by new ones, signs nobody in any more,
\* not even a request that accepted it before it was replaced.
SpentStaysSpent ==
    [][/\ \A d \in Device, step \in 0..(MaxStep + 1) : ExhaustedOneTime(d, step) =>
            /\ ExhaustedOneTime(d, step)'
            /\ \A s \in Session : sessions'[s] # sessions[s] =>
                 sessions'[s] # [method |-> "otp", device |-> d, step |-> step]
       /\ \A c \in Recovery : ExhaustedBackup(c) =>
            /\ ExhaustedBackup(c)'
            /\ \A s \in Session : sessions'[s] # sessions[s] =>
                 sessions'[s] # [method |-> "recovery", code |-> c]]_vars
=============================================================================
