------------------------------ MODULE MFAProofs ------------------------------
(***************************************************************************)
(* Theorems about MFA, for every number of devices, codes, sessions and    *)
(* overlapping requests.                                                   *)
(***************************************************************************)
EXTENDS MFA, TLAPS

-----------------------------------------------------------------------------
(* Type correctness *)

LEMMA JobKinds ==
    ASSUME NEW job \in Job
    PROVE  /\ job.op = "verify" => job.proof \in Proof
           /\ job.op = "provision" => job.delete \subseteq Device
           /\ job.op = "confirm" =>
                /\ job.proof \in OneTime /\ job.codes \subseteq Recovery
                /\ job.sessions \subseteq Session
           /\ job.op = "regenerate" => job.codes \subseteq Recovery
           /\ job.op = "disable" =>
                /\ job.devices \subseteq Device /\ job.codes \subseteq Recovery
                /\ job.sessions \subseteq Session
BY DEF Job, Idle

LEMMA ProofKinds ==
    ASSUME NEW p \in Proof
    PROVE  /\ p.method = "otp" => p \in OneTime /\ p.device \in Device /\ p.step \in Nat
           /\ p.method = "recovery" => p \in Backup /\ p.code \in Recovery
           /\ p # NoSession /\ p # Password
BY DEF Proof, OneTime, Backup, NoSession, Password

LEMMA DeletedType ==
    ASSUME TypeOK, NEW D
    PROVE  Deleted(D) \in [Device -> DeviceRow]
BY DEF Deleted, TypeOK, DeviceRow

LEMMA ReissuedType ==
    ASSUME TypeOK, NEW old, NEW new
    PROVE  Reissued(old, new) \in [Recovery -> {"none", "unused", "used", "deleted"}]
BY DEF Reissued, TypeOK, Codes

LEMMA IdleJob == Idle \in Job
BY DEF Job

LEMMA TypeInit == Init => TypeOK
<1> SUFFICES ASSUME Init PROVE TypeOK
  OBVIOUS
<1>1. devices \in [Device -> DeviceRow]
  BY DEF Init, NoDevice, DeviceRow
<1>2. threads \in [Thread -> Job]
  BY IdleJob DEF Init
<1>3. sessions \in [Session -> {NoSession, Password} \cup Proof]
  BY DEF Init
<1>4. QED
  BY <1>1, <1>2, <1>3 DEF Init, TypeOK

\* Codes entered in the current window are codes.
LEMMA CurrentIsProof ==
    ASSUME TypeOK, NEW p \in CurrentProof, Acceptable(p) \/ Matches(p, p.device)
    PROVE  p \in Proof
BY DEF CurrentProof, Proof, Acceptable, Matches

LEMMA StartType ==
    ASSUME TypeOK, NEW t \in Thread, NEW job \in Job, Start(t, job)
    PROVE  threads' \in [Thread -> Job]
BY DEF Start, TypeOK

LEMMA FinishType ==
    ASSUME TypeOK, NEW t \in Thread, Finish(t)
    PROVE  threads' \in [Thread -> Job]
BY IdleJob DEF Finish, TypeOK

LEMMA TypeSignIn == TypeOK /\ SignInNext => TypeOK'
<1> SUFFICES ASSUME TypeOK, SignInNext PROVE TypeOK'
  OBVIOUS
<1>1. CASE LoginPending
  BY <1>1 DEF LoginPending, TypeOK
<1>2. ASSUME NEW t \in Thread, Login(t) PROVE TypeOK'
  BY <1>2, StartType DEF Login, TypeOK, Job
<1>3. ASSUME NEW t \in Thread, Guess(t) PROVE TypeOK'
  BY <1>3, StartType DEF Guess, TypeOK, Job
<1>4. ASSUME NEW t \in Thread, RecordFailure(t) PROVE TypeOK'
  BY <1>4, FinishType DEF RecordFailure, TypeOK
<1>5. ASSUME NEW t \in Thread, NEW s \in Session, CommitLogin(t, s) PROVE TypeOK'
  BY <1>5, FinishType DEF CommitLogin, TypeOK
<1>6. ASSUME NEW t \in Thread, NEW s \in Session, CommitVerify(t, s) PROVE TypeOK'
  <2>1. threads[t].proof \in Proof
    BY <1>6, JobKinds DEF CommitVerify, TypeOK
  <2>2. devices' \in [Device -> DeviceRow]
    BY <1>6, <2>1, ProofKinds DEF CommitVerify, Spend, TypeOK, DeviceRow
  <2>3. recovery' \in [Recovery -> {"none", "unused", "used", "deleted"}]
    BY <1>6, <2>1, ProofKinds DEF CommitVerify, Spend, TypeOK
  <2>4. QED
    BY <1>6, <2>1, <2>2, <2>3, FinishType DEF CommitVerify, TypeOK
<1>7. ASSUME NEW t \in Thread, NEW p \in CurrentProof, Verify(t, p) PROVE TypeOK'
  <2>1. [op |-> "verify", proof |-> p] \in Job
    BY <1>7, CurrentIsProof DEF Verify, Job
  <2>2. QED
    BY <1>7, <2>1, StartType DEF Verify, Attempt, TypeOK
<1>8. QED
  BY <1>1, <1>2, <1>3, <1>4, <1>5, <1>6, <1>7 DEF SignInNext

LEMMA TypeSettings == TypeOK /\ SettingsNext => TypeOK'
<1> SUFFICES ASSUME TypeOK, SettingsNext PROVE TypeOK'
  OBVIOUS
<1>1. ASSUME NEW t \in Thread, Provision(t) PROVE TypeOK'
  <2>1. [op |-> "provision", delete |-> {d \in Device : IsFirst(d, Enrolled)}] \in Job
    BY DEF Job
  <2>2. QED
    BY <1>1, <2>1, StartType DEF Provision, TypeOK
<1>2. ASSUME NEW t \in Thread, NEW d \in Device, CommitProvision(t, d) PROVE TypeOK'
  <2>1. devices' \in [Device -> DeviceRow]
    BY <1>2, DeletedType DEF CommitProvision, DeviceRow
  <2>2. QED
    BY <1>2, <2>1, FinishType DEF CommitProvision, TypeOK
<1>3. ASSUME NEW t \in Thread, NEW s \in Session, NEW p \in CurrentProof, Confirm(t, s, p)
      PROVE  TypeOK'
  <2>1. p \in OneTime
    BY <1>3 DEF Confirm, Matches
  <2>2. [op |-> "confirm", proof |-> p, codes |-> Codes,
         sessions |-> {x \in {s} : sessions[x].method # "otp"}] \in Job
    BY <2>1 DEF Job, Codes
  <2>3. QED
    BY <1>3, <2>2, StartType DEF Confirm, Attempt, TypeOK
<1>4. ASSUME NEW t \in Thread, NEW S \in SUBSET Recovery, CommitConfirm(t, S) PROVE TypeOK'
  <2>1. threads[t].proof \in OneTime /\ threads[t].proof \in Proof
    BY <1>4, JobKinds DEF CommitConfirm, TypeOK, Proof
  <2>2. devices' \in [Device -> DeviceRow]
    BY <1>4, <2>1 DEF CommitConfirm, TypeOK, DeviceRow, OneTime
  <2>3. sessions' \in [Session -> {NoSession, Password} \cup Proof]
    BY <1>4, <2>1 DEF CommitConfirm, TypeOK
  <2>4. QED
    BY <1>4, <2>2, <2>3, ReissuedType, FinishType DEF CommitConfirm, TypeOK
<1>5. ASSUME NEW t \in Thread, Regenerate(t) PROVE TypeOK'
  <2>1. [op |-> "regenerate", codes |-> Codes] \in Job
    BY DEF Job, Codes
  <2>2. QED
    BY <1>5, <2>1, StartType DEF Regenerate, TypeOK
<1>6. ASSUME NEW t \in Thread, NEW S \in SUBSET Recovery, CommitRegenerate(t, S)
      PROVE  TypeOK'
  BY <1>6, ReissuedType, FinishType DEF CommitRegenerate, TypeOK
<1>7. ASSUME NEW t \in Thread, NEW s \in Session, BeginDisable(t, s) PROVE TypeOK'
  <2>1. [op |-> "disable", devices |-> Enrolled, codes |-> Codes,
         sessions |-> {x \in {s} : sessions[x] # Password}] \in Job
    BY DEF Job, Codes, Enrolled
  <2>2. QED
    BY <1>7, <2>1, StartType DEF BeginDisable, TypeOK
<1>8. ASSUME NEW t \in Thread, CommitDisable(t) PROVE TypeOK'
  <2>1. sessions' \in [Session -> {NoSession, Password} \cup Proof]
    BY <1>8 DEF CommitDisable, TypeOK
  <2>2. QED
    BY <1>8, <2>1, DeletedType, ReissuedType, FinishType DEF CommitDisable, TypeOK
<1>9. QED
  BY <1>1, <1>2, <1>3, <1>4, <1>5, <1>6, <1>7, <1>8
  DEF SettingsNext, Disable, DisableUnconfirmed

LEMMA TypeEnvironment == TypeOK /\ EnvironmentNext => TypeOK'
<1> SUFFICES ASSUME TypeOK, EnvironmentNext PROVE TypeOK'
  OBVIOUS
<1>1. ASSUME NEW t \in Thread, RequestFails(t) PROVE TypeOK'
  BY <1>1, FinishType DEF RequestFails, TypeOK
<1>2. CASE Restart
  BY <1>2, IdleJob DEF Restart, TypeOK
<1>3. CASE Forget
  BY <1>3 DEF Forget, TypeOK
<1>4. CASE PendingExpires
  BY <1>4 DEF PendingExpires, TypeOK
<1>5. CASE Tick
  BY <1>5 DEF Tick, TypeOK
<1>6. QED
  BY <1>1, <1>2, <1>3, <1>4, <1>5 DEF EnvironmentNext

LEMMA StepTypeOK == ASSUME TypeOK, [Next]_vars PROVE TypeOK'
<1>1. CASE Next
  BY <1>1, TypeSignIn, TypeSettings, TypeEnvironment DEF Next
<1>2. CASE UNCHANGED vars
  BY <1>2 DEF vars, TypeOK
<1>3. QED
  BY <1>1, <1>2

-----------------------------------------------------------------------------
(* How a device can change *)

Blank == {d \in Device : devices[d].status = "none"}

\* One step keeps the status of a device, deletes it, inserts it as the next row,
\* or confirms it for a request that accepted its code.
StatusChange(d) ==
    \/ devices'[d].status = devices[d].status
    \/ d \in Enrolled /\ devices'[d].status = "deleted"
    \/ IsFirst(d, Blank) /\ devices'[d].status = "unconfirmed"
    \/ /\ d \in Enrolled /\ devices'[d].status = "confirmed"
       /\ \E t \in Thread : threads[t].op = "confirm" /\ threads[t].proof.device = d

LEMMA DeletedStatus ==
    ASSUME TypeOK, NEW D, NEW d \in Device
    PROVE  /\ Deleted(D)[d].last = devices[d].last
           /\ \/ Deleted(D)[d] = devices[d]
              \/ d \in D /\ d \in Enrolled /\ Deleted(D)[d].status = "deleted"
BY DEF Deleted, TypeOK, DeviceRow

LEMMA DevicesChange == ASSUME TypeOK, [Next]_vars, NEW d \in Device PROVE StatusChange(d)
<1> USE DEF StatusChange
<1>1. CASE UNCHANGED devices
  BY <1>1
<1>2. ASSUME NEW t \in Thread, NEW s \in Session, CommitVerify(t, s) PROVE StatusChange(d)
  BY <1>2 DEF CommitVerify, Spend, TypeOK, DeviceRow
<1>3. ASSUME NEW t \in Thread, NEW e \in Device, CommitProvision(t, e)
      PROVE  StatusChange(d)
  <2>1. CASE d = e
    <3>1. devices'[d].status = "unconfirmed"
      BY <1>3, <2>1, DeletedType DEF CommitProvision, DeviceRow
    <3>2. QED
      BY <1>3, <2>1, <3>1 DEF CommitProvision, Blank
  <2>2. CASE d # e
    BY <1>3, <2>2, DeletedType, DeletedStatus DEF CommitProvision
  <2>3. QED
    BY <2>1, <2>2
<1>4. ASSUME NEW t \in Thread, NEW S \in SUBSET Recovery, CommitConfirm(t, S)
      PROVE  StatusChange(d)
  BY <1>4 DEF CommitConfirm, TypeOK, DeviceRow
<1>5. ASSUME NEW t \in Thread, CommitDisable(t) PROVE StatusChange(d)
  BY <1>5, DeletedStatus DEF CommitDisable
<1>6. QED
  BY <1>1, <1>2, <1>3, <1>4, <1>5
  DEF Next, vars, SignInNext, SettingsNext, EnvironmentNext, LoginPending, Login, Guess,
      RecordFailure, CommitLogin, Verify, Provision, Regenerate, Confirm, Disable,
      DisableUnconfirmed, BeginDisable, CommitRegenerate, RequestFails, Restart, Forget,
      PendingExpires, Tick

\* A row that is there stays there, and if it was the first one it stays the first.
LEMMA FirstKept ==
    ASSUME TypeOK, InOrder, [Next]_vars, NEW d \in Device,
           devices[d].status # "none", d \in Enrolled => IsFirst(d, Enrolled)
    PROVE  /\ devices'[d].status # "none"
           /\ d \in Enrolled' => IsFirst(d, Enrolled)'
<1>1. devices'[d].status # "none" /\ (d \in Enrolled' => d \in Enrolled)
  BY DevicesChange DEF StatusChange, IsFirst, Blank, Enrolled
<1>2. ASSUME d \in Enrolled', NEW e \in Enrolled' PROVE d <= e
  <2>1. e \in Enrolled \/ devices[e].status = "none"
    BY <1>2, DevicesChange DEF StatusChange, IsFirst, Blank, Enrolled
  <2>2. CASE e \in Enrolled
    BY <1>1, <1>2, <2>2 DEF IsFirst
  <2>3. CASE devices[e].status = "none"
    BY <1>2, <2>3 DEF InOrder, Device, Enrolled
  <2>4. QED
    BY <2>1, <2>2, <2>3
<1>3. QED
  BY <1>1, <1>2 DEF IsFirst

-----------------------------------------------------------------------------
(* The inductive invariant *)

LEMMA StepInOrder == ASSUME TypeOK, InOrder, [Next]_vars PROVE InOrder'
<1> SUFFICES ASSUME NEW d \in Device, NEW e \in Device, d < e, devices'[d].status = "none"
             PROVE  devices'[e].status = "none"
  BY DEF InOrder
<1>1. devices[d].status = "none"
  BY DevicesChange DEF StatusChange
<1>2. devices[e].status = "none"
  BY <1>1 DEF InOrder
<1>3. ~IsFirst(e, Blank)
  BY <1>1 DEF IsFirst, Blank, Device
<1>4. QED
  BY <1>2, <1>3, DevicesChange DEF StatusChange, Enrolled

LEMMA StepConfirmedFirst ==
    ASSUME TypeOK, InOrder, ConfirmedFirst, ConfirmsFirst, [Next]_vars
    PROVE  ConfirmedFirst'
<1> SUFFICES ASSUME NEW d \in Confirmed' PROVE IsFirst(d, Enrolled)'
  BY DEF ConfirmedFirst
<1>1. d \in Device /\ d \in Enrolled'
  BY DEF Confirmed, Enrolled
<1>2. d \in Enrolled /\ IsFirst(d, Enrolled)
  <2>1. CASE d \in Confirmed
    BY <2>1 DEF ConfirmedFirst, Confirmed, Enrolled
  <2>2. CASE d \notin Confirmed
    <3>1. d \in Enrolled /\ \E t \in Thread : threads[t].op = "confirm"
                                              /\ threads[t].proof.device = d
      BY <1>1, <2>2, DevicesChange DEF StatusChange, Confirmed
    <3>2. QED
      BY <3>1 DEF ConfirmsFirst
  <2>3. QED
    BY <2>1, <2>2
<1>3. QED
  BY <1>1, <1>2, FirstKept DEF Enrolled

\* A confirmation in flight was in flight before, or begins in this step.
LEMMA ConfirmsOnlyBy ==
    ASSUME TypeOK, [Next]_vars, NEW t \in Thread, threads'[t].op = "confirm"
    PROVE  \/ threads'[t] = threads[t]
           \/ \E s \in Session : \E p \in CurrentProof \ Backup :
                Confirm(t, s, p) /\ threads'[t].proof = p
<1>1. CASE UNCHANGED threads
  BY <1>1
<1>2. ASSUME NEW u \in Thread, Finish(u) PROVE threads'[t] = threads[t]
  BY <1>2 DEF Finish, TypeOK, Idle
<1>3. ASSUME NEW u \in Thread, NEW job, job.op # "confirm", Start(u, job)
      PROVE  threads'[t] = threads[t]
  BY <1>3 DEF Start, TypeOK
<1>4. ASSUME NEW u \in Thread, NEW s \in Session, NEW p \in CurrentProof \ Backup,
             Confirm(u, s, p)
      PROVE  threads'[t] = threads[t] \/ (u = t /\ threads'[t].proof = p)
  BY <1>4 DEF Confirm, Start, TypeOK
<1>5. ~Restart
  BY DEF Restart, Idle
<1>6. CASE SignInNext
  BY <1>1, <1>2, <1>3, <1>6
  DEF SignInNext, LoginPending, Login, Guess, RecordFailure, CommitLogin, CommitVerify, Verify
<1>7. CASE SettingsNext
  BY <1>1, <1>2, <1>3, <1>4, <1>7
  DEF SettingsNext, Provision, Regenerate, CommitDisable, CommitProvision, Disable,
      DisableUnconfirmed, BeginDisable, CommitConfirm, CommitRegenerate
<1>8. CASE EnvironmentNext
  BY <1>1, <1>2, <1>5, <1>8 DEF EnvironmentNext, RequestFails, Forget, PendingExpires, Tick
<1>9. QED
  BY <1>1, <1>6, <1>7, <1>8 DEF Next, vars

LEMMA StepConfirmsFirst ==
    ASSUME TypeOK, InOrder, ConfirmsFirst, [Next]_vars PROVE ConfirmsFirst'
<1> SUFFICES ASSUME NEW t \in Thread, threads'[t].op = "confirm"
             PROVE  /\ devices'[threads'[t].proof.device].status # "none"
                    /\ threads'[t].proof.device \in Enrolled' =>
                         IsFirst(threads'[t].proof.device, Enrolled')
  BY DEF ConfirmsFirst, IsFirst
<1> DEFINE d == threads'[t].proof.device
<1>1. d \in Device
  BY StepTypeOK, JobKinds DEF TypeOK, OneTime
<1>2. devices[d].status # "none" /\ (d \in Enrolled => IsFirst(d, Enrolled))
  <2>1. CASE threads'[t] = threads[t]
    BY <2>1 DEF ConfirmsFirst
  <2>2. ASSUME NEW s \in Session, NEW p \in CurrentProof \ Backup, Confirm(t, s, p),
               threads'[t].proof = p
        PROVE  devices[d].status # "none" /\ (d \in Enrolled => IsFirst(d, Enrolled))
    BY <2>2 DEF Confirm
  <2>3. QED
    BY <2>1, <2>2, ConfirmsOnlyBy
<1>3. QED
  BY <1>1, <1>2, FirstKept DEF IsFirst

\* The invariant holds in every state MFA can reach: rows are inserted in order,
\* and a device that is confirmed, or about to be, is the first one there is
\* (tg11/mfa.py provision, confirm, device_for).
THEOREM FactorInvariance == Spec => []IInv
<1>1. Init => IInv
  BY TypeInit DEF Init, IInv, InOrder, ConfirmedFirst, ConfirmsFirst, Confirmed, NoDevice, Idle
<1>2. IInv /\ [Next]_vars => IInv'
  BY StepTypeOK, StepInOrder, StepConfirmedFirst, StepConfirmsFirst DEF IInv
<1>3. QED
  BY <1>1, <1>2, PTL DEF Spec

\* The tables, the sessions and what requests have read stay within their types.
THEOREM FactorTypeCorrect == Spec => []TypeOK
<1>1. IInv => TypeOK
  BY DEF IInv
<1>2. QED
  BY <1>1, FactorInvariance, PTL

\* Two overlapping requests to enable a factor may leave two devices waiting for
\* confirmation, but whatever the requests that follow, two are never confirmed.
THEOREM OneFactorEver == Spec => []OneFactor
<1>1. IInv => OneFactor
  <2> SUFFICES ASSUME IInv, NEW d \in Confirmed, NEW e \in Confirmed PROVE d = e
    BY DEF OneFactor
  <2>1. d <= e /\ e <= d
    BY DEF IInv, ConfirmedFirst, IsFirst, Confirmed, Enrolled
  <2>2. QED
    BY <2>1 DEF Confirmed, Device
<1>2. QED
  BY <1>1, FactorInvariance, PTL

-----------------------------------------------------------------------------
(* A factor that is enabled *)

Unaware(op) == op \in {"login", "provision", "disable"}

\* While a factor is enabled, only a request to disable it that is accepted puts
\* a request in flight that does not know of the factor.
LEMMA UnawareOnlyBy ==
    ASSUME TypeOK, On, [Next]_vars, NEW t \in Thread, Unaware(threads'[t].op)
    PROVE  \E u \in Thread, s \in Session : \E p \in CurrentProof : Disable(u, s, p)
<1> USE DEF Unaware
<1>1. ~Unaware(threads[t].op) /\ HasMFA
  BY DEF On
<1>2. threads'[t] # threads[t]
  BY <1>1
<1>3. ASSUME NEW u \in Thread, Finish(u) PROVE FALSE
  BY <1>2, <1>3 DEF Finish, TypeOK, Idle
<1>4. ASSUME NEW u \in Thread, NEW job, ~Unaware(job.op), Start(u, job) PROVE FALSE
  BY <1>1, <1>4 DEF Start, TypeOK
<1>5. ~Restart
  BY DEF Restart, Idle
<1>6. ~SignInNext
  BY <1>1, <1>2, <1>3, <1>4
  DEF SignInNext, LoginPending, Login, Guess, RecordFailure, CommitLogin, CommitVerify, Verify
<1>7. ~EnvironmentNext
  BY <1>2, <1>3, <1>5 DEF EnvironmentNext, RequestFails, Forget, PendingExpires, Tick
<1>8. CASE SettingsNext
  BY <1>1, <1>3, <1>4, <1>8
  DEF SettingsNext, Provision, Regenerate, CommitDisable, CommitProvision,
      DisableUnconfirmed, Confirm, CommitConfirm, CommitRegenerate
<1>9. QED
  BY <1>2, <1>6, <1>7, <1>8 DEF Next, vars

LEMMA StaysConfirmed == ASSUME TypeOK, On, [Next]_vars PROVE HasMFA'
<1> PICK d \in Confirmed : TRUE
  BY DEF On, HasMFA
<1>1. d \in Device /\ devices[d].status = "confirmed"
  BY DEF Confirmed
<1>2. devices'[d].status = "confirmed"
  <2>1. CASE UNCHANGED devices
    BY <1>1, <2>1
  <2>2. ASSUME NEW t \in Thread, NEW s \in Session, CommitVerify(t, s)
        PROVE  devices'[d].status = "confirmed"
    BY <1>1, <2>2 DEF CommitVerify, Spend, TypeOK, DeviceRow
  <2>3. ASSUME NEW t \in Thread, NEW S \in SUBSET Recovery, CommitConfirm(t, S)
        PROVE  devices'[d].status = "confirmed"
    BY <1>1, <2>3 DEF CommitConfirm, TypeOK, DeviceRow
  <2>4. ASSUME NEW t \in Thread, threads[t].op \in {"provision", "disable"} PROVE FALSE
    BY <2>4 DEF On
  <2>5. QED
    BY <2>1, <2>2, <2>3, <2>4
    DEF Next, vars, SignInNext, SettingsNext, EnvironmentNext, LoginPending, Login, Guess,
        RecordFailure, CommitLogin, Verify, Provision, CommitProvision, Regenerate, Confirm,
        Disable, DisableUnconfirmed, BeginDisable, CommitDisable, CommitRegenerate,
        RequestFails, Restart, Forget, PendingExpires, Tick
<1>3. QED
  BY <1>1, <1>2 DEF HasMFA, Confirmed

\* A session that starts, or changes what it rests on, does so in four ways.
LEMMA SessionsChange ==
    ASSUME TypeOK, [Next]_vars, NEW s \in Session, sessions'[s] # sessions[s]
    PROVE  \/ \E t \in Thread : threads[t].op \in {"login", "disable"} /\ sessions'[s] = Password
           \/ \E t \in Thread : CommitVerify(t, s) /\ sessions'[s] = threads[t].proof
           \/ \E t \in Thread, S \in SUBSET Recovery :
                CommitConfirm(t, S) /\ sessions'[s] = threads[t].proof
<1>1. ASSUME NEW t \in Thread, NEW x \in Session, CommitLogin(t, x)
      PROVE  threads[t].op = "login" /\ sessions'[s] = Password
  BY <1>1 DEF CommitLogin, TypeOK
<1>2. ASSUME NEW t \in Thread, NEW x \in Session, CommitVerify(t, x)
      PROVE  x = s /\ sessions'[s] = threads[t].proof
  BY <1>2 DEF CommitVerify, TypeOK
<1>3. ASSUME NEW t \in Thread, NEW S \in SUBSET Recovery, CommitConfirm(t, S)
      PROVE  sessions'[s] = threads[t].proof
  BY <1>3 DEF CommitConfirm
<1>4. ASSUME NEW t \in Thread, CommitDisable(t)
      PROVE  threads[t].op = "disable" /\ sessions'[s] = Password
  BY <1>4 DEF CommitDisable
<1>5. QED
  BY <1>1, <1>2, <1>3, <1>4
  DEF Next, vars, SignInNext, SettingsNext, EnvironmentNext, LoginPending, Login, Guess,
      RecordFailure, Verify, Provision, CommitProvision, Regenerate, Confirm, Disable,
      DisableUnconfirmed, BeginDisable, CommitRegenerate, RequestFails, Restart, Forget,
      PendingExpires, Tick

LEMMA SessionsRestOnProof ==
    ASSUME TypeOK, On, [Next]_vars, NEW s \in Session, sessions'[s] # sessions[s]
    PROVE  sessions'[s] \in Proof
<1>1. \A t \in Thread : threads[t].op \notin {"login", "disable"}
  BY DEF On
<1>2. ASSUME NEW t \in Thread, threads[t].op \in {"verify", "confirm"}
      PROVE  threads[t].proof \in Proof
  BY <1>2, JobKinds DEF TypeOK, Proof
<1>3. QED
  BY <1>1, <1>2, SessionsChange DEF CommitVerify, CommitConfirm

\* Once a factor is enabled, and the requests that did not know of it are over,
\* no step takes it away or lets a session start without a second factor, until a
\* request to disable it is accepted with a code.
THEOREM EnabledStaysEnabled == Spec => FactorStaysOn
<1>1. TypeOK /\ [Next]_vars =>
        [On => /\ On' \/ \E t \in Thread, s \in Session : \E p \in CurrentProof :
                           Disable(t, s, p)
               /\ \A s \in Session : sessions'[s] # sessions[s] => sessions'[s] \in Proof]_vars
  BY StaysConfirmed, UnawareOnlyBy, SessionsRestOnProof DEF On, Unaware
<1>2. QED
  BY <1>1, FactorTypeCorrect, PTL DEF Spec, FactorStaysOn

-----------------------------------------------------------------------------
(* Codes that are used up *)

\* A proof in flight was in flight before, or is accepted in this step.
LEMMA ProofsOnlyBy ==
    ASSUME TypeOK, [Next]_vars, NEW t \in Thread, threads'[t].op \in {"verify", "confirm"}
    PROVE  \/ threads'[t] = threads[t]
           \/ /\ UNCHANGED <<devices, recovery>>
              /\ threads'[t].op = "verify" /\ Acceptable(threads'[t].proof)
           \/ /\ UNCHANGED <<devices, recovery>>
              /\ threads'[t].op = "confirm"
              /\ Matches(threads'[t].proof, threads'[t].proof.device)
<1>1. ASSUME NEW u \in Thread, Finish(u) PROVE threads'[t] = threads[t]
  BY <1>1 DEF Finish, TypeOK, Idle
<1>2. ASSUME NEW u \in Thread, NEW job, job.op \notin {"verify", "confirm"}, Start(u, job)
      PROVE  threads'[t] = threads[t]
  BY <1>2 DEF Start, TypeOK
<1>3. ASSUME NEW u \in Thread, NEW job, Start(u, job)
      PROVE  threads'[t] = threads[t] \/ threads'[t] = job
  BY <1>3 DEF Start, TypeOK
<1>4. ASSUME NEW u \in Thread, NEW p \in CurrentProof, Verify(u, p)
      PROVE  \/ threads'[t] = threads[t]
             \/ /\ UNCHANGED <<devices, recovery>>
                /\ threads'[t].op = "verify" /\ Acceptable(threads'[t].proof)
  BY <1>3, <1>4 DEF Verify
<1>5. ASSUME NEW u \in Thread, NEW s \in Session, NEW p \in CurrentProof, Confirm(u, s, p)
      PROVE  \/ threads'[t] = threads[t]
             \/ /\ UNCHANGED <<devices, recovery>>
                /\ threads'[t].op = "confirm"
                /\ Matches(threads'[t].proof, threads'[t].proof.device)
  BY <1>3, <1>5 DEF Confirm
<1>6. ~Restart
  BY DEF Restart, Idle
<1>7. CASE SignInNext
  BY <1>1, <1>2, <1>4, <1>7
  DEF SignInNext, LoginPending, Login, Guess, RecordFailure, CommitLogin, CommitVerify
<1>8. CASE SettingsNext
  BY <1>1, <1>2, <1>5, <1>8
  DEF SettingsNext, Provision, Regenerate, CommitDisable, CommitProvision, Disable,
      DisableUnconfirmed, BeginDisable, CommitConfirm, CommitRegenerate
<1>9. CASE EnvironmentNext
  BY <1>1, <1>6, <1>9 DEF EnvironmentNext, RequestFails, Forget, PendingExpires, Tick
<1>10. QED
  BY <1>7, <1>8, <1>9 DEF Next, vars

\* The last step of a device changes only to one a request in flight has accepted.
LEMMA LastChanges ==
    ASSUME TypeOK, [Next]_vars, NEW d \in Device
    PROVE  \/ devices'[d].last = devices[d].last
           \/ d \in Enrolled /\ devices'[d].last \in Spendings(d)
<1>1. CASE UNCHANGED devices
  BY <1>1
<1>2. ASSUME NEW t \in Thread, NEW s \in Session, CommitVerify(t, s)
      PROVE  \/ devices'[d].last = devices[d].last
             \/ d \in Enrolled /\ devices'[d].last \in Spendings(d)
  <2>1. CASE UNCHANGED devices
    BY <2>1
  <2>2. CASE threads[t].proof.method = "otp" /\ threads[t].proof.device \in Enrolled
    BY <1>2, <2>2 DEF CommitVerify, Spend, Spendings, TypeOK, DeviceRow
  <2>3. QED
    BY <1>2, <2>1, <2>2 DEF CommitVerify, Spend
<1>3. ASSUME NEW t \in Thread, NEW S \in SUBSET Recovery, CommitConfirm(t, S)
      PROVE  \/ devices'[d].last = devices[d].last
             \/ d \in Enrolled /\ devices'[d].last \in Spendings(d)
  <2>1. threads[t].proof.method = "otp"
    BY <1>3, JobKinds DEF CommitConfirm, TypeOK, OneTime
  <2>2. QED
    BY <1>3, <2>1 DEF CommitConfirm, Spendings, TypeOK, DeviceRow
<1>4. ASSUME NEW t \in Thread, NEW e \in Device, CommitProvision(t, e)
      PROVE  devices'[d].last = devices[d].last
  BY <1>4, DeletedType, DeletedStatus DEF CommitProvision, DeviceRow
<1>5. ASSUME NEW t \in Thread, CommitDisable(t) PROVE devices'[d].last = devices[d].last
  BY <1>5, DeletedStatus DEF CommitDisable
<1>6. QED
  BY <1>1, <1>2, <1>3, <1>4, <1>5
  DEF Next, vars, SignInNext, SettingsNext, EnvironmentNext, LoginPending, Login, Guess,
      RecordFailure, CommitLogin, Verify, Provision, Regenerate, Confirm, Disable,
      DisableUnconfirmed, BeginDisable, CommitRegenerate, RequestFails, Restart, Forget,
      PendingExpires, Tick

LEMMA OneTimeStaysExhausted ==
    ASSUME TypeOK, [Next]_vars, NEW d \in Device, NEW step \in Nat,
           ExhaustedOneTime(d, step)
    PROVE  ExhaustedOneTime(d, step)'
<1>1. CASE devices[d].status = "deleted"
  BY <1>1, DevicesChange DEF StatusChange, Enrolled, IsFirst, Blank, ExhaustedOneTime
<1>2. CASE devices[d].last >= step /\ \A n \in Spendings(d) : n > step
  <2>1. devices'[d].last >= step
    <3>1. devices'[d].last \in Nat
      BY StepTypeOK DEF TypeOK, DeviceRow
    <3>2. QED
      BY <1>2, <3>1, LastChanges
  <2>2. ASSUME NEW t \in Thread, threads'[t].op \in {"verify", "confirm"},
               threads'[t].proof.method = "otp", threads'[t].proof.device = d
        PROVE  threads'[t].proof.step > step
    <3>1. CASE threads'[t] = threads[t]
      BY <1>2, <2>2, <3>1 DEF Spendings
    <3>2. CASE Acceptable(threads'[t].proof) \/ Matches(threads'[t].proof, d)
      <4>1. Fresh(threads'[t].proof)
        BY <2>2, <3>2 DEF Acceptable, Matches, Backup
      <4>2. threads'[t].proof \in OneTime
        BY <2>2, <3>2 DEF Acceptable, Matches, Backup
      <4>3. QED
        BY <1>2, <2>2, <4>1, <4>2 DEF Fresh, OneTime, TypeOK, DeviceRow
    <3>3. QED
      BY <2>2, <3>1, <3>2, ProofsOnlyBy
  <2>3. QED
    BY <2>1, <2>2 DEF ExhaustedOneTime, Spendings
<1>3. QED
  BY <1>1, <1>2 DEF ExhaustedOneTime

LEMMA RecoveryChanges ==
    ASSUME TypeOK, [Next]_vars, NEW c \in Recovery
    PROVE  /\ recovery[c] = "deleted" => recovery'[c] = "deleted"
           /\ recovery[c] = "used" => recovery'[c] \in {"used", "deleted"}
<1>1. CASE UNCHANGED recovery
  BY <1>1
<1>2. ASSUME NEW t \in Thread, NEW s \in Session, CommitVerify(t, s)
      PROVE  /\ recovery[c] = "deleted" => recovery'[c] = "deleted"
             /\ recovery[c] = "used" => recovery'[c] \in {"used", "deleted"}
  BY <1>2 DEF CommitVerify, Spend, TypeOK, Codes
<1>3. ASSUME NEW old, NEW S, \A x \in S : recovery[x] = "none",
             recovery' = Reissued(old, S)
      PROVE  /\ recovery[c] = "deleted" => recovery'[c] = "deleted"
             /\ recovery[c] = "used" => recovery'[c] \in {"used", "deleted"}
  BY <1>3 DEF Reissued, Codes
<1>4. ASSUME NEW t \in Thread, NEW S \in SUBSET Recovery,
             CommitConfirm(t, S) \/ CommitRegenerate(t, S)
      PROVE  /\ recovery[c] = "deleted" => recovery'[c] = "deleted"
             /\ recovery[c] = "used" => recovery'[c] \in {"used", "deleted"}
  BY <1>3, <1>4 DEF CommitConfirm, CommitRegenerate, Unissued
<1>5. ASSUME NEW t \in Thread, CommitDisable(t)
      PROVE  /\ recovery[c] = "deleted" => recovery'[c] = "deleted"
             /\ recovery[c] = "used" => recovery'[c] \in {"used", "deleted"}
  BY <1>3, <1>5 DEF CommitDisable
<1>6. QED
  BY <1>1, <1>2, <1>4, <1>5
  DEF Next, vars, SignInNext, SettingsNext, EnvironmentNext, LoginPending, Login, Guess,
      RecordFailure, CommitLogin, Verify, Provision, CommitProvision, Regenerate, Confirm,
      Disable, DisableUnconfirmed, BeginDisable, RequestFails, Restart, Forget,
      PendingExpires, Tick

LEMMA BackupStaysExhausted ==
    ASSUME TypeOK, [Next]_vars, NEW c \in Recovery, ExhaustedBackup(c)
    PROVE  ExhaustedBackup(c)'
<1>1. CASE recovery[c] = "deleted"
  BY <1>1, RecoveryChanges DEF ExhaustedBackup
<1>2. CASE /\ recovery[c] = "used"
           /\ \A t \in Thread : threads[t].op = "verify" =>
                                threads[t].proof # [method |-> "recovery", code |-> c]
  <2>1. recovery'[c] \in {"used", "deleted"}
    BY <1>2, RecoveryChanges
  <2>2. ASSUME NEW t \in Thread, threads'[t].op = "verify",
               threads'[t].proof = [method |-> "recovery", code |-> c]
        PROVE  FALSE
    <3>1. Acceptable(threads'[t].proof)
      BY <1>2, <2>2, ProofsOnlyBy
    <3>2. QED
      BY <1>2, <2>2, <3>1 DEF Acceptable, Matches, OneTime
  <2>3. QED
    BY <2>1, <2>2 DEF ExhaustedBackup
<1>3. QED
  BY <1>1, <1>2 DEF ExhaustedBackup

\* A code that is used up starts no session and is written into none.
LEMMA ExhaustedSignsNobodyIn ==
    ASSUME TypeOK, [Next]_vars, NEW s \in Session, sessions'[s] # sessions[s]
    PROVE  /\ \A d \in Device, step \in Nat : ExhaustedOneTime(d, step) =>
                sessions'[s] # [method |-> "otp", device |-> d, step |-> step]
           /\ \A c \in Recovery : ExhaustedBackup(c) =>
                sessions'[s] # [method |-> "recovery", code |-> c]
<1>1. CASE sessions'[s] = Password
  BY <1>1 DEF Password
<1>2. ASSUME NEW t \in Thread, CommitVerify(t, s), sessions'[s] = threads[t].proof,
             NEW d \in Device, NEW step \in Nat, ExhaustedOneTime(d, step),
             threads[t].proof = [method |-> "otp", device |-> d, step |-> step]
      PROVE  FALSE
  <2>1. d \in Enrolled /\ step \in Spendings(d)
    BY <1>2 DEF CommitVerify, Spend, Spendings
  <2>2. QED
    BY <1>2, <2>1 DEF ExhaustedOneTime, Enrolled
<1>3. ASSUME NEW t \in Thread, NEW S \in SUBSET Recovery, CommitConfirm(t, S),
             NEW d \in Device, NEW step \in Nat, ExhaustedOneTime(d, step),
             threads[t].proof = [method |-> "otp", device |-> d, step |-> step]
      PROVE  FALSE
  <2>1. d \in Enrolled /\ step \in Spendings(d)
    BY <1>3 DEF CommitConfirm, Spendings
  <2>2. QED
    BY <1>3, <2>1 DEF ExhaustedOneTime, Enrolled
<1>4. ASSUME NEW t \in Thread, CommitVerify(t, s), NEW c \in Recovery, ExhaustedBackup(c),
             threads[t].proof = [method |-> "recovery", code |-> c]
      PROVE  FALSE
  BY <1>4 DEF CommitVerify, Spend, ExhaustedBackup, Codes
<1>5. ASSUME NEW t \in Thread, NEW S \in SUBSET Recovery, CommitConfirm(t, S),
             NEW c \in Recovery
      PROVE  threads[t].proof # [method |-> "recovery", code |-> c]
  BY <1>5, JobKinds DEF CommitConfirm, TypeOK, OneTime
<1>6. QED
  BY <1>1, <1>2, <1>3, <1>4, <1>5, SessionsChange

\* A code that is used up, or was replaced by new ones, stays so whatever the
\* requests that follow, and no session that starts later rests on it.
THEOREM SpentCodesStaySpent == Spec => SpentStaysSpent
<1>1. TypeOK /\ [Next]_vars =>
        [/\ \A d \in Device, step \in 0..(MaxStep + 1) : ExhaustedOneTime(d, step) =>
              /\ ExhaustedOneTime(d, step)'
              /\ \A s \in Session : sessions'[s] # sessions[s] =>
                   sessions'[s] # [method |-> "otp", device |-> d, step |-> step]
         /\ \A c \in Recovery : ExhaustedBackup(c) =>
              /\ ExhaustedBackup(c)'
              /\ \A s \in Session : sessions'[s] # sessions[s] =>
                   sessions'[s] # [method |-> "recovery", code |-> c]]_vars
  BY OneTimeStaysExhausted, BackupStaysExhausted, ExhaustedSignsNobodyIn, MFAAssumption
<1>2. QED
  BY <1>1, FactorTypeCorrect, PTL DEF Spec, SpentStaysSpent
=============================================================================
