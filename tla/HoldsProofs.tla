----------------------------- MODULE HoldsProofs -----------------------------
(***************************************************************************)
(* Theorems about Holds, for every number of methods, holds, amounts and   *)
(* overlapping requests.                                                   *)
(***************************************************************************)
EXTENDS Holds, TLAPS

-----------------------------------------------------------------------------
(* Rows, authorizations and jobs *)

LEMMA JobKinds ==
    ASSUME NEW job \in Job
    PROVE  /\ job.op = "place" => job.method \in Method /\ job.amount \in Nat
           /\ job.op = "placed" => job.hold \in Hold /\ job.row \in HoldRow \ {NoHold}
           /\ job.op \in {"capture", "write_captured"} =>
                /\ job.hold \in Hold /\ job.amount \in Nat
                /\ LET new == [job EXCEPT !.op = "write_captured"]
                   IN  new \in Job /\ new.op = "write_captured" /\ new.hold = job.hold /\ new.amount = job.amount
           /\ job.op \in {"release", "write_released"} =>
                /\ job.hold \in Hold
                /\ LET new == [job EXCEPT !.op = "write_released"]
                   IN  new \in Job /\ new.op = "write_released" /\ new.hold = job.hold
           /\ job.op \in {"remove", "write_removed"} =>
                /\ job.method \in Method
                /\ LET new == [job EXCEPT !.op = "write_removed"]
                   IN  new \in Job /\ new.op = "write_removed" /\ new.method = job.method
<1>0. CASE job = Idle
  BY <1>0 DEF Idle
<1>1. CASE job \in [op: {"place"}, method: Method, amount: Nat]
  BY <1>1
<1>2. CASE job \in [op: {"placed"}, hold: Hold, row: HoldRow \ {NoHold}]
  BY <1>2
<1>3. CASE job \in [op: {"capture", "write_captured"}, hold: Hold, amount: Nat]
  <2>1. [job EXCEPT !.op = "write_captured"] \in Job
    BY <1>3 DEF Job
  <2>2. QED
    BY <1>3, <2>1
<1>4. CASE job \in [op: {"release", "write_released"}, hold: Hold]
  <2>1. [job EXCEPT !.op = "write_released"] \in Job
    BY <1>4 DEF Job
  <2>2. QED
    BY <1>4, <2>1
<1>5. CASE job \in [op: {"remove", "write_removed"}, method: Method]
  <2>1. [job EXCEPT !.op = "write_removed"] \in Job
    BY <1>5 DEF Job
  <2>2. QED
    BY <1>5, <2>1
<1>6. QED
  BY <1>0, <1>1, <1>2, <1>3, <1>4, <1>5 DEF Job

LEMMA IdleJob == Idle \in Job
BY DEF Job

LEMMA RowKinds ==
    ASSUME NEW row \in HoldRow
    PROVE  /\ row.status # "none" <=> row # NoHold
           /\ row # NoHold =>
                /\ row \in [status: {"authorized", "captured", "released", "failed"},
                            method: Method, amount: Nat, captured_amount: Nat]
                /\ row.status \in {"authorized", "captured", "released", "failed"}
BY DEF HoldRow, NoHold

LEMMA AuthKinds ==
    ASSUME NEW auth \in Auth
    PROVE  /\ auth.state # "none" <=> auth # NoAuth
           /\ auth # NoAuth =>
                auth \in [state: {"held", "captured", "void"}, amount: Nat, taken: Nat]
BY DEF Auth, NoAuth

LEMMA MethodKinds ==
    ASSUME NEW row \in MethodRow, row # NoMethod
    PROVE  row \in [status: {"active", "removed"}, token: Token]
BY DEF MethodRow

-----------------------------------------------------------------------------
(* What one step can do *)

LEMMA HoldsChange ==
    ASSUME TypeOK, [Next]_vars, NEW h \in Hold
    PROVE  \/ holds'[h] = holds[h]
           \/ \E t \in Thread : CommitPlace(t) /\ threads[t].hold = h
           \/ \E t \in Thread : CommitCapture(t) /\ threads[t].hold = h
           \/ \E t \in Thread : CommitRelease(t) /\ threads[t].hold = h
<1>1. CASE UNCHANGED holds
  BY <1>1
<1>2. ASSUME NEW t \in Thread, CommitPlace(t) \/ CommitCapture(t) \/ CommitRelease(t)
      PROVE  holds'[h] = holds[h] \/ threads[t].hold = h
  BY <1>2 DEF CommitPlace, CommitCapture, CommitRelease, TypeOK
<1>3. QED
  BY <1>1, <1>2
  DEF Next, vars, WalletNext, HoldsNext, EnvironmentNext, SaveAtProvider, CompleteSetup,
      BeginRemove, CallRemove, CommitRemove, BeginPlace, CallAuthorize, BeginCapture,
      CallCapture, BeginRelease, CallRelease, RequestFails, ProviderExpires, Restart

LEMMA AuthsChange ==
    ASSUME TypeOK, [Next]_vars, NEW h \in Hold
    PROVE  \/ auths'[h] = auths[h]
           \/ \E t \in Thread, status \in {"authorized", "failed"} : CallAuthorize(t, h, status)
           \/ \E t \in Thread : CallCapture(t) /\ threads[t].hold = h
           \/ \E t \in Thread : CallRelease(t) /\ threads[t].hold = h
           \/ ProviderExpires(h)
<1>1. CASE UNCHANGED auths
  BY <1>1
<1>2. ASSUME NEW t \in Thread, CallCapture(t) \/ CallRelease(t)
      PROVE  auths'[h] = auths[h] \/ threads[t].hold = h
  BY <1>2 DEF CallCapture, CallRelease, TypeOK
<1>3. ASSUME NEW t \in Thread, NEW g \in Hold, NEW status \in {"authorized", "failed"},
             CallAuthorize(t, g, status)
      PROVE  auths'[h] = auths[h] \/ g = h
  BY <1>3 DEF CallAuthorize, TypeOK
<1>4. ASSUME NEW g \in Hold, ProviderExpires(g) PROVE auths'[h] = auths[h] \/ g = h
  BY <1>4 DEF ProviderExpires, TypeOK
<1>5. QED
  BY <1>1, <1>2, <1>3, <1>4
  DEF Next, vars, WalletNext, HoldsNext, EnvironmentNext, SaveAtProvider, CompleteSetup,
      BeginRemove, CallRemove, CommitRemove, BeginPlace, CommitPlace, BeginCapture,
      CommitCapture, BeginRelease, CommitRelease, RequestFails, Restart

LEMMA MethodsChange ==
    ASSUME TypeOK, [Next]_vars, NEW m \in Method
    PROVE  \/ methods'[m] = methods[m]
           \/ \E x \in Token : CompleteSetup(m, x)
           \/ \E t \in Thread : CommitRemove(t) /\ threads[t].method = m
<1>1. CASE UNCHANGED methods
  BY <1>1
<1>2. ASSUME NEW n \in Method, NEW x \in Token, CompleteSetup(n, x)
      PROVE  methods'[m] = methods[m] \/ n = m
  BY <1>2 DEF CompleteSetup, TypeOK
<1>3. ASSUME NEW t \in Thread, CommitRemove(t)
      PROVE  methods'[m] = methods[m] \/ threads[t].method = m
  BY <1>3 DEF CommitRemove, TypeOK
<1>4. QED
  BY <1>1, <1>2, <1>3
  DEF Next, vars, WalletNext, HoldsNext, EnvironmentNext, SaveAtProvider, BeginRemove,
      CallRemove, BeginPlace, CallAuthorize, CommitPlace, BeginCapture, CallCapture,
      CommitCapture, BeginRelease, CallRelease, CommitRelease, RequestFails,
      ProviderExpires, Restart

\* A request is as it was, over, or has begun or called the provider in this step.
LEMMA ThreadsChange ==
    ASSUME TypeOK, [Next]_vars, NEW t \in Thread
    PROVE  \/ threads'[t] = threads[t]
           \/ threads'[t] = Idle
           \/ \E m \in Method, amount \in 0..MaxAmount : BeginPlace(t, m, amount)
           \/ \E h \in Hold, status \in {"authorized", "failed"} : CallAuthorize(t, h, status)
           \/ \E h \in Hold, amount \in 0..MaxAmount : BeginCapture(t, h, amount)
           \/ CallCapture(t) /\ threads'[t] = [threads[t] EXCEPT !.op = "write_captured"]
           \/ \E h \in Hold : BeginRelease(t, h)
           \/ CallRelease(t) /\ threads'[t] = [threads[t] EXCEPT !.op = "write_released"]
           \/ \E m \in Method : BeginRemove(t, m)
           \/ CallRemove(t)
<1> USE DEF TypeOK, Begin, Continue, Finish, Answer
<1>1. CASE UNCHANGED threads
  BY <1>1
<1>2. CASE Restart
  BY <1>2 DEF Restart
<1>3. ASSUME NEW u \in Thread, Finish(u) PROVE threads'[t] = threads[t] \/ threads'[t] = Idle
  BY <1>3
<1>4. ASSUME NEW u \in Thread, NEW job, Begin(u, job) PROVE threads'[t] = threads[t] \/ u = t
  BY <1>4
<1>5. ASSUME NEW u \in Thread, NEW job, Continue(u, job)
      PROVE  threads'[t] = threads[t] \/ (u = t /\ threads'[t] = job)
  BY <1>5
<1> HIDE DEF TypeOK, Begin, Continue, Finish
<1>6. CASE WalletNext
  BY <1>1, <1>3, <1>4, <1>5, <1>6
  DEF WalletNext, SaveAtProvider, CompleteSetup, BeginRemove, CallRemove, CommitRemove
<1>7. ASSUME NEW u \in Thread, CallCapture(u)
      PROVE  \/ threads'[t] = threads[t]
             \/ threads'[t] = Idle
             \/ u = t /\ threads'[t] = [threads[t] EXCEPT !.op = "write_captured"]
  BY <1>3, <1>5, <1>7 DEF CallCapture
<1>8. ASSUME NEW u \in Thread, CallRelease(u)
      PROVE  \/ threads'[t] = threads[t]
             \/ threads'[t] = Idle
             \/ u = t /\ threads'[t] = [threads[t] EXCEPT !.op = "write_released"]
  BY <1>3, <1>5, <1>8 DEF CallRelease
<1>9. CASE HoldsNext
  BY <1>3, <1>4, <1>5, <1>7, <1>8, <1>9
  DEF HoldsNext, BeginPlace, CallAuthorize, CommitPlace, BeginCapture, CommitCapture,
      BeginRelease, CommitRelease
<1>10. CASE EnvironmentNext
  BY <1>1, <1>2, <1>3, <1>10 DEF EnvironmentNext, RequestFails, ProviderExpires
<1>11. QED
  BY <1>1, <1>6, <1>9, <1>10 DEF Next, vars

-----------------------------------------------------------------------------
(* What every step keeps *)

\* A row keeps its method and amount, and its status once it says how a hold ended.
LEMMA RowsKept ==
    ASSUME IInv, [Next]_vars, NEW h \in Hold, holds[h] # NoHold
    PROVE  /\ holds'[h] # NoHold
           /\ holds'[h].amount = holds[h].amount /\ holds'[h].method = holds[h].method
           /\ holds[h].status \in {"captured", "released", "failed"} => holds'[h] = holds[h]
           /\ holds[h].status = "authorized" =>
                holds'[h].status \in {"authorized", "captured", "released"}
<1> USE DEF IInv
<1>1. holds[h] \in HoldRow /\ holds[h] \in
        [status: {"authorized", "captured", "released", "failed"},
         method: Method, amount: Nat, captured_amount: Nat]
  BY RowKinds DEF TypeOK
<1>2. CASE holds'[h] = holds[h]
  BY <1>1, <1>2, RowKinds
<1>3. ASSUME NEW t \in Thread, CommitPlace(t), threads[t].hold = h PROVE FALSE
  BY <1>3 DEF PlacedOK, CommitPlace
<1>4. ASSUME NEW t \in Thread, CommitCapture(t), threads[t].hold = h
      PROVE  /\ holds[h].status = "authorized"
             /\ holds'[h] = [holds[h] EXCEPT !.status = "captured",
                                             !.captured_amount = threads[t].amount]
  BY <1>4 DEF WritingOK, Writing, Doing, CommitCapture, TypeOK
<1>5. ASSUME NEW t \in Thread, CommitRelease(t), threads[t].hold = h
      PROVE  /\ holds[h].status = "authorized"
             /\ holds'[h] = [holds[h] EXCEPT !.status = "released"]
  BY <1>5 DEF WritingOK, Writing, Doing, CommitRelease, TypeOK
<1>6. QED
  BY <1>1, <1>2, <1>3, <1>4, <1>5, HoldsChange DEF NoHold

\* An authorization keeps its amount, and what became of it once it is over.
LEMMA AuthsKept ==
    ASSUME IInv, [Next]_vars, NEW h \in Hold, auths[h] # NoAuth
    PROVE  /\ auths'[h] # NoAuth
           /\ auths'[h].amount = auths[h].amount
           /\ auths[h].state # "held" => auths'[h] = auths[h]
<1> USE DEF IInv
<1>1. auths[h] \in [state: {"held", "captured", "void"}, amount: Nat, taken: Nat]
  BY AuthKinds DEF TypeOK
<1>2. ASSUME NEW t \in Thread, NEW status \in {"authorized", "failed"},
             CallAuthorize(t, h, status)
      PROVE  FALSE
  BY <1>2 DEF CallAuthorize, Fresh
<1>3. ASSUME NEW t \in Thread, CallCapture(t), threads[t].hold = h
      PROVE  /\ auths[h].state = "held"
             /\ auths'[h] = [auths[h] EXCEPT !.state = "captured", !.taken = threads[t].amount]
  BY <1>3 DEF CallCapture, TypeOK
<1>4. ASSUME NEW t \in Thread, CallRelease(t), threads[t].hold = h
      PROVE  auths[h].state = "held" /\ auths'[h] = [auths[h] EXCEPT !.state = "void"]
  BY <1>4 DEF CallRelease, TypeOK
<1>5. ASSUME ProviderExpires(h)
      PROVE  auths[h].state = "held" /\ auths'[h] = [auths[h] EXCEPT !.state = "void"]
  BY <1>5 DEF ProviderExpires, TypeOK
<1>6. QED
  BY <1>1, <1>2, <1>3, <1>4, <1>5, AuthsChange DEF NoAuth

-----------------------------------------------------------------------------
(* Type correctness *)

LEMMA TypeHolds == ASSUME IInv, [Next]_vars PROVE holds' \in [Hold -> HoldRow]
<1> USE DEF IInv
<1>1. CASE UNCHANGED holds
  BY <1>1 DEF TypeOK
<1>2. ASSUME NEW t \in Thread, CommitPlace(t) PROVE holds' \in [Hold -> HoldRow]
  BY <1>2, JobKinds DEF CommitPlace, Doing, TypeOK
<1>3. ASSUME NEW t \in Thread, CommitCapture(t) PROVE holds' \in [Hold -> HoldRow]
  <2>1. threads[t].hold \in Hold /\ threads[t].amount \in Nat
    BY <1>3, JobKinds DEF CommitCapture, Doing, TypeOK
  <2>2. holds[threads[t].hold] \in
          [status: {"authorized", "captured", "released", "failed"},
           method: Method, amount: Nat, captured_amount: Nat]
    BY <1>3, <2>1, RowKinds DEF CommitCapture, WritingOK, Writing, Doing, TypeOK
  <2>3. [holds[threads[t].hold] EXCEPT !.status = "captured",
                                       !.captured_amount = threads[t].amount] \in HoldRow
    BY <2>1, <2>2 DEF HoldRow
  <2>4. QED
    BY <1>3, <2>1, <2>3 DEF CommitCapture, TypeOK
<1>4. ASSUME NEW t \in Thread, CommitRelease(t) PROVE holds' \in [Hold -> HoldRow]
  <2>1. threads[t].hold \in Hold
    BY <1>4, JobKinds DEF CommitRelease, Doing, TypeOK
  <2>2. holds[threads[t].hold] \in
          [status: {"authorized", "captured", "released", "failed"},
           method: Method, amount: Nat, captured_amount: Nat]
    BY <1>4, <2>1, RowKinds DEF CommitRelease, WritingOK, Writing, Doing, TypeOK
  <2>3. [holds[threads[t].hold] EXCEPT !.status = "released"] \in HoldRow
    BY <2>2 DEF HoldRow
  <2>4. QED
    BY <1>4, <2>1, <2>3 DEF CommitRelease, TypeOK
<1>5. QED
  BY <1>1, <1>2, <1>3, <1>4
  DEF Next, vars, WalletNext, HoldsNext, EnvironmentNext, SaveAtProvider, CompleteSetup,
      BeginRemove, CallRemove, CommitRemove, BeginPlace, CallAuthorize, BeginCapture,
      CallCapture, BeginRelease, CallRelease, RequestFails, ProviderExpires, Restart

LEMMA TypeAuths == ASSUME IInv, [Next]_vars PROVE auths' \in [Hold -> Auth]
<1> USE DEF IInv
<1>1. CASE UNCHANGED auths
  BY <1>1 DEF TypeOK
<1>2. ASSUME NEW t \in Thread, NEW h \in Hold, NEW status \in {"authorized", "failed"},
             CallAuthorize(t, h, status)
      PROVE  auths' \in [Hold -> Auth]
  <2>1. [state |-> "held", amount |-> threads[t].amount, taken |-> 0] \in Auth
    BY <1>2, JobKinds DEF CallAuthorize, Doing, TypeOK, Auth
  <2>2. QED
    BY <1>2, <2>1 DEF CallAuthorize, TypeOK
<1>3. ASSUME NEW h \in Hold, auths[h].state = "held", NEW taken \in Nat
      PROVE  /\ [auths[h] EXCEPT !.state = "captured", !.taken = taken] \in Auth
             /\ [auths[h] EXCEPT !.state = "void"] \in Auth
  BY <1>3, AuthKinds DEF TypeOK, Auth
<1>4. ASSUME NEW t \in Thread, CallCapture(t) PROVE auths' \in [Hold -> Auth]
  <2>1. threads[t].hold \in Hold /\ threads[t].amount \in Nat
    BY <1>4, JobKinds DEF CallCapture, Doing, TypeOK
  <2>2. QED
    BY <1>3, <1>4, <2>1 DEF CallCapture, TypeOK
<1>5. ASSUME NEW t \in Thread, CallRelease(t) PROVE auths' \in [Hold -> Auth]
  <2>1. threads[t].hold \in Hold
    BY <1>5, JobKinds DEF CallRelease, Doing, TypeOK
  <2>2. QED
    BY <1>3, <1>5, <2>1 DEF CallRelease, TypeOK
<1>6. ASSUME NEW h \in Hold, ProviderExpires(h) PROVE auths' \in [Hold -> Auth]
  BY <1>3, <1>6 DEF ProviderExpires, TypeOK
<1>7. QED
  BY <1>1, <1>2, <1>4, <1>5, <1>6
  DEF Next, vars, WalletNext, HoldsNext, EnvironmentNext, SaveAtProvider, CompleteSetup,
      BeginRemove, CallRemove, CommitRemove, BeginPlace, CommitPlace, BeginCapture,
      CommitCapture, BeginRelease, CommitRelease, RequestFails, Restart

LEMMA TypeMethods ==
    ASSUME IInv, [Next]_vars
    PROVE  /\ methods' \in [Method -> MethodRow]
           /\ tokens' \in [Token -> {"none", "attached", "detached"}]
<1> USE DEF IInv
<1>1. CASE UNCHANGED <<methods, tokens>>
  BY <1>1 DEF TypeOK
<1>2. ASSUME NEW m \in Method, NEW x \in Token, CompleteSetup(m, x)
      PROVE  methods' \in [Method -> MethodRow] /\ UNCHANGED tokens
  BY <1>2 DEF CompleteSetup, TypeOK, MethodRow
<1>3. ASSUME NEW t \in Thread, CommitRemove(t)
      PROVE  methods' \in [Method -> MethodRow] /\ UNCHANGED tokens
  <2>1. threads[t].method \in Method /\ methods[threads[t].method] # NoMethod
    BY <1>3, JobKinds DEF CommitRemove, Doing, TypeOK, MethodOK
  <2>2. [methods[threads[t].method] EXCEPT !.status = "removed"] \in MethodRow
    BY <2>1, MethodKinds DEF TypeOK, MethodRow
  <2>3. QED
    BY <1>3, <2>1, <2>2 DEF CommitRemove, TypeOK
<1>4. ASSUME NEW t \in Thread, CallRemove(t)
      PROVE  /\ tokens' \in [Token -> {"none", "attached", "detached"}]
             /\ UNCHANGED methods
  BY <1>4 DEF CallRemove, TypeOK
<1>5. ASSUME NEW x \in Token, SaveAtProvider(x)
      PROVE  /\ tokens' \in [Token -> {"none", "attached", "detached"}]
             /\ UNCHANGED methods
  BY <1>5 DEF SaveAtProvider, TypeOK
<1>6. QED
  BY <1>1, <1>2, <1>3, <1>4, <1>5
  DEF Next, vars, WalletNext, HoldsNext, EnvironmentNext, BeginRemove, BeginPlace,
      CallAuthorize, CommitPlace, BeginCapture, CallCapture, CommitCapture, BeginRelease,
      CallRelease, CommitRelease, RequestFails, ProviderExpires, Restart, TypeOK

LEMMA TypeThreads == ASSUME IInv, [Next]_vars PROVE threads' \in [Thread -> Job]
<1> USE DEF IInv
<1>1. threads' = [t \in Thread |-> threads'[t]]
  BY DEF Next, vars, WalletNext, HoldsNext, EnvironmentNext, SaveAtProvider, CompleteSetup,
      BeginRemove, CallRemove, CommitRemove, BeginPlace, CallAuthorize, CommitPlace,
      BeginCapture, CallCapture, CommitCapture, BeginRelease, CallRelease, CommitRelease,
      RequestFails, ProviderExpires, Restart, Begin, Continue, Finish, Answer, TypeOK
<1>2. ASSUME NEW t \in Thread PROVE threads'[t] \in Job
  <2>1. threads[t] \in Job
    BY DEF TypeOK
  <2>2. ASSUME NEW m \in Method, NEW amount \in 0..MaxAmount, BeginPlace(t, m, amount)
        PROVE  threads'[t] \in Job
    <3>1. amount \in Nat
      BY HoldsAssumption
    <3>2. [op |-> "place", method |-> m, amount |-> amount] \in Job
      BY <3>1 DEF Job
    <3>3. QED
      BY <2>2, <3>2 DEF BeginPlace, Begin, TypeOK
  <2>3. ASSUME NEW h \in Hold, NEW status \in {"authorized", "failed"},
               CallAuthorize(t, h, status)
        PROVE  threads'[t] \in Job
    <3>1. threads[t].method \in Method /\ threads[t].amount \in Nat
      BY <2>1, <2>3, JobKinds DEF CallAuthorize, Doing
    <3>2. [status |-> status, method |-> threads[t].method,
           amount |-> threads[t].amount, captured_amount |-> 0] \in HoldRow \ {NoHold}
      BY <3>1 DEF HoldRow, NoHold
    <3>3. [op |-> "placed", hold |-> h,
           row |-> [status |-> status, method |-> threads[t].method,
                    amount |-> threads[t].amount, captured_amount |-> 0]] \in Job
      BY <3>2 DEF Job
    <3>4. QED
      BY <2>3, <3>3 DEF CallAuthorize, Continue, TypeOK
  <2>4. ASSUME NEW h \in Hold, NEW amount \in 0..MaxAmount, BeginCapture(t, h, amount)
        PROVE  threads'[t] \in Job
    <3>1. (IF amount = 0 THEN holds[h].amount ELSE amount) \in Nat
      BY <2>4, RowKinds DEF BeginCapture, TypeOK
    <3>2. [op |-> "capture", hold |-> h,
           amount |-> IF amount = 0 THEN holds[h].amount ELSE amount] \in Job
      BY <3>1 DEF Job
    <3>3. QED
      BY <2>4, <3>2 DEF BeginCapture, Begin, TypeOK
  <2>5. ASSUME CallCapture(t) PROVE [threads[t] EXCEPT !.op = "write_captured"] \in Job
    BY <2>1, <2>5, JobKinds DEF CallCapture, Doing
  <2>6. ASSUME NEW h \in Hold, BeginRelease(t, h) PROVE threads'[t] \in Job
    BY <2>6 DEF BeginRelease, Begin, TypeOK, Job
  <2>7. ASSUME CallRelease(t) PROVE [threads[t] EXCEPT !.op = "write_released"] \in Job
    BY <2>1, <2>7, JobKinds DEF CallRelease, Doing
  <2>8. ASSUME NEW m \in Method, BeginRemove(t, m) PROVE threads'[t] \in Job
    BY <2>8 DEF BeginRemove, Begin, TypeOK, Job
  <2>9. ASSUME CallRemove(t) PROVE threads'[t] \in Job
    <3>1. [threads[t] EXCEPT !.op = "write_removed"] \in Job
      BY <2>1, <2>9, JobKinds DEF CallRemove, Doing
    <3>2. QED
      BY <2>9, <3>1 DEF CallRemove, Continue, TypeOK
  <2>10. QED
    BY <2>1, <2>2, <2>3, <2>4, <2>5, <2>6, <2>7, <2>8, <2>9, IdleJob, ThreadsChange
<1>3. QED
  BY <1>1, <1>2

LEMMA StepTypeOK == ASSUME IInv, [Next]_vars PROVE TypeOK'
BY TypeHolds, TypeAuths, TypeMethods, TypeThreads DEF TypeOK

-----------------------------------------------------------------------------
(* What requests in flight rely on *)

WritingOp(op) == op \in {"write_captured", "write_released"}

\* A request whose outcome is to be written had it before, or gets it in this step.
LEMMA WritingOnlyBy ==
    ASSUME IInv, [Next]_vars, NEW t \in Thread, WritingOp(threads'[t].op)
    PROVE  \/ Writing(t) /\ threads'[t] = threads[t]
           \/ CallCapture(t) /\ threads'[t] = [threads[t] EXCEPT !.op = "write_captured"]
           \/ CallRelease(t) /\ threads'[t] = [threads[t] EXCEPT !.op = "write_released"]
<1> USE DEF WritingOp
<1>1. threads[t] \in Job /\ threads'[t] # Idle
  BY DEF IInv, TypeOK, Writing, Idle
<1>2. ~ \E m \in Method, amount \in 0..MaxAmount : BeginPlace(t, m, amount)
  BY DEF IInv, TypeOK, Writing, BeginPlace, Begin
<1>3. ~ \E h \in Hold, status \in {"authorized", "failed"} : CallAuthorize(t, h, status)
  BY DEF IInv, TypeOK, Writing, CallAuthorize, Continue
<1>4. ~ \E h \in Hold, amount \in 0..MaxAmount : BeginCapture(t, h, amount)
  BY DEF IInv, TypeOK, Writing, BeginCapture, Begin
<1>5. ~ \E h \in Hold : BeginRelease(t, h)
  BY DEF IInv, TypeOK, Writing, BeginRelease, Begin
<1>6. ~ \E m \in Method : BeginRemove(t, m)
  BY DEF IInv, TypeOK, Writing, BeginRemove, Begin
<1>7. ~ CallRemove(t)
  BY <1>1, JobKinds DEF IInv, TypeOK, Writing, CallRemove, Continue, Doing
<1>8. QED
  BY <1>1, <1>2, <1>3, <1>4, <1>5, <1>6, <1>7, ThreadsChange DEF IInv, Writing

\* The same for a request that is about to insert its row.
LEMMA PlacedOnlyBy ==
    ASSUME IInv, [Next]_vars, NEW t \in Thread, threads'[t].op = "placed"
    PROVE  \/ Doing(t, "placed") /\ threads'[t] = threads[t]
           \/ \E h \in Hold, status \in {"authorized", "failed"} :
                CallAuthorize(t, h, status) /\ threads'[t].hold = h
<1>1. threads[t] \in Job /\ threads'[t] # Idle
  BY DEF IInv, TypeOK, Doing, Idle
<1>2. ~ \E m \in Method, amount \in 0..MaxAmount : BeginPlace(t, m, amount)
  BY DEF IInv, TypeOK, Doing, BeginPlace, Begin
<1>3. ASSUME NEW h \in Hold, NEW status \in {"authorized", "failed"},
             CallAuthorize(t, h, status)
      PROVE  threads'[t].hold = h
  BY <1>3 DEF IInv, TypeOK, CallAuthorize, Continue
<1>4. ~ \E h \in Hold, amount \in 0..MaxAmount : BeginCapture(t, h, amount)
  BY DEF IInv, TypeOK, Doing, BeginCapture, Begin
<1>5. ~ \E h \in Hold : BeginRelease(t, h)
  BY DEF IInv, TypeOK, Doing, BeginRelease, Begin
<1>6. ~ \E m \in Method : BeginRemove(t, m)
  BY DEF IInv, TypeOK, Doing, BeginRemove, Begin
<1>7. ~ CallRemove(t)
  BY <1>1, JobKinds DEF IInv, TypeOK, CallRemove, Continue, Doing
<1>8. ~ (CallCapture(t) /\ threads'[t] = [threads[t] EXCEPT !.op = "write_captured"])
  BY <1>1, JobKinds DEF CallCapture, Doing
<1>9. ~ (CallRelease(t) /\ threads'[t] = [threads[t] EXCEPT !.op = "write_released"])
  BY <1>1, JobKinds DEF CallRelease, Doing
<1>10. QED
  BY <1>1, <1>2, <1>3, <1>4, <1>5, <1>6, <1>7, <1>8, <1>9, ThreadsChange DEF IInv, Doing

LEMMA StepWritingOK == ASSUME IInv, [Next]_vars PROVE WritingOK'
<1> USE DEF IInv, WritingOp
<1> SUFFICES ASSUME NEW t \in Thread, WritingOp(threads'[t].op)
             PROVE  /\ holds'[threads'[t].hold].status = "authorized"
                    /\ threads'[t].op = "write_captured" =>
                         /\ auths'[threads'[t].hold].state = "captured"
                         /\ auths'[threads'[t].hold].taken = threads'[t].amount
                    /\ threads'[t].op = "write_released" =>
                         auths'[threads'[t].hold].state = "void"
                    /\ \A u \in Thread :
                         WritingOp(threads'[u].op) /\ threads'[u].hold = threads'[t].hold => u = t
  BY DEF WritingOK, Writing, Doing
<1> DEFINE h == threads'[t].hold
<1>1. ASSUME NEW u \in Thread, CallCapture(u), threads'[u] = [threads[u] EXCEPT !.op = "write_captured"]
      PROVE  /\ threads[u].hold \in Hold /\ threads'[u].hold = threads[u].hold
             /\ auths[threads[u].hold].state = "held"
             /\ holds[threads[u].hold].status = "authorized" /\ UNCHANGED holds
             /\ threads'[u].op = "write_captured"
             /\ auths'[threads[u].hold].state = "captured"
             /\ auths'[threads[u].hold].taken = threads'[u].amount
             /\ \A v \in Thread : v # u => threads'[v] = threads[v]
  <2>1. threads[u].op = "capture" /\ threads[u] \in Job /\ auths[threads[u].hold].state = "held"
    BY <1>1 DEF CallCapture, Doing, TypeOK
  <2>2. threads[u].hold \in Hold
    BY <2>1, JobKinds
  <2>3. holds[threads[u].hold].status = "authorized"
    BY <2>1, <2>2 DEF CaptureOK, Doing, RowsTellTruth
  <2>4. auths[threads[u].hold] \in [state: {"held", "captured", "void"}, amount: Nat, taken: Nat]
    BY <2>1, <2>2, AuthKinds DEF TypeOK
  <2>5. /\ auths'[threads[u].hold].state = "captured"
        /\ auths'[threads[u].hold].taken = threads[u].amount
    BY <1>1, <2>2, <2>4 DEF CallCapture, TypeOK
  <2>6. threads[u] \in [op: {"capture", "write_captured"}, hold: Hold, amount: Nat]
    BY <2>1 DEF Job, Idle
  <2>7. \A v \in Thread : v # u => threads'[v] = threads[v]
    BY <1>1 DEF CallCapture, Answer, Continue, Finish, TypeOK
  <2>8. QED
    BY <1>1, <2>1, <2>2, <2>3, <2>5, <2>6, <2>7 DEF CallCapture
<1>2. ASSUME NEW u \in Thread, CallRelease(u), threads'[u] = [threads[u] EXCEPT !.op = "write_released"]
      PROVE  /\ threads[u].hold \in Hold /\ threads'[u].hold = threads[u].hold
             /\ auths[threads[u].hold].state = "held"
             /\ holds[threads[u].hold].status = "authorized" /\ UNCHANGED holds
             /\ threads'[u].op = "write_released"
             /\ auths'[threads[u].hold].state = "void"
             /\ \A v \in Thread : v # u => threads'[v] = threads[v]
  <2>1. threads[u].op = "release" /\ threads[u] \in Job /\ auths[threads[u].hold].state = "held"
    BY <1>2 DEF CallRelease, Doing, TypeOK
  <2>2. threads[u].hold \in Hold
    BY <2>1, JobKinds
  <2>3. holds[threads[u].hold].status = "authorized"
    BY <2>1, <2>2 DEF ReleaseOK, Doing, RowsTellTruth
  <2>4. auths[threads[u].hold] \in [state: {"held", "captured", "void"}, amount: Nat, taken: Nat]
    BY <2>1, <2>2, AuthKinds DEF TypeOK
  <2>5. auths'[threads[u].hold].state = "void"
    BY <1>2, <2>2, <2>4 DEF CallRelease, TypeOK
  <2>6. threads[u] \in [op: {"release", "write_released"}, hold: Hold]
    BY <2>1 DEF Job, Idle
  <2>7. \A v \in Thread : v # u => threads'[v] = threads[v]
    BY <1>2 DEF CallRelease, Answer, Continue, Finish, TypeOK
  <2>8. QED
    BY <1>2, <2>1, <2>2, <2>3, <2>5, <2>6, <2>7 DEF CallRelease
<1>3. ASSUME NEW u \in Thread, Writing(u)
      PROVE  /\ threads[u].hold \in Hold
             /\ auths[threads[u].hold] # NoAuth /\ auths[threads[u].hold].state # "held"
             /\ holds[threads[u].hold].status = "authorized"
  <2>1. threads[u].hold \in Hold
    BY <1>3, JobKinds DEF Writing, TypeOK
  <2>2. auths[threads[u].hold].state \in {"captured", "void"}
    BY <1>3 DEF WritingOK, Writing, Doing
  <2>3. QED
    BY <1>3, <2>1, <2>2 DEF WritingOK, NoAuth
<1>4. ASSUME Writing(t), threads'[t] = threads[t]
      PROVE  /\ holds'[h].status = "authorized"
             /\ threads'[t].op = "write_captured" =>
                  auths'[h].state = "captured" /\ auths'[h].taken = threads'[t].amount
             /\ threads'[t].op = "write_released" => auths'[h].state = "void"
  <2>1. auths'[h] = auths[h]
    BY <1>3, <1>4, AuthsKept
  <2>2. threads'[t] # Idle
    BY <1>4 DEF Writing, Idle
  <2>3. ASSUME NEW u \in Thread, CommitCapture(u) \/ CommitRelease(u), threads[u].hold = h
        PROVE  FALSE
    <3>1. u = t
      BY <1>4, <2>3 DEF WritingOK, Writing, Doing, CommitCapture, CommitRelease
    <3>2. QED
      BY <2>2, <2>3, <3>1 DEF CommitCapture, CommitRelease, Finish, TypeOK
  <2>4. ASSUME NEW u \in Thread, CommitPlace(u), threads[u].hold = h PROVE FALSE
    BY <1>3, <1>4, <2>4 DEF CommitPlace, PlacedOK, NoHold
  <2>5. holds'[h] = holds[h]
    BY <1>3, <1>4, <2>3, <2>4, HoldsChange
  <2>6. QED
    BY <1>4, <2>1, <2>5 DEF WritingOK, Doing
<1>5. ASSUME NEW u \in Thread, WritingOp(threads'[u].op), threads'[u].hold = h, u # t PROVE FALSE
  <2>1. CASE Writing(t) /\ threads'[t] = threads[t] /\ Writing(u) /\ threads'[u] = threads[u]
    BY <1>5, <2>1 DEF WritingOK
  <2>2. CASE ~(Writing(t) /\ threads'[t] = threads[t])
    <3>1. \/ CallCapture(t) /\ threads'[t] = [threads[t] EXCEPT !.op = "write_captured"]
          \/ CallRelease(t) /\ threads'[t] = [threads[t] EXCEPT !.op = "write_released"]
      BY <2>2, WritingOnlyBy
    <3>2. auths[h].state = "held" /\ threads'[u] = threads[u]
      BY <1>1, <1>2, <1>5, <3>1
    <3>3. Writing(u) /\ threads[u].hold = h
      BY <1>5, <3>2 DEF Writing
    <3>4. QED
      BY <1>3, <3>2, <3>3
  <2>3. CASE ~(Writing(u) /\ threads'[u] = threads[u])
    <3>1. \/ CallCapture(u) /\ threads'[u] = [threads[u] EXCEPT !.op = "write_captured"]
          \/ CallRelease(u) /\ threads'[u] = [threads[u] EXCEPT !.op = "write_released"]
      BY <1>5, <2>3, WritingOnlyBy
    <3>2. auths[h].state = "held" /\ threads'[t] = threads[t]
      BY <1>1, <1>2, <1>5, <3>1
    <3>3. Writing(t) /\ threads[t].hold = h
      BY <3>2 DEF Writing
    <3>4. QED
      BY <1>3, <3>2, <3>3
  <2>4. QED
    BY <2>1, <2>2, <2>3
<1>6. ASSUME CallCapture(t), threads'[t] = [threads[t] EXCEPT !.op = "write_captured"]
      PROVE  /\ holds'[h].status = "authorized"
             /\ threads'[t].op = "write_captured" =>
                  auths'[h].state = "captured" /\ auths'[h].taken = threads'[t].amount
             /\ threads'[t].op = "write_released" => auths'[h].state = "void"
  BY <1>1, <1>6
<1>7. ASSUME CallRelease(t), threads'[t] = [threads[t] EXCEPT !.op = "write_released"]
      PROVE  /\ holds'[h].status = "authorized"
             /\ threads'[t].op = "write_captured" =>
                  auths'[h].state = "captured" /\ auths'[h].taken = threads'[t].amount
             /\ threads'[t].op = "write_released" => auths'[h].state = "void"
  BY <1>2, <1>7
<1>8. QED
  BY <1>4, <1>5, <1>6, <1>7, WritingOnlyBy

LEMMA StepPlacedOK == ASSUME IInv, [Next]_vars PROVE PlacedOK'
<1> USE DEF IInv
<1> SUFFICES ASSUME NEW t \in Thread, threads'[t].op = "placed"
             PROVE  /\ holds'[threads'[t].hold] = NoHold
                    /\ threads'[t].row.status \in {"authorized", "failed"}
                    /\ threads'[t].row.status = "authorized" =>
                         auths'[threads'[t].hold].state # "none"
                    /\ auths'[threads'[t].hold].state # "none" =>
                         auths'[threads'[t].hold].amount = threads'[t].row.amount
                    /\ \A u \in Thread : threads'[u].op = "placed" => u = t
  BY DEF PlacedOK, Doing
<1> DEFINE h == threads'[t].hold
<1>1. ASSUME Doing(t, "placed"), threads'[t] = threads[t]
      PROVE  /\ holds'[h] = NoHold
             /\ threads'[t].row.status \in {"authorized", "failed"}
             /\ threads'[t].row.status = "authorized" => auths'[h].state # "none"
             /\ auths'[h].state # "none" => auths'[h].amount = threads'[t].row.amount
             /\ \A u \in Thread : threads'[u].op = "placed" => u = t
  <2>1. h \in Hold /\ ~Unlocked
    BY <1>1, JobKinds DEF Doing, TypeOK, Unlocked
  <2>2. ASSUME NEW u \in Thread, CommitPlace(u) PROVE FALSE
    <3>1. u = t
      BY <1>1, <2>2 DEF PlacedOK, CommitPlace
    <3>2. threads'[t] = Idle
      BY <2>2, <3>1 DEF CommitPlace, Finish, TypeOK
    <3>3. QED
      BY <1>1, <3>2 DEF Doing, Idle
  <2>3. holds'[h] = holds[h]
    BY <2>1, <2>2, HoldsChange DEF CommitCapture, CommitRelease
  <2>4. CASE auths[h] # NoAuth
    <3>1. auths[h].state # "none" /\ auths'[h] \in Auth
      BY <2>1, <2>4, AuthKinds, TypeAuths DEF TypeOK
    <3>2. auths'[h].state # "none" /\ auths'[h].amount = auths[h].amount
      BY <2>1, <2>4, <3>1, AuthKinds, AuthsKept
    <3>3. QED
      BY <1>1, <2>3, <3>1, <3>2, PlacedOnlyBy, <2>1 DEF PlacedOK, Doing, CallAuthorize
  <2>5. CASE auths[h] = NoAuth
    <3>1. auths'[h] = auths[h]
      <4>1. auths[h].state = "none"
        BY <2>5 DEF NoAuth
      <4>2. ~ \E u \in Thread, status \in {"authorized", "failed"} : CallAuthorize(u, h, status)
        BY <2>1 DEF CallAuthorize
      <4>3. ASSUME NEW u \in Thread, CallCapture(u) \/ CallRelease(u)
            PROVE  threads[u].hold # h
        BY <4>1, <4>3 DEF CallCapture, CallRelease
      <4>4. ~ ProviderExpires(h)
        BY <4>1 DEF ProviderExpires
      <4>5. QED
        BY <2>1, <4>2, <4>3, <4>4, AuthsChange
    <3>2. QED
      BY <1>1, <2>1, <2>3, <3>1, PlacedOnlyBy DEF PlacedOK, Doing, CallAuthorize
  <2>6. QED
    BY <2>4, <2>5
<1>2. ASSUME NEW status \in {"authorized", "failed"}, NEW g \in Hold,
             CallAuthorize(t, g, status), h = g
      PROVE  /\ holds'[h] = NoHold
             /\ threads'[t].row.status \in {"authorized", "failed"}
             /\ threads'[t].row.status = "authorized" => auths'[h].state # "none"
             /\ auths'[h].state # "none" => auths'[h].amount = threads'[t].row.amount
             /\ \A u \in Thread : threads'[u].op = "placed" => u = t
  <2>1. threads'[t].row = [status |-> status, method |-> threads[t].method,
                           amount |-> threads[t].amount, captured_amount |-> 0]
    BY <1>2 DEF CallAuthorize, Continue, TypeOK
  <2>2. holds'[h] = NoHold /\ auths[h] = NoAuth
    BY <1>2 DEF CallAuthorize, Fresh
  <2>3. \/ auths'[h] = [state |-> "held", amount |-> threads[t].amount, taken |-> 0]
        \/ status = "failed" /\ auths'[h] = NoAuth
    BY <1>2, <2>2 DEF CallAuthorize, TypeOK
  <2>4. ASSUME NEW u \in Thread, threads'[u].op = "placed" PROVE u = t
    BY <1>2, <2>4 DEF CallAuthorize, Continue, Unlocked, Doing, TypeOK
  <2>5. QED
    BY <1>2, <2>1, <2>2, <2>3, <2>4 DEF NoAuth
<1>3. QED
  BY <1>1, <1>2, PlacedOnlyBy

\* A capture or a release in flight was there before, or has read its hold just now.
LEMMA ReadingOnlyBy ==
    ASSUME IInv, [Next]_vars, NEW t \in Thread, threads'[t].op \in {"capture", "release"}
    PROVE  \/ threads'[t] = threads[t]
           \/ /\ threads'[t].op = "capture"
              /\ \E h \in Hold, amount \in 0..MaxAmount : BeginCapture(t, h, amount)
           \/ /\ threads'[t].op = "release"
              /\ \E h \in Hold : BeginRelease(t, h)
<1>1. threads[t] \in Job /\ threads'[t] # Idle
  BY DEF IInv, TypeOK, Idle
<1>2. ~ \E m \in Method, amount \in 0..MaxAmount : BeginPlace(t, m, amount)
  BY DEF IInv, TypeOK, BeginPlace, Begin
<1>3. ~ \E h \in Hold, status \in {"authorized", "failed"} : CallAuthorize(t, h, status)
  BY DEF IInv, TypeOK, CallAuthorize, Continue
<1>4. ASSUME NEW h \in Hold, NEW amount \in 0..MaxAmount, BeginCapture(t, h, amount)
      PROVE  threads'[t].op = "capture"
  BY <1>4 DEF IInv, TypeOK, BeginCapture, Begin
<1>5. ASSUME NEW h \in Hold, BeginRelease(t, h) PROVE threads'[t].op = "release"
  BY <1>5 DEF IInv, TypeOK, BeginRelease, Begin
<1>6. ~ \E m \in Method : BeginRemove(t, m)
  BY DEF IInv, TypeOK, BeginRemove, Begin
<1>7. ~ CallRemove(t)
  BY <1>1, JobKinds DEF IInv, TypeOK, CallRemove, Continue, Doing
<1>8. ~ (CallCapture(t) /\ threads'[t] = [threads[t] EXCEPT !.op = "write_captured"])
  BY <1>1, JobKinds DEF CallCapture, Doing
<1>9. ~ (CallRelease(t) /\ threads'[t] = [threads[t] EXCEPT !.op = "write_released"])
  BY <1>1, JobKinds DEF CallRelease, Doing
<1>10. QED
  BY <1>1, <1>2, <1>3, <1>4, <1>5, <1>6, <1>7, <1>8, <1>9, ThreadsChange DEF IInv

LEMMA StepCaptureOK == ASSUME IInv, [Next]_vars PROVE CaptureOK'
<1> USE DEF IInv
<1> SUFFICES ASSUME NEW t \in Thread, threads'[t].op = "capture"
             PROVE  /\ holds'[threads'[t].hold].status \in {"authorized", "captured", "released"}
                    /\ threads'[t].amount <= holds'[threads'[t].hold].amount
  BY DEF CaptureOK, Doing
<1>1. ASSUME threads'[t] = threads[t]
      PROVE  /\ holds'[threads'[t].hold].status \in {"authorized", "captured", "released"}
             /\ threads'[t].amount <= holds'[threads'[t].hold].amount
  <2>1. threads[t].hold \in Hold
    BY <1>1, JobKinds DEF TypeOK
  <2>2. /\ holds[threads[t].hold].status \in {"authorized", "captured", "released"}
        /\ threads[t].amount <= holds[threads[t].hold].amount
    BY <1>1 DEF CaptureOK, Doing
  <2>3. holds[threads[t].hold] # NoHold
    BY <2>2 DEF NoHold
  <2>4. QED
    BY <1>1, <2>1, <2>2, <2>3, RowsKept
<1>2. ASSUME NEW h \in Hold, NEW amount \in 0..MaxAmount, BeginCapture(t, h, amount)
      PROVE  /\ holds'[threads'[t].hold].status \in {"authorized", "captured", "released"}
             /\ threads'[t].amount <= holds'[threads'[t].hold].amount
  <2>1. threads'[t] = [op |-> "capture", hold |-> h,
                       amount |-> IF amount = 0 THEN holds[h].amount ELSE amount]
    BY <1>2 DEF BeginCapture, Begin, TypeOK
  <2>2. holds[h].amount \in Nat
    BY <1>2, RowKinds DEF BeginCapture, TypeOK
  <2>3. QED
    BY <1>2, <2>1, <2>2 DEF BeginCapture
<1>3. QED
  BY <1>1, <1>2, ReadingOnlyBy

LEMMA StepReleaseOK == ASSUME IInv, [Next]_vars PROVE ReleaseOK'
<1> USE DEF IInv
<1> SUFFICES ASSUME NEW t \in Thread, threads'[t].op = "release"
             PROVE  holds'[threads'[t].hold].status \in {"authorized", "captured", "released"}
  BY DEF ReleaseOK, Doing
<1>1. ASSUME threads'[t] = threads[t]
      PROVE  holds'[threads'[t].hold].status \in {"authorized", "captured", "released"}
  <2>1. threads[t].hold \in Hold
    BY <1>1, JobKinds DEF TypeOK
  <2>2. holds[threads[t].hold].status \in {"authorized", "captured", "released"}
    BY <1>1 DEF ReleaseOK, Doing
  <2>3. holds[threads[t].hold] # NoHold
    BY <2>2 DEF NoHold
  <2>4. QED
    BY <1>1, <2>1, <2>2, <2>3, RowsKept
<1>2. ASSUME NEW h \in Hold, BeginRelease(t, h)
      PROVE  holds'[threads'[t].hold].status \in {"authorized", "captured", "released"}
  BY <1>2 DEF BeginRelease, Begin, TypeOK
<1>3. QED
  BY <1>1, <1>2, ReadingOnlyBy

LEMMA StepMethodOK == ASSUME IInv, [Next]_vars PROVE MethodOK'
<1> USE DEF IInv
<1> DEFINE Ops == {"place", "remove", "write_removed"}
<1> SUFFICES ASSUME NEW t \in Thread, threads'[t].op \in Ops
             PROVE  methods'[threads'[t].method] # NoMethod
  BY DEF MethodOK
<1>1. ASSUME NEW m \in Method, methods[m] # NoMethod PROVE methods'[m] # NoMethod
  <2>1. methods[m] \in [status: {"active", "removed"}, token: Token]
    BY <1>1, MethodKinds DEF TypeOK
  <2>2. ASSUME NEW u \in Thread, CommitRemove(u), threads[u].method = m
        PROVE  methods'[m] = [methods[m] EXCEPT !.status = "removed"]
    BY <2>2 DEF CommitRemove, TypeOK
  <2>3. ~ \E x \in Token : CompleteSetup(m, x)
    BY <1>1 DEF CompleteSetup
  <2>4. QED
    BY <1>1, <2>1, <2>2, <2>3, MethodsChange DEF NoMethod
<1>2. threads[t] \in Job /\ threads'[t] # Idle
  BY DEF TypeOK, Idle
<1>3. ASSUME threads[t].op \in Ops, threads'[t].method = threads[t].method
      PROVE  methods'[threads'[t].method] # NoMethod
  <2>1. threads[t].method \in Method
    BY <1>2, <1>3, JobKinds
  <2>2. methods[threads[t].method] # NoMethod
    BY <1>3 DEF MethodOK
  <2>3. QED
    BY <1>1, <1>3, <2>1, <2>2
<1>4. ASSUME NEW m \in Method, NEW amount \in 0..MaxAmount, BeginPlace(t, m, amount)
      PROVE  threads'[t].method = m /\ methods[m] # NoMethod
  BY <1>4 DEF BeginPlace, Begin, TypeOK, NoMethod
<1>5. ASSUME NEW m \in Method, BeginRemove(t, m)
      PROVE  threads'[t].method = m /\ methods[m] # NoMethod
  BY <1>5 DEF BeginRemove, Begin, TypeOK, NoMethod
<1>6. ASSUME CallRemove(t)
      PROVE  threads[t].op \in Ops /\ threads'[t].method = threads[t].method
  BY <1>2, <1>6, JobKinds DEF CallRemove, Continue, Doing, TypeOK
<1>7. ~ \E h \in Hold, status \in {"authorized", "failed"} : CallAuthorize(t, h, status)
  BY DEF TypeOK, CallAuthorize, Continue
<1>8. ~ \E h \in Hold, amount \in 0..MaxAmount : BeginCapture(t, h, amount)
  BY DEF TypeOK, BeginCapture, Begin
<1>9. ~ \E h \in Hold : BeginRelease(t, h)
  BY DEF TypeOK, BeginRelease, Begin
<1>10. ~ (CallCapture(t) /\ threads'[t] = [threads[t] EXCEPT !.op = "write_captured"])
  BY <1>2, JobKinds DEF CallCapture, Doing
<1>11. ~ (CallRelease(t) /\ threads'[t] = [threads[t] EXCEPT !.op = "write_released"])
  BY <1>2, JobKinds DEF CallRelease, Doing
<1>12. QED
  BY <1>1, <1>2, <1>3, <1>4, <1>5, <1>6, <1>7, <1>8, <1>9, <1>10, <1>11, ThreadsChange

-----------------------------------------------------------------------------
(* Rows and authorizations *)

LEMMA StepRowsTellTruth == ASSUME IInv, [Next]_vars PROVE RowsTellTruth'
<1> USE DEF IInv
<1> SUFFICES ASSUME NEW h \in Hold
             PROVE  /\ holds'[h].status = "captured" =>
                         /\ auths'[h].state = "captured"
                         /\ auths'[h].taken = holds'[h].captured_amount
                    /\ holds'[h].status = "released" => auths'[h].state = "void"
                    /\ holds'[h].status = "authorized" => auths'[h].state # "none"
  BY DEF RowsTellTruth
<1>1. ASSUME auths[h].state # "none"
      PROVE  /\ auths'[h].state # "none"
             /\ auths[h].state \in {"captured", "void"} => auths'[h] = auths[h]
  <2>1. auths[h] # NoAuth
    BY <1>1 DEF NoAuth
  <2>2. QED
    BY <2>1, AuthsKept, AuthKinds, TypeAuths
<1>2. CASE holds'[h] = holds[h]
  BY <1>1, <1>2 DEF RowsTellTruth
<1>3. ASSUME NEW t \in Thread, CommitPlace(t), threads[t].hold = h
      PROVE  /\ holds'[h].status \in {"authorized", "failed"}
             /\ holds'[h].status = "authorized" => auths'[h].state # "none"
  BY <1>3 DEF CommitPlace, PlacedOK, TypeOK
<1>4. ASSUME NEW t \in Thread, CommitCapture(t), threads[t].hold = h
      PROVE  /\ holds'[h].status = "captured"
             /\ auths'[h].state = "captured" /\ auths'[h].taken = holds'[h].captured_amount
  <2>1. holds[h].status = "authorized"
    BY <1>4 DEF WritingOK, Writing, Doing, CommitCapture
  <2>2. holds[h] \in [status: {"authorized", "captured", "released", "failed"},
                      method: Method, amount: Nat, captured_amount: Nat]
    BY <2>1, RowKinds DEF TypeOK
  <2>3. holds'[h] = [holds[h] EXCEPT !.status = "captured", !.captured_amount = threads[t].amount]
    BY <1>4 DEF CommitCapture, TypeOK
  <2>4. auths[h].state = "captured" /\ auths[h].taken = threads[t].amount
    BY <1>4 DEF WritingOK, Writing, Doing, CommitCapture
  <2>5. QED
    BY <1>4, <2>2, <2>3, <2>4 DEF CommitCapture
<1>5. ASSUME NEW t \in Thread, CommitRelease(t), threads[t].hold = h
      PROVE  holds'[h].status = "released" /\ auths'[h].state = "void"
  <2>1. holds[h].status = "authorized"
    BY <1>5 DEF WritingOK, Writing, Doing, CommitRelease
  <2>2. holds[h] \in [status: {"authorized", "captured", "released", "failed"},
                      method: Method, amount: Nat, captured_amount: Nat]
    BY <2>1, RowKinds DEF TypeOK
  <2>3. holds'[h] = [holds[h] EXCEPT !.status = "released"]
    BY <1>5 DEF CommitRelease, TypeOK
  <2>4. auths[h].state = "void"
    BY <1>5 DEF WritingOK, Writing, Doing, CommitRelease
  <2>5. QED
    BY <1>5, <2>2, <2>3, <2>4 DEF CommitRelease
<1>6. QED
  BY <1>2, <1>3, <1>4, <1>5, HoldsChange

LEMMA StepSameAmount == ASSUME IInv, [Next]_vars PROVE SameAmount'
<1> USE DEF IInv
<1> SUFFICES ASSUME NEW h \in Hold, holds'[h] # NoHold, auths'[h] # NoAuth
             PROVE  holds'[h].amount = auths'[h].amount
  BY DEF SameAmount
<1>1. CASE holds[h] # NoHold /\ auths[h] # NoAuth
  BY <1>1, RowsKept, AuthsKept DEF SameAmount
<1>2. CASE holds[h] = NoHold
  <2>1. ASSUME NEW t \in Thread, CommitCapture(t) \/ CommitRelease(t) PROVE threads[t].hold # h
    BY <1>2, <2>1 DEF WritingOK, Writing, CommitCapture, CommitRelease, Doing, NoHold
  <2>2. PICK t \in Thread : CommitPlace(t) /\ threads[t].hold = h
    BY <1>2, <2>1, HoldsChange
  <2>3. holds'[h] = threads[t].row /\ auths'[h] = auths[h]
    BY <2>2 DEF CommitPlace, TypeOK
  <2>4. auths[h].state # "none"
    BY <2>3, AuthKinds DEF TypeOK
  <2>5. QED
    BY <2>2, <2>3, <2>4 DEF PlacedOK, CommitPlace
<1>3. CASE holds[h] # NoHold /\ auths[h] = NoAuth
  <2>1. ~ \E t \in Thread, status \in {"authorized", "failed"} : CallAuthorize(t, h, status)
    BY <1>3 DEF CallAuthorize, Fresh
  <2>2. auths[h].state = "none"
    BY <1>3 DEF NoAuth
  <2>3. ASSUME NEW t \in Thread, CallCapture(t) \/ CallRelease(t) PROVE threads[t].hold # h
    BY <2>2, <2>3 DEF CallCapture, CallRelease
  <2>4. ~ ProviderExpires(h)
    BY <2>2 DEF ProviderExpires
  <2>5. QED
    BY <1>3, <2>1, <2>3, <2>4, AuthsChange
<1>4. QED
  BY <1>1, <1>2, <1>3

LEMMA StepNeverMore == ASSUME IInv, [Next]_vars PROVE NeverMoreThanHeld'
<1> USE DEF IInv
<1> SUFFICES ASSUME NEW h \in Hold, auths'[h].state = "captured"
             PROVE  auths'[h].taken <= auths'[h].amount
  BY DEF NeverMoreThanHeld
<1>1. CASE auths'[h] = auths[h]
  BY <1>1 DEF NeverMoreThanHeld
<1>2. ASSUME NEW t \in Thread, NEW status \in {"authorized", "failed"},
             CallAuthorize(t, h, status)
      PROVE  auths'[h] = auths[h]
  BY <1>2 DEF CallAuthorize, TypeOK
<1>3. ASSUME NEW t \in Thread, CallCapture(t), threads[t].hold = h
      PROVE  auths'[h].taken <= auths'[h].amount
  <2>1. auths[h].state = "held" /\ threads[t].op = "capture"
    BY <1>3 DEF CallCapture, Doing
  <2>2. auths[h] # NoAuth
    BY <2>1 DEF NoAuth
  <2>3. auths[h] \in [state: {"held", "captured", "void"}, amount: Nat, taken: Nat]
    BY <2>2, AuthKinds DEF TypeOK
  <2>4. auths'[h] = [auths[h] EXCEPT !.state = "captured", !.taken = threads[t].amount]
    BY <1>3 DEF CallCapture, TypeOK
  <2>5. /\ holds[h].status \in {"authorized", "captured", "released"}
        /\ threads[t].amount <= holds[h].amount
    BY <1>3, <2>1 DEF CaptureOK, Doing
  <2>6. holds[h] # NoHold
    BY <2>5 DEF NoHold
  <2>7. holds[h].amount = auths[h].amount
    BY <2>2, <2>6 DEF SameAmount
  <2>8. QED
    BY <2>3, <2>4, <2>5, <2>7
<1>4. ASSUME NEW t \in Thread, CallRelease(t), threads[t].hold = h PROVE FALSE
  <2>1. auths[h].state = "held"
    BY <1>4 DEF CallRelease
  <2>2. auths[h] \in [state: {"held", "captured", "void"}, amount: Nat, taken: Nat]
    BY <2>1, AuthKinds DEF TypeOK, NoAuth
  <2>3. auths'[h] = [auths[h] EXCEPT !.state = "void"]
    BY <1>4 DEF CallRelease, TypeOK
  <2>4. QED
    BY <2>2, <2>3
<1>5. ASSUME ProviderExpires(h) PROVE FALSE
  <2>1. auths[h] \in [state: {"held", "captured", "void"}, amount: Nat, taken: Nat]
    BY <1>5, AuthKinds DEF ProviderExpires, TypeOK, NoAuth
  <2>2. auths'[h] = [auths[h] EXCEPT !.state = "void"]
    BY <1>5 DEF ProviderExpires, TypeOK
  <2>3. QED
    BY <2>1, <2>2
<1>6. QED
  BY <1>1, <1>2, <1>3, <1>4, <1>5, AuthsChange

-----------------------------------------------------------------------------
(* Theorems *)

LEMMA InitIInv == ASSUME Init PROVE IInv
BY DEF Init, IInv, TypeOK, RowsTellTruth, NeverMoreThanHeld, SameAmount, PlacedOK, CaptureOK,
   ReleaseOK, WritingOK, Writing, MethodOK, Doing, MethodRow, NoMethod, HoldRow, NoHold,
   Auth, NoAuth, Job, Idle

LEMMA StepIInv == ASSUME IInv, [Next]_vars PROVE IInv'
BY StepTypeOK, StepRowsTellTruth, StepNeverMore, StepSameAmount, StepPlacedOK, StepCaptureOK,
   StepReleaseOK, StepWritingOK, StepMethodOK
DEF IInv

\* Every state the program can reach satisfies the inductive invariant: what each
\* request in flight has read of methods, holds and the provider still bears it out.
THEOREM Invariance == Spec => []IInv
<1>1. Init => IInv
  BY InitIInv
<1>2. IInv /\ [Next]_vars => IInv'
  BY StepIInv
<1>3. QED
  BY <1>1, <1>2, PTL DEF Spec

\* Methods, holds and jobs are always of the kinds the code gives them; in particular
\* no row ever has a status outside the four place, capture and release write.
THEOREM TypeCorrect == Spec => []TypeOK
<1>1. IInv => TypeOK
  BY DEF IInv
<1>2. QED
  BY <1>1, Invariance, PTL

\* A hold's row and the provider agree, for any number of captures, releases and
\* expiries that overlap: the row of a captured hold has the amount the provider took,
\* and of a released hold nothing is or can be taken.
THEOREM RowsAreTrue == Spec => []RowsTellTruth
<1>1. IInv => RowsTellTruth
  BY DEF IInv
<1>2. QED
  BY <1>1, Invariance, PTL

\* Capturing never takes more than was authorized, whatever amount is asked for and
\* however requests overlap, although the provider would allow it.
THEOREM CapturedWithinHold == Spec => []NeverMoreThanHeld
<1>1. IInv => NeverMoreThanHeld
  BY DEF IInv
<1>2. QED
  BY <1>1, Invariance, PTL

\* The row of a hold that was captured, released or refused is final: no request that
\* read it while it was still authorized overwrites it.
THEOREM SettledIsFinal == Spec => SettledOnce
<1> DEFINE Final(h) == holds[h].status \in {"captured", "released", "failed"} =>
                       holds'[h] = holds[h]
<1>1. ASSUME IInv, [Next]_vars PROVE \A h \in Hold : Final(h)
  <2>1. ASSUME NEW h \in Hold, holds[h].status \in {"captured", "released", "failed"}
        PROVE  holds'[h] = holds[h]
    <3>1. holds[h] # NoHold
      BY <2>1 DEF NoHold
    <3>2. QED
      BY <1>1, <2>1, <3>1, RowsKept
  <2>2. QED
    BY <2>1
<1>2. QED
  BY <1>1, Invariance, PTL DEF Spec, SettledOnce

LEMMA StepRetired ==
    ASSUME IInv, [Next]_vars, NEW m \in Retired
    PROVE  /\ methods'[m].status = "removed"
           /\ \A t \in Thread : /\ threads'[t].op = "place" => threads'[t].method # m
                                /\ threads'[t].op = "placed" => threads'[t].row.method # m
           /\ \A h \in Hold : holds'[h] # holds[h] /\ holds[h] = NoHold =>
                              holds'[h].method # m
<1> USE DEF IInv
<1>0. m \in Method /\ methods[m].status = "removed"
  BY DEF Retired
<1>p. ASSUME NEW t \in Thread, threads[t].op = "place" PROVE threads[t].method # m
  BY <1>p DEF Retired
<1>q. ASSUME NEW t \in Thread, threads[t].op = "placed" PROVE threads[t].row.method # m
  BY <1>q DEF Retired
<1>1. methods'[m].status = "removed"
  <2>1. methods[m] \in [status: {"active", "removed"}, token: Token]
    BY <1>0, MethodKinds DEF TypeOK, NoMethod
  <2>2. ASSUME NEW t \in Thread, CommitRemove(t), threads[t].method = m
        PROVE  methods'[m] = [methods[m] EXCEPT !.status = "removed"]
    BY <1>0, <2>2 DEF CommitRemove, TypeOK
  <2>3. ~ \E x \in Token : CompleteSetup(m, x)
    BY <1>0 DEF CompleteSetup, NoMethod
  <2>4. QED
    BY <1>0, <2>1, <2>2, <2>3, MethodsChange
<1>2. ASSUME NEW t \in Thread, threads'[t].op = "place" PROVE threads'[t].method # m
  <2>1. threads[t] \in Job /\ threads'[t] # Idle
    BY <1>2 DEF TypeOK, Idle
  <2>2. ASSUME NEW n \in Method, NEW amount \in 0..MaxAmount, BeginPlace(t, n, amount)
        PROVE  threads'[t].method = n /\ n # m
    BY <1>0, <2>2 DEF BeginPlace, Begin, TypeOK
  <2>3. ~ \E h \in Hold, status \in {"authorized", "failed"} : CallAuthorize(t, h, status)
    BY <1>2 DEF TypeOK, CallAuthorize, Continue
  <2>4. ~ \E h \in Hold, amount \in 0..MaxAmount : BeginCapture(t, h, amount)
    BY <1>2 DEF TypeOK, BeginCapture, Begin
  <2>5. ~ \E h \in Hold : BeginRelease(t, h)
    BY <1>2 DEF TypeOK, BeginRelease, Begin
  <2>6. ~ \E n \in Method : BeginRemove(t, n)
    BY <1>2 DEF TypeOK, BeginRemove, Begin
  <2>7. ~ CallRemove(t)
    BY <1>2, <2>1, JobKinds DEF TypeOK, CallRemove, Continue, Doing
  <2>8. ~ (CallCapture(t) /\ threads'[t] = [threads[t] EXCEPT !.op = "write_captured"])
    BY <1>2, <2>1, JobKinds DEF CallCapture, Doing
  <2>9. ~ (CallRelease(t) /\ threads'[t] = [threads[t] EXCEPT !.op = "write_released"])
    BY <1>2, <2>1, JobKinds DEF CallRelease, Doing
  <2>10. \/ threads'[t] = threads[t]
         \/ \E n \in Method, amount \in 0..MaxAmount : BeginPlace(t, n, amount)
    BY <2>1, <2>3, <2>4, <2>5, <2>6, <2>7, <2>8, <2>9, ThreadsChange
  <2>11. ASSUME threads'[t] = threads[t] PROVE threads'[t].method # m
    BY <1>p, <1>2, <2>11
  <2>12. QED
    BY <2>2, <2>10, <2>11
<1>3. ASSUME NEW t \in Thread, threads'[t].op = "placed" PROVE threads'[t].row.method # m
  <2>1. ASSUME NEW h \in Hold, NEW status \in {"authorized", "failed"},
               CallAuthorize(t, h, status)
        PROVE  threads[t].op = "place" /\ threads'[t].row.method = threads[t].method
    BY <2>1 DEF CallAuthorize, Continue, Doing, TypeOK
  <2>2. ASSUME threads'[t] = threads[t] PROVE threads'[t].row.method # m
    BY <1>q, <1>3, <2>2
  <2>3. ASSUME NEW h \in Hold, NEW status \in {"authorized", "failed"},
               CallAuthorize(t, h, status)
        PROVE  threads'[t].row.method # m
    BY <1>p, <2>1, <2>3
  <2>4. QED
    BY <1>3, <2>2, <2>3, PlacedOnlyBy
<1>4. ASSUME NEW h \in Hold, holds'[h] # holds[h], holds[h] = NoHold
      PROVE  holds'[h].method # m
  <2>1. ASSUME NEW t \in Thread, CommitCapture(t) \/ CommitRelease(t) PROVE threads[t].hold # h
    BY <1>4, <2>1 DEF WritingOK, Writing, CommitCapture, CommitRelease, Doing, NoHold
  <2>2. PICK t \in Thread : CommitPlace(t) /\ threads[t].hold = h
    BY <1>4, <2>1, HoldsChange
  <2>3. holds'[h] = threads[t].row /\ threads[t].op = "placed"
    BY <2>2 DEF CommitPlace, Doing, TypeOK
  <2>4. QED
    BY <1>q, <2>3
<1>5. QED
  BY <1>1, <1>2, <1>3, <1>4

\* A removed method that no request in flight has read is never charged again: no
\* later step places a hold on it, brings it back or reads it to place one.
THEOREM RemovedIsNotCharged == Spec => RemovedNotCharged
<1>1. ASSUME IInv, [Next]_vars
      PROVE  /\ Retired \subseteq Retired'
             /\ \A h \in Hold : holds[h] = NoHold /\ holds'[h] # NoHold =>
                                holds'[h].method \notin Retired
  <2>1. ASSUME NEW m \in Retired PROVE m \in Retired'
    <3>1. m \in Method
      BY DEF Retired
    <3>2. /\ methods'[m].status = "removed"
          /\ \A t \in Thread : /\ threads'[t].op = "place" => threads'[t].method # m
                               /\ threads'[t].op = "placed" => threads'[t].row.method # m
      BY <1>1, StepRetired
    <3>3. QED
      BY <3>1, <3>2 DEF Retired
  <2>2. ASSUME NEW h \in Hold, holds[h] = NoHold, holds'[h] # NoHold
        PROVE  holds'[h].method \notin Retired
    BY <1>1, <2>2, StepRetired
  <2>3. QED
    BY <2>1, <2>2
<1>2. QED
  BY <1>1, Invariance, PTL DEF Spec, RemovedNotCharged
=============================================================================
