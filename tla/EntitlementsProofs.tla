-------------------------- MODULE EntitlementsProofs --------------------------
(***************************************************************************)
(* Theorems about Entitlements, for every number of applications, grants,  *)
(* periods and overlapping requests, and every limit and amount.           *)
(***************************************************************************)
EXTENDS Entitlements, TLAPS

-----------------------------------------------------------------------------
(* Rows, jobs and limits *)

LEMMA RowKinds ==
    ASSUME NEW row \in EntitlementRow
    PROVE  /\ row # NoRow <=> row.status # "none"
           /\ row # NoRow =>
                /\ row \in [status: {"active", "revoked"}, scope: Scope,
                            expired: BOOLEAN, limit: Nat, period: Period]
                /\ row.status \in {"active", "revoked"}
BY DEF EntitlementRow, NoRow

LEMMA JobKinds ==
    ASSUME NEW job \in Job
    PROVE  /\ job.op = "grant" => /\ job.existing \in SUBSET Row /\ job.scope \in Scope
                                  /\ job.limit \in Nat /\ job.period \in Period
           /\ job.op = "revoke" => job.listed \in SUBSET Row
           /\ job.op = "open" =>
                /\ job.period \in Period \cup {"past"} /\ job.limit \in Nat
                /\ job.amount \in Nat /\ job.allow_credits \in BOOLEAN
           /\ job.op = "spend" =>
                /\ job.period \in Period \cup {"past"} /\ job.used \in Nat
                /\ job.from_allowance \in Nat /\ job.from_credits \in Nat
           /\ job.op \in {"open", "spend"} =>
                LET late == [job EXCEPT !.period = "past"]
                IN  late \in Job /\ late.op = job.op /\ late.period = "past"
<1>0. CASE job = Idle
  BY <1>0 DEF Idle
<1>1. CASE job \in [op: {"grant"}, existing: SUBSET Row, scope: Scope, limit: Nat, period: Period]
  BY <1>1
<1>2. CASE job \in [op: {"revoke"}, listed: SUBSET Row]
  BY <1>2
<1>3. CASE job \in [op: {"open"}, period: Period \cup {"past"}, limit: Nat, amount: Nat,
                    allow_credits: BOOLEAN]
  <2>1. [job EXCEPT !.period = "past"] \in Job
    BY <1>3 DEF Job
  <2>2. QED
    BY <1>3, <2>1
<1>4. CASE job \in [op: {"spend"}, period: Period \cup {"past"}, used: Nat,
                    from_allowance: Nat, from_credits: Nat]
  <2>1. [job EXCEPT !.period = "past"] \in Job
    BY <1>4 DEF Job
  <2>2. QED
    BY <1>4, <2>1
<1>5. QED
  BY <1>0, <1>1, <1>2, <1>3, <1>4 DEF Job

LEMMA IdleJob == Idle \in Job /\ Idle.op = "idle"
BY DEF Job, Idle

\* What an allowance gives is never negative, never more than is asked for, and never
\* takes what was used beyond the limit.
LEMMA AllowanceGives ==
    ASSUME NEW limit \in Nat, NEW used \in Nat, NEW amount \in Nat
    PROVE  LET given == FromAllowance(limit, used, amount)
           IN  /\ given \in Nat /\ given <= amount
               /\ given = 0 \/ used + given <= limit
BY DEF FromAllowance, Larger, Smaller

\* The limit a request goes by is one of those recorded for its period.
LEMMA SpecsRecorded ==
    ASSUME TypeOK, LimitsOK, NEW app \in App, NEW spec \in Specs(app)
    PROVE  /\ spec.period \in Period /\ spec.limit \in Nat
           /\ spec.limit \in limits[spec.period]
<1>1. CASE spec = [limit |-> FreeLimit, period |-> FreePeriod]
  BY <1>1, EntitlementsAssumption DEF LimitsOK, FreeLimits
<1>2. CASE \E r \in Row : InForce(r) /\ spec = [limit |-> rows[r].limit, period |-> rows[r].period]
  <2>1. PICK r \in Row : /\ InForce(r)
                         /\ spec = [limit |-> rows[r].limit, period |-> rows[r].period]
    BY <1>2
  <2>2. rows[r] \in EntitlementRow /\ rows[r] # NoRow
    BY <2>1 DEF TypeOK, InForce, NoRow
  <2>3. rows[r].limit \in Nat /\ rows[r].period \in Period
    BY <2>2, RowKinds
  <2>4. QED
    BY <2>1, <2>3 DEF LimitsOK
<1>3. QED
  BY <1>1, <1>2 DEF Specs

-----------------------------------------------------------------------------
(* What one step can do *)

\* A row is as it was, or granted, revoked or expired in this step.
LEMMA RowsChange ==
    ASSUME TypeOK, ReadOK, [Next]_vars, NEW r \in Row
    PROVE  /\ rows'[r] \in EntitlementRow
           /\ rows[r] # NoRow => rows'[r] # NoRow
           /\ rows[r].status = "revoked" => rows'[r].status = "revoked"
           /\ (rows'[r].status = "active" /\ ~rows'[r].expired) =>
                \/ rows'[r] = rows[r]
                \/ \E t \in Thread : /\ CommitGrant(t, r)
                                     /\ rows'[r].limit = threads[t].limit
                                     /\ rows'[r].period = threads[t].period
<1> DEFINE Good == /\ rows'[r] \in EntitlementRow
                   /\ rows[r] # NoRow => rows'[r] # NoRow
                   /\ rows[r].status = "revoked" => rows'[r].status = "revoked"
           New(t) == /\ rows'[r].limit = threads[t].limit
                     /\ rows'[r].period = threads[t].period
<1>0. rows[r] \in EntitlementRow
  BY DEF TypeOK
<1>1. CASE UNCHANGED rows
  BY <1>0, <1>1
<1>2. ASSUME NEW t \in Thread, NEW q \in Row, CommitGrant(t, q), q = r
      PROVE  Good /\ New(t)
  <2>1. /\ threads[t] \in Job /\ threads[t].op = "grant"
    BY <1>2 DEF CommitGrant, Doing, TypeOK
  <2>2. /\ threads[t].existing \in SUBSET Row /\ threads[t].scope \in Scope
        /\ threads[t].limit \in Nat /\ threads[t].period \in Period
    BY <2>1, JobKinds
  <2> DEFINE New2 == [status |-> "active", scope |-> threads[t].scope, expired |-> FALSE,
                      limit |-> threads[t].limit, period |-> threads[t].period]
  <2>3. CASE /\ r \in threads[t].existing
             /\ rows' = [rows EXCEPT ![r] = [New2 EXCEPT !.status = rows[r].status]]
    <3>1. rows[r] # NoRow
      BY <1>2, <2>3 DEF ReadOK, CommitGrant
    <3>2. rows[r].status \in {"active", "revoked"}
      BY <1>0, <3>1, RowKinds
    <3>3. rows'[r] = [New2 EXCEPT !.status = rows[r].status]
      BY <2>3 DEF TypeOK
    <3>4. QED
      BY <2>2, <3>1, <3>2, <3>3 DEF EntitlementRow, NoRow
  <2>4. CASE /\ rows[r] = NoRow
             /\ rows' = [rows EXCEPT ![r] = New2]
    <3>1. rows'[r] = New2
      BY <2>4 DEF TypeOK
    <3>2. QED
      BY <2>2, <2>4, <3>1 DEF EntitlementRow, NoRow
  <2>5. QED
    BY <1>2, <2>3, <2>4 DEF CommitGrant
<1>3. ASSUME NEW t \in Thread, NEW q \in Row, CommitGrant(t, q), q # r
      PROVE  rows'[r] = rows[r]
  BY <1>3 DEF CommitGrant, TypeOK
<1>4. ASSUME NEW t \in Thread, CommitRevoke(t)
      PROVE  Good /\ (rows'[r] = rows[r] \/ rows'[r].status = "revoked")
  <2>1. CASE r \notin threads[t].listed
    BY <1>0, <1>4, <2>1 DEF CommitRevoke
  <2>2. CASE r \in threads[t].listed
    <3>1. rows[r] # NoRow
      BY <1>4, <2>2 DEF ReadOK, CommitRevoke
    <3>2. rows[r] \in [status: {"active", "revoked"}, scope: Scope,
                       expired: BOOLEAN, limit: Nat, period: Period]
      BY <1>0, <3>1, RowKinds
    <3>3. rows'[r] = [rows[r] EXCEPT !.status = "revoked"]
      BY <1>4, <2>2 DEF CommitRevoke
    <3>4. QED
      BY <3>2, <3>3 DEF EntitlementRow, NoRow
  <2>3. QED
    BY <2>1, <2>2
<1>5. ASSUME NEW q \in Row, Expires(q)
      PROVE  Good /\ (rows'[r] = rows[r] \/ rows'[r].expired)
  <2>1. CASE q # r
    BY <1>0, <1>5, <2>1 DEF Expires, TypeOK
  <2>2. CASE q = r
    <3>1. rows[r] # NoRow
      BY <1>5, <2>2 DEF Expires, InForce, NoRow
    <3>2. rows[r] \in [status: {"active", "revoked"}, scope: Scope,
                       expired: BOOLEAN, limit: Nat, period: Period]
      BY <1>0, <3>1, RowKinds
    <3>3. rows'[r] = [rows[r] EXCEPT !.expired = TRUE]
      BY <1>5, <2>2 DEF Expires, TypeOK
    <3>4. QED
      BY <3>2, <3>3 DEF EntitlementRow, NoRow
  <2>3. QED
    BY <2>1, <2>2
<1>6. \/ UNCHANGED rows
      \/ \E t \in Thread, q \in Row : CommitGrant(t, q)
      \/ \E t \in Thread : CommitRevoke(t)
      \/ \E q \in Row : Expires(q)
  BY DEF Next, vars, OperatorNext, ConsumeNext, ClockNext, BeginGrant, BeginRevoke, AddCredits,
         BeginSpend, BeginOpen, CommitSpend, CommitOpen, NewPeriod, RequestFails
<1>7. CASE \E t \in Thread, q \in Row : CommitGrant(t, q)
  BY <1>0, <1>2, <1>3, <1>7
<1>8. QED
  BY <1>1, <1>4, <1>5, <1>6, <1>7

\* The limits that were recorded stay recorded, unless the period ends.
LEMMA LimitsChange ==
    ASSUME TypeOK, [Next]_vars, NEW p \in Period
    PROVE  \/ limits'[p] = limits[p]
           \/ NewPeriod(p) /\ limits'[p] = LimitsInForce(p)
           \/ \E t \in Thread, r \in Row : /\ CommitGrant(t, r) /\ threads[t].period = p
                                          /\ limits'[p] = limits[p] \cup {threads[t].limit}
<1>1. CASE UNCHANGED limits
  BY <1>1
<1>2. ASSUME NEW t \in Thread, NEW r \in Row, CommitGrant(t, r)
      PROVE  \/ limits'[p] = limits[p]
             \/ threads[t].period = p /\ limits'[p] = limits[p] \cup {threads[t].limit}
  BY <1>2 DEF CommitGrant, Raised, TypeOK
<1>3. ASSUME NEW q \in Period, NewPeriod(q)
      PROVE  limits'[p] = limits[p] \/ (q = p /\ limits'[p] = LimitsInForce(p))
  BY <1>3 DEF NewPeriod, TypeOK
<1>4. QED
  BY <1>1, <1>2, <1>3
  DEF Next, vars, OperatorNext, ConsumeNext, ClockNext, BeginGrant, BeginRevoke, CommitRevoke,
      AddCredits, BeginSpend, BeginOpen, CommitSpend, CommitOpen, Expires, RequestFails

\* What a row of usage says is nothing, what it said, or what a request had in hand.
LEMMA UsageChanges ==
    ASSUME TypeOK, [Next]_vars, NEW p \in Period
    PROVE  \/ usage'[p] = usage[p]
           \/ NewPeriod(p) /\ usage'[p] = Missing
           \/ /\ limits'[p] = limits[p]
              /\ \E t \in Thread :
                   \/ Doing(t, "spend") /\ threads[t].period = p /\ usage'[p] = threads[t].used
                   \/ /\ Doing(t, "open") /\ threads[t].period = p
                      /\ usage'[p] = TakesFirst(threads[t]).allowance
<1>1. CASE UNCHANGED usage
  BY <1>1
<1>2. ASSUME NEW t \in Thread, CommitSpend(t)
      PROVE  \/ usage'[p] = usage[p]
             \/ /\ limits'[p] = limits[p]
                /\ Doing(t, "spend") /\ threads[t].period = p /\ usage'[p] = threads[t].used
  BY <1>2 DEF CommitSpend, TypeOK
<1>3. ASSUME NEW t \in Thread, CommitOpen(t)
      PROVE  \/ usage'[p] = usage[p]
             \/ /\ limits'[p] = limits[p]
                /\ Doing(t, "open") /\ threads[t].period = p
                /\ usage'[p] = TakesFirst(threads[t]).allowance
  BY <1>3 DEF CommitOpen, TypeOK
<1>4. ASSUME NEW q \in Period, NewPeriod(q)
      PROVE  usage'[p] = usage[p] \/ (q = p /\ usage'[p] = Missing)
  BY <1>4 DEF NewPeriod, TypeOK
<1>5. QED
  BY <1>1, <1>2, <1>3, <1>4
  DEF Next, vars, OperatorNext, ConsumeNext, ClockNext, BeginGrant, BeginRevoke, CommitGrant,
      CommitRevoke, AddCredits, BeginSpend, BeginOpen, Expires, RequestFails

\* What a request that begins in this step is.
Begins(t) ==
    \/ \E scope \in Scope, limit \in FreeLimit..MaxLimit, period \in Period :
         BeginGrant(t, scope, limit, period)
    \/ \E scope \in Scope : BeginRevoke(t, scope)
    \/ \E app \in App, amount \in 1..MaxAmount, allow_credits \in BOOLEAN :
         BeginSpend(t, app, amount, allow_credits) \/ BeginOpen(t, app, amount, allow_credits)

\* A request is as it was, over, or begins in this step, unless a period ends.
LEMMA ThreadsChange ==
    ASSUME TypeOK, [Next]_vars, NEW t \in Thread
    PROVE  \/ threads'[t] = threads[t]
           \/ threads'[t] = Idle
           \/ Begins(t)
           \/ \E p \in Period : NewPeriod(p)
<1> DEFINE Kept == threads'[t] = threads[t] \/ threads'[t] = Idle
<1>1. CASE UNCHANGED threads
  BY <1>1
<1>2. ASSUME NEW q \in Thread, q # t,
             NEW job, Begin(q, job)
      PROVE  Kept
  BY <1>2 DEF Begin, TypeOK
<1>3. ASSUME NEW q \in Thread, Finish(q)
      PROVE  Kept
  BY <1>3 DEF Finish, TypeOK
<1>4. ASSUME NEW q \in Thread, NEW scope \in Scope, NEW limit \in FreeLimit..MaxLimit,
             NEW period \in Period, BeginGrant(q, scope, limit, period)
      PROVE  Kept \/ Begins(t)
  BY <1>2, <1>4 DEF BeginGrant, Begins
<1>5. ASSUME NEW q \in Thread, NEW scope \in Scope, BeginRevoke(q, scope)
      PROVE  Kept \/ Begins(t)
  BY <1>2, <1>5 DEF BeginRevoke, Begins
<1>6. ASSUME NEW q \in Thread, NEW app \in App, NEW amount \in 1..MaxAmount,
             NEW allow_credits \in BOOLEAN, BeginSpend(q, app, amount, allow_credits)
      PROVE  Kept \/ Begins(t)
  BY <1>2, <1>6 DEF BeginSpend, Begins
<1>7. ASSUME NEW q \in Thread, NEW app \in App, NEW amount \in 1..MaxAmount,
             NEW allow_credits \in BOOLEAN, BeginOpen(q, app, amount, allow_credits)
      PROVE  Kept \/ Begins(t)
  BY <1>2, <1>7 DEF BeginOpen, Begins
<1>8. ASSUME NEW q \in Thread, \/ CommitRevoke(q) \/ CommitSpend(q) \/ CommitOpen(q)
                               \/ RequestFails(q) \/ \E r \in Row : CommitGrant(q, r)
      PROVE  Finish(q)
  BY <1>8 DEF CommitRevoke, CommitSpend, CommitOpen, RequestFails, CommitGrant
<1>9. CASE OperatorNext
  BY <1>1, <1>3, <1>4, <1>5, <1>8, <1>9 DEF OperatorNext, AddCredits
<1>10. CASE ConsumeNext
  BY <1>3, <1>6, <1>7, <1>8, <1>10 DEF ConsumeNext
<1>11. CASE ClockNext
  BY <1>1, <1>3, <1>8, <1>11 DEF ClockNext, Expires
<1>12. QED
  BY <1>1, <1>9, <1>10, <1>11 DEF Next, vars

\* What a request that begins in this step has read.
LEMMA BeginsWith ==
    ASSUME TypeOK, LimitsOK, UsedWithinLimit, NEW t \in Thread, Begins(t)
    PROVE  /\ threads'[t] \in Job
           /\ threads'[t].op = "grant" => \A r \in threads'[t].existing : rows[r] # NoRow
           /\ threads'[t].op = "revoke" => \A r \in threads'[t].listed : rows[r] # NoRow
           /\ threads'[t].op = "open" => threads'[t].limit \in limits[threads'[t].period]
           /\ threads'[t].op = "spend" =>
                \E n \in limits[threads'[t].period] : threads'[t].used <= n
           /\ UNCHANGED <<rows, usage, limits>>
<1>0. \A r \in Row, scope \in Scope : Held(r, scope) => rows[r] # NoRow
  BY DEF Held, NoRow
<1>1. ASSUME NEW scope \in Scope, NEW limit \in FreeLimit..MaxLimit, NEW period \in Period,
             BeginGrant(t, scope, limit, period)
      PROVE  /\ threads'[t] \in Job
             /\ threads'[t].op = "grant" /\ \A r \in threads'[t].existing : rows[r] # NoRow
             /\ UNCHANGED <<rows, usage, limits>>
  <2>1. PICK existing \in SUBSET {r \in Row : Held(r, scope)} :
             threads' = [threads EXCEPT ![t] =
               [op |-> "grant", existing |-> existing, scope |-> scope,
                limit |-> limit, period |-> period]]
    BY <1>1 DEF BeginGrant, Begin
  <2>2. threads'[t] = [op |-> "grant", existing |-> existing, scope |-> scope,
                       limit |-> limit, period |-> period]
    BY <2>1 DEF TypeOK
  <2>3. limit \in Nat
    BY EntitlementsAssumption
  <2>4. threads'[t] \in Job
    BY <2>2, <2>3 DEF Job
  <2>5. QED
    BY <1>0, <1>1, <2>2, <2>4 DEF BeginGrant
<1>2. ASSUME NEW scope \in Scope, BeginRevoke(t, scope)
      PROVE  /\ threads'[t] \in Job
             /\ threads'[t].op = "revoke" /\ \A r \in threads'[t].listed : rows[r] # NoRow
             /\ UNCHANGED <<rows, usage, limits>>
  <2>1. threads'[t] = [op |-> "revoke", listed |-> {r \in Row : Held(r, scope)}]
    BY <1>2 DEF BeginRevoke, Begin, TypeOK
  <2>2. threads'[t] \in Job
    BY <2>1 DEF Job
  <2>3. QED
    BY <1>0, <1>2, <2>1, <2>2 DEF BeginRevoke
<1>3. ASSUME NEW app \in App, NEW amount \in 1..MaxAmount, NEW allow_credits \in BOOLEAN,
             BeginSpend(t, app, amount, allow_credits)
      PROVE  /\ threads'[t] \in Job
             /\ threads'[t].op = "spend"
             /\ \E n \in limits[threads'[t].period] : threads'[t].used <= n
             /\ UNCHANGED <<rows, usage, limits>>
  <2> DEFINE given(spec) == FromAllowance(spec.limit, usage[spec.period], amount)
             job(spec) == [op |-> "spend", period |-> spec.period,
                           used |-> usage[spec.period] + given(spec),
                           from_allowance |-> given(spec),
                           from_credits |-> amount - given(spec)]
  <2>1. PICK spec \in Specs(app) :
             usage[spec.period] # Missing /\ threads' = [threads EXCEPT ![t] = job(spec)]
    BY <1>3 DEF BeginSpend, Begin
  <2>2. /\ spec.period \in Period /\ spec.limit \in Nat
        /\ spec.limit \in limits[spec.period]
    BY SpecsRecorded
  <2>3. usage[spec.period] \in Nat /\ amount \in Nat
    BY <2>1, <2>2, EntitlementsAssumption DEF TypeOK
  <2>4. /\ given(spec) \in Nat /\ given(spec) <= amount
        /\ given(spec) = 0 \/ usage[spec.period] + given(spec) <= spec.limit
    BY <2>2, <2>3, AllowanceGives
  <2>5. threads'[t] = job(spec)
    BY <2>1 DEF TypeOK
  <2> HIDE DEF given
  <2>6. usage[spec.period] + given(spec) \in Nat /\ amount - given(spec) \in Nat
    BY <2>3, <2>4
  <2>7. job(spec) \in Job
    BY <2>2, <2>4, <2>6 DEF Job
  <2>8. \E n \in limits[spec.period] : usage[spec.period] + given(spec) <= n
    <3>1. CASE given(spec) = 0
      <4>1. \E n \in limits[spec.period] : usage[spec.period] <= n
        BY <2>2 DEF UsedWithinLimit
      <4>2. usage[spec.period] + given(spec) = usage[spec.period]
        BY <2>3, <3>1
      <4>3. QED
        BY <4>1, <4>2
    <3>2. CASE usage[spec.period] + given(spec) <= spec.limit
      BY <2>2, <3>2
    <3>3. QED
      BY <2>4, <3>1, <3>2
  <2>9. QED
    BY <1>3, <2>5, <2>7, <2>8 DEF BeginSpend
<1>4. ASSUME NEW app \in App, NEW amount \in 1..MaxAmount, NEW allow_credits \in BOOLEAN,
             BeginOpen(t, app, amount, allow_credits)
      PROVE  /\ threads'[t] \in Job
             /\ threads'[t].op = "open"
             /\ threads'[t].limit \in limits[threads'[t].period]
             /\ UNCHANGED <<rows, usage, limits>>
  <2> DEFINE job(spec) == [op |-> "open", period |-> spec.period, limit |-> spec.limit,
                           amount |-> amount, allow_credits |-> allow_credits]
  <2>1. PICK spec \in Specs(app) : threads' = [threads EXCEPT ![t] = job(spec)]
    BY <1>4 DEF BeginOpen, Begin
  <2>2. /\ spec.period \in Period /\ spec.limit \in Nat
        /\ spec.limit \in limits[spec.period]
    BY SpecsRecorded
  <2>3. amount \in Nat
    BY EntitlementsAssumption
  <2>4. threads'[t] = job(spec)
    BY <2>1 DEF TypeOK
  <2>5. job(spec) \in Job
    BY <2>2, <2>3 DEF Job
  <2>6. QED
    BY <1>4, <2>2, <2>4, <2>5 DEF BeginOpen
<1>5. QED
  BY <1>1, <1>2, <1>3, <1>4 DEF Begins

\* A period that ends makes the requests on its row late.
LEMMA LateThreads ==
    ASSUME TypeOK, NEW p \in Period, NewPeriod(p), NEW t \in Thread
    PROVE  /\ threads'[t] \in Job /\ threads'[t].op = threads[t].op
           /\ threads'[t].op \notin {"open", "spend"} => threads'[t] = threads[t]
           /\ threads'[t].op \in {"open", "spend"} /\ threads'[t].period \in Period =>
                threads'[t] = threads[t] /\ threads[t].period # p
<1>0. threads[t] \in Job
  BY DEF TypeOK
<1>1. CASE Consuming(t) /\ threads[t].period = p
  <2>1. threads'[t] = [threads[t] EXCEPT !.period = "past"]
    BY <1>1 DEF NewPeriod
  <2>2. /\ threads'[t] \in Job /\ threads'[t].op = threads[t].op
        /\ threads'[t].period = "past"
    BY <1>0, <1>1, <2>1, JobKinds DEF Consuming
  <2>3. QED
    BY <1>1, <2>2, EntitlementsAssumption DEF Consuming
<1>2. CASE ~(Consuming(t) /\ threads[t].period = p)
  <2>1. threads'[t] = threads[t]
    BY <1>2 DEF NewPeriod
  <2>2. QED
    BY <1>0, <1>2, <2>1 DEF Consuming
<1>3. QED
  BY <1>1, <1>2

\* A request that inserts its row takes no more than its limit.
LEMMA FirstWithinLimit ==
    ASSUME NEW job \in Job, job.op = "open"
    PROVE  /\ TakesFirst(job).allowance \in Nat /\ TakesFirst(job).allowance <= job.limit
           /\ TakesFirst(job).credits \in Nat
<1>1. job.limit \in Nat /\ job.amount \in Nat
  BY JobKinds
<1> DEFINE given == FromAllowance(job.limit, 0, job.amount)
<1>2. /\ given \in Nat /\ given <= job.amount
      /\ given = 0 \/ 0 + given <= job.limit
  BY <1>1, AllowanceGives
<1> HIDE DEF given
<1>3. given <= job.limit /\ job.amount - given \in Nat
  BY <1>1, <1>2
<1>4. \/ TakesFirst(job) = [allowance |-> given, credits |-> job.amount - given]
      \/ TakesFirst(job) = [allowance |-> 0, credits |-> 0]
  BY DEF TakesFirst, given
<1>5. QED
  BY <1>1, <1>2, <1>3, <1>4

-----------------------------------------------------------------------------
(* Every step keeps the invariant *)

LEMMA TypeRows == ASSUME IInv, [Next]_vars PROVE rows' \in [Row -> EntitlementRow]
<1> USE DEF IInv
<1>1. rows' = [r \in Row |-> rows'[r]]
  BY DEF TypeOK, Next, vars, OperatorNext, ConsumeNext, ClockNext, BeginGrant, BeginRevoke,
         CommitGrant, CommitRevoke, AddCredits, BeginSpend, BeginOpen, CommitSpend, CommitOpen,
         Expires, NewPeriod, RequestFails
<1>2. \A r \in Row : rows'[r] \in EntitlementRow
  BY RowsChange
<1>3. QED
  BY <1>1, <1>2

LEMMA TypeUsage == ASSUME IInv, [Next]_vars PROVE usage' \in [Period -> Nat \cup {Missing}]
<1> USE DEF IInv
<1>1. usage' = [p \in Period |-> usage'[p]]
  BY DEF TypeOK, Next, vars, OperatorNext, ConsumeNext, ClockNext, BeginGrant, BeginRevoke,
         CommitGrant, CommitRevoke, AddCredits, BeginSpend, BeginOpen, CommitSpend, CommitOpen,
         Expires, NewPeriod, RequestFails
<1>2. ASSUME NEW p \in Period PROVE usage'[p] \in Nat \cup {Missing}
  <2>1. ASSUME NEW t \in Thread, Doing(t, "spend") PROVE threads[t].used \in Nat
    BY <2>1, JobKinds DEF Doing, TypeOK
  <2>2. ASSUME NEW t \in Thread, Doing(t, "open")
        PROVE  TakesFirst(threads[t]).allowance \in Nat
    BY <2>2, FirstWithinLimit DEF Doing, TypeOK
  <2>3. QED
    BY <2>1, <2>2, UsageChanges DEF TypeOK
<1>3. QED
  BY <1>1, <1>2

LEMMA TypeBalance == ASSUME IInv, [Next]_vars PROVE balance' \in Int
<1> USE DEF IInv
<1>1. ASSUME NEW t \in Thread, CommitSpend(t) PROVE balance' \in Int
  <2>1. threads[t].from_credits \in Nat /\ balance \in Int
    BY <1>1, JobKinds DEF CommitSpend, Doing, TypeOK
  <2>2. balance' = balance - threads[t].from_credits
    BY <1>1 DEF CommitSpend
  <2>3. QED
    BY <2>1, <2>2
<1>2. ASSUME NEW t \in Thread, CommitOpen(t) PROVE balance' \in Int
  BY <1>2, FirstWithinLimit DEF CommitOpen, Doing, TypeOK
<1>3. ASSUME NEW amount \in 1..MaxAmount, AddCredits(amount) PROVE balance' \in Int
  BY <1>3, EntitlementsAssumption DEF AddCredits, TypeOK
<1>4. CASE balance' = balance
  BY <1>4 DEF TypeOK
<1>5. OperatorNext => balance' \in Int
  BY <1>3, <1>4 DEF OperatorNext, BeginGrant, BeginRevoke, CommitGrant, CommitRevoke
<1>6. ConsumeNext => balance' \in Int
  BY <1>1, <1>2, <1>4 DEF ConsumeNext, BeginSpend, BeginOpen
<1>7. ClockNext \/ UNCHANGED vars => balance' = balance
  BY DEF ClockNext, vars, Expires, NewPeriod, RequestFails
<1>8. QED
  BY <1>4, <1>5, <1>6, <1>7 DEF Next

LEMMA TypeThreads == ASSUME IInv, [Next]_vars PROVE threads' \in [Thread -> Job]
<1> USE DEF IInv
<1>1. threads' = [t \in Thread |-> threads'[t]]
  <2>1. threads' = threads => threads' = [t \in Thread |-> threads'[t]]
    BY DEF TypeOK
  <2>2. ASSUME NEW u \in Thread, NEW job, threads' = [threads EXCEPT ![u] = job]
        PROVE  threads' = [t \in Thread |-> threads'[t]]
    BY <2>2 DEF TypeOK
  <2>3. OperatorNext => threads' = [t \in Thread |-> threads'[t]]
    BY <2>1, <2>2 DEF OperatorNext, BeginGrant, BeginRevoke, CommitGrant, CommitRevoke,
                      AddCredits, Begin, Finish
  <2>4. ConsumeNext => threads' = [t \in Thread |-> threads'[t]]
    <3> DEFINE Goal == threads' = [t \in Thread |-> threads'[t]]
    <3>1. ASSUME NEW u \in Thread, CommitSpend(u) \/ CommitOpen(u) PROVE Goal
      BY <2>2, <3>1 DEF CommitSpend, CommitOpen, Finish
    <3>2. ASSUME NEW u \in Thread, NEW app \in App, NEW amount \in 1..MaxAmount,
                 NEW allow_credits \in BOOLEAN, BeginSpend(u, app, amount, allow_credits)
          PROVE  Goal
      BY <2>2, <3>2 DEF BeginSpend, Begin
    <3>3. ASSUME NEW u \in Thread, NEW app \in App, NEW amount \in 1..MaxAmount,
                 NEW allow_credits \in BOOLEAN, BeginOpen(u, app, amount, allow_credits)
          PROVE  Goal
      BY <2>2, <3>3 DEF BeginOpen, Begin
    <3> HIDE DEF Goal
    <3>4. ConsumeNext => Goal
      BY <3>1, <3>2, <3>3 DEF ConsumeNext
    <3>5. QED
      BY <3>4 DEF Goal
  <2>5. ClockNext => threads' = [t \in Thread |-> threads'[t]]
    BY <2>1, <2>2 DEF ClockNext, Expires, NewPeriod, RequestFails, Finish
  <2>6. QED
    BY <2>1, <2>3, <2>4, <2>5 DEF Next, vars
<1>2. \A t \in Thread : threads'[t] \in Job
  BY ThreadsChange, BeginsWith, LateThreads, IdleJob DEF TypeOK
<1>3. QED
  BY <1>1, <1>2

LEMMA TypeHistory ==
    ASSUME IInv, [Next]_vars
    PROVE  /\ served' \in [Period -> Nat]
           /\ limits' \in [Period -> SUBSET Nat]
           /\ overlapped' \in BOOLEAN
<1> USE DEF IInv
<1>1. \A p \in Period : LimitsInForce(p) \in SUBSET Nat
  <2>1. ASSUME NEW r \in Row, InForce(r) PROVE rows[r].limit \in Nat
    BY <2>1, RowKinds DEF TypeOK, InForce, NoRow
  <2>2. QED
    BY <2>1, EntitlementsAssumption DEF LimitsInForce, FreeLimits
<1>2. CASE UNCHANGED <<served, limits, overlapped>>
  BY <1>2 DEF TypeOK
<1>3. ASSUME NEW t \in Thread, NEW r \in Row, CommitGrant(t, r)
      PROVE  limits' \in [Period -> SUBSET Nat] /\ UNCHANGED <<served, overlapped>>
  <2>1. threads[t].limit \in Nat /\ threads[t].period \in Period
    BY <1>3, JobKinds DEF CommitGrant, Doing, TypeOK
  <2>2. QED
    BY <1>3, <2>1 DEF CommitGrant, Raised, TypeOK
<1>4. ASSUME NEW overlap \in BOOLEAN, NotesOverlap(overlap)
      PROVE  served' \in [Period -> Nat] /\ overlapped' \in BOOLEAN
  BY <1>4 DEF NotesOverlap, Nothing, TypeOK
<1>5. ASSUME NEW t \in Thread, NEW app \in App, NEW amount \in 1..MaxAmount,
             NEW allow_credits \in BOOLEAN,
             \/ BeginSpend(t, app, amount, allow_credits)
             \/ BeginOpen(t, app, amount, allow_credits)
      PROVE  served' \in [Period -> Nat] /\ overlapped' \in BOOLEAN /\ UNCHANGED limits
  BY <1>4, <1>5 DEF BeginSpend, BeginOpen
<1>6. ASSUME NEW p \in Period, NEW units \in Nat
      PROVE  Given(p, units) \in [Period -> Nat]
  BY DEF Given, TypeOK
<1>7. ASSUME NEW t \in Thread, CommitSpend(t)
      PROVE  served' \in [Period -> Nat] /\ UNCHANGED <<limits, overlapped>>
  <2>1. threads[t].from_allowance \in Nat
    BY <1>7, JobKinds DEF CommitSpend, Doing, TypeOK
  <2>2. QED
    BY <1>6, <1>7, <2>1 DEF CommitSpend, TypeOK
<1>8. ASSUME NEW t \in Thread, CommitOpen(t)
      PROVE  served' \in [Period -> Nat] /\ UNCHANGED <<limits, overlapped>>
  <2>1. TakesFirst(threads[t]).allowance \in Nat
    BY <1>8, FirstWithinLimit DEF CommitOpen, Doing, TypeOK
  <2>2. QED
    BY <1>6, <1>8, <2>1 DEF CommitOpen, TypeOK
<1>9. ASSUME NEW p \in Period, NewPeriod(p)
      PROVE  /\ served' \in [Period -> Nat] /\ limits' \in [Period -> SUBSET Nat]
             /\ UNCHANGED overlapped
  BY <1>1, <1>9 DEF NewPeriod, TypeOK
<1>10. CASE OperatorNext
  BY <1>2, <1>3, <1>10 DEF OperatorNext, BeginGrant, BeginRevoke, CommitRevoke, AddCredits, TypeOK
<1>11. CASE ConsumeNext
  BY <1>5, <1>7, <1>8, <1>11 DEF ConsumeNext, TypeOK
<1>12. CASE ClockNext
  BY <1>2, <1>9, <1>12 DEF ClockNext, Expires, RequestFails, TypeOK
<1>13. QED
  BY <1>2, <1>10, <1>11, <1>12 DEF Next, vars

LEMMA StepTypeOK == ASSUME IInv, [Next]_vars PROVE TypeOK'
BY TypeRows, TypeUsage, TypeBalance, TypeThreads, TypeHistory DEF TypeOK

LEMMA StepReadOK == ASSUME IInv, [Next]_vars PROVE ReadOK'
<1> USE DEF IInv
<1>0. \A r \in Row : rows[r] # NoRow => rows'[r] # NoRow
  BY RowsChange
<1>1. ASSUME NEW t \in Thread
      PROVE  /\ threads'[t].op = "grant" =>
                  \A r \in threads'[t].existing : r \in Row /\ rows[r] # NoRow
             /\ threads'[t].op = "revoke" =>
                  \A r \in threads'[t].listed : r \in Row /\ rows[r] # NoRow
  <2>1. threads'[t] \in Job
    BY TypeThreads
  <2>2. /\ threads'[t].op = "grant" => threads'[t].existing \in SUBSET Row
        /\ threads'[t].op = "revoke" => threads'[t].listed \in SUBSET Row
    BY <2>1, JobKinds
  <2>3. CASE threads'[t] = threads[t]
    BY <2>2, <2>3 DEF ReadOK, Doing
  <2>4. CASE threads'[t] = Idle
    BY <2>4, IdleJob
  <2>5. CASE Begins(t)
    BY <2>2, <2>5, BeginsWith
  <2>6. ASSUME NEW p \in Period, NewPeriod(p)
        PROVE  threads'[t].op \in {"grant", "revoke"} => threads'[t] = threads[t]
    BY <2>6, LateThreads
  <2>7. QED
    BY <2>3, <2>4, <2>5, <2>6, ThreadsChange
<1>2. QED
  BY <1>0, <1>1 DEF ReadOK, Doing

LEMMA StepLimitsOK == ASSUME IInv, [Next]_vars PROVE LimitsOK'
<1> USE DEF IInv
<1>1. ASSUME NEW p \in Period PROVE FreeLimits[p] \in limits'[p]
  BY LimitsChange DEF LimitsOK, LimitsInForce
<1>2. ASSUME NEW r \in Row, rows'[r].status = "active", ~rows'[r].expired
      PROVE  rows'[r].limit \in limits'[rows'[r].period]
  <2>1. CASE rows'[r] = rows[r]
    <3>1. InForce(r) /\ rows[r].limit \in limits[rows[r].period]
      BY <1>2, <2>1 DEF InForce, LimitsOK
    <3>2. rows[r].period \in Period
      BY <3>1, RowKinds DEF TypeOK, InForce, NoRow
    <3>3. QED
      BY <2>1, <3>1, <3>2, LimitsChange DEF LimitsInForce
  <2>2. ASSUME NEW t \in Thread, CommitGrant(t, r), rows'[r].limit = threads[t].limit,
               rows'[r].period = threads[t].period
        PROVE  rows'[r].limit \in limits'[rows'[r].period]
    <3>1. threads[t].limit \in Nat /\ threads[t].period \in Period
      BY <2>2, JobKinds DEF CommitGrant, Doing, TypeOK
    <3>2. QED
      BY <2>2, <3>1 DEF CommitGrant, Raised, TypeOK
  <2>3. QED
    BY <1>2, <2>1, <2>2, RowsChange
<1>3. QED
  BY <1>1, <1>2 DEF LimitsOK, InForce

\* Unless the period ends, no limit recorded for it is forgotten.
LEMMA LimitsKept ==
    ASSUME TypeOK, [Next]_vars, NEW p \in Period
    PROVE  NewPeriod(p) \/ limits[p] \subseteq limits'[p]
BY LimitsChange

LEMMA StepConsumingOK == ASSUME IInv, [Next]_vars PROVE ConsumingOK'
<1> USE DEF IInv
<1>1. ASSUME NEW t \in Thread
      PROVE  /\ threads'[t].op = "open" /\ threads'[t].period \in Period
                  => threads'[t].limit \in limits'[threads'[t].period]
             /\ threads'[t].op = "spend" /\ threads'[t].period \in Period
                  => \E n \in limits'[threads'[t].period] : threads'[t].used <= n
  <2>1. CASE threads'[t] = Idle
    BY <2>1, IdleJob
  <2>2. CASE Begins(t)
    BY <2>2, BeginsWith
  <2>3. ASSUME NEW p \in Period, NewPeriod(p), threads'[t].op \in {"open", "spend"},
               threads'[t].period \in Period
        PROVE  threads'[t] = threads[t] /\ limits'[threads[t].period] = limits[threads[t].period]
    <3>1. threads'[t] = threads[t] /\ threads[t].period # p
      BY <2>3, LateThreads
    <3>2. \A q \in Period \ {p} : limits'[q] = limits[q]
      BY <2>3 DEF NewPeriod, TypeOK
    <3>3. QED
      BY <2>3, <3>1, <3>2
  <2>4. CASE \E p \in Period : NewPeriod(p)
    BY <2>3, <2>4 DEF ConsumingOK, Doing
  <2>5. CASE threads'[t] = threads[t] /\ ~\E p \in Period : NewPeriod(p)
    BY <2>5, LimitsKept DEF ConsumingOK, Doing
  <2>6. QED
    BY <2>1, <2>2, <2>4, <2>5, ThreadsChange
<1>2. QED
  BY <1>1 DEF ConsumingOK, Doing

LEMMA StepUsedWithinLimit == ASSUME IInv, [Next]_vars PROVE UsedWithinLimit'
<1> USE DEF IInv
<1>1. ASSUME NEW p \in Period PROVE \E n \in limits'[p] : usage'[p] <= n
  <2>1. CASE NewPeriod(p)
    <3>1. usage'[p] = Missing
      BY <2>1 DEF NewPeriod, TypeOK
    <3>2. FreeLimits[p] \in limits'[p] /\ FreeLimits[p] \in Nat
      BY StepLimitsOK, EntitlementsAssumption DEF LimitsOK, FreeLimits
    <3>3. QED
      BY <3>1, <3>2 DEF Missing
  <2>2. CASE usage'[p] = usage[p] /\ ~NewPeriod(p)
    BY <2>2, LimitsKept DEF UsedWithinLimit
  <2>3. ASSUME NEW t \in Thread, Doing(t, "spend"), threads[t].period = p,
               usage'[p] = threads[t].used, limits'[p] = limits[p]
        PROVE  \E n \in limits'[p] : usage'[p] <= n
    BY <2>3 DEF ConsumingOK
  <2>4. ASSUME NEW t \in Thread, Doing(t, "open"), threads[t].period = p,
               usage'[p] = TakesFirst(threads[t]).allowance, limits'[p] = limits[p]
        PROVE  \E n \in limits'[p] : usage'[p] <= n
    <3>1. threads[t].limit \in limits[p]
      BY <2>4 DEF ConsumingOK
    <3>2. TakesFirst(threads[t]).allowance <= threads[t].limit
      BY <2>4, FirstWithinLimit DEF Doing, TypeOK
    <3>3. QED
      BY <2>4, <3>1, <3>2
  <2>5. QED
    BY <2>1, <2>2, <2>3, <2>4, UsageChanges
<1>2. QED
  BY <1>1 DEF UsedWithinLimit

\* What was used, what is left and what is on record change by commits of consumptions
\* alone; credits may be added, a period may end, and overlaps clear the record.
LEMMA LedgerChange ==
    ASSUME IInv, [Next]_vars
    PROVE  \/ \E t \in Thread : CommitSpend(t) \/ CommitOpen(t)
           \/ \E p \in Period : NewPeriod(p)
           \/ usage' = usage /\ balance' >= balance /\ (~overlapped' => served' = served)
<1> DEFINE Same == usage' = usage /\ balance' >= balance /\ (~overlapped' => served' = served)
<1>0. balance \in Int
  BY DEF IInv, TypeOK
<1>1. CASE UNCHANGED <<usage, balance, served>>
  BY <1>0, <1>1
<1>2. ASSUME NEW t \in Thread, NEW app \in App, NEW amount \in 1..MaxAmount,
             NEW allow_credits \in BOOLEAN,
             \/ BeginSpend(t, app, amount, allow_credits)
             \/ BeginOpen(t, app, amount, allow_credits)
      PROVE  Same
  <2>1. usage' = usage /\ balance' = balance
    BY <1>2 DEF BeginSpend, BeginOpen
  <2>2. ~overlapped' => served' = served
    <3>1. ASSUME NEW overlap, NotesOverlap(overlap) PROVE ~overlapped' => served' = served
      BY <3>1 DEF NotesOverlap
    <3>2. QED
      BY <1>2, <3>1 DEF BeginSpend, BeginOpen
  <2>3. QED
    BY <1>0, <2>1, <2>2
<1>3. ASSUME NEW amount \in 1..MaxAmount, AddCredits(amount) PROVE Same
  BY <1>0, <1>3, EntitlementsAssumption DEF AddCredits
<1>4. CASE OperatorNext
  BY <1>1, <1>3, <1>4 DEF OperatorNext, BeginGrant, BeginRevoke, CommitGrant, CommitRevoke
<1>5. CASE ConsumeNext
  BY <1>2, <1>5 DEF ConsumeNext
<1>6. CASE ClockNext
  BY <1>1, <1>6 DEF ClockNext, Expires, RequestFails
<1>7. QED
  BY <1>1, <1>4, <1>5, <1>6 DEF Next, vars

\* An overlap is not forgotten.
LEMMA OverlapKept == ASSUME IInv, [Next]_vars, ~overlapped' PROVE ~overlapped
<1>1. CASE UNCHANGED overlapped
  BY <1>1
<1>2. ASSUME NEW overlap, NotesOverlap(overlap) PROVE ~overlapped
  BY <1>2 DEF NotesOverlap
<1>3. QED
  BY <1>1, <1>2
  DEF Next, vars, OperatorNext, ConsumeNext, ClockNext, BeginGrant, BeginRevoke, CommitGrant,
      CommitRevoke, AddCredits, BeginSpend, BeginOpen, CommitSpend, CommitOpen, Expires,
      NewPeriod, RequestFails

\* A consumption that begins without an overlap.
LEMMA BeginsAlone ==
    ASSUME IInv, NEW t \in Thread, Begins(t), ~overlapped',
           threads'[t].op \in {"open", "spend"}
    PROVE  /\ \A other \in Thread \ {t} : threads'[other] = threads[other]
           /\ \A other \in Thread : ~Doing(other, "spend")
           /\ threads'[t].op = "spend" =>
                /\ \A other \in Thread : ~Consuming(other)
                /\ threads'[t].from_credits <= balance'
                /\ usage'[threads'[t].period] # Missing
                /\ threads'[t].used = usage'[threads'[t].period] + threads'[t].from_allowance
<1> USE DEF IInv
<1>1. ASSUME NEW scope \in Scope, NEW limit \in FreeLimit..MaxLimit, NEW period \in Period,
             BeginGrant(t, scope, limit, period)
      PROVE  FALSE
  BY <1>1 DEF BeginGrant, Begin, TypeOK
<1>2. ASSUME NEW scope \in Scope, BeginRevoke(t, scope) PROVE FALSE
  BY <1>2 DEF BeginRevoke, Begin, TypeOK
<1>3. ASSUME NEW job, Begin(t, job)
      PROVE  /\ threads'[t] = job
             /\ \A other \in Thread \ {t} : threads'[other] = threads[other]
  BY <1>3 DEF Begin, TypeOK
<1>4. ASSUME NEW overlap \in BOOLEAN, NotesOverlap(overlap) PROVE ~overlap
  BY <1>4 DEF NotesOverlap
<1>5. ASSUME NEW app \in App, NEW amount \in 1..MaxAmount, NEW allow_credits \in BOOLEAN,
             BeginSpend(t, app, amount, allow_credits)
      PROVE  /\ \A other \in Thread \ {t} : threads'[other] = threads[other]
             /\ \A other \in Thread : ~Consuming(other)
             /\ threads'[t].from_credits <= balance'
             /\ usage'[threads'[t].period] # Missing
             /\ threads'[t].used = usage'[threads'[t].period] + threads'[t].from_allowance
  <2> DEFINE given(spec) == FromAllowance(spec.limit, usage[spec.period], amount)
             job(spec) == [op |-> "spend", period |-> spec.period,
                           used |-> usage[spec.period] + given(spec),
                           from_allowance |-> given(spec),
                           from_credits |-> amount - given(spec)]
  <2>1. PICK spec \in Specs(app) :
             /\ usage[spec.period] # Missing
             /\ amount - given(spec) = 0 \/ balance >= amount - given(spec)
             /\ Begin(t, job(spec))
    BY <1>5 DEF BeginSpend
  <2>2. \A other \in Thread : ~Consuming(other)
    BY <1>4, <1>5 DEF BeginSpend
  <2>3. balance >= 0 /\ balance \in Int
    BY OverlapKept, <1>5 DEF BeginSpend, NotesOverlap, PaidInFull, TypeOK
  <2> HIDE DEF given
  <2>4. amount - given(spec) <= balance
    BY <2>1, <2>3
  <2>5. threads'[t] = job(spec) /\ \A other \in Thread \ {t} : threads'[other] = threads[other]
    BY <1>3, <2>1
  <2>6. usage' = usage /\ balance' = balance
    BY <1>5 DEF BeginSpend
  <2>7. QED
    BY <2>1, <2>2, <2>4, <2>5, <2>6
<1>6. ASSUME NEW app \in App, NEW amount \in 1..MaxAmount, NEW allow_credits \in BOOLEAN,
             BeginOpen(t, app, amount, allow_credits)
      PROVE  /\ threads'[t].op = "open"
             /\ \A other \in Thread \ {t} : threads'[other] = threads[other]
             /\ \A other \in Thread : ~Doing(other, "spend")
  <2>1. PICK spec \in Specs(app) :
             Begin(t, [op |-> "open", period |-> spec.period, limit |-> spec.limit,
                       amount |-> amount, allow_credits |-> allow_credits])
    BY <1>6 DEF BeginOpen
  <2>2. \A other \in Thread : ~Doing(other, "spend")
    BY <1>4, <1>6 DEF BeginOpen
  <2>3. QED
    BY <1>3, <2>1, <2>2
<1>7. QED
  BY <1>1, <1>2, <1>5, <1>6 DEF Begins, Consuming, Doing

LEMMA StepSpendingOK == ASSUME IInv, [Next]_vars PROVE SpendingOK'
<1> USE DEF IInv
<1> DEFINE Goal(t) ==
      /\ \A other \in Thread \ {t} : threads'[other].op \notin {"open", "spend"}
      /\ threads'[t].from_credits <= balance'
      /\ threads'[t].period \in Period =>
           /\ usage'[threads'[t].period] # Missing
           /\ threads'[t].used = usage'[threads'[t].period] + threads'[t].from_allowance
<1>1. ASSUME ~overlapped', NEW t \in Thread, threads'[t].op = "spend"
      PROVE  Goal(t)
  <2>0. ~overlapped
    BY <1>1, OverlapKept
  <2>1. ASSUME Begins(t) PROVE Goal(t)
    BY <1>1, <2>1, BeginsAlone DEF Consuming
  <2>2. ASSUME threads[t].op = "spend"
        PROVE  \A other \in Thread \ {t} : threads'[other].op \notin {"open", "spend"}
    <3>1. \A other \in Thread \ {t} : ~Consuming(other)
      BY <2>0, <2>2 DEF SpendingOK, Doing
    <3>2. ASSUME NEW other \in Thread \ {t}, threads'[other].op \in {"open", "spend"}
          PROVE  FALSE
      <4>1. CASE Begins(other)
        BY <1>1, <2>2, <3>2, <4>1, BeginsAlone DEF Doing
      <4>2. CASE \E p \in Period : NewPeriod(p)
        BY <3>1, <3>2, <4>2, LateThreads DEF Consuming
      <4>3. QED
        BY <3>1, <3>2, <4>1, <4>2, ThreadsChange, IdleJob DEF Consuming
    <3>3. QED
      BY <3>2
  <2>3. ASSUME threads[t].op = "spend", NEW u \in Thread, CommitSpend(u) \/ CommitOpen(u)
        PROVE  FALSE
    <3>1. u = t
      BY <2>0, <2>3 DEF SpendingOK, Doing, Consuming, CommitSpend, CommitOpen
    <3>2. threads'[t] = Idle
      BY <2>3, <3>1 DEF CommitSpend, CommitOpen, Finish, TypeOK
    <3>3. QED
      BY <1>1, <3>2, IdleJob
  <2>4. ASSUME NEW p \in Period, NewPeriod(p) PROVE Goal(t)
    <3>1. threads[t].op = "spend"
      BY <1>1, <2>4, LateThreads
    <3>2. threads[t].from_credits <= balance
      BY <2>0, <3>1 DEF SpendingOK, Doing
    <3>3. threads'[t].from_credits = threads[t].from_credits /\ balance' = balance
      <4>1. threads[t] \in Job
        BY DEF TypeOK
      <4>2. threads'[t] \in {threads[t], [threads[t] EXCEPT !.period = "past"]}
        BY <2>4 DEF NewPeriod
      <4>3. [threads[t] EXCEPT !.period = "past"].from_credits = threads[t].from_credits
        OBVIOUS
      <4>4. QED
        BY <2>4, <4>2, <4>3 DEF NewPeriod
    <3>4. threads'[t].period \in Period =>
            /\ threads'[t] = threads[t] /\ threads[t].period # p
            /\ usage'[threads[t].period] = usage[threads[t].period]
      <4>1. threads'[t].period \in Period => threads'[t] = threads[t] /\ threads[t].period # p
        BY <1>1, <2>4, LateThreads
      <4>2. \A q \in Period \ {p} : usage'[q] = usage[q]
        BY <2>4 DEF NewPeriod, TypeOK
      <4>3. QED
        BY <4>1, <4>2
    <3>5. QED
      BY <2>0, <2>2, <3>1, <3>2, <3>3, <3>4 DEF SpendingOK, Doing
  <2>5. ASSUME threads'[t] = threads[t], usage' = usage, balance' >= balance PROVE Goal(t)
    <3>1. /\ threads[t].from_credits <= balance
          /\ threads[t].period \in Period =>
               /\ usage[threads[t].period] # Missing
               /\ threads[t].used = usage[threads[t].period] + threads[t].from_allowance
      BY <1>1, <2>0, <2>5 DEF SpendingOK, Doing
    <3>2. threads[t].from_credits \in Nat /\ balance \in Int /\ balance' \in Int
      BY <1>1, <2>5, JobKinds, TypeBalance DEF TypeOK
    <3>3. threads'[t].from_credits <= balance'
      BY <2>5, <3>1, <3>2
    <3>4. QED
      BY <1>1, <2>2, <2>5, <3>1, <3>3
  <2>6. CASE \E u \in Thread : CommitSpend(u) \/ CommitOpen(u)
    <3>1. threads[t].op # "spend"
      BY <2>3, <2>6
    <3>2. Begins(t)
      <4>1. ~\E q \in Period : NewPeriod(q)
        BY <1>1, <2>6, LateThreads, <3>1
      <4>2. QED
        BY <1>1, <3>1, <4>1, ThreadsChange, IdleJob
    <3>3. QED
      BY <2>1, <3>2
  <2>7. CASE \E p \in Period : NewPeriod(p)
    BY <2>4, <2>7
  <2>8. CASE usage' = usage /\ balance' >= balance
    <3>1. CASE \E p \in Period : NewPeriod(p)
      BY <2>7, <3>1
    <3>2. CASE Begins(t)
      BY <2>1, <3>2
    <3>3. CASE threads'[t] = threads[t]
      BY <2>5, <2>8, <3>3
    <3>4. QED
      BY <1>1, <3>1, <3>2, <3>3, ThreadsChange, IdleJob
  <2>9. QED
    BY <2>6, <2>7, <2>8, LedgerChange
<1>2. QED
  BY <1>1 DEF SpendingOK, Doing, Consuming

\* What a row says is used, with nothing for one that is not there.
Used(n) == IF n = Missing THEN 0 ELSE n

LEMMA StepPaidInFull == ASSUME IInv, [Next]_vars PROVE PaidInFull'
<1> USE DEF IInv
<1> DEFINE Goal(p) == Used(usage'[p]) = served'[p] /\ balance' >= 0
<1>1. ASSUME ~overlapped', NEW p \in Period
      PROVE  Goal(p)
  <2>0. ~overlapped /\ Used(usage[p]) = served[p] /\ balance >= 0 /\ balance \in Int
    BY <1>1, OverlapKept DEF PaidInFull, Used, TypeOK
  <2>1. ASSUME NEW t \in Thread, CommitSpend(t) PROVE Goal(p)
    <3> DEFINE job == threads[t]
    <3>1. job.op = "spend" /\ job \in Job
      BY <2>1 DEF CommitSpend, Doing, TypeOK
    <3>2. /\ job.used \in Nat /\ job.from_allowance \in Nat /\ job.from_credits \in Nat
      BY <3>1, JobKinds
    <3>3. /\ job.from_credits <= balance
          /\ job.period \in Period =>
               usage[job.period] # Missing /\ job.used = usage[job.period] + job.from_allowance
      BY <2>0, <3>1 DEF SpendingOK, Doing
    <3>4. balance' = balance - job.from_credits
      BY <2>1 DEF CommitSpend
    <3>5. balance' >= 0
      BY <2>0, <3>2, <3>3, <3>4
    <3>6. CASE job.period = p /\ job.from_allowance > 0
      <4>1. usage'[p] = job.used /\ served'[p] = served[p] + job.from_allowance
        BY <2>0, <2>1, <3>6 DEF CommitSpend, Given, TypeOK
      <4>2. job.used = served[p] + job.from_allowance /\ job.used # Missing
        BY <2>0, <3>2, <3>3, <3>6 DEF Used, Missing
      <4>3. QED
        BY <3>5, <4>1, <4>2 DEF Used
    <3>7. CASE ~(job.period = p /\ job.from_allowance > 0)
      <4>1. usage'[p] = usage[p] /\ served'[p] = served[p]
        BY <2>0, <2>1, <3>7 DEF CommitSpend, Given, TypeOK
      <4>2. QED
        BY <2>0, <3>5, <4>1
    <3>8. QED
      BY <3>6, <3>7
  <2>2. ASSUME NEW t \in Thread, CommitOpen(t) PROVE Goal(p)
    <3> DEFINE job == threads[t]
               takes == TakesFirst(job)
    <3>1. job.op = "open" /\ job \in Job
      BY <2>2 DEF CommitOpen, Doing, TypeOK
    <3>2. takes.allowance \in Nat /\ takes.credits \in Nat
      BY <3>1, FirstWithinLimit
    <3>3. takes.credits <= balance
      BY <2>0 DEF TakesFirst
    <3>4. balance' = balance - takes.credits
      BY <2>2 DEF CommitOpen
    <3> HIDE DEF takes
    <3>5. balance' >= 0
      BY <2>0, <3>2, <3>3, <3>4
    <3>6. CASE job.period = p
      <4>1. /\ usage[p] = Missing /\ usage'[p] = takes.allowance
            /\ served'[p] = served[p] + takes.allowance
        BY <2>0, <2>2, <3>6 DEF CommitOpen, Given, TypeOK, takes
      <4>2. served[p] = 0 /\ takes.allowance # Missing
        BY <2>0, <3>2, <4>1 DEF Used, Missing
      <4>3. QED
        BY <3>2, <3>5, <4>1, <4>2 DEF Used
    <3>7. CASE job.period # p
      <4>1. usage'[p] = usage[p] /\ served'[p] = served[p]
        BY <2>0, <2>2, <3>7 DEF CommitOpen, Given, TypeOK
      <4>2. QED
        BY <2>0, <3>5, <4>1
    <3>8. QED
      BY <3>6, <3>7
  <2>3. ASSUME NEW q \in Period, NewPeriod(q) PROVE Goal(p)
    BY <2>0, <2>3 DEF NewPeriod, Used, TypeOK
  <2>4. ASSUME usage' = usage, balance' >= balance, served' = served PROVE Goal(p)
    BY <2>0, <2>4, TypeBalance
  <2>5. CASE \E t \in Thread : CommitSpend(t) \/ CommitOpen(t)
    BY <2>1, <2>2, <2>5
  <2>6. CASE \E q \in Period : NewPeriod(q)
    BY <2>3, <2>6
  <2>7. CASE usage' = usage /\ balance' >= balance /\ (~overlapped' => served' = served)
    BY <1>1, <2>4, <2>7
  <2>8. QED
    BY <2>5, <2>6, <2>7, LedgerChange
<1>2. ASSUME ~overlapped' PROVE balance' >= 0
  BY <1>1, <1>2, EntitlementsAssumption
<1>3. QED
  BY <1>1, <1>2 DEF PaidInFull, Used

LEMMA InitIInv == Init => IInv
<1> SUFFICES ASSUME Init PROVE IInv
  OBVIOUS
<1>1. TypeOK
  <2>1. FreeLimits \in [Period -> Nat]
    BY EntitlementsAssumption DEF FreeLimits
  <2>2. rows \in [Row -> EntitlementRow] /\ threads \in [Thread -> Job]
    BY IdleJob DEF Init, EntitlementRow
  <2>3. limits \in [Period -> SUBSET Nat]
    BY <2>1 DEF Init
  <2>4. usage \in [Period -> Nat \cup {Missing}]
    BY DEF Init
  <2>5. served \in [Period -> Nat] /\ balance \in Int
    BY DEF Init, Nothing
  <2>6. overlapped \in BOOLEAN
    BY DEF Init
  <2>7. QED
    BY <2>2, <2>3, <2>4, <2>5, <2>6 DEF TypeOK
<1>2. ReadOK /\ ConsumingOK
  BY IdleJob DEF Init, ReadOK, ConsumingOK, Doing
<1>3. LimitsOK
  BY DEF Init, LimitsOK, InForce, NoRow
<1>4. UsedWithinLimit
  BY EntitlementsAssumption DEF Init, UsedWithinLimit, Missing, FreeLimits
<1>5. SpendingOK
  BY IdleJob DEF Init, SpendingOK, Doing
<1>6. PaidInFull
  BY DEF Init, PaidInFull, Missing, Nothing
<1>7. QED
  BY <1>1, <1>2, <1>3, <1>4, <1>5, <1>6 DEF IInv

-----------------------------------------------------------------------------
(* Theorems *)

\* IInv holds of every state of every run: what requests have read and are about to
\* write agrees with the rows and with the limits there have been.
THEOREM Invariance == Spec => []IInv
<1>1. IInv /\ [Next]_vars => IInv'
  BY StepTypeOK, StepReadOK, StepLimitsOK, StepConsumingOK, StepUsedWithinLimit,
     StepSpendingOK, StepPaidInFull DEF IInv
<1>2. QED
  BY <1>1, InitIInv, PTL DEF Spec

\* Rows, usage, credits and requests have their types.
THEOREM TypeCorrect == Spec => []TypeOK
<1>1. IInv => TypeOK
  BY DEF IInv
<1>2. QED
  BY <1>1, Invariance, PTL

\* consume never records more of an allowance than some limit there has been in the
\* period, however many requests overlap and whatever is granted or revoked meanwhile.
THEOREM UsedStaysWithinLimit == Spec => []UsedWithinLimit
<1>1. IInv => UsedWithinLimit
  BY DEF IInv
<1>2. QED
  BY <1>1, Invariance, PTL

\* As long as no request on a row that was there overlapped another, every unit given out
\* in a period is on record and no credit is spent twice, although the first requests of a
\* period may overlap, requests fail and periods end with requests in flight.
THEOREM EverythingIsPaidFor == Spec => []PaidInFull
<1>1. IInv => PaidInFull
  BY DEF IInv
<1>2. QED
  BY <1>1, Invariance, PTL

\* grant and revoke on the same row in either order leave it revoked.
THEOREM RevokedIsFinal == Spec => RevokedStaysRevoked
<1>1. IInv /\ [Next]_vars =>
        [\A r \in Row : rows[r].status = "revoked" => rows'[r].status = "revoked"]_vars
  BY RowsChange DEF IInv
<1>2. QED
  BY <1>1, Invariance, PTL DEF RevokedStaysRevoked, Spec
=============================================================================
