---------------------------- MODULE Entitlements ----------------------------
(***************************************************************************)
(* What one person is entitled to (tg11/entitlements.py): grants that      *)
(* raise the limit of an allowance, what was used of it in this period,    *)
(* and the credits that pay for the rest.  One kind of grant and one key.  *)
(*                                                                         *)
(* The operator grants, revokes and adds credits in processes of its own   *)
(* (tg11/cli.py).  Applications consume through an async handler, whose    *)
(* body reads, flushes and leaves the commit to a thread: the body of the  *)
(* next request reads before that commit and flushes after it.  So every   *)
(* request reads (Begin...) and writes later (Commit...), except that one  *)
(* which finds no row for the period inserts it, which takes the write     *)
(* lock, before it reads the balance: that is its Commit.                  *)
(***************************************************************************)
EXTENDS Integers, FiniteSets

CONSTANTS
    App,        \* applications that consume
    Row,        \* rows of entitlements ever inserted
    Thread,     \* requests and commands in flight
    Period,     \* PERIODS: day, week, month
    FreeLimit,  \* DEFAULT_ALLOWANCES: everybody's limit,
    FreePeriod, \* and its period
    MaxLimit,   \* bound on the limits that are granted
    MaxAmount,  \* bound on what one request consumes or one command adds
    MaxBalance  \* bound on the credits

ASSUME EntitlementsAssumption ==
    /\ {FreeLimit, MaxLimit, MaxAmount, MaxBalance} \subseteq Nat
    /\ "all" \notin App
    /\ FreePeriod \in Period /\ "past" \notin Period

VARIABLES
    rows,       \* entitlements
    usage,      \* allowance_usage: the row of the current period, by period
    balance,    \* the sum of credit_ledger
    threads,    \* what each request in flight has read
    limits,     \* history: the limits there have been in this period
    overlapped, \* history: a request on a row that was there overlapped another
    served      \* history: units of this period given out, while none overlapped

vars == <<rows, usage, balance, threads, limits, overlapped, served>>

-----------------------------------------------------------------------------

Scope == {"all"} \cup App

\* expires_at is a matter of time: `expired`.  A row that has expired keeps the
\* status "active".
NoRow == [status |-> "none"]
EntitlementRow ==
    {NoRow} \cup
    [status: {"active", "revoked"}, scope: Scope, expired: BOOLEAN,
     limit: Nat, period: Period]

Missing == -1

Idle == [op |-> "idle"]
Job ==
         {Idle}
    \cup [op: {"grant"}, existing: SUBSET Row, scope: Scope, limit: Nat, period: Period]
    \cup [op: {"revoke"}, listed: SUBSET Row]
    \cup [op: {"open"}, period: Period \cup {"past"}, limit: Nat, amount: Nat,
          allow_credits: BOOLEAN]
    \cup [op: {"spend"}, period: Period \cup {"past"}, used: Nat,
          from_allowance: Nat, from_credits: Nat]

TypeOK ==
    /\ rows \in [Row -> EntitlementRow]
    /\ usage \in [Period -> Nat \cup {Missing}]
    /\ balance \in Int
    /\ threads \in [Thread -> Job]
    /\ served \in [Period -> Nat]
    /\ limits \in [Period -> SUBSET Nat]
    /\ overlapped \in BOOLEAN

Nothing == [p \in Period |-> 0]
FreeLimits == [p \in Period |-> IF p = FreePeriod THEN FreeLimit ELSE 0]

Init ==
    /\ rows = [r \in Row |-> NoRow]
    /\ usage = [p \in Period |-> Missing]
    /\ balance = 0
    /\ threads = [t \in Thread |-> Idle]
    /\ served = Nothing
    /\ limits = [p \in Period |-> {FreeLimits[p]}]
    /\ overlapped = FALSE

-----------------------------------------------------------------------------
(* Requests *)

Begin(t, job) == threads[t] = Idle /\ threads' = [threads EXCEPT ![t] = job]
Finish(t)     == threads' = [threads EXCEPT ![t] = Idle]
Doing(t, op)  == threads[t].op = op

\* A request fails after its reads: no write lock for 30 seconds, a row that another
\* one inserted first, the end of the process.
RequestFails(t) ==
    /\ threads[t] # Idle
    /\ Finish(t)
    /\ UNCHANGED <<rows, usage, balance, limits, overlapped, served>>

Larger(m, n)  == IF m > n THEN m ELSE n
Smaller(m, n) == IF m < n THEN m ELSE n

-----------------------------------------------------------------------------
(* Grants *)

Held(r, scope) == rows[r].status = "active" /\ rows[r].scope = scope

InForce(r) == rows[r].status = "active" /\ ~rows[r].expired

\* grant: a row of this kind and scope that is there is changed, not another inserted.
BeginGrant(t, scope, limit, period) ==
    \E existing \in SUBSET {r \in Row : Held(r, scope)} :
        /\ Cardinality(existing) <= 1
        /\ existing = {} => \A r \in Row : ~Held(r, scope)
        /\ Begin(t, [op |-> "grant", existing |-> existing, scope |-> scope,
                     limit |-> limit, period |-> period])
        /\ UNCHANGED <<rows, usage, balance, limits, overlapped, served>>

Raised(job) == limits' = [limits EXCEPT ![job.period] = @ \cup {job.limit}]

\* Mutant of CommitGrant: all columns are written, the status too.
CommitGrantStatus(t, r) ==
    /\ Doing(t, "grant")
    /\ LET job == threads[t]
       IN  /\ IF job.existing # {} THEN r \in job.existing ELSE rows[r] = NoRow
           /\ rows' = [rows EXCEPT ![r] =
                         [status |-> "active", scope |-> job.scope, expired |-> FALSE,
                          limit |-> job.limit, period |-> job.period]]
           /\ Raised(job)
    /\ Finish(t)
    /\ UNCHANGED <<usage, balance, overlapped, served>>

\* The status was read as active and is not written.
CommitGrant(t, r) ==
    /\ Doing(t, "grant")
    /\ LET job == threads[t]
           New == [status |-> "active", scope |-> job.scope, expired |-> FALSE,
                   limit |-> job.limit, period |-> job.period]
       IN  /\ \/ /\ r \in job.existing
                 /\ rows' = [rows EXCEPT ![r] = [New EXCEPT !.status = rows[r].status]]
              \/ /\ job.existing = {} /\ rows[r] = NoRow
                 /\ rows' = [rows EXCEPT ![r] = New]
           /\ Raised(job)
    /\ Finish(t)
    /\ UNCHANGED <<usage, balance, overlapped, served>>

\* revoke
BeginRevoke(t, scope) ==
    /\ Begin(t, [op |-> "revoke", listed |-> {r \in Row : Held(r, scope)}])
    /\ UNCHANGED <<rows, usage, balance, limits, overlapped, served>>

CommitRevoke(t) ==
    /\ Doing(t, "revoke")
    /\ rows' = [r \in Row |-> IF r \in threads[t].listed
                              THEN [rows[r] EXCEPT !.status = "revoked"] ELSE rows[r]]
    /\ Finish(t)
    /\ UNCHANGED <<usage, balance, limits, overlapped, served>>

Expires(r) ==
    /\ InForce(r)
    /\ rows' = [rows EXCEPT ![r].expired = TRUE]
    /\ UNCHANGED <<usage, balance, threads, limits, overlapped, served>>

-----------------------------------------------------------------------------
(* Consuming *)

\* _allowance_spec: the most generous of the free limit and the grants in force for
\* the application.  Of equal ones the first granted counts; here any.
Specs(app) ==
    LET granted == {[limit |-> rows[r].limit, period |-> rows[r].period] :
                      r \in {r \in Row : InForce(r) /\ rows[r].scope \in {"all", app}}}
        raising == {g \in granted : g.limit > FreeLimit}
    IN  IF raising = {} THEN {[limit |-> FreeLimit, period |-> FreePeriod]}
                        ELSE {g \in raising : \A other \in raising : other.limit <= g.limit}

\* Mutant of FromAllowance: as long as anything is left, all of it is given.
FromAllowanceAll(limit, used, amount) == IF used < limit THEN amount ELSE 0

\* Mutant of FromAllowance: the limit may have been lowered below what was used.
FromAllowanceSigned(limit, used, amount) == Smaller(amount, limit - used)

FromAllowance(limit, used, amount) == Larger(0, Smaller(amount, limit - used))

Consuming(t) == threads[t].op \in {"open", "spend"}

\* History.
NotesOverlap(overlap) ==
    /\ overlapped' = (overlapped \/ overlap)
    /\ served' = IF overlapped' THEN Nothing ELSE served
Given(p, units) == IF overlapped THEN served ELSE [served EXCEPT ![p] = @ + units]

\* consume, on a row that is there: what it will write is settled by what it reads.
\* A request that cannot be paid for writes nothing.
BeginSpend(t, app, amount, allow_credits) ==
    \E spec \in Specs(app) :
        LET used == usage[spec.period]
            from_allowance == FromAllowance(spec.limit, used, amount)
            shortfall == amount - from_allowance
        IN  /\ used # Missing
            /\ shortfall = 0 \/ (allow_credits /\ balance >= shortfall)
            /\ Begin(t, [op |-> "spend", period |-> spec.period,
                         used |-> used + from_allowance,
                         from_allowance |-> from_allowance, from_credits |-> shortfall])
            /\ NotesOverlap(\E other \in Thread : Consuming(other))
            /\ UNCHANGED <<rows, usage, balance, limits>>

\* Writes `used` if it changes it, and a row of the ledger.
CommitSpend(t) ==
    /\ Doing(t, "spend")
    /\ LET job == threads[t]
       IN  /\ IF job.period \in Period /\ job.from_allowance > 0
              THEN /\ usage' = [usage EXCEPT ![job.period] = job.used]
                   /\ served' = Given(job.period, job.from_allowance)
              ELSE UNCHANGED <<usage, served>>
           /\ balance' = balance - job.from_credits
    /\ Finish(t)
    /\ UNCHANGED <<rows, limits, overlapped>>

\* consume, when the period has no row yet.
BeginOpen(t, app, amount, allow_credits) ==
    \E spec \in Specs(app) :
        /\ usage[spec.period] = Missing
        /\ Begin(t, [op |-> "open", period |-> spec.period, limit |-> spec.limit,
                     amount |-> amount, allow_credits |-> allow_credits])
        /\ NotesOverlap(\E other \in Thread : Doing(other, "spend"))
        /\ UNCHANGED <<rows, usage, balance, limits>>

\* What a request that has inserted its row takes.
TakesFirst(job) ==
    LET from_allowance == FromAllowance(job.limit, 0, job.amount)
        shortfall == job.amount - from_allowance
    IN  IF shortfall = 0 \/ (job.allow_credits /\ balance >= shortfall)
        THEN [allowance |-> from_allowance, credits |-> shortfall]
        ELSE [allowance |-> 0, credits |-> 0]

\* Mutant of CommitOpen: no unique index on the period.
CommitOpenTwice(t) ==
    /\ Doing(t, "open")
    /\ LET job == threads[t]
           takes == TakesFirst(job)
       IN  /\ IF job.period \in Period
              THEN /\ usage' = [usage EXCEPT ![job.period] = takes.allowance]
                   /\ served' = Given(job.period, takes.allowance)
              ELSE UNCHANGED <<usage, served>>
           /\ balance' = balance - takes.credits
    /\ Finish(t)
    /\ UNCHANGED <<rows, limits, overlapped>>

\* The unique index lets one request insert the row.  It stays, with nothing used,
\* if the request is then refused.
CommitOpen(t) ==
    /\ Doing(t, "open")
    /\ LET job == threads[t]
           takes == TakesFirst(job)
       IN  /\ IF job.period \in Period
              THEN /\ usage[job.period] = Missing
                   /\ usage' = [usage EXCEPT ![job.period] = takes.allowance]
                   /\ served' = Given(job.period, takes.allowance)
              ELSE UNCHANGED <<usage, served>>
           /\ balance' = balance - takes.credits
    /\ Finish(t)
    /\ UNCHANGED <<rows, limits, overlapped>>

\* cmd_credits_add
AddCredits(amount) ==
    /\ balance + amount <= MaxBalance
    /\ balance' = balance + amount
    /\ UNCHANGED <<rows, usage, threads, limits, overlapped, served>>

-----------------------------------------------------------------------------
(* The clock *)

LimitsInForce(p) ==
    {FreeLimits[p]} \cup {rows[r].limit : r \in {r \in Row : InForce(r) /\ rows[r].period = p}}

\* A period begins: its row is another one, and requests in flight keep to the old.
NewPeriod(p) ==
    /\ usage' = [usage EXCEPT ![p] = Missing]
    /\ served' = [served EXCEPT ![p] = 0]
    /\ limits' = [limits EXCEPT ![p] = LimitsInForce(p)]
    /\ threads' = [t \in Thread |-> IF Consuming(t) /\ threads[t].period = p
                                    THEN [threads[t] EXCEPT !.period = "past"]
                                    ELSE threads[t]]
    /\ UNCHANGED <<rows, balance, overlapped>>

-----------------------------------------------------------------------------

OperatorNext ==
    \/ \E t \in Thread, scope \in Scope :
         \/ \E limit \in FreeLimit..MaxLimit, period \in Period : BeginGrant(t, scope, limit, period)
         \/ BeginRevoke(t, scope)
    \/ \E t \in Thread : CommitRevoke(t) \/ \E r \in Row : CommitGrant(t, r)
    \/ \E amount \in 1..MaxAmount : AddCredits(amount)

ConsumeNext ==
    \/ \E t \in Thread, app \in App, amount \in 1..MaxAmount, allow_credits \in BOOLEAN :
         \/ BeginSpend(t, app, amount, allow_credits)
         \/ BeginOpen(t, app, amount, allow_credits)
    \/ \E t \in Thread : CommitSpend(t) \/ CommitOpen(t)

ClockNext ==
    \/ \E r \in Row : Expires(r)
    \/ \E p \in Period : NewPeriod(p)
    \/ \E t \in Thread : RequestFails(t)

Next == OperatorNext \/ ConsumeNext \/ ClockNext

Spec == Init /\ [][Next]_vars

-----------------------------------------------------------------------------
(* Safety *)

\* However requests overlap and grants come and go meanwhile, the row never says
\* that more was used than some limit there has been in the period.
UsedWithinLimit == \A p \in Period : \E n \in limits[p] : usage[p] <= n

\* What requests in flight rely on: the rows they have read stay there, limits that
\* were in force have been recorded, and what will be written is within one of them.
ReadOK ==
    \A t \in Thread :
        /\ Doing(t, "grant") => \A r \in threads[t].existing : rows[r] # NoRow
        /\ Doing(t, "revoke") => \A r \in threads[t].listed : rows[r] # NoRow
LimitsOK ==
    /\ \A p \in Period : FreeLimits[p] \in limits[p]
    /\ \A r \in Row : InForce(r) => rows[r].limit \in limits[rows[r].period]
ConsumingOK ==
    \A t \in Thread :
        /\ Doing(t, "open") /\ threads[t].period \in Period
             => threads[t].limit \in limits[threads[t].period]
        /\ Doing(t, "spend") /\ threads[t].period \in Period
             => \E n \in limits[threads[t].period] : threads[t].used <= n

\* As long as no request on a row that was there overlapped another, everything
\* given out is on record and nothing was taken on credit.  The first requests of a
\* period may overlap: one of them inserts the row, the others fail.
PaidInFull ==
    ~overlapped =>
        /\ \A p \in Period : (IF usage[p] = Missing THEN 0 ELSE usage[p]) = served[p]
        /\ balance >= 0

\* Until requests overlap on a row that was there, one that will write into it is alone:
\* the row and the balance are as it has read them, or more credits were added.
SpendingOK ==
    ~overlapped =>
        \A t \in Thread : Doing(t, "spend") =>
            /\ \A other \in Thread \ {t} : ~Consuming(other)
            /\ threads[t].from_credits <= balance
            /\ threads[t].period \in Period =>
                 /\ usage[threads[t].period] # Missing
                 /\ threads[t].used = usage[threads[t].period] + threads[t].from_allowance

\* The inductive invariant behind the theorems of EntitlementsProofs.
IInv ==
    /\ TypeOK
    /\ ReadOK
    /\ LimitsOK
    /\ ConsumingOK
    /\ UsedWithinLimit
    /\ SpendingOK
    /\ PaidInFull

\* A grant that is made while the row it extends is being revoked does not bring the
\* revoked row back.
RevokedStaysRevoked ==
    [][\A r \in Row : rows[r].status = "revoked" => rows'[r].status = "revoked"]_vars
=============================================================================
