----------------------------- MODULE QuotaLedger -----------------------------
(***************************************************************************)
(* The durable token-quota ledger of the router: usage_quota.rs (reserve,  *)
(* settle, QuotaPermit), usage_quota_maintenance.rs (prune) and the owner  *)
(* of the permit in proxy_usage.rs (Observation).                          *)
(*                                                                         *)
(* The ledger is one SQLite file.  Each transaction is IMMEDIATE, so it is *)
(* one action; what a task does between transactions is its own step.  A   *)
(* crash of the process loses every permit and every settlement that was   *)
(* dispatched but has not committed; the file survives.                    *)
(***************************************************************************)
EXTENDS Integers, FiniteSets, FiniteSetsExt

CONSTANTS
    Requests,       \* request ids; an id is used for one reservation
    Keys,           \* API key ids
    Days,           \* the values of the clock, in days, that are looked at
    MonthLen,       \* days in a month
    Retention,      \* RETENTION_DAYS, 365 in the code
    CallDays,       \* days a reserve call may span: it gives up after seconds
    Batch,          \* BATCH, rows deleted by one maintenance pass
    MaxTokens,      \* MAX_TOKENS
    Amounts,        \* reservation sizes that requests ask for
    Actuals,        \* token totals that upstream reports
    Policies,       \* pairs of a daily and a monthly limit, 0 = none
    NoRow,          \* a row that is not in its table
    NoActual        \* None: upstream reported no token count

ASSUME QuotaAssumption ==
    /\ IsFiniteSet(Requests)
    /\ Days \subseteq Nat /\ Days # {}
    /\ MonthLen \in Nat \ {0}
    /\ Retention \in Nat /\ CallDays \in Nat
    /\ MonthLen + CallDays <= Retention
    /\ Batch \in Nat \ {0}
    /\ MaxTokens \in Nat
    /\ Amounts \subseteq Nat
    /\ Actuals \subseteq Nat
    /\ Policies \subseteq [day : Nat, month : Nat]
    /\ NoActual \notin Nat

VARIABLES
    today,      \* the day of telemetry::current_time_ms
    limits,     \* daily_token_limit and monthly_token_limit of each key
    periods,    \* table quota_periods
    requests,   \* table quota_requests; a deleted row keeps its last value here
    deleted,    \* ids whose row maintenance has deleted
    pc,         \* where the request is
    call,       \* arguments of the reserve_at call in progress
    settlement, \* arguments of the dispatched settle
    fate,       \* history: unsent, sent to an engine, or fully reported by it
    faulted     \* history: ids that met a crash, a failed settle or commit

vars == <<today, limits, periods, requests, deleted, pc, call, settlement, fate, faulted>>
ledger == <<periods, requests, deleted>>
history == <<fate, faulted>>

Kinds == {"day", "month"}
MonthStart(d) == d - (d % MonthLen)
Start(kind, d) == IF kind = "day" THEN d ELSE MonthStart(d)
PeriodIds == Keys \X Kinds \X (Days \cup { MonthStart(d) : d \in Days })

PeriodRow  == [settled : Nat, held : Nat, pending : Nat, uncertain : Nat]
Call       == [key : Keys, day : Days, amount : Amounts, limits : Policies]
RequestRow == [key : Keys, day : Days, reserved : Nat, updated : Days,
               state : {"pending", "settled", "held"}, actual : Nat \cup {NoActual}]
Settlement == [actual : Nat \cup {NoActual}, complete : BOOLEAN]

ASSUME NoRowAssumption == NoRow \notin PeriodRow \cup Call \cup RequestRow \cup Settlement

\* idle      - has not asked for quota
\* calling   - reserve_at runs on a blocking thread, the handler awaits it
\* orphan    - as calling, but the handler was cancelled meanwhile
\* reserved  - holds a QuotaPermit, not forwarded
\* forwarded - holds a QuotaPermit, QuotaPermit::forwarded was called
\* settling  - the permit is gone, settle was dispatched
\* over      - nothing is left to run for this request
Locations == {"idle", "calling", "orphan", "reserved", "forwarded", "settling", "over"}

TypeOK ==
    /\ today \in Days
    /\ limits \in [Keys -> Policies]
    /\ periods \in [PeriodIds -> PeriodRow \cup {NoRow}]
    /\ requests \in [Requests -> RequestRow \cup {NoRow}]
    /\ deleted \in SUBSET Requests
    /\ pc \in [Requests -> Locations]
    /\ call \in [Requests -> Call \cup {NoRow}]
    /\ settlement \in [Requests -> Settlement \cup {NoRow}]
    /\ fate \in [Requests -> {"unsent", "sent", "reported"}]
    /\ faulted \in SUBSET Requests

-----------------------------------------------------------------------------
(* The tables *)

Present == { r \in Requests : requests[r] # NoRow /\ r \notin deleted }

\* period(): a missing row reads as zeroes.
Period(p) ==
    IF periods[p] = NoRow
    THEN [settled |-> 0, held |-> 0, pending |-> 0, uncertain |-> 0]
    ELSE periods[p]

PeriodOf(row, kind) == <<row.key, kind, Start(kind, row.day)>>
PeriodsOf(row) == { PeriodOf(row, kind) : kind \in Kinds }

\* What a settlement makes of a reservation (settle's charged and held).
AtMost(n) == IF n < MaxTokens THEN n ELSE MaxTokens
Charged(reserved, s) ==
    IF s.complete THEN AtMost(IF s.actual = NoActual THEN reserved ELSE s.actual) ELSE 0

\* Mutant: an incomplete answer holds what was reported and not the reservation.
Held_reported(reserved, s) ==
    IF s.complete THEN 0 ELSE IF s.actual = NoActual THEN reserved ELSE AtMost(s.actual)

Held(reserved, s) ==
    IF s.complete THEN 0
    ELSE AtMost(IF s.actual # NoActual /\ s.actual > reserved THEN s.actual ELSE reserved)

-----------------------------------------------------------------------------
(* reserve, reserve_at *)

\* proxy_quota::admit calls reserve with the key's limits as they were when the
\* request was prepared, and reserve_at reads the clock before it opens the
\* ledger: both are old when the transaction runs.
Reserve(r, k, a) ==
    /\ pc[r] = "idle"
    /\ \E kind \in Kinds : limits[k][kind] > 0
    /\ IF a = 0 \/ a > MaxTokens
       THEN /\ pc' = [pc EXCEPT ![r] = "over"]
            /\ UNCHANGED call
       ELSE /\ pc' = [pc EXCEPT ![r] = "calling"]
            /\ call' = [call EXCEPT ![r] =
                 [key |-> k, day |-> today, amount |-> a, limits |-> limits[k]]]
    /\ UNCHANGED <<today, limits, ledger, settlement, history>>

\* The handler's future is dropped while the blocking reservation runs on.
CancelCall(r) ==
    /\ pc[r] = "calling"
    /\ pc' = [pc EXCEPT ![r] = "orphan"]
    /\ UNCHANGED <<today, limits, ledger, call, settlement, history>>

\* Mutant: reservations in flight are not counted against the limit.
Exceeded_settledOnly(c) ==
    \E kind \in Kinds :
        LET total == Period(PeriodOf(c, kind)).settled + c.amount
        IN  (c.limits[kind] > 0 /\ total > c.limits[kind]) \/ total > MaxTokens

Exceeded(c) ==
    \E kind \in Kinds :
        LET row == Period(PeriodOf(c, kind))
            total == row.settled + row.held + c.amount
        IN  (c.limits[kind] > 0 /\ total > c.limits[kind]) \/ total > MaxTokens

\* The two upserts into quota_periods.
ReservePeriods(c) ==
    periods' = [p \in PeriodIds |->
        IF p \in PeriodsOf(c)
        THEN [Period(p) EXCEPT !.held = @ + c.amount, !.pending = @ + 1]
        ELSE periods[p]]

\* The transaction commits.
ReserveTx(r) ==
    /\ pc[r] \in {"calling", "orphan"}
    /\ ~Exceeded(call[r])
    /\ ReservePeriods(call[r])
    /\ requests' = [requests EXCEPT ![r] =
         [key |-> call[r].key, day |-> call[r].day, reserved |-> call[r].amount,
          updated |-> call[r].day, state |-> "pending", actual |-> NoActual]]
    /\ UNCHANGED <<today, limits, deleted, fate>>

\* The permit reaches the Observation, or is dropped with the unwanted result:
\* QuotaPermit::drop then dispatches a refund at once.
ReserveCommit(r) ==
    /\ ReserveTx(r)
    /\ call' = [call EXCEPT ![r] = NoRow]
    /\ IF pc[r] = "calling"
       THEN /\ pc' = [pc EXCEPT ![r] = "reserved"]
            /\ UNCHANGED settlement
       ELSE /\ pc' = [pc EXCEPT ![r] = "settling"]
            /\ settlement' = [settlement EXCEPT ![r] = [actual |-> 0, complete |-> TRUE]]
    /\ UNCHANGED faulted

\* commit() reports an error after the transaction became durable: there is no
\* permit, and the reservation stays pending.
ReserveCommitUncertain(r) ==
    /\ ReserveTx(r)
    /\ call' = [call EXCEPT ![r] = NoRow]
    /\ pc' = [pc EXCEPT ![r] = "over"]
    /\ faulted' = faulted \cup {r}
    /\ UNCHANGED settlement

\* Exceeded, or the ledger is unavailable: the transaction rolls back.
ReserveFail(r) ==
    /\ pc[r] \in {"calling", "orphan"}
    /\ pc' = [pc EXCEPT ![r] = "over"]
    /\ call' = [call EXCEPT ![r] = NoRow]
    /\ UNCHANGED <<today, limits, ledger, settlement, history>>

-----------------------------------------------------------------------------
(* QuotaPermit::forwarded, finish, drop, dispatch *)

\* UsageHandle::forwarded, called immediately before the upstream send.
Forwarded(r) ==
    /\ pc[r] = "reserved"
    /\ pc' = [pc EXCEPT ![r] = "forwarded"]
    /\ fate' = [fate EXCEPT ![r] = "sent"]
    /\ UNCHANGED <<today, limits, ledger, call, settlement, faulted>>

Dispatch(r, s) ==
    /\ pc' = [pc EXCEPT ![r] = "settling"]
    /\ settlement' = [settlement EXCEPT ![r] = s]
    /\ UNCHANGED <<today, limits, ledger, call, faulted>>

\* The engine's answer is complete: the request succeeded and was fully counted.
Report(r, success) ==
    fate' = [fate EXCEPT ![r] = IF @ = "sent" /\ success THEN "reported" ELSE @]

\* Observation::finalize, exactly once per request: from UsageHandle::finish,
\* or from Observation::drop, whose outcome "cancelled" is never a success.
\* A complete success reports both token counts.
Finish(r, actual, success) ==
    /\ pc[r] \in {"reserved", "forwarded"}
    /\ success => actual # NoActual
    /\ Report(r, success)
    /\ Dispatch(r, IF pc[r] = "reserved" THEN [actual |-> 0, complete |-> TRUE]
                   ELSE [actual |-> actual, complete |-> success])

\* The two UPDATEs of quota_periods.
SettlePeriods(row, s) ==
    periods' = [p \in PeriodIds |->
        IF p \in PeriodsOf(row) /\ periods[p] # NoRow
        THEN [settled |-> AtMost(periods[p].settled + Charged(row.reserved, s)),
              held |-> AtMost(periods[p].held - row.reserved + Held(row.reserved, s)),
              pending |-> periods[p].pending - 1,
              uncertain |-> periods[p].uncertain + (IF s.complete THEN 0 ELSE 1)]
        ELSE periods[p]]

\* settle: a no-op unless the row is there and pending.
Settle(r) ==
    /\ pc[r] = "settling"
    /\ IF r \in Present /\ requests[r].state = "pending"
       THEN /\ SettlePeriods(requests[r], settlement[r])
            /\ requests' = [requests EXCEPT
                 ![r].state = IF settlement[r].complete THEN "settled" ELSE "held",
                 ![r].actual = IF settlement[r].actual = NoActual
                               THEN NoActual ELSE AtMost(settlement[r].actual),
                 ![r].updated = today]
       ELSE UNCHANGED <<periods, requests>>
    /\ pc' = [pc EXCEPT ![r] = "over"]
    /\ settlement' = [settlement EXCEPT ![r] = NoRow]
    /\ UNCHANGED <<today, limits, deleted, call, history>>

\* settle fails (busy, I/O): "retained its reservation".  It is not retried.
SettleFail(r) ==
    /\ pc[r] = "settling"
    /\ pc' = [pc EXCEPT ![r] = "over"]
    /\ settlement' = [settlement EXCEPT ![r] = NoRow]
    /\ faulted' = faulted \cup {r}
    /\ UNCHANGED <<today, limits, ledger, call, fate>>

-----------------------------------------------------------------------------
(* maintenance::prune *)

Cutoff == today - Retention

Expired ==
    { r \in Present :
        /\ requests[r].day < Cutoff
        /\ MonthStart(requests[r].day) < MonthStart(today)
        /\ requests[r].updated < Cutoff
        /\ requests[r].state \in {"settled", "held"} }

\* ORDER BY day LIMIT batch
OldestOf(D) ==
    /\ D \subseteq Expired
    /\ Cardinality(D) <= Batch
    /\ Cardinality(D) < Batch => D = Expired
    /\ \A r \in D, q \in Expired \ D : requests[r].day <= requests[q].day

\* Mutant: a period is dropped by age alone, whoever still refers to it.
Unreferenced_byAge(D) ==
    { p \in PeriodIds : periods[p] # NoRow /\ p[3] < Cutoff /\ p[3] < MonthStart(today) }

\* Period rows that may go once the requests in D are deleted.
Unreferenced(D) ==
    { p \in PeriodIds :
        /\ periods[p] # NoRow
        /\ p[3] < Cutoff
        /\ p[3] < MonthStart(today)
        /\ periods[p].pending = 0
        /\ \A r \in Present \ D : p \notin PeriodsOf(requests[r]) }

Prune(D, P) ==
    /\ D \cup P # {}
    /\ OldestOf(D)
    /\ P \subseteq Unreferenced(D)
    /\ Cardinality(P) <= Batch
    /\ Cardinality(P) < Batch => P = Unreferenced(D)
    /\ deleted' = deleted \cup D
    /\ periods' = [p \in PeriodIds |-> IF p \in P THEN NoRow ELSE periods[p]]
    /\ UNCHANGED <<today, limits, requests, pc, call, settlement, history>>

-----------------------------------------------------------------------------
(* The environment *)

\* A reservation call takes seconds (BUSY_TIMEOUT): midnight may pass meanwhile,
\* and the end of a month, but never the retention time.
AdvanceClock(d) ==
    /\ d > today
    /\ \A r \in Requests : call[r] # NoRow => call[r].day >= d - CallDays
    /\ today' = d
    /\ UNCHANGED <<limits, ledger, pc, call, settlement, history>>

Reconfigure(k, policy) ==
    /\ limits' = [limits EXCEPT ![k] = policy]
    /\ UNCHANGED <<today, ledger, pc, call, settlement, history>>

\* The router process dies; requests that had started are gone.
Crash ==
    /\ \E r \in Requests : pc[r] \notin {"idle", "over"}
    /\ pc' = [r \in Requests |-> IF pc[r] = "idle" THEN "idle" ELSE "over"]
    /\ call' = [r \in Requests |-> NoRow]
    /\ settlement' = [r \in Requests |-> NoRow]
    /\ faulted' = faulted \cup { r \in Requests : pc[r] \notin {"idle", "over"} }
    /\ UNCHANGED <<today, limits, ledger, fate>>

-----------------------------------------------------------------------------

Init ==
    /\ today = Min(Days)
    /\ limits \in [Keys -> Policies]
    /\ periods = [p \in PeriodIds |-> NoRow]
    /\ requests = [r \in Requests |-> NoRow]
    /\ deleted = {}
    /\ pc = [r \in Requests |-> "idle"]
    /\ call = [r \in Requests |-> NoRow]
    /\ settlement = [r \in Requests |-> NoRow]
    /\ fate = [r \in Requests |-> "unsent"]
    /\ faulted = {}

FinishAny(r) ==
    \E actual \in Actuals \cup {NoActual}, success \in BOOLEAN : Finish(r, actual, success)

Next ==
    \/ \E r \in Requests :
         \/ \E k \in Keys, a \in Amounts : Reserve(r, k, a)
         \/ CancelCall(r)
         \/ ReserveCommit(r)
         \/ ReserveCommitUncertain(r)
         \/ ReserveFail(r)
         \/ Forwarded(r)
         \/ FinishAny(r)
         \/ Settle(r)
         \/ SettleFail(r)
    \/ \E D \in SUBSET Expired : \E P \in SUBSET Unreferenced(D) : Prune(D, P)
    \/ \E d \in Days : AdvanceClock(d)
    \/ \E k \in Keys, policy \in Policies : Reconfigure(k, policy)
    \/ Crash

Spec == Init /\ [][Next]_vars

-----------------------------------------------------------------------------
(* Properties *)

\* What a request counts for in its two periods.
Cost(r) ==
    LET row == requests[r]
        s == [actual |-> row.actual, complete |-> row.state = "settled"]
    IN  IF row.state = "pending" THEN row.reserved
        ELSE Charged(row.reserved, s) + Held(row.reserved, s)

\* Every request that ever reserved in period p, deleted rows included.
Members(p) == { r \in Requests : requests[r] # NoRow /\ p \in PeriodsOf(requests[r]) }
InState(p, states) == { r \in Members(p) : requests[r].state \in states }

\* The sum of f over all requests: its tokens, one by one.
Tokens(f) == UNION { {r} \X (1 .. f[r]) : r \in Requests }
Total(f) == Cardinality(Tokens(f))
Costs(R) == [r \in Requests |-> IF r \in R THEN Cost(r) ELSE 0]

\* No sum of this period can ever have been clipped at MAX_TOKENS.
Weight(r) == IF Cost(r) > requests[r].reserved THEN Cost(r) ELSE requests[r].reserved
Weights(p) == [r \in Requests |-> IF r \in Members(p) THEN Weight(r) ELSE 0]
Unclipped(p) == Total(Weights(p)) <= MaxTokens

\* "Keep both original periods for every surviving request" (prune): a late
\* settlement always finds the two rows it has to update.
PeriodsOutliveRequests ==
    \A r \in Present : \A p \in PeriodsOf(requests[r]) : periods[p] # NoRow

\* A reservation outlives its request only after a crash, a failed settlement or
\* a commit that reported an error: a cancelled handler gives its quota back.
LeaksOnlyByFault ==
    \A r \in Requests :
        requests[r] # NoRow /\ requests[r].state = "pending" /\ pc[r] = "over" => r \in faulted

\* The counters of quota_periods are exactly what the requests say: each request
\* counts once in its own day and its own month - the day it was reserved, not
\* the one it was settled - through refunds, late settlements, failed commits,
\* crashes and the deletion of old rows, and a surviving request keeps its periods.
\* Only faults leave tokens reserved.  The rows keep their type.
LedgerBalanced ==
    /\ TypeOK
    /\ PeriodsOutliveRequests
    /\ LeaksOnlyByFault
    /\ \A p \in PeriodIds :
         periods[p] # NoRow /\ Unclipped(p) =>
            /\ periods[p].settled = Total(Costs(InState(p, {"settled"})))
            /\ periods[p].held = Total(Costs(InState(p, {"pending", "held"})))
            /\ periods[p].pending = Cardinality(InState(p, {"pending"}))
            /\ periods[p].uncertain = Cardinality(InState(p, {"held"}))

\* Charges follow what happened to the request: nothing is forwarded without a
\* durable reservation; a refund (settled at 0) means it never left; a settled
\* charge means a complete report; anything else holds at least the reservation.
ChargesMatchFate ==
    \A r \in Requests :
        /\ fate[r] # "unsent" => requests[r] # NoRow
        /\ requests[r] # NoRow =>
             CASE requests[r].state = "pending" -> TRUE
               [] requests[r].state = "settled" ->
                    fate[r] = "reported" \/ (fate[r] = "unsent" /\ Cost(r) = 0)
               [] requests[r].state = "held" ->
                    fate[r] = "sent" /\ Cost(r) >= requests[r].reserved

\* The hard quota: when a reservation commits, everything the key has spent or
\* holds in each limited period, counted over all its requests, fits the limit
\* the request was prepared with - two concurrent requests cannot both take the
\* last tokens, and deleting old rows gives nothing back.
NoOvercommit ==
    [][ \A r \in Requests :
          requests[r] = NoRow /\ requests'[r] # NoRow =>
            \A kind \in Kinds :
              LET p == PeriodOf(call[r], kind)
              IN  call[r].limits[kind] > 0 /\ Unclipped(p) =>
                    Total(Costs(Members(p))) + call[r].amount <= call[r].limits[kind] ]_vars
==============================================================================
