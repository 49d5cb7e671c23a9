-------------------------- MODULE QuotaLedgerProofs --------------------------
(***************************************************************************)
(* The counters of the quota ledger are the sums of what its requests      *)
(* cost, and no reservation overcommits a limit, for any number of         *)
(* requests, keys and days.                                                *)
(***************************************************************************)
EXTENDS QuotaLedger, FiniteSetTheorems, NaturalsInduction, WellFoundedInduction, TLAPS

USE QuotaAssumption, NoRowAssumption

(* Where a request is and what the ledger holds of it *)
Life(r) ==
    /\ pc[r] \in {"calling", "orphan"} <=> call[r] # NoRow
    /\ call[r] # NoRow => call[r].amount \in 1 .. MaxTokens /\ call[r].day >= today - CallDays
    /\ pc[r] \in {"idle", "calling", "orphan"} => requests[r] = NoRow
    /\ pc[r] \in {"reserved", "forwarded", "settling"} =>
         requests[r] # NoRow /\ requests[r].state = "pending"
    /\ pc[r] = "settling" => settlement[r] # NoRow
    /\ requests[r] # NoRow => requests[r].reserved \in 1 .. MaxTokens
    /\ r \in deleted => requests[r] # NoRow /\ requests[r].state # "pending"
    /\ requests[r] # NoRow /\ requests[r].state = "pending" /\ pc[r] = "over" => r \in faulted

(* What was dispatched, and what is on record, follow what happened *)
Deserved(r, s, complete) ==
    IF complete THEN fate[r] = "reported" \/ (fate[r] = "unsent" /\ s = 0) ELSE fate[r] = "sent"
Fair(r) ==
    /\ pc[r] \in {"idle", "calling", "orphan", "reserved"} => fate[r] = "unsent"
    /\ pc[r] = "forwarded" => fate[r] = "sent"
    /\ pc[r] = "settling" => Deserved(r, settlement[r].actual, settlement[r].complete)
    /\ fate[r] # "unsent" => requests[r] # NoRow
    /\ requests[r] # NoRow /\ requests[r].state # "pending" =>
         Deserved(r, requests[r].actual, requests[r].state = "settled")

(* The counters of a period *)
Kept(p, row) ==
    /\ row.settled <= MaxTokens /\ row.held <= MaxTokens
    /\ row.pending = Cardinality(InState(p, {"pending"}))
    /\ row.uncertain = Cardinality(InState(p, {"held"}))
    /\ Total(Costs(InState(p, {"pending"}))) <= row.held
    /\ Unclipped(p) => /\ row.settled = Total(Costs(InState(p, {"settled"})))
                       /\ row.held = Total(Costs(InState(p, {"pending", "held"})))
Books(p) == IF periods[p] = NoRow THEN Members(p) # {} => p[3] < Cutoff ELSE Kept(p, periods[p])

Inv ==
    /\ TypeOK
    /\ \A r \in Requests : Life(r) /\ Fair(r)
    /\ PeriodsOutliveRequests
    /\ \A p \in PeriodIds : Books(p)

-----------------------------------------------------------------------------
(* Sums                                                                    *)

Sizes == [Requests -> 0 .. MaxTokens]

LEMMA TokensIs ==
    ASSUME NEW f \in Sizes
    PROVE  /\ Tokens(f) = { u \in Requests \X (1 .. MaxTokens) : u[2] <= f[u[1]] }
           /\ IsFiniteSet(Tokens(f)) /\ Total(f) \in Nat
<1>1. \A r \in Requests : f[r] \in 0 .. MaxTokens
  BY DEF Sizes
<1>2. ASSUME NEW u \in Tokens(f) PROVE u \in Requests \X (1 .. MaxTokens) /\ u[2] <= f[u[1]]
  <2>1. PICK r \in Requests : u \in {r} \X (1 .. f[r])
    BY <1>2 DEF Tokens
  <2> QED BY <1>1, <2>1
<1>3. ASSUME NEW u \in Requests \X (1 .. MaxTokens), u[2] <= f[u[1]] PROVE u \in Tokens(f)
  <2>1. u \in {u[1]} \X (1 .. f[u[1]])
    BY <1>1, <1>3
  <2> QED BY <2>1 DEF Tokens
<1>4. Tokens(f) = { u \in Requests \X (1 .. MaxTokens) : u[2] <= f[u[1]] }
  BY <1>2, <1>3
<1>5. IsFiniteSet(Requests \X (1 .. MaxTokens))
  <2>1. IsFiniteSet(1 .. MaxTokens)
    BY FS_Interval
  <2> QED BY <2>1, FS_Product
<1>6. IsFiniteSet(Tokens(f))
  BY <1>4, <1>5, FS_Subset
<1> QED BY <1>4, <1>6, FS_CardinalityType DEF Total

LEMMA TotalMonotone ==
    ASSUME NEW f \in Sizes, NEW g \in Sizes, \A r \in Requests : f[r] <= g[r]
    PROVE  Total(f) <= Total(g)
<1>1. \A r \in Requests : f[r] \in 0 .. MaxTokens /\ g[r] \in 0 .. MaxTokens
  BY DEF Sizes
<1>2. Tokens(f) \subseteq Tokens(g)
  BY <1>1, TokensIs
<1> QED BY <1>2, TokensIs, FS_Subset DEF Total

\* The sum of two functions that do not overlap.
LEMMA TotalSum ==
    ASSUME NEW f \in Sizes, NEW g \in Sizes, NEW h \in Sizes,
           \A r \in Requests : (f[r] = 0 /\ h[r] = g[r]) \/ (g[r] = 0 /\ h[r] = f[r])
    PROVE  Total(h) = Total(f) + Total(g)
<1>1. \A r \in Requests : f[r] \in 0 .. MaxTokens /\ g[r] \in 0 .. MaxTokens
  BY DEF Sizes
<1>2. Tokens(f) \cap Tokens(g) = {}
  BY <1>1, TokensIs
<1>3. Tokens(h) = Tokens(f) \cup Tokens(g)
  BY <1>1, TokensIs
<1>4. Cardinality(Tokens(f) \cup Tokens(g)) = Cardinality(Tokens(f)) + Cardinality(Tokens(g)) - Cardinality({})
  BY <1>2, TokensIs, FS_Union
<1> QED BY <1>3, <1>4, TokensIs, FS_EmptySet DEF Total

LEMMA TotalZero ==
    ASSUME NEW f \in Sizes, \A r \in Requests : f[r] = 0
    PROVE  Total(f) = 0
<1>1. Tokens(f) = {}
  BY TokensIs
<1> QED BY <1>1, FS_EmptySet DEF Total

Single(r, v) == [q \in Requests |-> IF q = r THEN v ELSE 0]

LEMMA TotalSingle ==
    ASSUME NEW r \in Requests, NEW v \in 0 .. MaxTokens
    PROVE  Single(r, v) \in Sizes /\ Total(Single(r, v)) = v
<1>1. Single(r, v) \in Sizes /\ \A q \in Requests : Single(r, v)[q] = IF q = r THEN v ELSE 0
  BY DEF Single, Sizes
<1>2. Tokens(Single(r, v)) = {r} \X (1 .. v)
  BY <1>1, TokensIs
<1>3. IsFiniteSet(1 .. v) /\ Cardinality(1 .. v) = v
  BY FS_Interval
<1>4. IsFiniteSet({r}) /\ Cardinality({r}) = 1
  BY FS_Singleton
<1>5. Cardinality({r} \X (1 .. v)) = 1 * v
  BY <1>3, <1>4, FS_Product
<1> QED BY <1>1, <1>2, <1>5 DEF Total

\* Two functions that differ at one request differ by as much in their sums.
LEMMA TotalChange ==
    ASSUME NEW f \in Sizes, NEW g \in Sizes, NEW r \in Requests,
           \A q \in Requests \ {r} : f[q] = g[q]
    PROVE  /\ Total(f) + g[r] = Total(g) + f[r] /\ f[r] <= Total(f)
           /\ Total(f) \in Nat /\ Total(g) \in Nat
<1> DEFINE rest == [q \in Requests |-> IF q = r THEN 0 ELSE f[q]]
<1>1. f[r] \in 0 .. MaxTokens /\ g[r] \in 0 .. MaxTokens
  BY DEF Sizes
<1>2. rest \in Sizes /\ \A q \in Requests : rest[q] = IF q = r THEN 0 ELSE f[q]
  BY DEF Sizes
<1>3. /\ Single(r, f[r]) \in Sizes /\ Single(r, g[r]) \in Sizes
      /\ Total(Single(r, f[r])) = f[r] /\ Total(Single(r, g[r])) = g[r]
  BY <1>1, TotalSingle
<1>4. \A q \in Requests : /\ Single(r, f[r])[q] = IF q = r THEN f[r] ELSE 0
                          /\ Single(r, g[r])[q] = IF q = r THEN g[r] ELSE 0
  BY DEF Single
<1> HIDE DEF rest
<1>5. Total(f) = Total(rest) + Total(Single(r, f[r]))
  BY <1>2, <1>3, <1>4, TotalSum
<1>6. Total(g) = Total(rest) + Total(Single(r, g[r]))
  BY <1>2, <1>3, <1>4, TotalSum
<1>7. Total(rest) \in Nat /\ Total(f) \in Nat /\ Total(g) \in Nat
  BY <1>2, TokensIs
<1> QED BY <1>1, <1>3, <1>5, <1>6, <1>7

-----------------------------------------------------------------------------
(* Costs                                                                   *)

LEMMA MonthStartIs == ASSUME NEW d \in Nat PROVE MonthStart(d) \in Int /\ MonthStart(d) <= d /\ d - MonthLen < MonthStart(d)
BY DEF MonthStart

Alive == TypeOK /\ \A r \in Requests : Life(r)

(* What a request on record costs *)
Priced ==
    \A r \in Requests : requests[r] # NoRow =>
        /\ Cost(r) \in 0 .. MaxTokens
        /\ requests[r].state = "pending" => Cost(r) = requests[r].reserved
        /\ requests[r].state = "held" => Cost(r) >= requests[r].reserved
        /\ requests[r].state = "settled" /\ requests[r].actual = 0 => Cost(r) = 0

LEMMA AlivePriced == Alive => Priced
<1> SUFFICES ASSUME TypeOK, NEW r \in Requests, Life(r), requests[r] # NoRow
             PROVE  /\ Cost(r) \in 0 .. MaxTokens
                    /\ requests[r].state = "pending" => Cost(r) = requests[r].reserved
                    /\ requests[r].state = "held" => Cost(r) >= requests[r].reserved
                    /\ requests[r].state = "settled" /\ requests[r].actual = 0 => Cost(r) = 0
  BY DEF Alive, Priced
<1>1. requests[r] \in RequestRow /\ requests[r].reserved \in 1 .. MaxTokens
  BY DEF TypeOK, Life
<1>2. PICK n \in 1 .. MaxTokens, a \in Nat \cup {NoActual} : n = requests[r].reserved /\ a = requests[r].actual
  BY <1>1 DEF RequestRow
<1>3. CASE requests[r].state = "pending"
  BY <1>1, <1>3 DEF Cost
<1>4. CASE requests[r].state = "settled"
  <2>1. Cost(r) = AtMost(IF a = NoActual THEN n ELSE a) + 0
    BY <1>2, <1>4 DEF Cost, Charged, Held
  <2> QED BY <1>2, <1>4, <2>1 DEF AtMost
<1>5. CASE requests[r].state = "held"
  <2>1. Cost(r) = 0 + AtMost(IF a # NoActual /\ a > n THEN a ELSE n)
    BY <1>2, <1>5 DEF Cost, Charged, Held
  <2> QED BY <1>2, <1>5, <2>1 DEF AtMost
<1> QED BY <1>1, <1>3, <1>4, <1>5 DEF RequestRow

(* The functions that are summed *)
Summable ==
    \A p \in PeriodIds :
        /\ Costs(InState(p, {"pending"})) \in Sizes /\ Costs(InState(p, {"settled"})) \in Sizes
        /\ Costs(InState(p, {"pending", "held"})) \in Sizes
        /\ Costs(Members(p)) \in Sizes /\ Weights(p) \in Sizes

LEMMA AliveSummable == Alive => Summable
<1> SUFFICES ASSUME Alive, NEW p \in PeriodIds
             PROVE  /\ Costs(InState(p, {"pending"})) \in Sizes /\ Costs(InState(p, {"settled"})) \in Sizes
                    /\ Costs(InState(p, {"pending", "held"})) \in Sizes
                    /\ Costs(Members(p)) \in Sizes /\ Weights(p) \in Sizes
  BY DEF Summable
<1>1. \A r \in Members(p) : /\ r \in Requests /\ Cost(r) \in 0 .. MaxTokens
                            /\ requests[r].reserved \in 0 .. MaxTokens
  BY AlivePriced DEF Members, Priced, Alive, Life
<1>2. ASSUME NEW R, R \subseteq Members(p) PROVE Costs(R) \in Sizes
  BY <1>1, <1>2 DEF Costs, Sizes
<1>3. Weights(p) \in Sizes
  BY <1>1 DEF Weights, Weight, Sizes
<1> QED BY <1>2, <1>3 DEF InState

LEMMA PricedNext == Alive' => Priced' /\ Summable'
BY AlivePriced, AliveSummable, PTL

-----------------------------------------------------------------------------
(* One request's row changes                                               *)

LEMMA OthersCount ==
    ASSUME NEW r \in Requests, \A q \in Requests \ {r} : requests'[q] = requests[q],
           NEW p, NEW q \in Requests \ {r}, NEW states
    PROVE  /\ q \in Members(p)' <=> q \in Members(p)
           /\ q \in InState(p, states)' <=> q \in InState(p, states)
           /\ Cost(q)' = Cost(q)
           /\ Costs(InState(p, states))'[q] = Costs(InState(p, states))[q]
           /\ Costs(Members(p))'[q] = Costs(Members(p))[q]
           /\ Weights(p)'[q] = Weights(p)[q]
<1>1. requests'[q] = requests[q]
  OBVIOUS
<1>2. Cost(q)' = Cost(q)
  BY <1>1 DEF Cost
<1>3. q \in Members(p)' <=> q \in Members(p)
  BY <1>1 DEF Members
<1>4. q \in InState(p, states)' <=> q \in InState(p, states)
  BY <1>1, <1>3 DEF InState
<1>5. /\ Costs(InState(p, states))'[q] = Costs(InState(p, states))[q]
      /\ Costs(Members(p))'[q] = Costs(Members(p))[q]
  BY <1>2, <1>3, <1>4 DEF Costs
<1>6. Weights(p)'[q] = Weights(p)[q]
  BY <1>1, <1>2, <1>3 DEF Weights, Weight
<1> QED BY <1>2, <1>3, <1>4, <1>5, <1>6

\* A period the request is not in notices nothing.
LEMMA OtherPeriods ==
    ASSUME NEW r \in Requests, \A q \in Requests \ {r} : requests'[q] = requests[q],
           NEW p, r \notin Members(p), r \notin Members(p)'
    PROVE  /\ Members(p)' = Members(p)
           /\ \A row : Kept(p, row) => Kept(p, row)'
<1>1. Members(p)' = Members(p) /\ \A q \in Members(p) : requests'[q] = requests[q]
  BY OthersCount DEF Members
<1>2. \A q \in Members(p) : Cost(q)' = Cost(q) /\ Weight(q)' = Weight(q)
  BY <1>1 DEF Cost, Weight
<1>3. ASSUME NEW states PROVE InState(p, states)' = InState(p, states) /\ InState(p, states) \subseteq Members(p)
  BY <1>1 DEF InState
<1>4. ASSUME NEW states PROVE Costs(InState(p, states))' = Costs(InState(p, states))
  BY <1>2, <1>3 DEF Costs
<1>5. Weights(p)' = Weights(p)
  BY <1>1, <1>2 DEF Weights
<1>6. /\ InState(p, {"pending"})' = InState(p, {"pending"}) /\ InState(p, {"held"})' = InState(p, {"held"})
      /\ Costs(InState(p, {"pending"}))' = Costs(InState(p, {"pending"}))
      /\ Costs(InState(p, {"settled"}))' = Costs(InState(p, {"settled"}))
      /\ Costs(InState(p, {"pending", "held"}))' = Costs(InState(p, {"pending", "held"}))
  BY <1>3, <1>4
<1>7. ASSUME NEW row, Kept(p, row) PROVE Kept(p, row)'
  BY <1>5, <1>6, <1>7 DEF Kept, Unclipped, Total, Tokens
<1> QED BY <1>1, <1>7

\* Two sets that differ in one element at most.
LEMMA SetsAgree ==
    ASSUME NEW A \in SUBSET Requests, NEW B \in SUBSET Requests, NEW r \in Requests,
           \A q \in Requests \ {r} : q \in B <=> q \in A
    PROVE  /\ r \in B => B = A \cup {r}
           /\ r \notin B => B = A \ {r}
           /\ (r \in A <=> r \in B) => B = A
<1>1. ASSUME r \in B PROVE B = A \cup {r}
  <2>1. \A x \in B : x \in A \cup {r}
    OBVIOUS
  <2>2. \A x \in A : x \in B
    BY <1>1
  <2> QED BY <1>1, <2>1, <2>2
<1>2. ASSUME r \notin B PROVE B = A \ {r}
  <2>1. \A x \in B : x \in A /\ x # r
    BY <1>2
  <2>2. \A x \in A : x # r => x \in B
    OBVIOUS
  <2> QED BY <2>1, <2>2
<1> QED BY <1>1, <1>2

\* How many requests of a period are in a state.
LEMMA StateFinite == ASSUME NEW p, NEW states PROVE IsFiniteSet(InState(p, states)) /\ Cardinality(InState(p, states)) \in Nat
<1>1. InState(p, states) \in SUBSET Requests
  BY DEF InState, Members
<1> QED BY <1>1, FS_Subset, FS_CardinalityType

\* Of a change at one request: what it does to the sums of a period it is in.
LEMMA SumsChange ==
    ASSUME Alive, Alive', NEW r \in Requests, \A q \in Requests \ {r} : requests'[q] = requests[q],
           NEW p \in PeriodIds
    PROVE  \A states \in {{"pending"}, {"settled"}, {"pending", "held"}} :
             /\ Total(Costs(InState(p, states)))' + Costs(InState(p, states))[r]
                  = Total(Costs(InState(p, states))) + Costs(InState(p, states))'[r]
             /\ Costs(InState(p, states))[r] <= Total(Costs(InState(p, states)))
             /\ Total(Costs(InState(p, states))) \in Nat /\ Total(Costs(InState(p, states)))' \in Nat
             /\ Costs(InState(p, states))[r] \in 0 .. MaxTokens
             /\ Costs(InState(p, states))'[r] \in 0 .. MaxTokens
<1> SUFFICES ASSUME NEW states \in {{"pending"}, {"settled"}, {"pending", "held"}}
             PROVE  /\ Total(Costs(InState(p, states)))' + Costs(InState(p, states))[r]
                         = Total(Costs(InState(p, states))) + Costs(InState(p, states))'[r]
                    /\ Costs(InState(p, states))[r] <= Total(Costs(InState(p, states)))
                    /\ Total(Costs(InState(p, states))) \in Nat /\ Total(Costs(InState(p, states)))' \in Nat
                    /\ Costs(InState(p, states))[r] \in 0 .. MaxTokens
                    /\ Costs(InState(p, states))'[r] \in 0 .. MaxTokens
  OBVIOUS
<1>1. PICK f \in Sizes, g \in Sizes : f = Costs(InState(p, states)) /\ g = Costs(InState(p, states))'
  BY AliveSummable, PricedNext DEF Summable
<1>2. \A q \in Requests \ {r} : f[q] = g[q]
  BY <1>1, OthersCount
<1>3. Total(f) + g[r] = Total(g) + f[r] /\ f[r] <= Total(f) /\ Total(f) \in Nat /\ Total(g) \in Nat
  BY <1>2, TotalChange
<1>4. Total(Costs(InState(p, states)))' = Total(g)
  BY <1>1 DEF Total, Tokens
<1>5. f[r] \in 0 .. MaxTokens /\ g[r] \in 0 .. MaxTokens
  BY DEF Sizes
<1> QED BY <1>1, <1>3, <1>4, <1>5

\* What can have been clipped stays so.
LEMMA ClippingStays ==
    ASSUME Alive, Alive', NEW r \in Requests, \A q \in Requests \ {r} : requests'[q] = requests[q],
           NEW p \in PeriodIds, Weights(p)[r] <= Weights(p)'[r], Unclipped(p)'
    PROVE  /\ Unclipped(p)
           /\ \A states \in {{"pending"}, {"settled"}, {"pending", "held"}} :
                Total(Costs(InState(p, states)))' <= MaxTokens
<1>1. Summable /\ Summable'
  BY AliveSummable, PricedNext
<1>2. PICK f \in Sizes, g \in Sizes : f = Weights(p) /\ g = Weights(p)'
  BY <1>1 DEF Summable
<1>3. \A q \in Requests : f[q] <= g[q]
  <2>1. \A q \in Requests \ {r} : f[q] = g[q]
    BY <1>2, OthersCount
  <2> QED BY <1>2, <2>1 DEF Sizes
<1>4. Total(f) <= Total(g) /\ Total(f) \in Nat /\ Total(g) \in Nat
  BY <1>3, TotalMonotone, TokensIs
<1>5. Total(g) <= MaxTokens /\ (Total(f) <= MaxTokens => Unclipped(p))
  BY <1>2 DEF Unclipped, Total, Tokens
<1>6. ASSUME NEW states \in {{"pending"}, {"settled"}, {"pending", "held"}}
      PROVE  Total(Costs(InState(p, states)))' <= MaxTokens
  <2>1. PICK h \in Sizes : h = Costs(InState(p, states))'
    BY <1>1 DEF Summable
  <2>2. \A q \in Requests : q \in InState(p, states)' => q \in Members(p)' /\ Cost(q)' \in 0 .. MaxTokens
                                                      /\ requests'[q].reserved \in 0 .. MaxTokens
    BY PricedNext DEF InState, Members, Priced, Alive, Life
  <2>3. \A q \in Requests : h[q] <= g[q]
    <3> SUFFICES ASSUME NEW q \in Requests PROVE h[q] <= g[q]
      OBVIOUS
    <3>1. CASE q \in InState(p, states)'
      <4>1. h[q] = Cost(q)' /\ g[q] = Weight(q)'
        BY <1>2, <2>1, <2>2, <3>1 DEF Costs, Weights
      <4> QED BY <2>2, <3>1, <4>1 DEF Weight
    <3>2. CASE q \notin InState(p, states)'
      <4>1. h[q] = 0 /\ g[q] \in 0 .. MaxTokens
        BY <2>1, <3>2 DEF Costs, Sizes
      <4> QED BY <4>1
    <3> QED BY <3>1, <3>2
  <2>4. Total(h) <= Total(g) /\ Total(h) \in Nat
    BY <2>3, TotalMonotone, TokensIs
  <2>5. Total(Costs(InState(p, states)))' = Total(h)
    BY <2>1 DEF Total, Tokens
  <2> QED BY <1>4, <1>5, <2>4, <2>5
<1> QED BY <1>4, <1>5, <1>6

-----------------------------------------------------------------------------
(* A reservation                                                           *)

NewRow(c) == [key |-> c.key, day |-> c.day, reserved |-> c.amount,
              updated |-> c.day, state |-> "pending", actual |-> NoActual]

\* The row that the transaction adds.
LEMMA ReserveRow ==
    ASSUME Inv, NEW r \in Requests, ReserveTx(r)
    PROVE  /\ call[r] \in Call /\ call[r] # NoRow /\ call[r].amount \in 1 .. MaxTokens
           /\ call[r].day >= today - CallDays /\ call[r].day \in Days
           /\ requests[r] = NoRow /\ requests' = [requests EXCEPT ![r] = NewRow(call[r])]
           /\ NewRow(call[r]) \in RequestRow /\ NewRow(call[r]) # NoRow
           /\ PeriodsOf(NewRow(call[r])) = PeriodsOf(call[r])
<1>1. call[r] # NoRow /\ call[r] \in Call /\ requests[r] = NoRow
  BY DEF Inv, Life, TypeOK, ReserveTx
<1>2. call[r].amount \in 1 .. MaxTokens /\ call[r].day >= today - CallDays
  BY <1>1 DEF Inv, Life
<1>3. PICK c \in Call : c = call[r]
  BY <1>1
<1>4. NewRow(c) \in RequestRow /\ NewRow(c).key = c.key /\ NewRow(c).day = c.day
  BY <1>2, <1>3 DEF NewRow, RequestRow, Call
<1>5. PeriodsOf(NewRow(c)) = PeriodsOf(c)
  BY <1>4 DEF PeriodsOf, PeriodOf
<1>6. requests' = [requests EXCEPT ![r] = NewRow(c)]
  BY <1>3 DEF ReserveTx, NewRow
<1>7. NewRow(c) # NoRow
  BY <1>4
<1>8. c.day \in Days
  BY DEF Call
<1> QED BY <1>1, <1>2, <1>3, <1>4, <1>5, <1>6, <1>7, <1>8

ZeroRow == [settled |-> 0, held |-> 0, pending |-> 0, uncertain |-> 0]

LEMMA PeriodIs ==
    ASSUME TypeOK, NEW p \in PeriodIds
    PROVE  /\ Period(p) \in PeriodRow
           /\ periods[p] = NoRow => Period(p) = ZeroRow
           /\ periods[p] # NoRow => Period(p) = periods[p]
BY DEF TypeOK, Period, PeriodRow, ZeroRow

\* A period without members owes nothing.
LEMMA EmptyPeriod ==
    ASSUME Alive, NEW p \in PeriodIds, Members(p) = {}
    PROVE  Kept(p, ZeroRow) /\ Total(Costs(Members(p))) = 0
<1>1. \A states : InState(p, states) = {}
  BY DEF InState
<1>2. Costs({}) \in Sizes /\ \A r \in Requests : Costs({})[r] = 0
  BY DEF Costs, Sizes
<1>3. Total(Costs({})) = 0
  BY <1>2, TotalZero
<1>4. Cardinality({}) = 0
  BY FS_EmptySet
<1>5. /\ InState(p, {"pending"}) = {} /\ InState(p, {"held"}) = {} /\ InState(p, {"settled"}) = {}
      /\ InState(p, {"pending", "held"}) = {}
  BY <1>1
<1>6. /\ Total(Costs(InState(p, {"pending"}))) = 0 /\ Total(Costs(InState(p, {"settled"}))) = 0
      /\ Total(Costs(InState(p, {"pending", "held"}))) = 0
      /\ Cardinality(InState(p, {"pending"})) = 0 /\ Cardinality(InState(p, {"held"})) = 0
  BY <1>3, <1>4, <1>5
<1>7. ZeroRow.settled = 0 /\ ZeroRow.held = 0 /\ ZeroRow.pending = 0 /\ ZeroRow.uncertain = 0
  BY DEF ZeroRow
<1>8. 0 <= MaxTokens /\ 0 <= 0
  OBVIOUS
<1>9. Kept(p, ZeroRow)
  BY <1>6, <1>7, <1>8 DEF Kept
<1> QED BY <1>3, <1>9

\* The periods of a reservation in flight were not removed: the retention time
\* is longer than a month and a call together.
LEMMA CurrentPeriod ==
    ASSUME Inv, NEW r \in Requests, call[r] # NoRow, NEW p \in PeriodsOf(call[r]), p \in PeriodIds
    PROVE  Kept(p, Period(p))
<1>1. call[r] \in Call /\ call[r].day >= today - CallDays /\ today \in Nat
  BY DEF Inv, TypeOK, Life
<1>2. PICK kind \in Kinds : p = <<call[r].key, kind, Start(kind, call[r].day)>>
  BY DEF PeriodsOf, PeriodOf
<1>3. PICK d \in Nat : d = call[r].day
  BY <1>1 DEF Call
<1>4. p[3] \in Int /\ d - MonthLen <= p[3]
  BY <1>2, <1>3, MonthStartIs DEF Start
<1>5. ~(p[3] < Cutoff)
  BY <1>1, <1>3, <1>4 DEF Cutoff
<1>6. CASE periods[p] = NoRow
  <2>1. Members(p) = {}
    BY <1>5, <1>6 DEF Inv, Books
  <2> QED BY <1>6, <2>1, EmptyPeriod, PeriodIs DEF Inv, Alive
<1>7. CASE periods[p] # NoRow
  BY <1>7, PeriodIs DEF Inv, Books
<1> QED BY <1>6, <1>7

\* A transaction that fits leaves every period in balance.
LEMMA ReserveBooks ==
    ASSUME Inv, Alive', NEW r \in Requests, ReserveTx(r), NEW p \in PeriodIds
    PROVE  Books(p)'
<1>1. Alive /\ Books(p) /\ TypeOK
  BY DEF Inv, Alive
<1>2. PICK c \in Call : c = call[r]
  BY ReserveRow
<1>3. /\ c # NoRow /\ c.amount \in 1 .. MaxTokens /\ requests[r] = NoRow
      /\ requests' = [requests EXCEPT ![r] = NewRow(c)] /\ NewRow(c) # NoRow
      /\ PeriodsOf(NewRow(c)) = PeriodsOf(c)
  BY <1>2, ReserveRow
<1>4. /\ requests'[r] = NewRow(c) /\ \A q \in Requests \ {r} : requests'[q] = requests[q]
      /\ requests'[r].state = "pending" /\ requests'[r].reserved = c.amount
  BY <1>1, <1>3 DEF TypeOK, NewRow
<1>5. r \notin Members(p) /\ (r \in Members(p)' <=> p \in PeriodsOf(c))
  BY <1>3, <1>4 DEF Members
<1>6. periods'[p] = IF p \in PeriodsOf(c)
                    THEN [Period(p) EXCEPT !.held = @ + c.amount, !.pending = @ + 1] ELSE periods[p]
  BY <1>2 DEF ReserveTx, ReservePeriods
<1>7. CASE p \notin PeriodsOf(c)
  <2>1. Members(p)' = Members(p) /\ \A row : Kept(p, row) => Kept(p, row)'
    BY <1>4, <1>5, <1>7, OtherPeriods
  <2>2. periods'[p] = periods[p] /\ Cutoff' = Cutoff
    BY <1>6, <1>7 DEF ReserveTx, Cutoff
  <2>3. CASE periods[p] = NoRow
    BY <1>1, <2>1, <2>2, <2>3 DEF Books
  <2>4. CASE periods[p] # NoRow
    <3>1. Kept(p, periods[p])'
      <4>1. PICK row : row = periods[p]
        OBVIOUS
      <4>2. Kept(p, row)'
        BY <1>1, <2>1, <2>4, <4>1 DEF Books
      <4> QED BY <2>2, <4>1, <4>2 DEF Kept
    <3> QED BY <2>2, <2>4, <3>1 DEF Books
  <2> QED BY <2>3, <2>4
<1>8. CASE p \in PeriodsOf(c)
  <2>1. PICK row \in PeriodRow : row = Period(p)
    BY <1>1, PeriodIs
  <2>2. Kept(p, row)
    BY <1>2, <1>3, <1>8, <2>1, CurrentPeriod
  <2>3. PICK n \in 1 .. MaxTokens : n = c.amount
    BY <1>3
  <2>4. PICK new \in PeriodRow : /\ new = periods'[p] /\ new.settled = row.settled /\ new.uncertain = row.uncertain
                                 /\ new.held = row.held + n /\ new.pending = row.pending + 1
    <3>1. periods'[p] = [row EXCEPT !.held = @ + n, !.pending = @ + 1]
      BY <1>6, <1>8, <2>1, <2>3
    <3>2. /\ row.held + n \in Nat /\ row.pending + 1 \in Nat /\ row.settled \in Nat /\ row.uncertain \in Nat
          /\ row = [settled |-> row.settled, held |-> row.held, pending |-> row.pending, uncertain |-> row.uncertain]
      BY DEF PeriodRow
    <3>3. periods'[p] = [settled |-> row.settled, held |-> row.held + n,
                         pending |-> row.pending + 1, uncertain |-> row.uncertain]
      BY <3>1, <3>2
    <3> QED BY <3>2, <3>3 DEF PeriodRow
  <2>5. row.settled + row.held + n <= MaxTokens
    <3>1. ~Exceeded(c)
      BY <1>2 DEF ReserveTx
    <3>2. PICK kind \in Kinds : p = PeriodOf(c, kind)
      BY <1>8 DEF PeriodsOf
    <3> QED BY <2>1, <2>3, <3>1, <3>2 DEF Exceeded, PeriodRow
  <2>6. /\ r \in InState(p, {"pending"})' /\ r \in InState(p, {"pending", "held"})'
        /\ r \notin InState(p, {"settled"})' /\ r \notin InState(p, {"held"})'
        /\ \A states : r \notin InState(p, states)
    BY <1>4, <1>5, <1>8 DEF InState
  <2>7. Cost(r)' = n
    BY <1>4, <2>3 DEF Cost
  <2>8. /\ Costs(InState(p, {"pending"}))[r] = 0 /\ Costs(InState(p, {"pending"}))'[r] = n
        /\ Costs(InState(p, {"pending", "held"}))[r] = 0 /\ Costs(InState(p, {"pending", "held"}))'[r] = n
        /\ Costs(InState(p, {"settled"}))[r] = 0 /\ Costs(InState(p, {"settled"}))'[r] = 0
        /\ Weights(p)[r] = 0 /\ Weights(p)'[r] \in Nat
    <3>1. Weights(p)'[r] \in 0 .. MaxTokens
      BY PricedNext DEF Summable, Sizes
    <3> QED BY <1>5, <2>6, <2>7, <3>1 DEF Costs, Weights
  <2>9. /\ Total(Costs(InState(p, {"pending"})))' = Total(Costs(InState(p, {"pending"}))) + n
        /\ Total(Costs(InState(p, {"pending", "held"})))' = Total(Costs(InState(p, {"pending", "held"}))) + n
        /\ Total(Costs(InState(p, {"settled"})))' = Total(Costs(InState(p, {"settled"})))
        /\ Total(Costs(InState(p, {"pending"}))) \in Nat
    <3>1. \A states \in {{"pending"}, {"settled"}, {"pending", "held"}} :
             /\ Total(Costs(InState(p, states)))' + Costs(InState(p, states))[r]
                  = Total(Costs(InState(p, states))) + Costs(InState(p, states))'[r]
             /\ Total(Costs(InState(p, states))) \in Nat /\ Total(Costs(InState(p, states)))' \in Nat
      BY <1>1, <1>4, SumsChange
    <3> QED BY <2>8, <3>1
  <2>10. /\ Cardinality(InState(p, {"pending"}))' = Cardinality(InState(p, {"pending"})) + 1
         /\ Cardinality(InState(p, {"held"}))' = Cardinality(InState(p, {"held"}))
    <3>1. \A q \in Requests \ {r} : /\ q \in InState(p, {"pending"})' <=> q \in InState(p, {"pending"})
                                    /\ q \in InState(p, {"held"})' <=> q \in InState(p, {"held"})
      BY <1>4, OthersCount
    <3>2. /\ InState(p, {"pending"})' = InState(p, {"pending"}) \cup {r}
          /\ InState(p, {"held"})' = InState(p, {"held"})
      <4>1. \A states : InState(p, states) \subseteq Requests /\ InState(p, states)' \subseteq Requests
        BY DEF InState, Members
      <4>2. /\ InState(p, {"pending"}) \subseteq Requests /\ InState(p, {"pending"})' \subseteq Requests
            /\ InState(p, {"held"}) \subseteq Requests /\ InState(p, {"held"})' \subseteq Requests
        BY <4>1
      <4>3. PICK A, B, C, D : /\ A = InState(p, {"pending"}) /\ B = InState(p, {"pending"})'
                              /\ C = InState(p, {"held"}) /\ D = InState(p, {"held"})'
        OBVIOUS
      <4>4. r \notin A /\ r \in B /\ r \notin C /\ r \notin D
        BY <2>6, <4>3
      <4>5. \A q \in Requests \ {r} : (q \in B <=> q \in A) /\ (q \in D <=> q \in C)
        BY <3>1, <4>3
      <4>6. A \subseteq Requests /\ B \subseteq Requests /\ C \subseteq Requests /\ D \subseteq Requests
        BY <4>2, <4>3
      <4>7. B = A \cup {r} /\ D = C
        BY <4>4, <4>5, <4>6, SetsAgree
      <4> QED BY <4>3, <4>7
    <3> QED BY <2>6, <3>2, StateFinite, FS_AddElement
  <2>11. Unclipped(p)' => Unclipped(p)
    BY <1>1, <1>4, <2>8, ClippingStays
  <2>12. Kept(p, new)'
    BY <2>2, <2>4, <2>5, <2>9, <2>10, <2>11 DEF Kept, PeriodRow
  <2>13. periods'[p] # NoRow
    BY <2>4
  <2> QED BY <2>4, <2>12, <2>13 DEF Books, Kept
<1> QED BY <1>7, <1>8

-----------------------------------------------------------------------------
(* A settlement                                                            *)

\* settle finds the row of its request pending.
Settles(r) ==
    /\ pc[r] = "settling"
    /\ SettlePeriods(requests[r], settlement[r])
    /\ requests' = [requests EXCEPT
         ![r].state = IF settlement[r].complete THEN "settled" ELSE "held",
         ![r].actual = IF settlement[r].actual = NoActual
                       THEN NoActual ELSE AtMost(settlement[r].actual),
         ![r].updated = today]
    /\ UNCHANGED <<today, deleted>>

LEMMA SettleRow ==
    ASSUME Inv, NEW r \in Requests, Settles(r)
    PROVE  /\ requests[r] \in RequestRow /\ requests[r] # NoRow /\ requests[r].state = "pending"
           /\ settlement[r] \in Settlement /\ r \notin deleted
           /\ requests[r].reserved \in 1 .. MaxTokens
           /\ requests' \in [Requests -> RequestRow \cup {NoRow}]
           /\ requests'[r] \in RequestRow /\ requests'[r] # NoRow
           /\ requests'[r].key = requests[r].key /\ requests'[r].day = requests[r].day
           /\ requests'[r].reserved = requests[r].reserved
           /\ requests'[r].state = IF settlement[r].complete THEN "settled" ELSE "held"
           /\ requests'[r].actual = IF settlement[r].actual = NoActual
                                    THEN NoActual ELSE AtMost(settlement[r].actual)
           /\ \A q \in Requests \ {r} : requests'[q] = requests[q]
<1>1. /\ requests[r] # NoRow /\ requests[r] \in RequestRow /\ requests[r].state = "pending"
      /\ settlement[r] # NoRow /\ settlement[r] \in Settlement /\ r \notin deleted
      /\ requests[r].reserved \in 1 .. MaxTokens /\ today \in Days
      /\ requests \in [Requests -> RequestRow \cup {NoRow}]
  BY DEF Inv, Life, TypeOK, Settles
<1>2. PICK row \in RequestRow, s \in Settlement : row = requests[r] /\ s = settlement[r]
  BY <1>1
<1>3. PICK st \in {"settled", "held"}, a \in Nat \cup {NoActual} :
        /\ st = IF s.complete THEN "settled" ELSE "held"
        /\ a = IF s.actual = NoActual THEN NoActual ELSE AtMost(s.actual)
  BY DEF Settlement, AtMost
<1>4. requests' = [requests EXCEPT ![r].state = st, ![r].actual = a, ![r].updated = today]
  BY <1>2, <1>3 DEF Settles
<1>5. requests'[r] = [key |-> row.key, day |-> row.day, reserved |-> row.reserved,
                      updated |-> today, state |-> st, actual |-> a]
  <2>1. requests'[r] = [row EXCEPT !.state = st, !.actual = a, !.updated = today]
    BY <1>1, <1>2, <1>4
  <2> QED BY <2>1 DEF RequestRow
<1>6. requests'[r] \in RequestRow
  BY <1>1, <1>5 DEF RequestRow
<1>7. \A q \in Requests \ {r} : requests'[q] = requests[q]
  BY <1>1, <1>4
<1>8. requests' \in [Requests -> RequestRow \cup {NoRow}]
  BY <1>1, <1>4, <1>6, <1>7
<1>9. requests'[r] # NoRow
  BY <1>6
<1> QED BY <1>1, <1>2, <1>3, <1>5, <1>6, <1>7, <1>8, <1>9

\* The cost on record is what was charged or held.
LEMMA SettleCost ==
    ASSUME Inv, NEW r \in Requests, Settles(r)
    PROVE  /\ Charged(requests[r].reserved, settlement[r]) \in 0 .. MaxTokens
           /\ Held(requests[r].reserved, settlement[r]) \in 0 .. MaxTokens
           /\ settlement[r].complete => /\ Cost(r)' = Charged(requests[r].reserved, settlement[r])
                                        /\ Held(requests[r].reserved, settlement[r]) = 0
           /\ ~settlement[r].complete => /\ Cost(r)' = Held(requests[r].reserved, settlement[r])
                                         /\ Charged(requests[r].reserved, settlement[r]) = 0
<1>1. PICK n \in 1 .. MaxTokens, s \in Settlement : n = requests[r].reserved /\ s = settlement[r]
  BY SettleRow
<1>2. /\ requests'[r].reserved = n
      /\ requests'[r].state = IF s.complete THEN "settled" ELSE "held"
      /\ requests'[r].actual = IF s.actual = NoActual THEN NoActual ELSE AtMost(s.actual)
  BY <1>1, SettleRow
<1>3. PICK a \in Nat \cup {NoActual} : a = s.actual
  BY DEF Settlement
<1>4. PICK b \in Nat \cup {NoActual} : b = IF a = NoActual THEN NoActual ELSE AtMost(a)
  BY DEF AtMost
<1>5. CASE s.complete
  <2>1. Charged(n, s) = AtMost(IF a = NoActual THEN n ELSE a) /\ Held(n, s) = 0
    BY <1>3, <1>5 DEF Charged, Held
  <2>2. Cost(r)' = AtMost(IF b = NoActual THEN n ELSE b) + 0
    BY <1>2, <1>3, <1>4, <1>5 DEF Cost, Charged, Held
  <2> QED BY <1>1, <1>4, <1>5, <2>1, <2>2 DEF AtMost
<1>6. CASE ~s.complete
  <2>1. Held(n, s) = AtMost(IF a # NoActual /\ a > n THEN a ELSE n) /\ Charged(n, s) = 0
    BY <1>3, <1>6 DEF Charged, Held
  <2>2. Cost(r)' = 0 + AtMost(IF b # NoActual /\ b > n THEN b ELSE n)
    BY <1>2, <1>3, <1>4, <1>6 DEF Cost, Charged, Held
  <2> QED BY <1>1, <1>4, <1>6, <2>1, <2>2 DEF AtMost
<1> QED BY <1>5, <1>6

\* What the settlement makes of the counters of one of its periods, given what
\* they were.
LEMMA SettledRow ==
    ASSUME Inv, NEW r \in Requests, Settles(r), NEW p \in PeriodIds, p \in PeriodsOf(requests[r])
    PROVE  /\ periods[p] \in PeriodRow /\ Kept(p, periods[p])
           /\ requests[r].reserved <= periods[p].held /\ periods[p].pending >= 1
           /\ r \in InState(p, {"pending"})
           /\ periods'[p] \in PeriodRow
           /\ periods'[p].settled = AtMost(periods[p].settled + Charged(requests[r].reserved, settlement[r]))
           /\ periods'[p].held = AtMost(periods[p].held - requests[r].reserved
                                          + Held(requests[r].reserved, settlement[r]))
           /\ periods'[p].pending = periods[p].pending - 1
           /\ periods'[p].uncertain = periods[p].uncertain + (IF settlement[r].complete THEN 0 ELSE 1)
<1>1. TypeOK /\ Alive /\ requests[r] # NoRow /\ requests[r].state = "pending" /\ r \notin deleted
  BY SettleRow DEF Inv, Alive
<1>2. periods[p] # NoRow /\ periods[p] \in PeriodRow /\ Kept(p, periods[p])
  BY <1>1 DEF Inv, TypeOK, PeriodsOutliveRequests, Present, Books
<1>3. r \in InState(p, {"pending"})
  BY <1>1 DEF InState, Members
<1>4. PICK n \in 1 .. MaxTokens : n = requests[r].reserved /\ n = Cost(r)
  BY <1>1, SettleRow, AlivePriced DEF Priced
<1>5. n <= Total(Costs(InState(p, {"pending"}))) /\ Total(Costs(InState(p, {"pending"}))) \in Nat
  <2>1. PICK f \in Sizes : f = Costs(InState(p, {"pending"}))
    BY <1>1, AliveSummable DEF Summable
  <2>2. f[r] = n
    BY <1>3, <1>4, <2>1 DEF Costs
  <2> QED BY <2>1, <2>2, TotalChange
<1>6. periods[p].pending >= 1
  <2>1. Cardinality(InState(p, {"pending"})) # 0 /\ Cardinality(InState(p, {"pending"})) \in Nat
    BY <1>3, StateFinite, FS_EmptySet
  <2> QED BY <1>2, <2>1 DEF Kept
<1>7. PICK row \in PeriodRow : row = periods[p]
  BY <1>2
<1>8. PICK ch \in 0 .. MaxTokens, h \in 0 .. MaxTokens, one \in {0, 1} :
        /\ ch = Charged(requests[r].reserved, settlement[r]) /\ h = Held(requests[r].reserved, settlement[r])
        /\ one = IF settlement[r].complete THEN 0 ELSE 1
  BY SettleCost
<1>9. periods'[p] = [settled |-> AtMost(row.settled + ch), held |-> AtMost(row.held - n + h),
                     pending |-> row.pending - 1, uncertain |-> row.uncertain + one]
  BY <1>2, <1>4, <1>7, <1>8 DEF Settles, SettlePeriods
<1>10. n <= row.held /\ row.pending >= 1
  BY <1>2, <1>5, <1>6, <1>7 DEF Kept, PeriodRow
<1>11. /\ AtMost(row.settled + ch) \in Nat /\ AtMost(row.held - n + h) \in Nat
       /\ row.pending - 1 \in Nat /\ row.uncertain + one \in Nat
  BY <1>10 DEF AtMost, PeriodRow
<1>12. periods'[p] \in PeriodRow
  BY <1>9, <1>11 DEF PeriodRow
<1>13. /\ periods'[p].settled = AtMost(row.settled + ch) /\ periods'[p].held = AtMost(row.held - n + h)
       /\ periods'[p].pending = row.pending - 1 /\ periods'[p].uncertain = row.uncertain + one
  BY <1>9
<1> QED BY <1>2, <1>3, <1>4, <1>6, <1>7, <1>8, <1>10, <1>12, <1>13

\* A settlement leaves every period in balance.
LEMMA SettleBooks ==
    ASSUME Inv, Alive', NEW r \in Requests, Settles(r), NEW p \in PeriodIds
    PROVE  Books(p)'
<1>1. Alive /\ Books(p) /\ TypeOK
  BY DEF Inv, Alive
<1>2. /\ requests[r] # NoRow /\ requests[r].state = "pending" /\ requests'[r] # NoRow
      /\ requests'[r].state = IF settlement[r].complete THEN "settled" ELSE "held"
      /\ requests'[r].reserved = requests[r].reserved
      /\ PeriodsOf(requests'[r]) = PeriodsOf(requests[r])
      /\ \A q \in Requests \ {r} : requests'[q] = requests[q]
  BY SettleRow DEF PeriodsOf, PeriodOf
<1>3. /\ r \in Members(p)' <=> p \in PeriodsOf(requests[r])
      /\ r \in Members(p) <=> p \in PeriodsOf(requests[r])
  BY <1>2 DEF Members
<1>4. CASE p \notin PeriodsOf(requests[r])
  <2>1. Members(p)' = Members(p) /\ \A row : Kept(p, row) => Kept(p, row)'
    BY <1>2, <1>3, <1>4, OtherPeriods
  <2>2. periods'[p] = periods[p] /\ Cutoff' = Cutoff
    BY <1>4 DEF Settles, SettlePeriods, Cutoff
  <2>3. CASE periods[p] = NoRow
    BY <1>1, <2>1, <2>2, <2>3 DEF Books
  <2>4. CASE periods[p] # NoRow
    <3>1. PICK row : row = periods[p]
      OBVIOUS
    <3>2. Kept(p, row)'
      BY <1>1, <2>1, <2>4, <3>1 DEF Books
    <3> QED BY <2>2, <2>4, <3>1, <3>2 DEF Books, Kept
  <2> QED BY <2>3, <2>4
<1>5. CASE p \in PeriodsOf(requests[r])
  <2>1. PICK row \in PeriodRow, new \in PeriodRow : row = periods[p] /\ new = periods'[p]
    BY <1>5, SettledRow
  <2>2. PICK n \in 1 .. MaxTokens, ch \in 0 .. MaxTokens, h \in 0 .. MaxTokens, one \in {0, 1} :
          /\ n = requests[r].reserved /\ ch = Charged(requests[r].reserved, settlement[r])
          /\ h = Held(requests[r].reserved, settlement[r])
          /\ one = IF settlement[r].complete THEN 0 ELSE 1
    BY SettleRow, SettleCost
  <2>3. /\ Kept(p, row) /\ n <= row.held
        /\ new.settled = AtMost(row.settled + ch) /\ new.held = AtMost(row.held - n + h)
        /\ new.pending = row.pending - 1 /\ new.uncertain = row.uncertain + one
    BY <1>5, <2>1, <2>2, SettledRow
  <2>4. /\ r \in InState(p, {"pending"}) /\ r \in InState(p, {"pending", "held"})
        /\ r \notin InState(p, {"settled"}) /\ r \notin InState(p, {"held"})
        /\ r \notin InState(p, {"pending"})'
        /\ r \in InState(p, {"settled"})' <=> settlement[r].complete
        /\ r \in InState(p, {"held"})' <=> ~settlement[r].complete
        /\ r \in InState(p, {"pending", "held"})' <=> ~settlement[r].complete
    BY <1>2, <1>3, <1>5 DEF InState
  <2>5. Cost(r) = n
    BY <1>1, <1>2, <2>2, AlivePriced DEF Priced
  <2>6. /\ Costs(InState(p, {"pending"}))[r] = n /\ Costs(InState(p, {"pending"}))'[r] = 0
        /\ Costs(InState(p, {"pending", "held"}))[r] = n /\ Costs(InState(p, {"pending", "held"}))'[r] = h
        /\ Costs(InState(p, {"settled"}))[r] = 0 /\ Costs(InState(p, {"settled"}))'[r] = ch
    BY <2>2, <2>4, <2>5, SettleCost DEF Costs
  <2>7. Weights(p)[r] <= Weights(p)'[r]
    <3>1. Weights(p)[r] = n
      BY <1>3, <1>5, <2>2, <2>5 DEF Weights, Weight
    <3>2. PICK k \in 0 .. MaxTokens : k = Cost(r)'
      BY <1>2, PricedNext DEF Priced
    <3>3. Weights(p)'[r] = IF k > n THEN k ELSE n
      BY <1>2, <1>3, <1>5, <2>2, <3>2 DEF Weights, Weight
    <3> QED BY <3>1, <3>3
  <2>8. /\ Total(Costs(InState(p, {"pending"})))' = Total(Costs(InState(p, {"pending"}))) - n
        /\ Total(Costs(InState(p, {"pending", "held"})))' = Total(Costs(InState(p, {"pending", "held"}))) - n + h
        /\ Total(Costs(InState(p, {"settled"})))' = Total(Costs(InState(p, {"settled"}))) + ch
        /\ Total(Costs(InState(p, {"pending"}))) \in Nat
        /\ Total(Costs(InState(p, {"settled"}))) \in Nat
        /\ Total(Costs(InState(p, {"pending", "held"}))) \in Nat
    <3>1. \A states \in {{"pending"}, {"settled"}, {"pending", "held"}} :
             /\ Total(Costs(InState(p, states)))' + Costs(InState(p, states))[r]
                  = Total(Costs(InState(p, states))) + Costs(InState(p, states))'[r]
             /\ Total(Costs(InState(p, states))) \in Nat /\ Total(Costs(InState(p, states)))' \in Nat
      BY <1>1, <1>2, SumsChange
    <3> QED BY <2>6, <3>1
  <2>9. /\ Cardinality(InState(p, {"pending"}))' = Cardinality(InState(p, {"pending"})) - 1
        /\ Cardinality(InState(p, {"held"}))' = Cardinality(InState(p, {"held"})) + one
    <3>1. PICK A \in SUBSET Requests, B \in SUBSET Requests, C \in SUBSET Requests, D \in SUBSET Requests :
             /\ A = InState(p, {"pending"}) /\ B = InState(p, {"pending"})'
             /\ C = InState(p, {"held"}) /\ D = InState(p, {"held"})'
      BY DEF InState, Members
    <3>2. \A q \in Requests \ {r} : (q \in B <=> q \in A) /\ (q \in D <=> q \in C)
      BY <1>2, <3>1, OthersCount
    <3>3. r \in A /\ r \notin B /\ r \notin C /\ (r \in D <=> ~settlement[r].complete)
      BY <2>4, <3>1
    <3>4. B = A \ {r} /\ D = IF settlement[r].complete THEN C ELSE C \cup {r}
      BY <3>2, <3>3, SetsAgree
    <3>5. IsFiniteSet(A) /\ IsFiniteSet(C) /\ Cardinality(A) \in Nat /\ Cardinality(C) \in Nat
      BY FS_Subset, FS_CardinalityType
    <3>6. Cardinality(B) = Cardinality(A) - 1
      BY <3>3, <3>4, <3>5, FS_RemoveElement
    <3>7. Cardinality(D) = Cardinality(C) + one
      <4>1. CASE settlement[r].complete
        BY <2>2, <3>4, <3>5, <4>1
      <4>2. CASE ~settlement[r].complete
        <5>1. D = C \cup {r} /\ one = 1
          BY <2>2, <3>4, <4>2
        <5>2. Cardinality(C \cup {r}) = Cardinality(C) + 1
          BY <3>3, <3>5, FS_AddElement
        <5> QED BY <5>1, <5>2
      <4> QED BY <4>1, <4>2
    <3> QED BY <3>1, <3>6, <3>7
  <2>10. Unclipped(p)' => /\ Unclipped(p)
                          /\ Total(Costs(InState(p, {"settled"})))' <= MaxTokens
                          /\ Total(Costs(InState(p, {"pending", "held"})))' <= MaxTokens
    BY <1>1, <1>2, <2>7, ClippingStays
  <2>11. /\ row.settled \in Nat /\ row.held \in Nat
         /\ row.settled <= MaxTokens /\ row.held <= MaxTokens
         /\ Total(Costs(InState(p, {"pending"}))) <= row.held
    BY <2>3 DEF PeriodRow, Kept
  <2>12. new.settled <= MaxTokens /\ new.held <= MaxTokens
    BY <2>3, <2>11 DEF AtMost
  <2>13. Total(Costs(InState(p, {"pending"})))' <= new.held
    BY <2>3, <2>8, <2>11 DEF AtMost
  <2>14. ASSUME Unclipped(p)'
         PROVE  /\ new.settled = Total(Costs(InState(p, {"settled"})))'
                /\ new.held = Total(Costs(InState(p, {"pending", "held"})))'
    <3>1. /\ row.settled = Total(Costs(InState(p, {"settled"})))
          /\ row.held = Total(Costs(InState(p, {"pending", "held"})))
      BY <2>3, <2>10, <2>14 DEF Kept
    <3>2. row.settled + ch <= MaxTokens /\ row.held - n + h <= MaxTokens
      BY <2>8, <2>10, <2>14, <3>1
    <3>3. AtMost(row.settled + ch) = row.settled + ch /\ AtMost(row.held - n + h) = row.held - n + h
      BY <2>3, <2>11, <3>2 DEF AtMost
    <3> QED BY <2>3, <2>8, <3>1, <3>3
  <2>15. new.pending = Cardinality(InState(p, {"pending"}))' /\ new.uncertain = Cardinality(InState(p, {"held"}))'
    BY <2>3, <2>9 DEF Kept
  <2>16. Kept(p, new)'
    BY <2>12, <2>13, <2>14, <2>15 DEF Kept
  <2>17. periods'[p] # NoRow
    BY <2>1
  <2> QED BY <2>1, <2>16, <2>17 DEF Books, Kept
<1> QED BY <1>4, <1>5

-----------------------------------------------------------------------------
(* Every step preserves the invariant                                      *)

LEMMA Earlier == \A m, n, k \in Nat : m - k \in Int /\ n - k \in Int /\ (m <= n => m - k <= n - k)
OBVIOUS

LEMMA PeriodStart == ASSUME NEW p \in PeriodIds PROVE p[3] \in Int
<1>1. p[3] \in Days \/ \E d \in Days : p[3] = MonthStart(d)
  BY DEF PeriodIds
<1>2. CASE p[3] \in Days
  <2>1. p[3] \in Nat
    BY <1>2
  <2> QED BY <2>1
<1>3. CASE \E d \in Days : p[3] = MonthStart(d)
  <2>1. PICK d \in Nat : p[3] = MonthStart(d)
    BY <1>3
  <2>2. MonthStart(d) \in Int
    BY MonthStartIs
  <2> QED BY <2>1, <2>2
<1> QED BY <1>1, <1>2, <1>3

\* The books depend on the two tables and on the day.
LEMMA BooksFrame ==
    ASSUME Inv, NEW p \in PeriodIds, UNCHANGED <<requests, periods[p]>>, today' \in Days, today <= today'
    PROVE  Books(p)'
<1>1. Cutoff <= Cutoff' /\ Cutoff \in Int /\ Cutoff' \in Int
  <2>1. PICK m \in Nat, n \in Nat : m = today /\ n = today' /\ m <= n
    BY DEF Inv, TypeOK
  <2>2. PICK k \in Nat : k = Retention
    OBVIOUS
  <2>3. Cutoff = m - k /\ Cutoff' = n - k
    BY <2>1, <2>2 DEF Cutoff
  <2> QED BY <2>1, <2>3, Earlier
<1>2. Members(p)' = Members(p)
  BY DEF Members
<1>3. \A q : Cost(q)' = Cost(q) /\ Weight(q)' = Weight(q)
  BY DEF Cost, Weight
<1>4. ASSUME NEW states PROVE /\ InState(p, states)' = InState(p, states)
                              /\ Costs(InState(p, states))' = Costs(InState(p, states))
  <2>1. InState(p, states)' = InState(p, states)
    BY <1>2 DEF InState
  <2> QED BY <1>3, <2>1 DEF Costs
<1>5. Weights(p)' = Weights(p)
  BY <1>2, <1>3 DEF Weights
<1>6. /\ InState(p, {"pending"})' = InState(p, {"pending"}) /\ InState(p, {"held"})' = InState(p, {"held"})
      /\ Costs(InState(p, {"pending"}))' = Costs(InState(p, {"pending"}))
      /\ Costs(InState(p, {"settled"}))' = Costs(InState(p, {"settled"}))
      /\ Costs(InState(p, {"pending", "held"}))' = Costs(InState(p, {"pending", "held"}))
  BY <1>4
<1>7. periods'[p] = periods[p] /\ (Kept(p, periods[p]) => Kept(p, periods[p])')
  BY <1>5, <1>6 DEF Kept, Unclipped, Total, Tokens
<1>8. p[3] \in Int
  BY PeriodStart
<1>9. Books(p)
  BY DEF Inv
<1>10. CASE periods[p] = NoRow
  BY <1>1, <1>2, <1>7, <1>8, <1>9, <1>10 DEF Books
<1>11. CASE periods[p] # NoRow
  BY <1>7, <1>9, <1>11 DEF Books
<1> QED BY <1>10, <1>11

LEMMA OutliveFrame ==
    ASSUME PeriodsOutliveRequests, UNCHANGED <<periods, requests, deleted>>
    PROVE  PeriodsOutliveRequests'
BY DEF PeriodsOutliveRequests, Present

\* Requests that take no step.
LEMMA OthersLive ==
    ASSUME NEW q \in Requests, Life(q), Fair(q),
           UNCHANGED <<today, pc[q], call[q], requests[q], settlement[q], fate[q]>>,
           q \in deleted' => q \in deleted, q \in faulted => q \in faulted'
    PROVE  Life(q)' /\ Fair(q)'
<1>1. Life(q)'
  BY DEF Life
<1>2. Fair(q)'
  BY DEF Fair, Deserved
<1> QED BY <1>1, <1>2

\* The steps of request r outside the ledger.
LEMMA OutsideInv ==
    ASSUME Inv, NEW r \in Requests, UNCHANGED <<today, limits, periods, requests, deleted>>,
           TypeOK', Life(r)', Fair(r)',
           \A q \in Requests \ {r} : UNCHANGED <<pc[q], call[q], settlement[q], fate[q]>>,
           faulted \subseteq faulted'
    PROVE  Inv'
<1>1. \A q \in Requests : Life(q)' /\ Fair(q)'
  <2> SUFFICES ASSUME NEW q \in Requests, q # r PROVE Life(q)' /\ Fair(q)'
    OBVIOUS
  <2>1. Life(q) /\ Fair(q)
    BY DEF Inv
  <2> QED BY <2>1, OthersLive
<1>2. PeriodsOutliveRequests'
  BY OutliveFrame DEF Inv
<1>3. \A p \in PeriodIds : Books(p)'
  <2>1. today' \in Days /\ today <= today'
    BY DEF Inv, TypeOK
  <2> QED BY <2>1, BooksFrame
<1> QED BY <1>1, <1>2, <1>3 DEF Inv

LEMMA ReserveInv ==
    ASSUME Inv, NEW r \in Requests, NEW k \in Keys, NEW a \in Amounts, Reserve(r, k, a)
    PROVE  Inv'
<1>1. TypeOK /\ Life(r) /\ Fair(r)
  BY DEF Inv
<1>2. pc[r] = "idle" /\ call[r] = NoRow /\ requests[r] = NoRow
  BY <1>1 DEF Reserve, Life
<1>3. UNCHANGED <<today, limits, periods, requests, deleted, settlement, fate, faulted>>
  BY DEF Reserve, ledger, history
<1>4. CASE a = 0 \/ a > MaxTokens
  <2>1. pc' = [pc EXCEPT ![r] = "over"] /\ call' = call
    BY <1>4 DEF Reserve
  <2>2. TypeOK'
    BY <1>1, <1>3, <2>1 DEF TypeOK, Locations
  <2>3. pc'[r] = "over"
    BY <1>1, <2>1 DEF TypeOK
  <2>4. Life(r)' /\ Fair(r)'
    BY <1>1, <1>2, <1>3, <2>1, <2>3 DEF Life, Fair, Deserved
  <2>5. \A q \in Requests \ {r} : UNCHANGED <<pc[q], call[q], settlement[q], fate[q]>>
    BY <1>1, <1>3, <2>1 DEF TypeOK
  <2> QED BY <1>3, <2>2, <2>4, <2>5, OutsideInv
<1>5. CASE ~(a = 0 \/ a > MaxTokens)
  <2>1. PICK c : c = [key |-> k, day |-> today, amount |-> a, limits |-> limits[k]]
    OBVIOUS
  <2>2. c \in Call /\ c.amount \in 1 .. MaxTokens /\ c.day >= today - CallDays
    <3>1. a \in Nat /\ today \in Nat /\ today \in Days /\ limits[k] \in Policies
      BY <1>1 DEF TypeOK
    <3>2. c \in Call /\ c.amount = a /\ c.day = today
      BY <2>1, <3>1 DEF Call
    <3> QED BY <1>5, <3>1, <3>2
  <2>3. pc' = [pc EXCEPT ![r] = "calling"] /\ call' = [call EXCEPT ![r] = c]
    BY <1>5, <2>1 DEF Reserve
  <2>4. TypeOK'
    BY <1>1, <1>3, <2>2, <2>3 DEF TypeOK, Locations
  <2>5. pc'[r] = "calling" /\ call'[r] = c /\ c # NoRow
    BY <1>1, <2>2, <2>3 DEF TypeOK
  <2>6. Life(r)' /\ Fair(r)'
    BY <1>1, <1>2, <1>3, <2>2, <2>5 DEF Life, Fair, Deserved
  <2>7. \A q \in Requests \ {r} : UNCHANGED <<pc[q], call[q], settlement[q], fate[q]>>
    BY <1>1, <1>3, <2>3 DEF TypeOK
  <2> QED BY <1>3, <2>4, <2>6, <2>7, OutsideInv
<1> QED BY <1>4, <1>5

\* The steps that lose the call or the settlement of a request.
LEMMA GiveUpInv ==
    ASSUME Inv, NEW r \in Requests, CancelCall(r) \/ ReserveFail(r) \/ SettleFail(r)
    PROVE  Inv'
<1>1. TypeOK /\ Life(r) /\ Fair(r)
  BY DEF Inv
<1>2. UNCHANGED <<today, limits, periods, requests, deleted, fate>>
  BY DEF CancelCall, ReserveFail, SettleFail, ledger, history
<1>3. /\ pc' = [pc EXCEPT ![r] = pc'[r]] /\ pc'[r] \in {"orphan", "over"}
      /\ call' = [call EXCEPT ![r] = call'[r]] /\ call'[r] = IF ReserveFail(r) THEN NoRow ELSE call[r]
      /\ settlement' = [settlement EXCEPT ![r] = settlement'[r]] /\ settlement'[r] \in {settlement[r], NoRow}
      /\ faulted' \in {faulted, faulted \cup {r}} /\ (SettleFail(r) => r \in faulted')
  BY <1>1 DEF CancelCall, ReserveFail, SettleFail, ledger, history, TypeOK
<1>4. TypeOK'
  BY <1>1, <1>2, <1>3 DEF TypeOK, Locations
<1>5. Life(r)' /\ Fair(r)'
  <2>1. CASE CancelCall(r)
    <3>1. pc[r] = "calling" /\ pc'[r] = "orphan" /\ UNCHANGED <<call, settlement, faulted>>
      BY <1>1, <2>1 DEF CancelCall, history, TypeOK
    <3> QED BY <1>1, <1>2, <3>1 DEF Life, Fair, Deserved
  <2>2. CASE ReserveFail(r)
    <3>1. pc[r] \in {"calling", "orphan"} /\ pc'[r] = "over" /\ call'[r] = NoRow /\ UNCHANGED <<settlement, faulted>>
      BY <1>1, <2>2 DEF ReserveFail, history, TypeOK
    <3> QED BY <1>1, <1>2, <3>1 DEF Life, Fair, Deserved
  <2>3. CASE SettleFail(r)
    <3>1. pc[r] = "settling" /\ pc'[r] = "over" /\ call' = call /\ r \in faulted'
      BY <1>1, <2>3 DEF SettleFail, TypeOK
    <3> QED BY <1>1, <1>2, <3>1 DEF Life, Fair, Deserved
  <2> QED BY <2>1, <2>2, <2>3
<1>6. \A q \in Requests \ {r} : UNCHANGED <<pc[q], call[q], settlement[q], fate[q]>>
  BY <1>1, <1>2, <1>3 DEF TypeOK
<1>7. faulted \subseteq faulted'
  BY <1>3
<1> QED BY <1>2, <1>4, <1>5, <1>6, <1>7, OutsideInv

LEMMA ForwardedInv == ASSUME Inv, NEW r \in Requests, Forwarded(r) PROVE Inv'
<1>1. TypeOK /\ Life(r) /\ Fair(r)
  BY DEF Inv
<1>2. UNCHANGED <<today, limits, periods, requests, deleted, call, settlement, faulted>>
  BY DEF Forwarded, ledger
<1>3. pc[r] = "reserved" /\ pc' = [pc EXCEPT ![r] = "forwarded"] /\ fate' = [fate EXCEPT ![r] = "sent"]
  BY DEF Forwarded
<1>4. TypeOK'
  BY <1>1, <1>2, <1>3 DEF TypeOK, Locations
<1>5. pc'[r] = "forwarded" /\ fate'[r] = "sent"
  BY <1>1, <1>3 DEF TypeOK
<1>6. Life(r)' /\ Fair(r)'
  BY <1>1, <1>2, <1>3, <1>5 DEF Life, Fair, Deserved
<1>7. \A q \in Requests \ {r} : UNCHANGED <<pc[q], call[q], settlement[q], fate[q]>>
  BY <1>1, <1>2, <1>3 DEF TypeOK
<1> QED BY <1>2, <1>4, <1>6, <1>7, OutsideInv

LEMMA FinishInv ==
    ASSUME Inv, NEW r \in Requests, NEW actual \in Actuals \cup {NoActual}, NEW success \in BOOLEAN,
           Finish(r, actual, success)
    PROVE  Inv'
<1>1. TypeOK /\ Life(r) /\ Fair(r)
  BY DEF Inv
<1>2. UNCHANGED <<today, limits, periods, requests, deleted, call, faulted>>
  BY DEF Finish, Dispatch, ledger
<1>3. PICK s : s = IF pc[r] = "reserved" THEN [actual |-> 0, complete |-> TRUE]
                   ELSE [actual |-> actual, complete |-> success]
  OBVIOUS
<1>4. s \in Settlement /\ s # NoRow
  <2>1. actual \in Nat \cup {NoActual}
    OBVIOUS
  <2>2. s \in Settlement
    BY <1>3, <2>1 DEF Settlement
  <2> QED BY <2>2
<1>5. PICK f : f = IF fate[r] = "sent" /\ success THEN "reported" ELSE fate[r]
  OBVIOUS
<1>6. f \in {"unsent", "sent", "reported"}
  BY <1>1, <1>5 DEF TypeOK
<1>7. /\ pc' = [pc EXCEPT ![r] = "settling"] /\ settlement' = [settlement EXCEPT ![r] = s]
      /\ fate' = [fate EXCEPT ![r] = f] /\ pc[r] \in {"reserved", "forwarded"}
  BY <1>1, <1>3, <1>5 DEF Finish, Dispatch, Report, TypeOK
<1>8. TypeOK'
  BY <1>1, <1>2, <1>4, <1>6, <1>7 DEF TypeOK, Locations
<1>9. pc'[r] = "settling" /\ settlement'[r] = s /\ fate'[r] = f
  BY <1>1, <1>7 DEF TypeOK
<1>10. Life(r)'
  BY <1>1, <1>2, <1>4, <1>7, <1>9 DEF Life
<1>11. Fair(r)'
  <2>1. CASE pc[r] = "reserved"
    <3>1. fate[r] = "unsent" /\ f = "unsent" /\ s.actual = 0 /\ s.complete = TRUE
      BY <1>1, <1>3, <1>5, <2>1 DEF Fair
    <3> QED BY <1>1, <1>2, <1>9, <1>10, <2>1, <3>1 DEF Fair, Deserved, Life
  <2>2. CASE pc[r] = "forwarded"
    <3>1. fate[r] = "sent" /\ f = (IF success THEN "reported" ELSE "sent") /\ s.complete = success
      BY <1>1, <1>3, <1>5, <2>2 DEF Fair
    <3> QED BY <1>1, <1>2, <1>9, <1>10, <2>2, <3>1 DEF Fair, Deserved, Life
  <2> QED BY <1>7, <2>1, <2>2
<1>12. \A q \in Requests \ {r} : UNCHANGED <<pc[q], call[q], settlement[q], fate[q]>>
  BY <1>1, <1>2, <1>7 DEF TypeOK
<1> QED BY <1>2, <1>8, <1>10, <1>11, <1>12, OutsideInv

\* The two periods of a row are in the table of periods.
LEMMA RowPeriods == ASSUME NEW row \in Call \cup RequestRow PROVE PeriodsOf(row) \subseteq PeriodIds
<1>1. row.key \in Keys /\ row.day \in Days
  BY DEF Call, RequestRow
<1>2. \A kind \in Kinds : Start(kind, row.day) \in Days \cup { MonthStart(d) : d \in Days }
  BY <1>1 DEF Start
<1>3. PICK D : D = Days \cup { MonthStart(d) : d \in Days }
  OBVIOUS
<1>4. ASSUME NEW kind \in Kinds PROVE PeriodOf(row, kind) \in Keys \X Kinds \X D
  <2>1. PICK k, s : k = row.key /\ s = Start(kind, row.day)
    OBVIOUS
  <2>2. k \in Keys /\ s \in D
    BY <1>1, <1>2, <1>3, <2>1
  <2>3. <<k, kind, s>> \in Keys \X Kinds \X D
    BY <2>2
  <2> QED BY <2>1, <2>3 DEF PeriodOf
<1>5. \A kind \in Kinds : PeriodOf(row, kind) \in PeriodIds
  BY <1>3, <1>4 DEF PeriodIds
<1> QED BY <1>5 DEF PeriodsOf

\* A reservation that commits, whatever becomes of its permit.
LEMMA CommitInv ==
    ASSUME Inv, NEW r \in Requests, ReserveTx(r), NEW l \in Locations \ {"idle", "calling", "orphan", "forwarded"},
           NEW s \in Settlement \cup {NoRow},
           call' = [call EXCEPT ![r] = NoRow], pc' = [pc EXCEPT ![r] = l],
           settlement' = [settlement EXCEPT ![r] = s],
           l = "settling" => s = [actual |-> 0, complete |-> TRUE],
           faulted' \in {faulted, faulted \cup {r}}, l = "over" => r \in faulted'
    PROVE  Inv'
<1>1. TypeOK /\ Life(r) /\ Fair(r) /\ pc[r] \in {"calling", "orphan"} /\ r \notin deleted
  BY ReserveRow DEF Inv, ReserveTx, Life
<1>2. UNCHANGED <<today, limits, deleted, fate>>
  BY DEF ReserveTx
<1>3. PICK c \in Call : c = call[r]
  BY ReserveRow
<1>4. /\ c # NoRow /\ c.amount \in 1 .. MaxTokens /\ requests' = [requests EXCEPT ![r] = NewRow(c)]
      /\ NewRow(c) \in RequestRow /\ NewRow(c) # NoRow /\ PeriodsOf(NewRow(c)) = PeriodsOf(c)
  BY <1>3, ReserveRow
<1>5. /\ requests'[r] = NewRow(c) /\ \A q \in Requests \ {r} : requests'[q] = requests[q]
      /\ requests'[r].state = "pending" /\ requests'[r].reserved = c.amount
  BY <1>1, <1>4 DEF TypeOK, NewRow
<1>6. PeriodsOf(c) \subseteq PeriodIds
  BY RowPeriods
<1>7. \A p \in PeriodIds : /\ periods'[p] \in PeriodRow \cup {NoRow}
                           /\ p \in PeriodsOf(c) \/ periods[p] # NoRow => periods'[p] # NoRow
  <2> SUFFICES ASSUME NEW p \in PeriodIds
               PROVE  /\ periods'[p] \in PeriodRow \cup {NoRow}
                      /\ p \in PeriodsOf(c) \/ periods[p] # NoRow => periods'[p] # NoRow
    OBVIOUS
  <2>1. periods'[p] = IF p \in PeriodsOf(c)
                      THEN [Period(p) EXCEPT !.held = @ + c.amount, !.pending = @ + 1] ELSE periods[p]
    BY <1>3 DEF ReserveTx, ReservePeriods
  <2>2. CASE p \in PeriodsOf(c)
    <3>1. PICK row \in PeriodRow, n \in Nat : row = Period(p) /\ n = c.amount
      BY <1>1, <1>4, PeriodIs
    <3>2. periods'[p] = [row EXCEPT !.held = @ + n, !.pending = @ + 1]
      BY <2>1, <2>2, <3>1
    <3>3. /\ row.held + n \in Nat /\ row.pending + 1 \in Nat /\ row.settled \in Nat /\ row.uncertain \in Nat
          /\ row = [settled |-> row.settled, held |-> row.held, pending |-> row.pending, uncertain |-> row.uncertain]
      BY DEF PeriodRow
    <3>4. periods'[p] = [settled |-> row.settled, held |-> row.held + n,
                         pending |-> row.pending + 1, uncertain |-> row.uncertain]
      BY <3>2, <3>3
    <3>5. periods'[p] \in PeriodRow
      BY <3>3, <3>4 DEF PeriodRow
    <3> QED BY <3>5
  <2>3. CASE p \notin PeriodsOf(c)
    BY <1>1, <2>1, <2>3 DEF TypeOK
  <2> QED BY <2>2, <2>3
<1>8. TypeOK'
  <2>1. periods' \in [PeriodIds -> PeriodRow \cup {NoRow}]
    BY <1>7 DEF ReserveTx, ReservePeriods
  <2>2. requests' \in [Requests -> RequestRow \cup {NoRow}]
    BY <1>1, <1>4 DEF TypeOK
  <2>3. /\ call' \in [Requests -> Call \cup {NoRow}] /\ pc' \in [Requests -> Locations]
        /\ settlement' \in [Requests -> Settlement \cup {NoRow}] /\ faulted' \in SUBSET Requests
    BY <1>1 DEF TypeOK
  <2> QED BY <1>1, <1>2, <2>1, <2>2, <2>3 DEF TypeOK
<1>9. call'[r] = NoRow /\ pc'[r] = l /\ settlement'[r] = s
  BY <1>1 DEF TypeOK
<1>10. Life(r)'
  <2>1. l = "settling" => s # NoRow
    <3>1. [actual |-> 0, complete |-> TRUE] \in Settlement
      BY DEF Settlement
    <3> QED BY <3>1
  <2> QED BY <1>1, <1>2, <1>4, <1>5, <1>9, <2>1 DEF Life, Locations
<1>11. Fair(r)'
  <2>1. fate'[r] = "unsent"
    BY <1>1, <1>2 DEF Fair
  <2>2. l = "settling" => s.actual = 0 /\ s.complete = TRUE
    OBVIOUS
  <2> QED BY <1>5, <1>9, <2>1, <2>2 DEF Fair, Deserved
<1>12. \A q \in Requests : Life(q)' /\ Fair(q)'
  <2> SUFFICES ASSUME NEW q \in Requests, q # r PROVE Life(q)' /\ Fair(q)'
    BY <1>10, <1>11
  <2>1. Life(q) /\ Fair(q)
    BY DEF Inv
  <2>2. UNCHANGED <<today, pc[q], call[q], requests[q], settlement[q], fate[q], deleted>>
    BY <1>1, <1>2, <1>5 DEF TypeOK
  <2>3. q \in faulted => q \in faulted'
    OBVIOUS
  <2> QED BY <2>1, <2>2, <2>3, OthersLive
<1>13. PeriodsOutliveRequests'
  <2> SUFFICES ASSUME NEW q \in Requests, requests'[q] # NoRow, q \notin deleted',
                      NEW p \in PeriodsOf(requests'[q])
               PROVE  periods'[p] # NoRow
    BY DEF PeriodsOutliveRequests, Present, PeriodsOf, PeriodOf
  <2>1. CASE q = r
    BY <1>4, <1>5, <1>6, <1>7, <2>1
  <2>2. CASE q # r
    <3>1. requests'[q] = requests[q] /\ requests[q] \in RequestRow
      BY <1>1, <1>5, <2>2 DEF TypeOK
    <3>2. p \in PeriodIds
      BY <3>1, RowPeriods
    <3>3. periods[p] # NoRow
      BY <1>2, <3>1 DEF Inv, PeriodsOutliveRequests, Present
    <3> QED BY <1>7, <3>2, <3>3
  <2> QED BY <2>1, <2>2
<1>14. Alive'
  BY <1>8, <1>12 DEF Alive
<1>15. \A p \in PeriodIds : Books(p)'
  BY <1>14, ReserveBooks
<1> QED BY <1>8, <1>12, <1>13, <1>15 DEF Inv

LEMMA ReserveCommitInv ==
    ASSUME Inv, NEW r \in Requests, ReserveCommit(r) \/ ReserveCommitUncertain(r)
    PROVE  Inv'
<1>1. ReserveTx(r) /\ call' = [call EXCEPT ![r] = NoRow] /\ TypeOK
  BY DEF ReserveCommit, ReserveCommitUncertain, Inv
<1>2. settlement = [settlement EXCEPT ![r] = settlement[r]] /\ settlement[r] \in Settlement \cup {NoRow}
  BY <1>1 DEF TypeOK
<1>3. CASE ReserveCommit(r) /\ pc[r] = "calling"
  <2>1. pc' = [pc EXCEPT ![r] = "reserved"] /\ settlement' = settlement /\ faulted' = faulted
    BY <1>3 DEF ReserveCommit
  <2>2. PICK l \in Locations : l = "reserved"
    BY DEF Locations
  <2> QED BY <1>1, <1>2, <2>1, <2>2, CommitInv
<1>4. CASE ReserveCommit(r) /\ pc[r] # "calling"
  <2>1. PICK s : s = [actual |-> 0, complete |-> TRUE]
    OBVIOUS
  <2>2. s \in Settlement
    BY <2>1 DEF Settlement
  <2>3. /\ pc' = [pc EXCEPT ![r] = "settling"] /\ faulted' = faulted
        /\ settlement' = [settlement EXCEPT ![r] = s]
    BY <1>4, <2>1 DEF ReserveCommit
  <2>4. PICK l \in Locations : l = "settling"
    BY DEF Locations
  <2> QED BY <1>1, <2>1, <2>2, <2>3, <2>4, CommitInv
<1>5. CASE ReserveCommitUncertain(r)
  <2>1. pc' = [pc EXCEPT ![r] = "over"] /\ settlement' = settlement /\ faulted' = faulted \cup {r}
    BY <1>5 DEF ReserveCommitUncertain
  <2>2. PICK l \in Locations : l = "over"
    BY DEF Locations
  <2> QED BY <1>1, <1>2, <2>1, <2>2, CommitInv
<1> QED BY <1>3, <1>4, <1>5

LEMMA SettleInv == ASSUME Inv, NEW r \in Requests, Settle(r) PROVE Inv'
<1>1. TypeOK /\ Life(r) /\ Fair(r) /\ pc[r] = "settling"
  BY DEF Inv, Settle
<1>2. UNCHANGED <<today, limits, deleted, call, fate, faulted>>
  BY DEF Settle, history
<1>3. pc' = [pc EXCEPT ![r] = "over"] /\ settlement' = [settlement EXCEPT ![r] = NoRow]
  BY DEF Settle
<1>4. Settles(r)
  <2>1. r \in Present /\ requests[r].state = "pending"
    BY <1>1 DEF Life, Present
  <2> QED BY <2>1, <1>1, <1>2 DEF Settle, Settles
<1>5. /\ requests[r] \in RequestRow /\ requests[r] # NoRow /\ requests[r].state = "pending" /\ r \notin deleted
      /\ requests' \in [Requests -> RequestRow \cup {NoRow}] /\ requests'[r] # NoRow
      /\ requests'[r].key = requests[r].key /\ requests'[r].day = requests[r].day
      /\ requests'[r].reserved = requests[r].reserved /\ requests[r].reserved \in 1 .. MaxTokens
      /\ requests'[r].state = IF settlement[r].complete THEN "settled" ELSE "held"
      /\ requests'[r].actual = IF settlement[r].actual = NoActual THEN NoActual ELSE AtMost(settlement[r].actual)
      /\ \A q \in Requests \ {r} : requests'[q] = requests[q]
      /\ settlement[r] \in Settlement
  BY <1>4, SettleRow
<1>6. PeriodsOf(requests'[r]) = PeriodsOf(requests[r])
  BY <1>5 DEF PeriodsOf, PeriodOf
<1>7. \A p \in PeriodIds : /\ periods'[p] \in PeriodRow \cup {NoRow}
                           /\ periods[p] # NoRow => periods'[p] # NoRow
  <2> SUFFICES ASSUME NEW p \in PeriodIds
               PROVE  /\ periods'[p] \in PeriodRow \cup {NoRow}
                      /\ periods[p] # NoRow => periods'[p] # NoRow
    OBVIOUS
  <2>1. CASE p \in PeriodsOf(requests[r])
    BY <1>4, <2>1, SettledRow
  <2>2. CASE p \notin PeriodsOf(requests[r])
    <3>1. periods'[p] = periods[p]
      BY <1>4, <2>2 DEF Settles, SettlePeriods
    <3> QED BY <1>1, <3>1 DEF TypeOK
  <2> QED BY <2>1, <2>2
<1>8. TypeOK'
  <2>1. periods' \in [PeriodIds -> PeriodRow \cup {NoRow}]
    BY <1>4, <1>7 DEF Settles, SettlePeriods
  <2>2. pc' \in [Requests -> Locations] /\ settlement' \in [Requests -> Settlement \cup {NoRow}]
    BY <1>1, <1>3 DEF TypeOK, Locations
  <2> QED BY <1>1, <1>2, <1>5, <2>1, <2>2 DEF TypeOK
<1>9. pc'[r] = "over" /\ settlement'[r] = NoRow
  BY <1>1, <1>3 DEF TypeOK
<1>10. Life(r)'
  BY <1>1, <1>2, <1>5, <1>9 DEF Life
<1>11. Fair(r)'
  <2>1. Deserved(r, settlement[r].actual, settlement[r].complete)
    BY <1>1 DEF Fair
  <2>2. settlement[r].actual = 0 => requests'[r].actual = 0
    BY <1>5 DEF AtMost
  <2>3. settlement[r].complete \in BOOLEAN
    BY <1>5 DEF Settlement
  <2>4. requests'[r].state = "settled" <=> settlement[r].complete
    BY <1>5, <2>3
  <2>5. Deserved(r, requests[r].actual, requests[r].state = "settled")'
    BY <1>2, <2>1, <2>2, <2>4 DEF Deserved
  <2> QED BY <1>5, <1>9, <2>5 DEF Fair
<1>12. \A q \in Requests : Life(q)' /\ Fair(q)'
  <2> SUFFICES ASSUME NEW q \in Requests, q # r PROVE Life(q)' /\ Fair(q)'
    BY <1>10, <1>11
  <2>1. Life(q) /\ Fair(q)
    BY DEF Inv
  <2>2. UNCHANGED <<today, pc[q], call[q], requests[q], settlement[q], fate[q], deleted, faulted>>
    BY <1>1, <1>2, <1>3, <1>5 DEF TypeOK
  <2> QED BY <2>1, <2>2, OthersLive
<1>13. PeriodsOutliveRequests'
  <2> SUFFICES ASSUME NEW q \in Requests, requests'[q] # NoRow, q \notin deleted',
                      NEW p \in PeriodsOf(requests'[q])
               PROVE  periods'[p] # NoRow
    BY DEF PeriodsOutliveRequests, Present, PeriodsOf, PeriodOf
  <2>1. /\ requests[q] # NoRow /\ requests[q] \in RequestRow /\ p \in PeriodsOf(requests[q])
        /\ q \notin deleted
    BY <1>1, <1>2, <1>5, <1>6 DEF TypeOK
  <2>2. p \in PeriodIds
    BY <2>1, RowPeriods
  <2>3. periods[p] # NoRow
    BY <2>1 DEF Inv, PeriodsOutliveRequests, Present
  <2> QED BY <1>7, <2>2, <2>3
<1>14. Alive'
  BY <1>8, <1>12 DEF Alive
<1>15. \A p \in PeriodIds : Books(p)'
  BY <1>4, <1>14, SettleBooks
<1> QED BY <1>8, <1>12, <1>13, <1>15 DEF Inv

\* Maintenance removes settled requests, and periods nobody can reserve in.
LEMMA PruneInv ==
    ASSUME Inv, NEW D \in SUBSET Expired, NEW P \in SUBSET Unreferenced(D), Prune(D, P)
    PROVE  Inv'
<1>1. TypeOK
  BY DEF Inv
<1>2. UNCHANGED <<today, limits, requests, pc, call, settlement, fate, faulted>>
  BY DEF Prune, history
<1>3. deleted' = deleted \cup D /\ periods' = [p \in PeriodIds |-> IF p \in P THEN NoRow ELSE periods[p]]
  BY DEF Prune
<1>4. \A r \in D : r \in Requests /\ requests[r] # NoRow /\ requests[r].state # "pending"
  BY DEF Expired, Present
<1>5. \A p \in P : p \in PeriodIds /\ p[3] < Cutoff /\ \A r \in Present \ D : p \notin PeriodsOf(requests[r])
  BY DEF Unreferenced
<1>6. TypeOK'
  <2>1. deleted' \in SUBSET Requests
    BY <1>1, <1>3, <1>4 DEF TypeOK
  <2>2. periods' \in [PeriodIds -> PeriodRow \cup {NoRow}]
    BY <1>1, <1>3 DEF TypeOK
  <2> QED BY <1>1, <1>2, <2>1, <2>2 DEF TypeOK
<1>7. \A r \in Requests : Life(r)' /\ Fair(r)'
  <2> SUFFICES ASSUME NEW r \in Requests PROVE Life(r)' /\ Fair(r)'
    OBVIOUS
  <2>1. Life(r) /\ Fair(r)
    BY DEF Inv
  <2>2. Life(r)'
    BY <1>2, <1>3, <1>4, <2>1 DEF Life
  <2>3. Fair(r)'
    BY <1>2, <2>1 DEF Fair, Deserved
  <2> QED BY <2>2, <2>3
<1>8. PeriodsOutliveRequests'
  <2> SUFFICES ASSUME NEW q \in Requests, requests[q] # NoRow, q \notin deleted', NEW p \in PeriodsOf(requests[q])
               PROVE  periods'[p] # NoRow
    BY <1>2 DEF PeriodsOutliveRequests, Present, PeriodsOf, PeriodOf
  <2>1. q \in Present \ D
    BY <1>3 DEF Present
  <2>2. p \notin P
    BY <1>5, <2>1
  <2>3. p \in PeriodIds
    <3>1. requests[q] \in RequestRow
      BY <1>1 DEF TypeOK
    <3> QED BY <3>1, RowPeriods
  <2>4. periods[p] # NoRow
    BY <2>1 DEF Inv, PeriodsOutliveRequests
  <2> QED BY <1>3, <2>2, <2>3, <2>4
<1>9. \A p \in PeriodIds : Books(p)'
  <2> SUFFICES ASSUME NEW p \in PeriodIds PROVE Books(p)'
    OBVIOUS
  <2>1. CASE p \in P
    <3>1. periods'[p] = NoRow /\ p[3] < Cutoff /\ Cutoff' = Cutoff
      BY <1>2, <1>3, <1>5, <2>1 DEF Cutoff
    <3> QED BY <3>1 DEF Books
  <2>2. CASE p \notin P
    <3>1. UNCHANGED <<requests, periods[p]>>
      BY <1>2, <1>3, <2>2
    <3>2. today' \in Days /\ today <= today'
      BY <1>1, <1>2 DEF TypeOK
    <3> QED BY <3>1, <3>2, BooksFrame
  <2> QED BY <2>1, <2>2
<1> QED BY <1>6, <1>7, <1>8, <1>9 DEF Inv

LEMMA AdvanceClockInv == ASSUME Inv, NEW d \in Days, AdvanceClock(d) PROVE Inv'
<1>1. UNCHANGED <<limits, periods, requests, deleted, pc, call, settlement, fate, faulted>> /\ today' = d
  BY DEF AdvanceClock, ledger, history
<1>2. TypeOK'
  BY <1>1 DEF Inv, TypeOK
<1>3. \A r \in Requests : Life(r)' /\ Fair(r)'
  <2> SUFFICES ASSUME NEW r \in Requests PROVE Life(r)' /\ Fair(r)'
    OBVIOUS
  <2>1. Life(r) /\ Fair(r)
    BY DEF Inv
  <2>2. call[r] # NoRow => call[r].day >= today' - CallDays
    BY <1>1 DEF AdvanceClock
  <2>3. Life(r)'
    BY <1>1, <2>1, <2>2 DEF Life
  <2>4. Fair(r)'
    BY <1>1, <2>1 DEF Fair, Deserved
  <2> QED BY <2>3, <2>4
<1>4. PeriodsOutliveRequests'
  BY <1>1, OutliveFrame DEF Inv
<1>5. today' \in Days /\ today <= today'
  <2>1. today \in Nat /\ d \in Nat /\ d > today
    BY DEF Inv, TypeOK, AdvanceClock
  <2>2. today <= d
    BY <2>1
  <2> QED BY <1>1, <2>2
<1>6. \A p \in PeriodIds : Books(p)'
  BY <1>1, <1>5, BooksFrame
<1> QED BY <1>2, <1>3, <1>4, <1>6 DEF Inv

LEMMA ReconfigureInv == ASSUME Inv, NEW k \in Keys, NEW policy \in Policies, Reconfigure(k, policy) PROVE Inv'
<1>1. UNCHANGED <<today, periods, requests, deleted, pc, call, settlement, fate, faulted>>
  BY DEF Reconfigure, ledger, history
<1>2. TypeOK'
  BY <1>1 DEF Inv, TypeOK, Reconfigure
<1>3. \A r \in Requests : Life(r)' /\ Fair(r)'
  <2> SUFFICES ASSUME NEW r \in Requests PROVE Life(r)' /\ Fair(r)'
    OBVIOUS
  <2>1. Life(r) /\ Fair(r)
    BY DEF Inv
  <2> QED BY <1>1, <2>1, OthersLive
<1>4. PeriodsOutliveRequests'
  BY <1>1, OutliveFrame DEF Inv
<1>5. today' \in Days /\ today <= today'
  BY <1>1 DEF Inv, TypeOK
<1>6. \A p \in PeriodIds : Books(p)'
  BY <1>1, <1>5, BooksFrame
<1> QED BY <1>2, <1>3, <1>4, <1>6 DEF Inv

LEMMA CrashInv == ASSUME Inv, Crash PROVE Inv'
<1>1. UNCHANGED <<today, limits, periods, requests, deleted, fate>>
  BY DEF Crash, ledger
<1>2. TypeOK
  BY DEF Inv
<1>3. TypeOK'
  <2>1. /\ pc' \in [Requests -> Locations] /\ call' \in [Requests -> Call \cup {NoRow}]
        /\ settlement' \in [Requests -> Settlement \cup {NoRow}] /\ faulted' \in SUBSET Requests
    BY <1>2 DEF TypeOK, Locations, Crash
  <2> QED BY <1>1, <1>2, <2>1 DEF TypeOK
<1>4. \A r \in Requests : Life(r)' /\ Fair(r)'
  <2> SUFFICES ASSUME NEW r \in Requests PROVE Life(r)' /\ Fair(r)'
    OBVIOUS
  <2>1. Life(r) /\ Fair(r)
    BY DEF Inv
  <2>2. /\ pc'[r] = (IF pc[r] = "idle" THEN "idle" ELSE "over") /\ call'[r] = NoRow /\ settlement'[r] = NoRow
        /\ r \in faulted' <=> r \in faulted \/ pc[r] \notin {"idle", "over"}
    BY DEF Crash
  <2>3. Life(r)'
    BY <1>1, <2>1, <2>2 DEF Life
  <2>4. Fair(r)'
    BY <1>1, <2>1, <2>2 DEF Fair, Deserved
  <2> QED BY <2>3, <2>4
<1>5. PeriodsOutliveRequests'
  BY <1>1, OutliveFrame DEF Inv
<1>6. today' \in Days /\ today <= today'
  BY <1>1, <1>2 DEF TypeOK
<1>7. \A p \in PeriodIds : Books(p)'
  BY <1>1, <1>6, BooksFrame
<1> QED BY <1>3, <1>4, <1>5, <1>7 DEF Inv

LEMMA InitInv == Init => Inv
<1> SUFFICES ASSUME Init PROVE Inv
  OBVIOUS
<1>1. today \in Days
  <2>1. \E n \in Days : \A m \in Days : ~(<<m, n>> \in OpToRel(<, Nat))
    BY WFMin, NatLessThanWellFounded
  <2>2. PICK n \in Days : \A m \in Days : ~(<<m, n>> \in OpToRel(<, Nat))
    BY <2>1
  <2>3. \A m \in Days : m \in Nat /\ n \in Nat /\ ~(m < n)
    BY <2>2 DEF OpToRel
  <2>4. \A m \in Days : n <= m
    BY <2>3
  <2> QED BY <2>4 DEF Init, Min
<1>2. TypeOK
  BY <1>1 DEF Init, TypeOK, Locations
<1>3. \A r \in Requests : requests[r] = NoRow
  BY DEF Init
<1>4. \A r \in Requests : Life(r) /\ Fair(r)
  BY DEF Init, Life, Fair
<1>5. PeriodsOutliveRequests
  BY <1>3 DEF PeriodsOutliveRequests, Present
<1>6. \A p \in PeriodIds : Books(p)
  <2>1. \A p \in PeriodIds : periods[p] = NoRow /\ Members(p) = {}
    BY <1>3 DEF Init, Members
  <2> QED BY <2>1 DEF Books
<1> QED BY <1>2, <1>4, <1>5, <1>6 DEF Inv

LEMMA NextInv == ASSUME Inv, [Next]_vars PROVE Inv'
<1>1. CASE UNCHANGED vars
  <2>1. UNCHANGED <<today, limits, periods, requests, deleted, pc, call, settlement, fate, faulted>>
    BY <1>1 DEF vars
  <2>2. \A r \in Requests : Life(r)' /\ Fair(r)'
    <3> SUFFICES ASSUME NEW r \in Requests PROVE Life(r)' /\ Fair(r)'
      OBVIOUS
    <3>1. Life(r) /\ Fair(r)
      BY DEF Inv
    <3> QED BY <2>1, <3>1, OthersLive
  <2>3. TypeOK' /\ today' \in Days /\ today <= today'
    BY <2>1 DEF Inv, TypeOK
  <2>4. PeriodsOutliveRequests'
    BY <2>1, OutliveFrame DEF Inv
  <2>5. \A p \in PeriodIds : Books(p)'
    BY <2>1, <2>3, BooksFrame
  <2> QED BY <2>2, <2>3, <2>4, <2>5 DEF Inv
<1>2. CASE Next
  <2>1. ASSUME NEW r \in Requests,
               \/ \E k \in Keys, a \in Amounts : Reserve(r, k, a)
               \/ CancelCall(r) \/ ReserveCommit(r) \/ ReserveCommitUncertain(r) \/ ReserveFail(r)
               \/ Forwarded(r) \/ FinishAny(r) \/ Settle(r) \/ SettleFail(r)
        PROVE  Inv'
    BY <2>1, ReserveInv, GiveUpInv, ReserveCommitInv, ForwardedInv, FinishInv, SettleInv DEF FinishAny
  <2> QED BY <1>2, <2>1, PruneInv, AdvanceClockInv, ReconfigureInv, CrashInv DEF Next
<1> QED BY <1>1, <1>2

\* The life of every request, what was charged for it and the counters of both its
\* periods stay in step, in every reachable state.
THEOREM Invariance == Spec => []Inv
<1>1. Inv /\ [Next]_vars => Inv'
  BY NextInv
<1> QED BY InitInv, <1>1, PTL DEF Spec

LEMMA InvBalanced == Inv => LedgerBalanced
<1> SUFFICES ASSUME Inv PROVE LedgerBalanced
  OBVIOUS
<1>1. TypeOK /\ PeriodsOutliveRequests
  BY DEF Inv
<1>2. LeaksOnlyByFault
  BY DEF Inv, Life, LeaksOnlyByFault
<1>3. \A p \in PeriodIds : periods[p] # NoRow => Kept(p, periods[p])
  BY DEF Inv, Books
<1> QED BY <1>1, <1>2, <1>3 DEF LedgerBalanced, Kept

\* The counters of quota_periods that reserve, settle and prune keep are the sums
\* over the requests (LedgerBalanced), for any number of requests, keys and days.
THEOREM LedgerBalancedAlways == Spec => []LedgerBalanced
BY Invariance, InvBalanced, PTL

LEMMA InvCharges == Inv => ChargesMatchFate
<1> SUFFICES ASSUME Inv PROVE ChargesMatchFate
  OBVIOUS
<1>1. Priced /\ TypeOK
  BY AlivePriced DEF Inv, Alive
<1> SUFFICES ASSUME NEW r \in Requests
             PROVE  /\ fate[r] # "unsent" => requests[r] # NoRow
                    /\ requests[r] # NoRow =>
                         CASE requests[r].state = "pending" -> TRUE
                           [] requests[r].state = "settled" ->
                                fate[r] = "reported" \/ (fate[r] = "unsent" /\ Cost(r) = 0)
                           [] requests[r].state = "held" ->
                                fate[r] = "sent" /\ Cost(r) >= requests[r].reserved
  BY DEF ChargesMatchFate
<1>2. Fair(r)
  BY DEF Inv
<1>3. ASSUME requests[r] # NoRow
      PROVE  /\ requests[r].state \in {"pending", "settled", "held"}
             /\ requests[r].state = "settled" =>
                  fate[r] = "reported" \/ (fate[r] = "unsent" /\ Cost(r) = 0)
             /\ requests[r].state = "held" => fate[r] = "sent" /\ Cost(r) >= requests[r].reserved
  <2>1. requests[r].state \in {"pending", "settled", "held"}
    BY <1>1, <1>3 DEF TypeOK, RequestRow
  <2>2. requests[r].state # "pending" => Deserved(r, requests[r].actual, requests[r].state = "settled")
    BY <1>2, <1>3 DEF Fair
  <2>3. /\ requests[r].state = "held" => Cost(r) >= requests[r].reserved
        /\ requests[r].state = "settled" /\ requests[r].actual = 0 => Cost(r) = 0
    BY <1>1, <1>3 DEF Priced
  <2> QED BY <2>1, <2>2, <2>3 DEF Deserved
<1>4. fate[r] # "unsent" => requests[r] # NoRow
  BY <1>2 DEF Fair
<1> QED BY <1>3, <1>4

\* What settle puts on record follows what happened to the request between
\* QuotaPermit::forwarded and finish or drop (ChargesMatchFate), for every instance.
THEOREM ChargesMatchFateAlways == Spec => []ChargesMatchFate
BY Invariance, InvCharges, PTL

\* A transaction that commits fits the limits of its call.
LEMMA ReserveFits ==
    ASSUME Inv, NEW r \in Requests, ReserveTx(r), NEW kind \in Kinds,
           NEW p, p = PeriodOf(call[r], kind), call[r].limits[kind] > 0, Unclipped(p)
    PROVE  Total(Costs(Members(p))) + call[r].amount <= call[r].limits[kind]
<1>1. PICK c \in Call : c = call[r]
  BY ReserveRow
<1>2. c # NoRow /\ c.amount \in 1 .. MaxTokens /\ p \in PeriodsOf(c) /\ p \in PeriodIds
  BY <1>1, ReserveRow, RowPeriods DEF PeriodsOf
<1>3. PICK row \in PeriodRow : row = Period(p)
  BY <1>2, PeriodIs DEF Inv
<1>4. Kept(p, row)
  BY <1>1, <1>2, <1>3, CurrentPeriod
<1>5. row.settled = Total(Costs(InState(p, {"settled"}))) /\ row.held = Total(Costs(InState(p, {"pending", "held"})))
  BY <1>4 DEF Kept
<1>6. Total(Costs(Members(p))) = Total(Costs(InState(p, {"settled"}))) + Total(Costs(InState(p, {"pending", "held"})))
  <2>1. Summable /\ TypeOK
    BY AliveSummable DEF Inv, Alive
  <2>2. PICK f \in Sizes, g \in Sizes, h \in Sizes :
          /\ f = Costs(InState(p, {"settled"})) /\ g = Costs(InState(p, {"pending", "held"}))
          /\ h = Costs(Members(p))
    BY <1>2, <2>1 DEF Summable
  <2>3. \A q \in Requests : (f[q] = 0 /\ h[q] = g[q]) \/ (g[q] = 0 /\ h[q] = f[q])
    <3> SUFFICES ASSUME NEW q \in Requests PROVE (f[q] = 0 /\ h[q] = g[q]) \/ (g[q] = 0 /\ h[q] = f[q])
      OBVIOUS
    <3>1. q \in Members(p) => requests[q].state \in {"pending", "settled", "held"}
      BY <2>1 DEF Members, TypeOK, RequestRow
    <3>2. /\ q \in InState(p, {"settled"}) <=> q \in Members(p) /\ requests[q].state = "settled"
          /\ q \in InState(p, {"pending", "held"}) <=> q \in Members(p) /\ requests[q].state \in {"pending", "held"}
      BY DEF InState
    <3> QED BY <2>2, <3>1, <3>2 DEF Costs
  <2> QED BY <2>2, <2>3, TotalSum
<1>7. PICK l \in Nat, n \in Nat : l = c.limits[kind] /\ n = c.amount
  <2>1. c.limits \in [day : Nat, month : Nat]
    BY DEF Call
  <2>2. c.limits[kind] \in Nat
    BY <2>1 DEF Kinds
  <2> QED BY <1>2, <2>2
<1>8. row.settled + row.held + n <= l
  <2>1. ~Exceeded(c)
    BY <1>1 DEF ReserveTx
  <2>2. row.settled \in Nat /\ row.held \in Nat
    BY DEF PeriodRow
  <2>3. ~(row.settled + row.held + n > l)
    BY <1>1, <1>3, <1>7, <2>1 DEF Exceeded
  <2> QED BY <2>2, <2>3
<1> QED BY <1>1, <1>5, <1>6, <1>7, <1>8

\* Rows appear by a reservation that commits, and in no other way.
LEMMA NewRows ==
    ASSUME Inv, [Next]_vars, NEW r \in Requests, requests[r] = NoRow, requests'[r] # NoRow
    PROVE  ReserveTx(r)
<1>1. ASSUME NEW q \in Requests, ReserveTx(q) PROVE ReserveTx(r)
  <2>1. requests' = [requests EXCEPT ![q] = NewRow(call[q])] /\ TypeOK
    BY <1>1, ReserveRow DEF Inv
  <2>2. q = r
    BY <2>1 DEF TypeOK
  <2> QED BY <1>1, <2>2
<1>2. ASSUME NEW q \in Requests, Settle(q) PROVE FALSE
  <2>1. pc[q] = "settling" /\ Life(q) /\ TypeOK
    BY <1>2 DEF Settle, Inv
  <2>2. requests[q] # NoRow
    BY <2>1 DEF Life
  <2>3. requests'[r] = requests[r]
    BY <1>2, <2>1, <2>2 DEF Settle, TypeOK
  <2> QED BY <2>3
<1>3. CASE UNCHANGED requests
  BY <1>3
<1>4. \/ UNCHANGED requests
      \/ \E q \in Requests : ReserveTx(q) \/ Settle(q)
  <2>1. CASE UNCHANGED vars
    BY <2>1 DEF vars
  <2>2. CASE Next
    BY <2>2 DEF Next, Reserve, CancelCall, ReserveCommit, ReserveCommitUncertain, ReserveFail, Forwarded,
                FinishAny, Finish, Dispatch, SettleFail, Prune, AdvanceClock, Reconfigure, Crash, ledger
  <2> QED BY <2>1, <2>2
<1> QED BY <1>1, <1>2, <1>3, <1>4

\* The hard quota of reserve_at (NoOvercommit): whatever ran concurrently, a
\* reservation that commits fits the limit over all requests of its periods.
THEOREM NoOvercommitAlways == Spec => NoOvercommit
<1> DEFINE Fits(r, kind) ==
      call[r].limits[kind] > 0 /\ Unclipped(PeriodOf(call[r], kind)) =>
        Total(Costs(Members(PeriodOf(call[r], kind)))) + call[r].amount <= call[r].limits[kind]
<1>1. ASSUME Inv, [Next]_vars
      PROVE  [ \A r \in Requests :
                 requests[r] = NoRow /\ requests'[r] # NoRow =>
                   \A kind \in Kinds :
                     LET p == PeriodOf(call[r], kind)
                     IN  call[r].limits[kind] > 0 /\ Unclipped(p) =>
                           Total(Costs(Members(p))) + call[r].amount <= call[r].limits[kind] ]_vars
  <2>1. ASSUME NEW r \in Requests, requests[r] = NoRow /\ requests'[r] # NoRow, NEW kind \in Kinds
        PROVE  Fits(r, kind)
    <3>1. ReserveTx(r)
      BY <1>1, <2>1, NewRows
    <3>2. PICK p : p = PeriodOf(call[r], kind)
      OBVIOUS
    <3> QED BY <1>1, <3>1, <3>2, ReserveFits
  <2> QED BY <2>1
<1> QED BY Invariance, <1>1, PTL DEF Spec, NoOvercommit
==============================================================================
