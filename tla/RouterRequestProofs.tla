------------------------- MODULE RouterRequestProofs -------------------------
(***************************************************************************)
(* A request counts once, its memory is returned, a success is complete    *)
(* and a revoked key keeps out, for any number of requests and any         *)
(* capacities.                                                             *)
(***************************************************************************)
EXTENDS RouterRequest, Integers, FiniteSetTheorems, TLAPS

Early == {"idle", "queue", "body", "select", "preflight"}
Forwarding == {"send", "collect"}

\* The handler's place determines what has been counted and forwarded ...
Counted(r) ==
    /\ pc[r] \in Early \cup {"quota"} =>
         r \notin forwarded \cup told /\ rejections[r] = 0 /\ completions[r] = 0
    /\ pc[r] \in Forwarding =>
         r \in forwarded \ told /\ rejections[r] = 0 /\ completions[r] = 0
    /\ pc[r] \in {"preflight", "quota"} \cup Forwarding => "target" \in guards[r]
    /\ pc[r] = "serve" => r \in forwarded /\ source[r] # "none"
    /\ pc[r] = "end" /\ source[r] = "none" =>
         guards[r] = {} /\ rejections[r] + completions[r] <= 1
         /\ (rejections[r] = 1 => r \notin forwarded)
         /\ (completions[r] = 1 => r \in forwarded)

\* ... and that of the delivery task whether the response's guard has been dropped.
Delivered(r) ==
    /\ pc[r] \notin {"serve", "end"} => source[r] = "none"
    /\ source[r] = "none" <=> task[r] = "none"
    /\ source[r] # "none" => r \in forwarded /\ rejections[r] = 0
    /\ source[r] = "buffer" => completions[r] = 1 /\ guards[r] = {}
    /\ source[r] = "stream" =>
         IF task[r] = "over"
         THEN r \in told /\ completions[r] = 1 /\ guards[r] = {}
         ELSE r \notin told /\ completions[r] = 0 /\ "target" \in guards[r]
    /\ pc[r] = "serve" => task[r] # "aborted"
    /\ pc[r] = "end" => task[r] \notin {"pull", "drain"}

\* What the slot holds, and how much the client has got.
Slotted(r) ==
    /\ task[r] \in {"none", "pull"} => slot[r] = "empty"
    /\ task[r] = "none" => pulled[r] = 0 /\ delivered[r] = 0
    /\ task[r] # "over" => slot[r] # "error" /\ ~fin[r]
    /\ task[r] = "over" => slot[r] # "chunk"
    /\ task[r] = "over" /\ pc[r] = "serve" => fin[r]
    /\ slot[r] = "empty" /\ fin[r] => delivered[r] = size[r]
    /\ task[r] \in {"pull", "drain"} =>
         pulled[r] = delivered[r] + (IF slot[r] = "chunk" THEN 1 ELSE 0)
    /\ pulled[r] <= size[r]

\* Outcomes are final.
Recordings(r) ==
    /\ outcome[r] # "none" => pc[r] = "end"
    /\ outcome[r] = "rejected" => rejections[r] = 1
    /\ outcome[r] \in {"success", "failed"} => completions[r] = 1 /\ task[r] = "over"
    /\ outcome[r] = "success" => delivered[r] = size[r]

\* Where memory is reserved.
Reserved(r) ==
    /\ held[r] # 0 => pc[r] = "collect" \/ task[r] \in {"pull", "drain", "aborted"}
    /\ task[r] # "none" => held[r] <= 1
    /\ chunk[r] = IF slot[r] = "chunk" THEN 1 ELSE 0

Barred ==
    \A r \in Requests : r \in barred => revoked /\ pc[r] \in Early \cup {"end"} /\ r \notin forwarded

Local(r) == Counted(r) /\ Delivered(r) /\ Slotted(r) /\ Recordings(r) /\ Reserved(r)

Budgeted == bytes = Total(held) + Total(chunk) /\ bytes <= Budget

Inv == TypeOK /\ (\A r \in Requests : Local(r)) /\ Barred /\ Budgeted

-----------------------------------------------------------------------------
(* Sums *)

Amounts == [Requests -> 0 .. 4]

\* The sum without request r.
Rest(f, r) == Cardinality({ u \in Requests \X (1 .. 4) : u[1] # r /\ u[2] <= f[u[1]] })

LEMMA TotalSplit ==
    ASSUME NEW f \in Amounts, NEW r \in Requests
    PROVE  Rest(f, r) \in Nat /\ Total(f) = Rest(f, r) + f[r]
<1> DEFINE all == Requests \X (1 .. 4)
           rest == { u \in all : u[1] # r /\ u[2] <= f[u[1]] }
           mine == {r} \X (1 .. f[r])
<1>1. IsFiniteSet(all) /\ IsFiniteSet(1 .. 4)
  <2>1. \A n \in Int : IsFiniteSet(1 .. n)
    BY FS_Interval
  <2>2. PICK n \in Int : n = 4
    OBVIOUS
  <2>3. IsFiniteSet(1 .. n)
    BY <2>1
  <2> QED BY <2>2, <2>3, RequestAssumption, FS_Product
<1>2. IsFiniteSet(rest) /\ Cardinality(rest) \in Nat
  <2>1. rest \in SUBSET all
    OBVIOUS
  <2> QED BY <1>1, <2>1, FS_Subset, FS_CardinalityType
<1>3. f[r] \in 0 .. 4
  BY DEF Amounts
<1>4. IsFiniteSet(1 .. f[r]) /\ Cardinality(1 .. f[r]) = f[r]
  BY <1>3, FS_Interval
<1>5. IsFiniteSet({r}) /\ Cardinality({r}) = 1
  BY FS_Singleton
<1>6. IsFiniteSet(mine) /\ Cardinality(mine) = 1 * f[r]
  <2>1. PICK one : one = {r}
    OBVIOUS
  <2>2. PICK upto : upto = 1 .. f[r]
    OBVIOUS
  <2>3. IsFiniteSet(one) /\ IsFiniteSet(upto)
    BY <1>4, <1>5, <2>1, <2>2
  <2>4. /\ IsFiniteSet(one \X upto)
        /\ Cardinality(one \X upto) = Cardinality(one) * Cardinality(upto)
    BY <2>3, FS_Product
  <2>5. Cardinality(one) = 1 /\ Cardinality(upto) = f[r]
    BY <1>4, <1>5, <2>1, <2>2
  <2> QED BY <2>1, <2>2, <2>4, <2>5
<1>7. rest \cap mine = {}
  OBVIOUS
<1>8. { u \in all : u[2] <= f[u[1]] } = rest \cup mine
  <2>1. ASSUME NEW u \in all, u[2] <= f[u[1]] PROVE u \in rest \cup mine
    BY <2>1
  <2>2. ASSUME NEW u \in mine PROVE u \in all /\ u[2] <= f[u[1]]
    BY <1>3, <2>2
  <2> QED BY <2>1, <2>2
<1> HIDE DEF all, rest, mine
<1>9. Cardinality(rest \cup mine) = Cardinality(rest) + Cardinality(mine) - Cardinality({})
  BY <1>2, <1>6, <1>7, FS_Union
<1>10. Cardinality(rest \cup mine) = Cardinality(rest) + f[r]
  BY <1>2, <1>3, <1>6, <1>9, FS_EmptySet
<1> QED BY <1>2, <1>8, <1>10 DEF Total, Rest, all, rest

\* A request that changes its own amount changes the sum by as much.
LEMMA TotalChange ==
    ASSUME NEW f \in Amounts, NEW r \in Requests, NEW v \in 0 .. 4
    PROVE  /\ [f EXCEPT ![r] = v] \in Amounts
           /\ Total([f EXCEPT ![r] = v]) = Total(f) + v - f[r]
           /\ Total(f) \in Nat
           /\ Total(f) >= f[r]
<1> DEFINE g == [f EXCEPT ![r] = v]
<1>1. g \in Amounts /\ g[r] = v /\ f[r] \in 0 .. 4
  BY DEF Amounts
<1>2. \A u \in Requests \X (1 .. 4) : u[1] # r => g[u[1]] = f[u[1]]
  BY DEF Amounts
<1> HIDE DEF g
<1>3. Rest(g, r) = Rest(f, r)
  <2>1. { u \in Requests \X (1 .. 4) : u[1] # r /\ u[2] <= g[u[1]] }
        = { u \in Requests \X (1 .. 4) : u[1] # r /\ u[2] <= f[u[1]] }
    BY <1>2
  <2> QED BY <2>1 DEF Rest
<1>4. /\ Rest(f, r) \in Nat /\ Total(f) = Rest(f, r) + f[r]
      /\ Total(g) = Rest(g, r) + g[r]
  BY <1>1, TotalSplit
<1>5. Total(g) = Total(f) + v - f[r] /\ Total(f) \in Nat /\ Total(f) >= f[r]
  BY <1>1, <1>3, <1>4
<1> QED BY <1>1, <1>5 DEF g

LEMMA TotalZero == Total([r \in Requests |-> 0]) = 0
<1>1. { u \in Requests \X (1 .. 4) : u[2] <= [r \in Requests |-> 0][u[1]] } = {}
  OBVIOUS
<1> QED BY <1>1, FS_EmptySet DEF Total


-----------------------------------------------------------------------------
(* Steps *)

\* A step of request r leaves the others alone.
Frame(r) ==
    \A q \in Requests \ {r} :
        /\ pc'[q] = pc[q] /\ guards'[q] = guards[q]
        /\ q \in forwarded' <=> q \in forwarded
        /\ q \in told' <=> q \in told
        /\ completions'[q] = completions[q] /\ rejections'[q] = rejections[q]
        /\ source'[q] = source[q] /\ size'[q] = size[q] /\ pulled'[q] = pulled[q]
        /\ delivered'[q] = delivered[q] /\ task'[q] = task[q] /\ slot'[q] = slot[q]
        /\ fin'[q] = fin[q] /\ held'[q] = held[q] /\ chunk'[q] = chunk[q]
        /\ outcome'[q] = outcome[q]

LEMMA FrameLocal ==
    ASSUME NEW r \in Requests, NEW q \in Requests \ {r}, Frame(r), Local(q)
    PROVE  Local(q)'
<1> USE DEF Frame, Local
<1>1. Counted(q)'
  BY DEF Counted
<1>2. Delivered(q)'
  BY DEF Delivered
<1>3. Slotted(q)'
  BY DEF Slotted
<1>4. Recordings(q)'
  BY DEF Recordings
<1>5. Reserved(q)'
  BY DEF Reserved
<1> QED BY <1>1, <1>2, <1>3, <1>4, <1>5

\* What a step of a request has to show.
Kept(r) ==
    /\ TypeOK' /\ Frame(r) /\ Local(r)'
    /\ auth' = auth
    /\ r \in barred => pc'[r] \in Early \cup {"end"} /\ r \notin forwarded'

LEMMA KeptIsEnough ==
    ASSUME Inv, NEW r \in Requests, Kept(r), Budgeted'
    PROVE  Inv'
<1>1. \A q \in Requests : Local(q)'
  BY FrameLocal DEF Inv, Kept
<1>2. Barred'
  BY DEF Inv, Kept, Barred, Frame, auth
<1> QED BY <1>1, <1>2 DEF Inv, Kept

LEMMA SumsMove ==
    ASSUME NEW x \in Nat, NEW y \in Nat, NEW h \in 0 .. 4, NEW g \in 0 .. 4,
           NEW c \in 0 .. 4, NEW d \in 0 .. 4, x >= g, y >= d
    PROVE  /\ x + h - g \in Nat /\ y + c - d \in Nat
           /\ x + y + h - g + c - d = (x + h - g) + (y + c - d)
  OBVIOUS

\* The reservations of one request change; the counter changes by as much.
Moves(r, g, d, h, c) ==
    /\ held[r] = g /\ held' = [held EXCEPT ![r] = h]
    /\ chunk[r] = d /\ chunk' = [chunk EXCEPT ![r] = c]
    /\ bytes' = bytes + h - g + c - d
    /\ bytes' <= Budget

LEMMA BudgetKept ==
    ASSUME Inv, NEW r \in Requests,
           NEW g \in 0 .. 4, NEW d \in 0 .. 4, NEW h \in 0 .. 4, NEW c \in 0 .. 4,
           Moves(r, g, d, h, c)
    PROVE  Budgeted' /\ bytes' \in Nat
<1> USE DEF Moves
<1>1. held \in Amounts /\ chunk \in Amounts /\ bytes \in Nat
  BY DEF Inv, TypeOK, Amounts
<1>2. /\ Total(held') = Total(held) + h - g
      /\ Total(held) \in Nat /\ Total(held) >= g
  BY <1>1, TotalChange
<1>3. /\ Total(chunk') = Total(chunk) + c - d
      /\ Total(chunk) \in Nat /\ Total(chunk) >= d
  BY <1>1, TotalChange
<1>4. bytes' = Total(held) + Total(chunk) + h - g + c - d
  BY DEF Inv, Budgeted
<1>5. bytes' = Total(held') + Total(chunk') /\ bytes' \in Nat
  <2>1. PICK x \in Nat : x = Total(held)
    BY <1>2
  <2>2. PICK y \in Nat : y = Total(chunk)
    BY <1>3
  <2>3. x >= g /\ y >= d
    BY <2>1, <2>2, <1>2, <1>3
  <2>4. /\ x + h - g \in Nat /\ y + c - d \in Nat
        /\ x + y + h - g + c - d = (x + h - g) + (y + c - d)
    BY <2>3, SumsMove
  <2> QED BY <2>1, <2>2, <2>4, <1>2, <1>3, <1>4
<1>6. Total(held)' = Total(held') /\ Total(chunk)' = Total(chunk')
  BY DEF Total
<1> QED BY <1>5, <1>6 DEF Budgeted

LEMMA MemoryUntouched ==
    ASSUME Inv, UNCHANGED memory
    PROVE  Budgeted' /\ bytes' \in Nat
<1>1. held' = held /\ chunk' = chunk /\ bytes' = bytes
  BY DEF memory
<1> QED BY <1>1 DEF Inv, TypeOK, Budgeted, Total

LEMMA InitInv == Init => Inv
<1> SUFFICES ASSUME Init PROVE Inv
  OBVIOUS
<1>1. TypeOK
  <2>1. 0 \in 0 .. MaxChunks + 1 /\ 0 \in 0 .. 4
    BY RequestAssumption
  <2> QED BY <2>1 DEF Init, TypeOK
<1>2. ASSUME NEW r \in Requests PROVE Local(r)
  BY RequestAssumption DEF Init, Local, Counted, Delivered, Slotted, Recordings, Reserved,
     Early, Forwarding
<1>3. Barred
  BY DEF Init, Barred
<1>4. Budgeted
  BY TotalZero, RequestAssumption DEF Init, Budgeted
<1> QED BY <1>1, <1>2, <1>3, <1>4 DEF Inv

-----------------------------------------------------------------------------
(* The handler *)

\* The handler goes on to its next await.
LEMMA PassStep ==
    ASSUME Inv, NEW r \in Requests,
           \/ Arrive(r) \/ Admit(r) \/ ReceiveBody(r) \/ SelectTarget(r)
           \/ Preflight(r) \/ QuotaAdmit(r) \/ HeadersOfJson(r)
    PROVE  Inv'
<1> USE DEF Arrive, Admit, ReceiveBody, SelectTarget, Preflight, QuotaAdmit, HeadersOfJson, Goto
<1>1. Budgeted' /\ bytes' \in Nat
  BY MemoryUntouched
<1>2. TypeOK' /\ auth' = auth
  BY <1>1, RequestAssumption DEF Inv, TypeOK, Awaiting, Kinds, auth, counts, delivery, memory
<1>3. Frame(r)
  BY DEF Frame, Inv, TypeOK, counts, delivery, memory
<1>4. Local(r)'
  BY DEF Inv, TypeOK, counts, delivery, memory,
     Local, Counted, Delivered, Slotted, Recordings, Reserved, Early, Forwarding
<1>5. r \in barred => pc'[r] \in Early \cup {"end"} /\ r \notin forwarded'
  BY DEF Inv, TypeOK, Barred, Early
<1> QED BY <1>1, <1>2, <1>3, <1>4, <1>5, KeptIsEnough DEF Kept

\* A local error response.
LEMMA RejectStep ==
    ASSUME Inv, NEW r \in Requests,
           \/ RejectedAtDoor(r) \/ AdmitFails(r) \/ ReceiveFails(r)
           \/ SelectFails(r) \/ PreflightFails(r) \/ QuotaRefuses(r)
    PROVE  Inv'
<1> USE DEF RejectedAtDoor, AdmitFails, ReceiveFails, SelectFails, PreflightFails, QuotaRefuses, Reject, Goto
<1>1. Budgeted' /\ bytes' \in Nat
  BY MemoryUntouched
<1>2. TypeOK' /\ auth' = auth
  BY <1>1, RequestAssumption DEF Inv, TypeOK, Awaiting, Kinds, auth, counts, delivery, memory
<1>3. Frame(r)
  BY DEF Frame, Inv, TypeOK, counts, delivery, memory
<1>4. Local(r)'
  BY DEF Inv, TypeOK, counts, delivery, memory,
     Local, Counted, Delivered, Slotted, Recordings, Reserved, Early, Forwarding
<1>5. r \in barred => pc'[r] \in Early \cup {"end"} /\ r \notin forwarded'
  BY DEF Inv, TypeOK, Barred, Early
<1> QED BY <1>1, <1>2, <1>3, <1>4, <1>5, KeptIsEnough DEF Kept

\* The response goes to a delivery task.
LEMMA ServeStep ==
    ASSUME Inv, NEW r \in Requests,
           \/ SendFails(r) \/ HeadersOfStream(r)
    PROVE  Inv'
<1> USE DEF SendFails, HeadersOfStream, Serve, Goto
<1>1. Budgeted' /\ bytes' \in Nat
  BY MemoryUntouched
<1>2. TypeOK' /\ auth' = auth
  BY <1>1, RequestAssumption DEF Inv, TypeOK, Awaiting, Kinds, auth, counts, delivery, memory
<1>3. Frame(r)
  BY DEF Frame, Inv, TypeOK, counts, delivery, memory
<1>4. Local(r)'
  BY DEF Inv, TypeOK, counts, delivery, memory,
     Local, Counted, Delivered, Slotted, Recordings, Reserved, Early, Forwarding
<1>5. r \in barred => pc'[r] \in Early \cup {"end"} /\ r \notin forwarded'
  BY DEF Inv, TypeOK, Barred, Early
<1> QED BY <1>1, <1>2, <1>3, <1>4, <1>5, KeptIsEnough DEF Kept

\* A buffered response reserves its memory ...
LEMMA CollectStep ==
    ASSUME Inv, NEW r \in Requests,
           CollectChunk(r)
    PROVE  Inv'
<1>1. Budgeted' /\ bytes' \in Nat
  <2>1. PICK g \in 0 .. 4 : g = held[r]
    BY DEF Inv, TypeOK
  <2>2. PICK d \in 0 .. 4 : d = chunk[r]
    BY DEF Inv, TypeOK
  <2>3. PICK h \in 0 .. 4 : h = 4
    OBVIOUS
  <2>4. Moves(r, g, d, h, d)
    BY <2>1, <2>2, <2>3, RequestAssumption
       DEF Inv, TypeOK, Budgeted, Moves, CollectChunk
  <2> QED BY <2>4, BudgetKept
<1> USE DEF CollectChunk
<1>2. TypeOK' /\ auth' = auth
  BY <1>1, RequestAssumption DEF Inv, TypeOK, Awaiting, Kinds, auth, counts, delivery, memory
<1>3. Frame(r)
  BY DEF Frame, Inv, TypeOK, counts, delivery, memory
<1>4. Local(r)'
  BY DEF Inv, TypeOK, counts, delivery, memory,
     Local, Counted, Delivered, Slotted, Recordings, Reserved, Early, Forwarding
<1>5. r \in barred => pc'[r] \in Early \cup {"end"} /\ r \notin forwarded'
  BY DEF Inv, TypeOK, Barred, Early
<1> QED BY <1>1, <1>2, <1>3, <1>4, <1>5, KeptIsEnough DEF Kept

\* ... and gives back what it does not need,
LEMMA CollectedStep ==
    ASSUME Inv, NEW r \in Requests,
           Collected(r)
    PROVE  Inv'
<1>1. Budgeted' /\ bytes' \in Nat
  <2>1. PICK g \in 0 .. 4 : g = held[r]
    BY DEF Inv, TypeOK
  <2>2. PICK d \in 0 .. 4 : d = chunk[r]
    BY DEF Inv, TypeOK
  <2>3. PICK h \in 0 .. 4 : h = 1
    OBVIOUS
  <2>4. Moves(r, g, d, h, d)
    BY <2>1, <2>2, <2>3, RequestAssumption
       DEF Inv, TypeOK, Budgeted, Moves, Collected, Attach, GuardDropped, Recorded, Serve, Goto
  <2> QED BY <2>4, BudgetKept
<1> USE DEF Collected, Attach, GuardDropped, Recorded, Serve, Goto
<1>2. TypeOK' /\ auth' = auth
  BY <1>1, RequestAssumption DEF Inv, TypeOK, Awaiting, Kinds, auth, counts, delivery, memory
<1>3. Frame(r)
  BY DEF Frame, Inv, TypeOK, counts, delivery, memory
<1>4. Local(r)'
  BY DEF Inv, TypeOK, counts, delivery, memory,
     Local, Counted, Delivered, Slotted, Recordings, Reserved, Early, Forwarding
<1>5. r \in barred => pc'[r] \in Early \cup {"end"} /\ r \notin forwarded'
  BY DEF Inv, TypeOK, Barred, Early
<1> QED BY <1>1, <1>2, <1>3, <1>4, <1>5, KeptIsEnough DEF Kept

\* or all of it.
LEMMA CollectFailsStep ==
    ASSUME Inv, NEW r \in Requests,
           CollectFails(r)
    PROVE  Inv'
<1>1. Budgeted' /\ bytes' \in Nat
  <2>1. PICK g \in 0 .. 4 : g = held[r]
    BY DEF Inv, TypeOK
  <2>2. PICK d \in 0 .. 4 : d = chunk[r]
    BY DEF Inv, TypeOK
  <2>3. PICK h \in 0 .. 4 : h = 0
    OBVIOUS
  <2>4. Moves(r, g, d, h, d)
    BY <2>1, <2>2, <2>3, RequestAssumption
       DEF Inv, TypeOK, Budgeted, Moves, CollectFails, GuardDropped, Recorded, Serve, Goto
  <2> QED BY <2>4, BudgetKept
<1> USE DEF CollectFails, GuardDropped, Recorded, Serve, Goto
<1>2. TypeOK' /\ auth' = auth
  BY <1>1, RequestAssumption DEF Inv, TypeOK, Awaiting, Kinds, auth, counts, delivery, memory
<1>3. Frame(r)
  BY DEF Frame, Inv, TypeOK, counts, delivery, memory
<1>4. Local(r)'
  BY DEF Inv, TypeOK, counts, delivery, memory,
     Local, Counted, Delivered, Slotted, Recordings, Reserved, Early, Forwarding
<1>5. r \in barred => pc'[r] \in Early \cup {"end"} /\ r \notin forwarded'
  BY DEF Inv, TypeOK, Barred, Early
<1> QED BY <1>1, <1>2, <1>3, <1>4, <1>5, KeptIsEnough DEF Kept

-----------------------------------------------------------------------------
(* The delivery task and the client *)

\* A chunk is copied into the slot,
LEMMA PullStep ==
    ASSUME Inv, NEW r \in Requests,
           Pull(r)
    PROVE  Inv'
<1>1. Budgeted' /\ bytes' \in Nat
  <2>1. PICK g \in 0 .. 4 : g = held[r]
    BY DEF Inv, TypeOK
  <2>2. PICK d \in 0 .. 4 : d = chunk[r]
    BY DEF Inv, TypeOK
  <2>3. PICK c \in 0 .. 4 : c = 1
    OBVIOUS
  <2>4. Moves(r, g, d, g, c)
    BY <2>1, <2>2, <2>3, RequestAssumption
       DEF Inv, TypeOK, Budgeted, Moves, Local, Slotted, Reserved, Pull
  <2> QED BY <2>4, BudgetKept
<1> USE DEF Pull
<1>2. TypeOK' /\ auth' = auth
  BY <1>1, RequestAssumption DEF Inv, TypeOK, Awaiting, Kinds, auth, counts, delivery, memory
<1>3. Frame(r)
  BY DEF Frame, Inv, TypeOK, counts, delivery, memory
<1>4. Local(r)'
  BY DEF Inv, TypeOK, counts, delivery, memory,
     Local, Counted, Delivered, Slotted, Recordings, Reserved, Early, Forwarding
<1>5. r \in barred => pc'[r] \in Early \cup {"end"} /\ r \notin forwarded'
  BY DEF Inv, TypeOK, Barred, Early
<1> QED BY <1>1, <1>2, <1>3, <1>4, <1>5, KeptIsEnough DEF Kept

\* taken out of it,
LEMMA DrainedStep ==
    ASSUME Inv, NEW r \in Requests,
           Drained(r)
    PROVE  Inv'
<1> USE DEF Drained
<1>1. Budgeted' /\ bytes' \in Nat
  BY MemoryUntouched
<1>2. TypeOK' /\ auth' = auth
  BY <1>1, RequestAssumption DEF Inv, TypeOK, Awaiting, Kinds, auth, counts, delivery, memory
<1>3. Frame(r)
  BY DEF Frame, Inv, TypeOK, counts, delivery, memory
<1>4. Local(r)'
  BY DEF Inv, TypeOK, counts, delivery, memory,
     Local, Counted, Delivered, Slotted, Recordings, Reserved, Early, Forwarding
<1>5. r \in barred => pc'[r] \in Early \cup {"end"} /\ r \notin forwarded'
  BY DEF Inv, TypeOK, Barred, Early
<1> QED BY <1>1, <1>2, <1>3, <1>4, <1>5, KeptIsEnough DEF Kept

\* by the client;
LEMMA TakeStep ==
    ASSUME Inv, NEW r \in Requests,
           Take(r)
    PROVE  Inv'
<1>1. Budgeted' /\ bytes' \in Nat
  <2>1. PICK g \in 0 .. 4 : g = held[r]
    BY DEF Inv, TypeOK
  <2>2. PICK d \in 0 .. 4 : d = chunk[r]
    BY DEF Inv, TypeOK
  <2>3. PICK c \in 0 .. 4 : c = 0
    OBVIOUS
  <2>4. Moves(r, g, d, g, c)
    BY <2>1, <2>2, <2>3, RequestAssumption
       DEF Inv, TypeOK, Budgeted, Moves, Take
  <2> QED BY <2>4, BudgetKept
<1> USE DEF Take
<1>2. TypeOK' /\ auth' = auth
  <2>1. delivered[r] + 1 \in 0 .. MaxChunks + 1
    BY RequestAssumption DEF Inv, TypeOK, Local, Slotted, Delivered
  <2>2. 0 \in 0 .. 4
    OBVIOUS
  <2> QED BY <1>1, <2>1, <2>2 DEF Inv, TypeOK, auth, counts
<1>3. Frame(r)
  BY DEF Frame, Inv, TypeOK, counts, delivery, memory
<1>4. Local(r)'
  BY DEF Inv, TypeOK, counts, delivery, memory,
     Local, Counted, Delivered, Slotted, Recordings, Reserved, Early, Forwarding
<1>5. r \in barred => pc'[r] \in Early \cup {"end"} /\ r \notin forwarded'
  BY DEF Inv, TypeOK, Barred, Early
<1> QED BY <1>1, <1>2, <1>3, <1>4, <1>5, KeptIsEnough DEF Kept

\* the task ends, at the end of the source or in an error,
LEMMA TaskEndsStep ==
    ASSUME Inv, NEW r \in Requests,
           \/ PullFails(r) \/ PullEnd(r) \/ DrainTimesOut(r)
    PROVE  Inv'
<1>1. Budgeted' /\ bytes' \in Nat
  <2>1. PICK g \in 0 .. 4 : g = held[r]
    BY DEF Inv, TypeOK
  <2>2. PICK d \in 0 .. 4 : d = chunk[r]
    BY DEF Inv, TypeOK
  <2>3. PICK h \in 0 .. 4 : h = 0
    OBVIOUS
  <2>4. PICK c \in 0 .. 4 : c = 0
    OBVIOUS
  <2>5. Moves(r, g, d, h, c)
    BY <2>1, <2>2, <2>3, <2>4, RequestAssumption
       DEF Inv, TypeOK, Budgeted, Moves, PullFails, PullEnd, DrainTimesOut, TaskEnds, GuardDropped, Recorded
  <2> QED BY <2>5, BudgetKept
<1> USE DEF PullFails, PullEnd, DrainTimesOut, TaskEnds, GuardDropped, Recorded
<1>2. TypeOK' /\ auth' = auth
  <2>1. 0 \in 0 .. 4 /\ auth' = auth
    BY DEF auth
  <2>2. completions' \in [Requests -> Nat]
    BY DEF Inv, TypeOK
  <2>3. slot' \in [Requests -> {"empty", "chunk", "error"}]
    BY DEF Inv, TypeOK
  <2>4. fin' \in [Requests -> BOOLEAN] /\ guards' \in [Requests -> SUBSET Kinds]
    BY DEF Inv, TypeOK
  <2>5. told' \in SUBSET Requests
    BY DEF Inv, TypeOK
  <2>6. /\ held' \in [Requests -> 0 .. 4] /\ chunk' \in [Requests -> 0 .. 4]
        /\ task' \in [Requests -> {"none", "pull", "drain", "over", "aborted"}]
    BY <2>1 DEF Inv, TypeOK
  <2>7. UNCHANGED <<pc, forwarded, rejections, source, size, pulled, delivered, outcome>>
    OBVIOUS
  <2> HIDE DEF PullFails, PullEnd, DrainTimesOut
  <2> QED BY <1>1, <2>1, <2>2, <2>3, <2>4, <2>5, <2>6, <2>7 DEF Inv, TypeOK, auth
<1>3. Frame(r)
  BY DEF Frame, Inv, TypeOK, counts, delivery, memory
<1>4. Local(r)'
  BY DEF Inv, TypeOK, counts, delivery, memory,
     Local, Counted, Delivered, Slotted, Recordings, Reserved, Early, Forwarding
<1>5. r \in barred => pc'[r] \in Early \cup {"end"} /\ r \notin forwarded'
  BY DEF Inv, TypeOK, Barred, Early
<1> QED BY <1>1, <1>2, <1>3, <1>4, <1>5, KeptIsEnough DEF Kept

\* or is aborted.
LEMMA AbortedStep ==
    ASSUME Inv, NEW r \in Requests,
           Aborted(r)
    PROVE  Inv'
<1>1. Budgeted' /\ bytes' \in Nat
  <2>1. PICK g \in 0 .. 4 : g = held[r]
    BY DEF Inv, TypeOK
  <2>2. PICK d \in 0 .. 4 : d = chunk[r]
    BY DEF Inv, TypeOK
  <2>3. PICK h \in 0 .. 4 : h = 0
    OBVIOUS
  <2>4. PICK c \in 0 .. 4 : c = 0
    OBVIOUS
  <2>5. Moves(r, g, d, h, c)
    BY <2>1, <2>2, <2>3, <2>4, RequestAssumption
       DEF Inv, TypeOK, Budgeted, Moves, Aborted, GuardDropped, Recorded
  <2> QED BY <2>5, BudgetKept
<1> USE DEF Aborted, GuardDropped, Recorded
<1>2. TypeOK' /\ auth' = auth
  BY <1>1, RequestAssumption DEF Inv, TypeOK, Awaiting, Kinds, auth, counts, delivery, memory
<1>3. Frame(r)
  BY DEF Frame, Inv, TypeOK, counts, delivery, memory
<1>4. Local(r)'
  BY DEF Inv, TypeOK, counts, delivery, memory,
     Local, Counted, Delivered, Slotted, Recordings, Reserved, Early, Forwarding
<1>5. r \in barred => pc'[r] \in Early \cup {"end"} /\ r \notin forwarded'
  BY DEF Inv, TypeOK, Barred, Early
<1> QED BY <1>1, <1>2, <1>3, <1>4, <1>5, KeptIsEnough DEF Kept

\* The client sees the end, or leaves the body,
LEMMA ClientStep ==
    ASSUME Inv, NEW r \in Requests,
           \/ TakeEnd(r) \/ DropBody(r)
    PROVE  Inv'
<1> USE DEF TakeEnd, DropBody, Goto
<1>1. Budgeted' /\ bytes' \in Nat
  BY MemoryUntouched
<1>2. TypeOK' /\ auth' = auth
  BY <1>1, RequestAssumption DEF Inv, TypeOK, Awaiting, Kinds, auth, counts, delivery, memory
<1>3. Frame(r)
  BY DEF Frame, Inv, TypeOK, counts, delivery, memory
<1>4. Local(r)'
  BY DEF Inv, TypeOK, counts, delivery, memory,
     Local, Counted, Delivered, Slotted, Recordings, Reserved, Early, Forwarding
<1>5. r \in barred => pc'[r] \in Early \cup {"end"} /\ r \notin forwarded'
  BY DEF Inv, TypeOK, Barred, Early
<1> QED BY <1>1, <1>2, <1>3, <1>4, <1>5, KeptIsEnough DEF Kept

\* or the handler.
LEMMA DropHandlerStep ==
    ASSUME Inv, NEW r \in Requests,
           DropHandler(r)
    PROVE  Inv'
<1>1. Budgeted' /\ bytes' \in Nat
  <2>1. PICK g \in 0 .. 4 : g = held[r]
    BY DEF Inv, TypeOK
  <2>2. PICK d \in 0 .. 4 : d = chunk[r]
    BY DEF Inv, TypeOK
  <2>3. PICK h \in 0 .. 4 : h = 0
    OBVIOUS
  <2>4. Moves(r, g, d, h, d)
    BY <2>1, <2>2, <2>3, RequestAssumption
       DEF Inv, TypeOK, Budgeted, Moves, DropHandler, GuardDropped, Recorded, Goto
  <2> QED BY <2>4, BudgetKept
<1> USE DEF DropHandler, GuardDropped, Recorded, Goto
<1>2. TypeOK' /\ auth' = auth
  BY <1>1, RequestAssumption DEF Inv, TypeOK, Awaiting, Kinds, auth, counts, delivery, memory
<1>3. Frame(r)
  BY DEF Frame, Inv, TypeOK, counts, delivery, memory
<1>4. Local(r)'
  <2> USE DEF Inv, TypeOK, Local, delivery
  <2>1. source[r] = "none" /\ task[r] = "none" /\ slot[r] = "empty" /\ ~fin[r]
    BY DEF Awaiting, Delivered, Slotted
  <2>2. Counted(r)'
    <3>1. CASE pc[r] = "collect"
      BY <2>1, <3>1 DEF Counted, Forwarding, Early
    <3>2. CASE pc[r] # "collect"
      BY <2>1, <3>2 DEF Counted, Forwarding, Early, Awaiting
    <3> QED BY <3>1, <3>2
  <2>3. Delivered(r)'
    BY <2>1 DEF Delivered
  <2>4. Slotted(r)' /\ Recordings(r)' /\ Reserved(r)'
    BY <2>1 DEF Slotted, Recordings, Reserved
  <2> QED BY <2>2, <2>3, <2>4
<1>5. r \in barred => pc'[r] \in Early \cup {"end"} /\ r \notin forwarded'
  BY DEF Inv, TypeOK, Barred, Early
<1> QED BY <1>1, <1>2, <1>3, <1>4, <1>5, KeptIsEnough DEF Kept

LEMMA NextInv == Inv /\ [Next]_vars => Inv'
<1> SUFFICES ASSUME Inv, [Next]_vars PROVE Inv'
  OBVIOUS
<1>1. CASE Revoke
  <2>1. Budgeted' /\ TypeOK'
    BY <1>1, MemoryUntouched DEF Revoke, Inv, TypeOK, counts, delivery, memory
  <2>2. ASSUME NEW r \in Requests PROVE Local(r)'
    BY <1>1 DEF Revoke, Inv, counts, delivery, memory,
       Local, Counted, Delivered, Slotted, Recordings, Reserved
  <2>3. Barred'
    BY <1>1 DEF Revoke, Inv, Barred, Local, Counted, Early
  <2> QED BY <2>1, <2>2, <2>3 DEF Inv
<1>2. CASE UNCHANGED vars
  <2>1. Budgeted' /\ TypeOK'
    BY <1>2, MemoryUntouched DEF vars, Inv, TypeOK, memory
  <2>2. ASSUME NEW r \in Requests PROVE Local(r)'
    BY <1>2 DEF vars, Inv, Local, Counted, Delivered, Slotted, Recordings, Reserved
  <2>3. Barred'
    BY <1>2 DEF vars, Inv, Barred
  <2> QED BY <2>1, <2>2, <2>3 DEF Inv
<1>3. ASSUME NEW r \in Requests, Handler(r) PROVE Inv'
  BY <1>3, PassStep, RejectStep, ServeStep, CollectStep, CollectedStep, CollectFailsStep
     DEF Handler
<1>4. ASSUME NEW r \in Requests, Deliver(r) PROVE Inv'
  BY <1>4, PullStep, DrainedStep, TaskEndsStep, AbortedStep DEF Deliver
<1>5. ASSUME NEW r \in Requests, Client(r) PROVE Inv'
  BY <1>5, PassStep, RejectStep, TakeStep, ClientStep, DropHandlerStep DEF Client
<1> QED BY <1>1, <1>2, <1>3, <1>4, <1>5 DEF Next

LEMMA InvAlways == Spec => []Inv
  BY InitInv, NextInv, PTL DEF Spec

-----------------------------------------------------------------------------
\* Whichever of its many ends a request meets, it is counted exactly once, for any
\* number of requests (record_once, the explicit count of a failed send,
\* proxy_usage_middleware).
THEOREM CountedOnceAlways == Spec => []CountedOnce
<1>1. Inv => CountedOnce
  BY DEF Inv, CountedOnce, TypeOK, Awaiting, Local, Counted, Delivered, Recordings, Early,
     Forwarding
<1> QED BY <1>1, InvAlways, PTL

\* A usage record says success only if the client got every chunk
\* (DeliveryQueue::finish against the consumer's done).
THEOREM SuccessIsCompleteAlways == Spec => []SuccessIsComplete
<1>1. Inv => SuccessIsComplete
  BY DEF Inv, SuccessIsComplete, Local, Recordings
<1> QED BY <1>1, InvAlways, PTL

\* The counter of response memory equals what the requests hold, stays within the
\* budget, and a request that is over holds nothing, for any number of requests and
\* any budget (ResponseReservation through resize, attach and drop).
THEOREM MemoryReturnedAlways == Spec => []MemoryReturned
<1>1. Inv => MemoryReturned
  <2> SUFFICES ASSUME Inv, NEW r \in Requests, pc[r] = "end", task[r] \in {"none", "over"}
               PROVE  held[r] + chunk[r] = 0
    BY DEF Inv, MemoryReturned, Budgeted
  <2>1. held[r] = 0 /\ chunk[r] = 0
    BY DEF Inv, TypeOK, Local, Reserved, Slotted
  <2> QED BY <2>1
<1> QED BY <1>1, InvAlways, PTL

\* A key revoked before the second authorization check keeps the request from being
\* forwarded (auth.still_authorized after each await).
THEOREM RevokedNotForwardedAlways == Spec => []RevokedNotForwarded
<1>1. Inv => RevokedNotForwarded
  BY DEF Inv, RevokedNotForwarded, Barred, TypeOK
<1> QED BY <1>1, InvAlways, PTL

==============================================================================
