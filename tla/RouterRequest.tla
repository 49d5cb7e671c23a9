---------------------------- MODULE RouterRequest ----------------------------
(***************************************************************************)
(* The way of an inference request through the router (proxy.rs,           *)
(* proxy_delivery.rs, proxy_usage.rs): the middleware that admits it and   *)
(* receives its body, the handler proxy_upstream, which collects guards,   *)
(* forwards the request and buffers or relays the response, and the        *)
(* delivery task that hands the response to the client in bounded chunks.  *)
(*                                                                         *)
(* A step ends where the code awaits something.  At each of these places   *)
(* the client may go away, which drops the future and all it owns.  A      *)
(* client that stays may stop reading for ever.                            *)
(*                                                                         *)
(* The permits are those of the modules Admission and RouterTargets; here  *)
(* a guard is held or not, and its kind has a capacity.  All requests use  *)
(* one API key.  Chunks have one size, 1; a buffered response is 1 chunk.  *)
(***************************************************************************)
EXTENDS Naturals, FiniteSets

CONSTANTS
    Requests,
    MaxActive,      \* max_concurrent_requests
    MaxBodies,      \* MAX_PROXY_IN_FLIGHT_BODY_BYTES, in bodies
    MaxTarget,      \* capacity of the targets
    Budget,         \* RESPONSE_BUDGET, in chunks
    MaxChunks       \* bound: chunks of a stream

ASSUME RequestAssumption ==
    /\ IsFiniteSet(Requests)
    /\ MaxActive \in Nat
    /\ MaxBodies \in Nat
    /\ MaxTarget \in Nat
    /\ Budget \in Nat
    /\ MaxChunks \in Nat

VARIABLES
    pc,          \* the handler of a request, and where it awaits
    guards,      \* the guards a request holds
    revoked,     \* the API key has been disabled or changed
    barred,      \* history: requests that were not yet past the second
                 \* authorization check when the key was revoked
    forwarded,   \* record.forwarded
    told,        \* recorded, of the request's ProxyTelemetryGuard
    completions, \* calls of record_completed for a request
    rejections,  \* calls of record_rejected for a request
    source,      \* what the delivery task reads: a buffered body or a stream
    size,        \* the chunks it has
    pulled,      \* ... the task has taken from it
    delivered,   \* ... the client has got
    task,        \* the delivery task
    slot,        \* DeliveryState.chunk
    fin,         \* DeliveryState.done
    held,        \* reservation of the buffered body
    chunk,       \* reservation of the chunk in the slot
    bytes,       \* RESPONSE_BYTES
    outcome      \* the outcome of the usage record, once it is recorded

counts   == <<completions, rejections>>
delivery == <<source, size, pulled, delivered, task, slot, fin>>
memory   == <<held, chunk, bytes>>
auth     == <<revoked, barred>>
vars == <<pc, guards, revoked, barred, forwarded, told, completions, rejections,
          source, size, pulled, delivered, task, slot, fin, held, chunk, bytes,
          outcome>>

Kinds == {"global", "body", "target"}

\* Where the handler awaits: the admission queue, the body, the preflight, the
\* quota ledger, the response headers, the buffered response.
Awaiting == {"queue", "body", "select", "preflight", "quota", "send", "collect"}

\* serve: the handler has returned a response.
TypeOK ==
    /\ pc \in [Requests -> Awaiting \cup {"idle", "serve", "end"}]
    /\ guards \in [Requests -> SUBSET Kinds]
    /\ revoked \in BOOLEAN
    /\ barred \in SUBSET Requests
    /\ forwarded \in SUBSET Requests
    /\ told \in SUBSET Requests
    /\ completions \in [Requests -> Nat]
    /\ rejections \in [Requests -> Nat]
    /\ source \in [Requests -> {"none", "buffer", "stream"}]
    /\ size \in [Requests -> 0 .. MaxChunks + 1]
    /\ pulled \in [Requests -> 0 .. MaxChunks + 1]
    /\ delivered \in [Requests -> 0 .. MaxChunks + 1]
    /\ task \in [Requests -> {"none", "pull", "drain", "over", "aborted"}]
    /\ slot \in [Requests -> {"empty", "chunk", "error"}]
    /\ fin \in [Requests -> BOOLEAN]
    /\ held \in [Requests -> 0 .. 4]
    /\ chunk \in [Requests -> 0 .. 4]
    /\ bytes \in Nat
    /\ outcome \in [Requests -> {"none", "success", "failed", "rejected", "cancelled"}]

Holders(kind) == { r \in Requests : kind \in guards[r] }

Goto(r, where) == pc' = [pc EXCEPT ![r] = where]

-----------------------------------------------------------------------------
(* Ends *)

\* A local error response before forwarding: the guards are dropped, the usage
\* middleware counts the rejection, and the client reads the short body or not.
Reject(r) ==
    /\ Goto(r, "end")
    /\ guards' = [guards EXCEPT ![r] = {}]
    /\ rejections' = [rejections EXCEPT ![r] = @ + 1]
    /\ \E o \in {"rejected", "cancelled"} : outcome' = [outcome EXCEPT ![r] = o]
    /\ UNCHANGED <<auth, forwarded, told, completions, delivery, memory>>

\* Mutant: every call counts.
Recorded_Always(r, calls) == completions' = [completions EXCEPT ![r] = @ + calls]

\* ProxyTelemetryGuard::record_once, called this many times.
Recorded(r, calls) ==
    completions' = [completions EXCEPT ![r] = IF r \in told THEN @ ELSE @ + 1]

\* The guard is dropped with the permits in it.  Its drop calls record_once, as
\* does the code that has seen the end of the response.
GuardDropped(r, seenEnd) ==
    /\ Recorded(r, IF seenEnd THEN 2 ELSE 1)
    /\ told' = told \cup {r}
    /\ guards' = [guards EXCEPT ![r] = {}]

\* The response of the handler goes to a delivery task (bounded_delivery).
Serve(r, kind, n) ==
    /\ Goto(r, "serve")
    /\ source' = [source EXCEPT ![r] = kind]
    /\ size' = [size EXCEPT ![r] = n]
    /\ task' = [task EXCEPT ![r] = "pull"]
    /\ UNCHANGED <<pulled, delivered, slot, fin>>

-----------------------------------------------------------------------------
(* proxy_security_middleware *)

\* Passes CORS, authentication, scope and rate limit, or is rejected there.
Arrive(r) ==
    /\ pc[r] = "idle"
    /\ ~revoked
    /\ Goto(r, "queue")
    /\ UNCHANGED <<guards, auth, forwarded, told, counts, delivery, memory, outcome>>

RejectedAtDoor(r) ==
    /\ pc[r] = "idle"
    /\ Reject(r)

\* acquire_request, then the reservation of the body: try_acquire_body_bytes.
Admit(r) ==
    /\ pc[r] = "queue"
    /\ Cardinality(Holders("global")) < MaxActive
    /\ Cardinality(Holders("body")) < MaxBodies
    /\ guards' = [guards EXCEPT ![r] = {"global", "body"}]
    /\ Goto(r, "body")
    /\ UNCHANGED <<auth, forwarded, told, counts, delivery, memory, outcome>>

\* The queue is full or times out, or there is no room for the body.
AdmitFails(r) ==
    /\ pc[r] = "queue"
    /\ Reject(r)

\* delivery::receive, within its idle and total deadline.
ReceiveBody(r) ==
    /\ pc[r] = "body"
    /\ Goto(r, "select")
    /\ UNCHANGED <<guards, auth, forwarded, told, counts, delivery, memory, outcome>>

ReceiveFails(r) ==
    /\ pc[r] = "body"
    /\ Reject(r)

-----------------------------------------------------------------------------
(* proxy_upstream *)

\* Resolution of the model, the first authorization check, and the selection of a
\* target.
SelectTarget(r) ==
    /\ pc[r] = "select"
    /\ ~revoked
    /\ Cardinality(Holders("target")) < MaxTarget
    /\ guards' = [guards EXCEPT ![r] = @ \cup {"target"}]
    /\ Goto(r, "preflight")
    /\ UNCHANGED <<auth, forwarded, told, counts, delivery, memory, outcome>>

SelectFails(r) ==
    /\ pc[r] = "select"
    /\ Reject(r)

\* Mutant: the key is only checked when the request is resolved.
Preflight_NoRecheck(r) ==
    /\ pc[r] = "preflight"
    /\ Goto(r, "quota")
    /\ UNCHANGED <<guards, auth, forwarded, told, counts, delivery, memory, outcome>>

\* quota::prepare, context_limit_violation, the second authorization check.
Preflight(r) ==
    /\ pc[r] = "preflight"
    /\ ~revoked
    /\ Goto(r, "quota")
    /\ UNCHANGED <<guards, auth, forwarded, told, counts, delivery, memory, outcome>>

PreflightFails(r) ==
    /\ pc[r] = "preflight"
    /\ Reject(r)

\* quota::admit, then usage.forwarded() and the request to the engine.
QuotaAdmit(r) ==
    /\ pc[r] = "quota"
    /\ forwarded' = forwarded \cup {r}
    /\ Goto(r, "send")
    /\ UNCHANGED <<guards, auth, told, counts, delivery, memory, outcome>>

QuotaRefuses(r) ==
    /\ pc[r] = "quota"
    /\ Reject(r)

\* No response headers: the request fails or times out.  The error response is
\* served like any other, without the guards.
SendFails(r) ==
    /\ pc[r] = "send"
    /\ completions' = [completions EXCEPT ![r] = @ + 1]
    /\ guards' = [guards EXCEPT ![r] = {}]
    /\ Serve(r, "buffer", 1)
    /\ UNCHANGED <<auth, forwarded, told, rejections, memory, outcome>>

\* The stream takes the telemetry guard with it.
HeadersOfStream(r) ==
    /\ pc[r] = "send"
    /\ \E n \in 0 .. MaxChunks : Serve(r, "stream", n)
    /\ UNCHANGED <<guards, auth, forwarded, told, counts, memory, outcome>>

\* ResponseReservation::acquire(0) succeeds at any use of the budget.
HeadersOfJson(r) ==
    /\ pc[r] = "send"
    /\ Goto(r, "collect")
    /\ UNCHANGED <<guards, auth, forwarded, told, counts, delivery, memory, outcome>>

\* resize(4 * len) of collect_bounded_response_body.
CollectChunk(r) ==
    /\ pc[r] = "collect"
    /\ held[r] = 0
    /\ bytes + 4 <= Budget
    /\ held' = [held EXCEPT ![r] = 4]
    /\ bytes' = bytes + 4
    /\ UNCHANGED <<pc, guards, auth, forwarded, told, counts, delivery, chunk, outcome>>

\* Mutant: the counter keeps what attach no longer needs.
Attach_KeepsBytes(r) ==
    /\ held' = [held EXCEPT ![r] = 1]
    /\ bytes' = bytes

\* resize(2 * len), then attach, which keeps len.
Attach(r) ==
    /\ held' = [held EXCEPT ![r] = 1]
    /\ bytes' = bytes - (held[r] - 1)

\* The whole response is there.  record_once; the guard goes with the handler.
Collected(r) ==
    /\ pc[r] = "collect"
    /\ held[r] = 4
    /\ Attach(r)
    /\ GuardDropped(r, TRUE)
    /\ Serve(r, "buffer", 1)
    /\ UNCHANGED <<auth, forwarded, rejections, chunk, outcome>>

\* Too large, idle for too long, an error, or no memory: an error response.
CollectFails(r) ==
    /\ pc[r] = "collect"
    /\ held' = [held EXCEPT ![r] = 0]
    /\ bytes' = bytes - held[r]
    /\ \E seenEnd \in BOOLEAN : GuardDropped(r, seenEnd)
    /\ Serve(r, "buffer", 1)
    /\ UNCHANGED <<auth, forwarded, rejections, chunk, outcome>>

-----------------------------------------------------------------------------
(* bounded_delivery: the task *)

\* DeliveryQueue::finish, then the end of the task: its source is dropped, and
\* with it a stream's guard and a buffered body's reservation.  A chunk that was
\* still in the slot is replaced by the error and its reservation freed.
TaskEnds(r, error, seenEnd) ==
    /\ slot' = [slot EXCEPT ![r] = IF error THEN "error" ELSE @]
    /\ fin' = [fin EXCEPT ![r] = TRUE]
    /\ task' = [task EXCEPT ![r] = "over"]
    /\ held' = [held EXCEPT ![r] = 0]
    /\ chunk' = [chunk EXCEPT ![r] = 0]
    /\ bytes' = bytes - held[r] - chunk[r]
    /\ IF source[r] = "stream"
       THEN GuardDropped(r, seenEnd)
       ELSE UNCHANGED <<completions, told, guards>>
    /\ UNCHANGED <<pc, auth, forwarded, rejections, source, size, pulled,
                   delivered, outcome>>

\* The next chunk.  It is copied, so that it takes 2 at first and then 1.
Pull(r) ==
    /\ task[r] = "pull"
    /\ pulled[r] < size[r]
    /\ bytes + 2 <= Budget
    /\ pulled' = [pulled EXCEPT ![r] = @ + 1]
    /\ slot' = [slot EXCEPT ![r] = "chunk"]
    /\ task' = [task EXCEPT ![r] = "drain"]
    /\ chunk' = [chunk EXCEPT ![r] = 1]
    /\ bytes' = bytes + 1
    /\ UNCHANGED <<pc, guards, auth, forwarded, told, counts, source, size,
                   delivered, fin, held, outcome>>

\* The stream is interrupted or idle for too long, or there is no memory.
PullFails(r) ==
    /\ task[r] = "pull"
    /\ \/ source[r] = "stream" /\ TaskEnds(r, TRUE, TRUE)
       \/ pulled[r] < size[r] /\ bytes + 2 > Budget /\ TaskEnds(r, TRUE, FALSE)

PullEnd(r) ==
    /\ task[r] = "pull"
    /\ pulled[r] = size[r]
    /\ TaskEnds(r, FALSE, TRUE)

Drained(r) ==
    /\ task[r] = "drain"
    /\ slot[r] = "empty"
    /\ task' = [task EXCEPT ![r] = "pull"]
    /\ UNCHANGED <<pc, guards, auth, forwarded, told, counts, source, size, pulled,
                   delivered, slot, fin, memory, outcome>>

\* Mutant: a stalled delivery ends as if it were complete.
DrainTimesOut_Silent(r) ==
    /\ task[r] = "drain"
    /\ slot[r] # "empty"
    /\ TaskEnds(r, FALSE, FALSE)

\* Mutant: the task waits for its client.
DrainTimesOut_Never(r) ==
    /\ FALSE
    /\ TaskEnds(r, TRUE, FALSE)

\* DELIVERY_IDLE passes before the client takes the chunk.
DrainTimesOut(r) ==
    /\ task[r] = "drain"
    /\ slot[r] # "empty"
    /\ TaskEnds(r, TRUE, FALSE)

-----------------------------------------------------------------------------
(* The client, behind UsageHandle::wrap *)

\* It takes the chunk; the reservation goes with the bytes.
Take(r) ==
    /\ pc[r] = "serve"
    /\ slot[r] = "chunk"
    /\ slot' = [slot EXCEPT ![r] = "empty"]
    /\ delivered' = [delivered EXCEPT ![r] = @ + 1]
    /\ chunk' = [chunk EXCEPT ![r] = 0]
    /\ bytes' = bytes - chunk[r]
    /\ UNCHANGED <<pc, guards, auth, forwarded, told, counts, source, size, pulled,
                   task, fin, held, outcome>>

\* The body ends, in an error or not: usage.finish.
TakeEnd(r) ==
    /\ pc[r] = "serve"
    /\ slot[r] = "error" \/ (slot[r] = "empty" /\ fin[r])
    /\ Goto(r, "end")
    /\ \E o \in IF slot[r] = "error" THEN {"failed"} ELSE {"success", "failed"} :
         outcome' = [outcome EXCEPT ![r] = o]
    /\ UNCHANGED <<guards, auth, forwarded, told, counts, delivery, memory>>

\* The client goes away while the handler awaits.  In "collect" the handler owns
\* the telemetry guard; before that, it owns the permits alone.
DropHandler(r) ==
    /\ pc[r] \in Awaiting
    /\ Goto(r, "end")
    /\ IF pc[r] = "collect"
       THEN GuardDropped(r, FALSE)
       ELSE guards' = [guards EXCEPT ![r] = {}] /\ UNCHANGED <<completions, told>>
    /\ held' = [held EXCEPT ![r] = 0]
    /\ bytes' = bytes - held[r]
    /\ outcome' = [outcome EXCEPT ![r] = "cancelled"]
    /\ UNCHANGED <<auth, forwarded, rejections, delivery, chunk>>

\* ... or while it is being served: Delivery::drop aborts the task.
DropBody(r) ==
    /\ pc[r] = "serve"
    /\ Goto(r, "end")
    /\ task' = [task EXCEPT ![r] = IF @ = "over" THEN @ ELSE "aborted"]
    /\ outcome' = [outcome EXCEPT ![r] = IF task[r] = "over" THEN "cancelled" ELSE @]
    /\ UNCHANGED <<guards, auth, forwarded, told, counts, source, size, pulled,
                   delivered, slot, fin, memory>>

\* The aborted task is dropped, with the source and the last UsageHandle.
Aborted(r) ==
    /\ task[r] = "aborted"
    /\ task' = [task EXCEPT ![r] = "over"]
    /\ slot' = [slot EXCEPT ![r] = "empty"]
    /\ held' = [held EXCEPT ![r] = 0]
    /\ chunk' = [chunk EXCEPT ![r] = 0]
    /\ bytes' = bytes - held[r] - chunk[r]
    /\ outcome' = [outcome EXCEPT ![r] = "cancelled"]
    /\ IF source[r] = "stream"
       THEN GuardDropped(r, FALSE)
       ELSE UNCHANGED <<completions, told, guards>>
    /\ UNCHANGED <<pc, auth, forwarded, rejections, source, size, pulled,
                   delivered, fin>>

\* The configuration changes: the key no longer authorizes.
Revoke ==
    /\ ~revoked
    /\ revoked' = TRUE
    /\ barred' = { r \in Requests : pc[r] \in {"idle", "queue", "body", "select",
                                               "preflight"} }
    /\ UNCHANGED <<pc, guards, forwarded, told, counts, delivery, memory, outcome>>

-----------------------------------------------------------------------------
Init ==
    /\ pc = [r \in Requests |-> "idle"]
    /\ guards = [r \in Requests |-> {}]
    /\ revoked = FALSE
    /\ barred = {}
    /\ forwarded = {}
    /\ told = {}
    /\ completions = [r \in Requests |-> 0]
    /\ rejections = [r \in Requests |-> 0]
    /\ source = [r \in Requests |-> "none"]
    /\ size = [r \in Requests |-> 0]
    /\ pulled = [r \in Requests |-> 0]
    /\ delivered = [r \in Requests |-> 0]
    /\ task = [r \in Requests |-> "none"]
    /\ slot = [r \in Requests |-> "empty"]
    /\ fin = [r \in Requests |-> FALSE]
    /\ held = [r \in Requests |-> 0]
    /\ chunk = [r \in Requests |-> 0]
    /\ bytes = 0
    /\ outcome = [r \in Requests |-> "none"]

\* What the router does without the client.
Handler(r) ==
    \/ Admit(r) \/ AdmitFails(r) \/ ReceiveBody(r) \/ ReceiveFails(r)
    \/ SelectTarget(r) \/ SelectFails(r) \/ Preflight(r) \/ PreflightFails(r)
    \/ QuotaAdmit(r) \/ QuotaRefuses(r)
    \/ SendFails(r) \/ HeadersOfStream(r) \/ HeadersOfJson(r)
    \/ CollectChunk(r) \/ Collected(r) \/ CollectFails(r)

Deliver(r) ==
    \/ Pull(r) \/ PullFails(r) \/ PullEnd(r)
    \/ Drained(r) \/ DrainTimesOut(r) \/ Aborted(r)

Client(r) ==
    \/ Arrive(r) \/ RejectedAtDoor(r)
    \/ Take(r) \/ TakeEnd(r) \/ DropHandler(r) \/ DropBody(r)

Next ==
    \/ Revoke
    \/ \E r \in Requests : Handler(r) \/ Deliver(r) \/ Client(r)

\* Every await of the router has a deadline.  The client has none.
Fairness == \A r \in Requests : WF_vars(Handler(r)) /\ WF_vars(Deliver(r))

Spec == Init /\ [][Next]_vars

FairSpec == Spec /\ Fairness

-----------------------------------------------------------------------------
(* Properties *)

\* The sum of f over the requests.  No reservation exceeds 4.
Total(f) == Cardinality({ u \in Requests \X (1 .. 4) : u[2] <= f[u[1]] })

\* A request counts once, whichever of its many ends it meets: a local rejection
\* as rejected, a forwarded one whose guards have been dropped as completed, unless
\* its client left before the response headers (record_once, the explicit count of
\* a failed send, proxy_usage_middleware).  The counters and guards keep their types.
CountedOnce ==
    /\ TypeOK
    /\ \A r \in Requests :
           /\ rejections[r] + completions[r] <= 1
           /\ rejections[r] = 1 => r \notin forwarded
           /\ outcome[r] = "rejected" => rejections[r] = 1
           /\ completions[r] = 1 => r \in forwarded /\ guards[r] = {}
           /\ r \in forwarded /\ pc[r] = "serve" /\ guards[r] = {} => completions[r] = 1
           /\ pc[r] = "end" /\ outcome[r] \in {"success", "failed"} => completions[r] = 1

\* A usage record says success only if the client was given every chunk of the
\* response: a stream that broke off, a delivery that stalled or ran out of memory
\* never looks complete (DeliveryQueue::finish against the consumer's done).
SuccessIsComplete ==
    \A r \in Requests : outcome[r] = "success" => delivered[r] = size[r]

\* The memory budget of responses is exact, is kept, and nothing of it stays with a
\* request that is over (ResponseReservation through resize, attach and drop).
MemoryReturned ==
    /\ bytes = Total(held) + Total(chunk)
    /\ bytes <= Budget
    /\ \A r \in Requests :
         pc[r] = "end" /\ task[r] \in {"none", "over"} => held[r] + chunk[r] = 0

\* A key that is revoked before a request's second authorization check keeps the
\* request from being forwarded, however long it queued, uploaded or waited for its
\* preflight (auth.still_authorized after each of the awaits).
RevokedNotForwarded == forwarded \cap barred = {}

\* A request that has been admitted gives its permits back, even if its client
\* neither reads nor goes away (the deadlines of receive, send and bounded_delivery).
PermitsReturn ==
    \A r \in Requests : guards[r] # {} ~> guards[r] = {}
==============================================================================
