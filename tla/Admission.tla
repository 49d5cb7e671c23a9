------------------------------ MODULE Admission ------------------------------
(***************************************************************************)
(* The router's admission queue, src-tauri/src/commands/proxy_admission.rs.*)
(*                                                                         *)
(* One Mutex protects the whole State; a tokio Notify wakes the waiters.   *)
(* Every critical section is one action.  What happens outside the lock -  *)
(* creating the Notified future, parking on it, the notify_waiters call    *)
(* that FOLLOWS the unlock in configure and in both Drop handlers - is a   *)
(* step of its own, because other tasks run in between.                    *)
(*                                                                         *)
(* A request stands for one task calling acquire; its ticket (State.next)  *)
(* is represented by the request itself, which is sound because a ticket   *)
(* is not reused before 2^64 acquisitions.                                 *)
(***************************************************************************)
EXTENDS Naturals, FiniteSets, Sequences, SequencesExt

CONSTANTS
    Requests,        \* tasks that call acquire, again and again
    Keys,            \* API key identities
    NoKey,           \* the key of a request that is outside acquire
    MaxLimit,        \* bound: largest configured max_concurrent_requests
    KeyLimits,       \* values of a key's own limit; 0 means "no own limit"
    MaxWaiters,      \* MAX_WAITERS (4096 in the code)
    MaxKeyWaiters,   \* MAX_KEY_WAITERS (256 in the code)
    MaxConfigures    \* bound: policy updates in one behaviour

ASSUME AdmissionAssumption ==
    /\ IsFiniteSet(Requests)
    /\ NoKey \notin Keys
    /\ MaxLimit \in Nat \ {0}
    /\ KeyLimits \subseteq Nat
    /\ MaxWaiters \in Nat
    /\ MaxKeyWaiters \in Nat
    /\ MaxConfigures \in Nat

VARIABLES
    limit, fair, limits,      \* the policy: State.limit, .fair, .limits
    waiting,                  \* State.waiting: tickets in arrival order
    turns,                    \* State.turns: rotation of the keys that wait
    active,                   \* the keys of State.active
    key_active,               \* State.key_active (absent entry = 0)
    key,                      \* the API key a request acquires for
    pc,                       \* where the request's task is
    woken,                    \* registered Notified futures already signalled
    configuring,              \* configure has unlocked but not yet notified
    configures                \* number of configure calls so far

policy == <<limit, fair, limits>>
queue  == <<waiting, turns>>
slots  == <<active, key_active>>
vars == <<limit, fair, limits, waiting, turns, active, key_active, key, pc,
          woken, configuring, configures>>

\* Where a task is:
\* idle     - outside acquire, holding nothing
\* register - the head of the wait loop, about to create its Notified future
\* check    - the future is enabled, about to lock and look at selected()
\* parked   - awaiting the future
\* drop     - about to run Waiter::drop (admitted, timed out or cancelled)
\* notify   - a Drop handler has unlocked and still owes notify_waiters
\* running  - holds an AdmissionPermit
Locations == {"idle", "register", "check", "parked", "drop", "notify", "running"}

TypeOK ==
    /\ limit \in 1 .. MaxLimit
    /\ fair \in BOOLEAN
    /\ limits \in [Keys -> KeyLimits]
    /\ waiting \in Seq(Requests)
    /\ turns \in Seq(Keys)
    /\ active \in SUBSET Requests
    /\ key_active \in [Keys -> Nat]
    /\ key \in [Requests -> Keys \cup {NoKey}]
    /\ pc \in [Requests -> Locations]
    /\ woken \in SUBSET Requests
    /\ configuring \in BOOLEAN
    /\ configures \in 0 .. MaxConfigures

-----------------------------------------------------------------------------
(* State::key_limit, State::available, State::selected *)

KeyLimit(k) ==
    LET own == IF limits[k] > 0 THEN limits[k] ELSE limit
    IN  IF own < limit THEN own ELSE limit

Available(k) == key_active[k] < KeyLimit(k)

\* The first key in rotation order that may admit one more request.
FirstTurn(t) ==
    /\ t \in DOMAIN turns
    /\ Available(turns[t])
    /\ \A s \in 1 .. (t - 1) : ~Available(turns[s])

\* The Option<u64> that selected() returns, as a set of at most one waiter.
Selected ==
    IF Cardinality(active) >= limit
    THEN {}
    ELSE { r \in Requests : \E w \in DOMAIN waiting :
             /\ waiting[w] = r
             /\ IF fair
                THEN \E t \in DOMAIN turns :
                        /\ FirstTurn(t)
                        /\ key[r] = turns[t]
                        /\ \A v \in 1 .. (w - 1) : key[waiting[v]] # turns[t]
                ELSE /\ Available(key[r])
                     /\ \A v \in 1 .. (w - 1) : ~Available(key[waiting[v]]) }

-----------------------------------------------------------------------------
(* State::remove_waiter *)

Position(s, x) == CHOOSE i \in DOMAIN s : s[i] = x

\* turns.retain(|k| k != key): a key is in turns at most once.
Retain(s, k) ==
    IF Contains(s, k) THEN RemoveAt(s, Position(s, k)) ELSE s

Remaining(r) == \E q \in Requests \ {r} : Contains(waiting, q) /\ key[q] = key[r]

\* Mutant: the admitted key keeps its place at the head of the rotation.
RemoveWaiter_noRotate(r, rotate) ==
    IF Contains(waiting, r)
    THEN /\ waiting' = RemoveAt(waiting, Position(waiting, r))
         /\ turns' = IF Remaining(r) THEN turns ELSE Retain(turns, key[r])
    ELSE UNCHANGED queue

RemoveWaiter(r, rotate) ==
    IF Contains(waiting, r)
    THEN /\ waiting' = RemoveAt(waiting, Position(waiting, r))
         /\ turns' = CASE Remaining(r) /\ rotate -> Append(Retain(turns, key[r]), key[r])
                       [] Remaining(r) /\ ~rotate -> turns
                       [] ~Remaining(r) -> Retain(turns, key[r])
    ELSE UNCHANGED queue

\* Futures created before notify_waiters are signalled by it, polled or not.
Registered == { r \in Requests : pc[r] \in {"check", "parked"} }

-----------------------------------------------------------------------------
(* Admission::acquire *)

KeyWaiters(k) == { r \in Requests : Contains(waiting, r) /\ key[r] = k }

\* Mutant: the fast path forgets the key's own limit.
MayBypassQueue_noKeyLimit(k) == Cardinality(active) < limit /\ Selected = {}

MayBypassQueue(k) ==
    /\ Cardinality(active) < limit
    /\ Available(k)
    /\ Selected = {}

\* Mutant: the bounds are tested after the fact.
QueueFull_late(k) ==
    \/ Len(waiting) > MaxWaiters
    \/ Cardinality(KeyWaiters(k)) > MaxKeyWaiters

QueueFull(k) ==
    \/ Len(waiting) >= MaxWaiters
    \/ Cardinality(KeyWaiters(k)) >= MaxKeyWaiters

\* Admitted at once: the permit is returned without ever queueing.
AcquireFast(r, k) ==
    /\ pc[r] = "idle"
    /\ MayBypassQueue(k)
    /\ key' = [key EXCEPT ![r] = k]
    /\ key_active' = [key_active EXCEPT ![k] = @ + 1]
    /\ active' = active \cup {r}
    /\ pc' = [pc EXCEPT ![r] = "running"]
    /\ UNCHANGED <<policy, queue, woken, configuring, configures>>

\* acquire returns None at once.
AcquireReject(r, k) ==
    /\ pc[r] = "idle"
    /\ ~MayBypassQueue(k)
    /\ QueueFull(k)
    /\ UNCHANGED vars

AcquireQueue(r, k) ==
    /\ pc[r] = "idle"
    /\ ~MayBypassQueue(k)
    /\ ~QueueFull(k)
    /\ key' = [key EXCEPT ![r] = k]
    /\ turns' = IF Contains(turns, k) THEN turns ELSE Append(turns, k)
    /\ waiting' = Append(waiting, r)
    /\ pc' = [pc EXCEPT ![r] = "register"]
    /\ UNCHANGED <<policy, slots, woken, configuring, configures>>

\* notify.notified() and enable(): from here on a notification is not lost.
Register(r) ==
    /\ pc[r] = "register"
    /\ pc' = [pc EXCEPT ![r] = "check"]
    /\ woken' = woken \ {r}
    /\ UNCHANGED <<policy, queue, slots, key, configuring, configures>>

\* The locked inspection finds this waiter selected; it is admitted and the
\* others are notified before the lock is released.
CheckAdmit(r) ==
    /\ pc[r] = "check"
    /\ r \in Selected
    /\ RemoveWaiter(r, TRUE)
    /\ key_active' = [key_active EXCEPT ![key[r]] = @ + 1]
    /\ active' = active \cup {r}
    /\ woken' = (woken \cup Registered) \ {r}
    /\ pc' = [pc EXCEPT ![r] = "drop"]
    /\ UNCHANGED <<policy, key, configuring, configures>>

\* Not selected: notified.await.
CheckPark(r) ==
    /\ pc[r] = "check"
    /\ r \notin Selected
    /\ pc' = [pc EXCEPT ![r] = "parked"]
    /\ UNCHANGED <<policy, queue, slots, key, woken, configuring, configures>>

\* The future completes and the loop starts over.
Wake(r) ==
    /\ pc[r] = "parked"
    /\ r \in woken
    /\ woken' = woken \ {r}
    /\ pc' = [pc EXCEPT ![r] = "register"]
    /\ UNCHANGED <<policy, queue, slots, key, configuring, configures>>

\* tokio::time::timeout elapses, or the task is cancelled: both can happen
\* only at the await, and both lead to Waiter::drop.
Abandon(r) ==
    /\ pc[r] = "parked"
    /\ woken' = woken \ {r}
    /\ pc' = [pc EXCEPT ![r] = "drop"]
    /\ UNCHANGED <<policy, queue, slots, key, configuring, configures>>

\* Waiter::drop, the locked part; a no-op on State for an admitted waiter.
DropWaiter(r) ==
    /\ pc[r] = "drop"
    /\ RemoveWaiter(r, FALSE)
    /\ pc' = [pc EXCEPT ![r] = "notify"]
    /\ UNCHANGED <<policy, slots, key, woken, configuring, configures>>

\* Mutant: the key's counter is removed while another permit of it is out.
ReleasePermit_reset(r) ==
    /\ pc[r] = "running"
    /\ active' = active \ {r}
    /\ key_active' = [key_active EXCEPT ![key[r]] = 0]
    /\ pc' = [pc EXCEPT ![r] = "notify"]
    /\ UNCHANGED <<policy, queue, key, woken, configuring, configures>>

\* AdmissionPermit::drop, the locked part.
ReleasePermit(r) ==
    /\ pc[r] = "running"
    /\ active' = active \ {r}
    /\ key_active' = [key_active EXCEPT ![key[r]] = IF @ > 0 THEN @ - 1 ELSE 0]
    /\ pc' = [pc EXCEPT ![r] = "notify"]
    /\ UNCHANGED <<policy, queue, key, woken, configuring, configures>>

\* The task leaves the Drop handler: with its permit if it was admitted.
Return(r) ==
    /\ pc' = [pc EXCEPT ![r] = IF r \in active THEN "running" ELSE "idle"]
    /\ key' = [key EXCEPT ![r] = IF r \in active THEN @ ELSE NoKey]

\* Mutant: notify_one instead of notify_waiters.
NotifyWaiters_one(r) ==
    /\ pc[r] = "notify"
    /\ \/ \E q \in Registered : woken' = woken \cup {q}
       \/ Registered = {} /\ UNCHANGED woken
    /\ Return(r)
    /\ UNCHANGED <<policy, queue, slots, configuring, configures>>

\* notify_waiters at the end of either Drop handler.
NotifyWaiters(r) ==
    /\ pc[r] = "notify"
    /\ woken' = woken \cup Registered
    /\ Return(r)
    /\ UNCHANGED <<policy, queue, slots, configuring, configures>>

-----------------------------------------------------------------------------
(* Admission::configure *)

Configure(l, f, ls) ==
    /\ ~configuring
    /\ configures < MaxConfigures
    /\ limit' = IF l = 0 THEN 1 ELSE l
    /\ fair' = f
    /\ limits' = ls
    /\ configuring' = TRUE
    /\ configures' = configures + 1
    /\ UNCHANGED <<queue, slots, key, pc, woken>>

\* Mutant: a policy change wakes nobody.
ConfigureNotify_silent ==
    /\ configuring
    /\ configuring' = FALSE
    /\ UNCHANGED <<policy, queue, slots, key, pc, woken, configures>>

ConfigureNotify ==
    /\ configuring
    /\ woken' = woken \cup Registered
    /\ configuring' = FALSE
    /\ UNCHANGED <<policy, queue, slots, key, pc, configures>>

-----------------------------------------------------------------------------

\* Admission::default followed by any first configuration.
Init ==
    /\ limit \in 1 .. MaxLimit
    /\ fair \in BOOLEAN
    /\ limits \in [Keys -> KeyLimits]
    /\ waiting = << >>
    /\ turns = << >>
    /\ active = {}
    /\ key_active = [k \in Keys |-> 0]
    /\ key = [r \in Requests |-> NoKey]
    /\ pc = [r \in Requests |-> "idle"]
    /\ woken = {}
    /\ configuring = FALSE
    /\ configures = 0

Acquire(r) == \E k \in Keys : AcquireFast(r, k) \/ AcquireReject(r, k) \/ AcquireQueue(r, k)

\* What the runtime executes without being asked: everything but new arrivals,
\* timeouts and policy updates.
Progress(r) ==
    \/ Register(r)
    \/ CheckAdmit(r)
    \/ CheckPark(r)
    \/ Wake(r)
    \/ DropWaiter(r)
    \/ ReleasePermit(r)
    \/ NotifyWaiters(r)

Next ==
    \/ \E r \in Requests : Acquire(r) \/ Progress(r) \/ Abandon(r)
    \/ \E l \in 0 .. MaxLimit, f \in BOOLEAN, ls \in [Keys -> KeyLimits] : Configure(l, f, ls)
    \/ ConfigureNotify

Spec == Init /\ [][Next]_vars

FairSpec ==
    /\ Spec
    /\ \A r \in Requests : WF_vars(Progress(r))
    /\ WF_vars(ConfigureNotify)

-----------------------------------------------------------------------------
(* Properties *)

Distinct(s) == \A i, j \in DOMAIN s : s[i] = s[j] => i = j

\* State::key_active, the counter the limits are checked against, counts the
\* permits that are out: AdmissionPermit::drop and the two increments in
\* acquire never lose or double a count, whatever is abandoned or reconfigured.
KeyActiveCounts ==
    \A k \in Keys : key_active[k] = Cardinality({ r \in active : key[r] = k })

\* State::turns holds exactly the keys that have a waiter, each once.  A key
\* missing from it is never selected in fair mode (and snapshot panics on it);
\* a key without waiters at the head makes selected() return None for everyone.
TurnsMirrorWaiting ==
    /\ \A k \in Keys : Contains(turns, k) <=> KeyWaiters(k) # {}
    /\ Distinct(turns)

\* A request is in the queue or among the active ones exactly while its task
\* is inside acquire or holds a permit: timeouts and cancellations leak nothing.
NoLeak ==
    /\ \A r \in Requests :
         /\ pc[r] \in {"register", "check", "parked"} => Contains(waiting, r)
         /\ Contains(waiting, r)
               => pc[r] \in {"register", "check", "parked", "drop"} /\ r \notin active
         /\ pc[r] = "running" => r \in active
         /\ r \in active => pc[r] \in {"running", "drop", "notify"}
         /\ key[r] = NoKey => pc[r] = "idle"
    /\ Distinct(waiting)

\* The books of Admission agree with each other and with what the tasks really
\* hold, in every interleaving of acquire, its timeout and cancellation, the
\* Drop handlers and configure.
Bookkeeping == TypeOK /\ KeyActiveCounts /\ TurnsMirrorWaiting /\ NoLeak

\* The hard bounds of the queue, in total and per key.
QueueBounded ==
    /\ Len(waiting) <= MaxWaiters
    /\ \A k \in Keys : Cardinality(KeyWaiters(k)) <= MaxKeyWaiters

\* Somebody has still to call notify_waiters.
NotifyPending == configuring \/ \E r \in Requests : pc[r] \in {"drop", "notify"}

\* "Releases and policy updates cannot be lost" (acquire's comment): a waiter
\* that selected() names is never asleep with no wake-up on its way.
NoLostWakeup ==
    \A r \in Selected : pc[r] = "parked" => r \in woken \/ NotifyPending

\* A step that admits a request respects the global limit and the limit of the
\* request's key, as counted over the permits that are really out.
AdmitsWithinLimits ==
    [][ \A r \in active' \ active :
          /\ Cardinality(active') <= limit
          /\ Cardinality({ q \in active' : key'[q] = key'[r] }) <= KeyLimit(key'[r]) ]_vars

\* Nobody overtakes a waiter that could be admitted: a request that did not
\* queue is admitted only when no queued request could be.
NoBarging ==
    [][ \A r \in active' \ active :
          ~Contains(waiting, r)
             => \A w \in DOMAIN waiting : ~Available(key[waiting[w]]) ]_vars

\* No further waiter times out or is cancelled.
NoAbandon == \A r \in Requests : ~(pc[r] = "parked" /\ pc'[r] = "drop")

\* Every waiter is admitted once waiters stop giving up: as long as permits are
\* released, the rotation (fair) or the arrival order (not fair) reaches it.
\* The condition is needed: a key keeps its turn when one of its waiters gives
\* up and others remain, so a key whose selected waiters give up for ever,
\* each just before it looks, holds the head of turns for ever.
EveryWaiterAdmitted ==
    <>[][NoAbandon]_vars => \A r \in Requests : Contains(waiting, r) ~> ~Contains(waiting, r)
==============================================================================
