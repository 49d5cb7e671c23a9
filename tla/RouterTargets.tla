---------------------------- MODULE RouterTargets ----------------------------
(***************************************************************************)
(* The targets of the router (RouterRuntime in proxy_runtime.rs): which    *)
(* instances are known, whether their circuit breaker lets requests        *)
(* through, and how many requests each one has.  Requests (proxy_upstream) *)
(* and the health probes (probe_snapshot_targets) report to it, by the     *)
(* name of the instance only; the probes also evict the targets that are   *)
(* no longer running.                                                      *)
(*                                                                         *)
(* Every operation on the map of targets holds its lock, and is one step.  *)
(* What a request or a probe has learnt and not yet reported is kept apart *)
(* from the map, so that it may be out of date when it is reported.        *)
(*                                                                         *)
(* A permit keeps the identity of the target that granted it, and only     *)
(* compares it with the one of the present target of the same name: all    *)
(* that is kept of it is whether they are the same (live).                 *)
(***************************************************************************)
EXTENDS Naturals, FiniteSets, FiniteSetsExt

CONSTANTS
    Instances,      \* candidates of one routing key
    Gufo,           \* those of engine kind Gufo
    Requests,
    Priority,       \* route_priority of each instance, lower is preferred
    MaxConcurrent,  \* max_concurrent_requests of a route, 0 = no limit
    Threshold,      \* unhealthy_threshold
    SlotCounts,     \* values of total_slots an engine may report
    NoTarget

ASSUME TargetsAssumption ==
    /\ IsFiniteSet(Instances)
    /\ IsFiniteSet(Requests)
    /\ Gufo \subseteq Instances
    /\ NoTarget \notin Instances
    /\ Priority \in [Instances -> Nat]
    /\ MaxConcurrent \in Nat
    /\ Threshold \in Nat \ {0}
    /\ SlotCounts \subseteq Nat

VARIABLES
    target,     \* the map: NoTarget where it has no entry
    visible,    \* running and not gated: what proxy_snapshot contains
    up,         \* the engine answers
    pc,         \* where each request is
    cands,      \* the candidates a request has resolved
    at,         \* the instance a request holds a permit of
    live,       \* ... and whether the permit's identity is the present target's
    round,      \* the probe loop
    ids,        \* target_ids of the round
    probe       \* the probe of each instance

targetVars == <<target, visible, up, pc, cands, at, live, round, ids, probe>>

Holding == {"sent", "good", "bad", "relay"}

Entries == [ready : BOOLEAN, open : BOOLEAN, failures : 0 .. Threshold,
            proven : BOOLEAN, active : 0 .. Cardinality(Requests),
            slots : SlotCounts \cup {0}]

ASSUME NoTargetAssumption == NoTarget \notin Entries

TargetsTypeOK ==
    /\ target \in [Instances -> Entries \cup {NoTarget}]
    /\ visible \in SUBSET Instances
    /\ up \in SUBSET Instances
    /\ pc \in [Requests -> {"idle", "resolved"} \cup Holding]
    /\ cands \in [Requests -> SUBSET Instances]
    /\ at \in [Requests -> Instances \cup {NoTarget}]
    /\ live \in [Requests -> BOOLEAN]
    /\ round \in {"sleep", "retain", "probe"}
    /\ ids \in SUBSET Instances
    /\ probe \in [Instances -> {"none", "asked", "healthy", "failed"}]

-----------------------------------------------------------------------------
(* The map of targets *)

\* TargetRuntime::default.
\* proven: last_success_at_ms > 0.  open: circuit_open_until_ms > now.
Default == [ready |-> TRUE, open |-> FALSE, failures |-> 0, proven |-> FALSE,
            active |-> 0, slots |-> 0]

\* targets.entry(i).or_default()
Entry(i) == IF target[i] = NoTarget THEN Default ELSE target[i]

Passes(i) == Entry(i).ready /\ ~Entry(i).open

AtCapacity(i) ==
    \/ MaxConcurrent > 0 /\ Entry(i).active >= MaxConcurrent
    \/ Entry(i).slots > 0 /\ Entry(i).active >= Entry(i).slots

\* The candidates of select_target_locked from which the strategy chooses.
\* Which one it takes is left open.
Preferred(C) ==
    LET eligible == { i \in C : Passes(i) /\ ~AtCapacity(i) }
    IN  { i \in eligible : \A j \in eligible : Priority[i] <= Priority[j] }

\* mark_probe_success
MarkProbeSuccess(i, slots) ==
    target' = [target EXCEPT ![i] =
        [Entry(i) EXCEPT !.ready = TRUE, !.open = FALSE, !.failures = 0,
                         !.proven = TRUE, !.slots = slots]]

\* mark_probe_failure.  The count of failures is capped at the threshold.
MarkProbeFailure(i, threshold) ==
    LET n     == Min({Entry(i).failures + 1, Threshold})
        trips == n >= threshold
    IN  target' = [target EXCEPT ![i] =
            [Entry(i) EXCEPT !.failures = n,
                             !.ready = @ /\ ~trips,
                             !.open = @ \/ trips]]

\* The cooldown of a target ends.
CooldownEnds(i) ==
    /\ target[i] # NoTarget
    /\ target[i].open
    /\ target' = [target EXCEPT ![i].open = FALSE]
    /\ UNCHANGED <<visible, up, pc, cands, at, live, round, ids, probe>>

-----------------------------------------------------------------------------
(* A request: proxy_upstream *)

\* resolve_proxy_request, and the filter that leaves out every Gufo target that
\* has not been seen ready.
Resolve(r) ==
    /\ pc[r] = "idle"
    /\ visible # {}
    /\ pc' = [pc EXCEPT ![r] = "resolved"]
    /\ cands' = [cands EXCEPT ![r] =
         { i \in visible : i \in Gufo => Passes(i) /\ Entry(i).proven }]
    /\ UNCHANGED <<target, visible, up, at, live, round, ids, probe>>

\* select_and_acquire_target
SelectAndAcquire(r) ==
    /\ pc[r] = "resolved"
    /\ \E i \in Preferred(cands[r]) :
         /\ target' = [target EXCEPT ![i] = [Entry(i) EXCEPT !.active = @ + 1]]
         /\ at' = [at EXCEPT ![r] = i]
    /\ live' = [live EXCEPT ![r] = TRUE]
    /\ pc' = [pc EXCEPT ![r] = "sent"]
    /\ cands' = [cands EXCEPT ![r] = {}]
    /\ UNCHANGED <<visible, up, round, ids, probe>>

\* ... and its errors: 503 route_capacity or route_unavailable.
SelectFails(r) ==
    /\ pc[r] = "resolved"
    /\ Preferred(cands[r]) = {}
    /\ pc' = [pc EXCEPT ![r] = "idle"]
    /\ cands' = [cands EXCEPT ![r] = {}]
    /\ UNCHANGED <<target, visible, up, at, live, round, ids, probe>>

\* The engine sends a response that is neither 5xx nor 429.
AnswerGood(r) ==
    /\ pc[r] = "sent"
    /\ at[r] \in up
    /\ pc' = [pc EXCEPT ![r] = "good"]
    /\ UNCHANGED <<target, visible, up, cands, at, live, round, ids, probe>>

\* It sends one that is, or the connection fails or times out.
AnswerBad(r) ==
    /\ pc[r] = "sent"
    /\ pc' = [pc EXCEPT ![r] = "bad"]
    /\ UNCHANGED <<target, visible, up, cands, at, live, round, ids, probe>>

ReportGood(r) ==
    /\ pc[r] = "good"
    /\ MarkProbeSuccess(at[r], Entry(at[r]).slots)
    /\ pc' = [pc EXCEPT ![r] = "relay"]
    /\ UNCHANGED <<visible, up, cands, at, live, round, ids, probe>>

\* mark_request_failure
ReportBad(r) ==
    /\ pc[r] = "bad"
    /\ MarkProbeFailure(at[r], Threshold)
    /\ pc' = [pc EXCEPT ![r] = "relay"]
    /\ UNCHANGED <<visible, up, cands, at, live, round, ids, probe>>

\* Mutant: the count of whatever target has the name goes down.
DropPermit_AnyIdentity(r) ==
    LET i == at[r]
    IN  target' = IF target[i] # NoTarget
                  THEN [target EXCEPT ![i].active = IF @ = 0 THEN 0 ELSE @ - 1]
                  ELSE target

\* Drop for TargetRequestPermit: the count is that of the target that granted it.
DropPermit(r) ==
    LET i == at[r]
    IN  target' = IF target[i] # NoTarget /\ live[r]
                  THEN [target EXCEPT ![i].active = IF @ = 0 THEN 0 ELSE @ - 1]
                  ELSE target

\* The response has been relayed, or the request ends early: a failed check after
\* the selection, a client that goes away.
Finish(r) ==
    /\ pc[r] \in {"sent", "relay"}
    /\ DropPermit(r)
    /\ pc' = [pc EXCEPT ![r] = "idle"]
    /\ at' = [at EXCEPT ![r] = NoTarget]
    /\ live' = [live EXCEPT ![r] = FALSE]
    /\ UNCHANGED <<visible, up, cands, round, ids, probe>>

-----------------------------------------------------------------------------
(* The probes: spawn_health_probe_loop, probe_snapshot_targets, probe_target *)

RoundSnapshot ==
    /\ round = "sleep"
    /\ round' = "retain"
    /\ ids' = visible
    /\ UNCHANGED <<target, visible, up, pc, cands, at, live, probe>>

\* retain_targets.  An evicted target loses its count: its permits will find no
\* target, or another one.
RetainTargets ==
    /\ target' = [i \in Instances |-> IF i \in ids THEN target[i] ELSE NoTarget]
    /\ live' = [r \in Requests |-> live[r] /\ at[r] \in ids]

\* Mutant: an open circuit is left alone until it closes by itself.
Probed_ClosedOnly == { i \in ids : Passes(i) }

\* The targets join_all probes.
Probed == ids

RoundRetain ==
    /\ round = "retain"
    /\ RetainTargets
    /\ round' = "probe"
    /\ probe' = [i \in Instances |-> IF i \in Probed THEN "asked" ELSE "none"]
    /\ ids' = {}
    /\ UNCHANGED <<visible, up, pc, cands, at>>

\* /health, or /ready of the right model.
ProbeHealth(i) ==
    /\ probe[i] = "asked"
    /\ probe' = [probe EXCEPT ![i] = IF i \in up THEN "healthy" ELSE "failed"]
    /\ UNCHANGED <<target, visible, up, pc, cands, at, live, round, ids>>

\* After the requests for /props and /slots, each of which may fail.  What they do
\* not tell is taken from the target's capabilities, which only probes write.
ProbeSucceeds(i) ==
    /\ probe[i] = "healthy"
    /\ \E slots \in SlotCounts \cup {Entry(i).slots} : MarkProbeSuccess(i, slots)
    /\ probe' = [probe EXCEPT ![i] = "none"]
    /\ UNCHANGED <<visible, up, pc, cands, at, live, round, ids>>

ProbeFails(i) ==
    /\ probe[i] = "failed"
    /\ MarkProbeFailure(i, IF i \in Gufo THEN 1 ELSE Threshold)
    /\ probe' = [probe EXCEPT ![i] = "none"]
    /\ UNCHANGED <<visible, up, pc, cands, at, live, round, ids>>

RoundEnds ==
    /\ round = "probe"
    /\ \A i \in Instances : probe[i] = "none"
    /\ round' = "sleep"
    /\ UNCHANGED <<target, visible, up, pc, cands, at, live, ids, probe>>

-----------------------------------------------------------------------------
(* Instances start, stop, are gated by a checkpoint, hang and recover *)

Appear(i) ==
    /\ i \notin visible
    /\ visible' = visible \cup {i}
    /\ UNCHANGED <<target, up, pc, cands, at, live, round, ids, probe>>

Disappear(i) ==
    /\ i \in visible
    /\ visible' = visible \ {i}
    /\ UNCHANGED <<target, up, pc, cands, at, live, round, ids, probe>>

EngineUp(i) ==
    /\ i \notin up
    /\ up' = up \cup {i}
    /\ UNCHANGED <<target, visible, pc, cands, at, live, round, ids, probe>>

EngineDown(i) ==
    /\ i \in up
    /\ up' = up \ {i}
    /\ UNCHANGED <<target, visible, pc, cands, at, live, round, ids, probe>>

-----------------------------------------------------------------------------
TargetsInit ==
    /\ target = [i \in Instances |-> NoTarget]
    /\ visible \in SUBSET Instances
    /\ up \in SUBSET Instances
    /\ pc = [r \in Requests |-> "idle"]
    /\ cands = [r \in Requests |-> {}]
    /\ at = [r \in Requests |-> NoTarget]
    /\ live = [r \in Requests |-> FALSE]
    /\ round = "sleep"
    /\ ids = {}
    /\ probe = [i \in Instances |-> "none"]

ProbeStep ==
    \/ RoundSnapshot \/ RoundRetain \/ RoundEnds
    \/ \E i \in Instances : ProbeHealth(i) \/ ProbeSucceeds(i) \/ ProbeFails(i)

TargetsNext ==
    \/ RoundSnapshot \/ RoundRetain \/ RoundEnds
    \/ \E i \in Instances :
         \/ ProbeHealth(i) \/ ProbeSucceeds(i) \/ ProbeFails(i)
         \/ CooldownEnds(i)
         \/ Appear(i) \/ Disappear(i) \/ EngineUp(i) \/ EngineDown(i)
    \/ \E r \in Requests :
         \/ Resolve(r) \/ SelectAndAcquire(r) \/ SelectFails(r)
         \/ AnswerGood(r) \/ AnswerBad(r) \/ ReportGood(r) \/ ReportBad(r)
         \/ Finish(r)

\* The probe loop goes on, and its requests are answered or time out.
Fairness ==
    /\ WF_targetVars(RoundSnapshot)
    /\ WF_targetVars(RoundRetain)
    /\ WF_targetVars(RoundEnds)
    /\ \A i \in Instances :
         /\ WF_targetVars(ProbeHealth(i))
         /\ WF_targetVars(ProbeSucceeds(i))
         /\ WF_targetVars(ProbeFails(i))
         /\ WF_targetVars(CooldownEnds(i))

TargetsSpec == TargetsInit /\ [][TargetsNext]_targetVars

FairTargets == TargetsSpec /\ Fairness

-----------------------------------------------------------------------------
(* Properties *)

Permits(i) == { r \in Requests : pc[r] \in Holding /\ at[r] = i /\ live[r] }

\* The count of a target is the number of permits it has granted that are not yet
\* dropped, whatever was evicted and recreated under its name in between: no
\* permit of an earlier target frees capacity of a later one, and none is lost
\* (Drop for TargetRequestPermit against retain_targets).
PermitsBalanced ==
    /\ \A i \in Instances :
         target[i] # NoTarget => target[i].active = Cardinality(Permits(i))
    /\ \A r \in Requests : live[r] => target[at[r]] # NoTarget

\* However requests race for a target, it has never granted more permits at a time
\* than its route allows (select_and_acquire_target checks and counts under one
\* lock).
ConcurrencyBounded ==
    \A i \in Instances :
        MaxConcurrent > 0 => Cardinality(Permits(i)) <= MaxConcurrent

\* Capacity is counted truly and never exceeded, across evictions of the target.
PermitsSound == TargetsTypeOK /\ PermitsBalanced /\ ConcurrencyBounded

\* The breaker follows the engine although reports arrive late and under the name
\* of the instance only: an engine that stays down is excluded for good, whatever
\* successes were still to be reported, and one that stays up is let through again
\* and again, whatever failures were (mark_probe_success, mark_probe_failure).
BreakerFollowsEngine ==
    \A i \in Instances :
        /\ <>[](i \in visible /\ i \notin up) => <>[](~Passes(i))
        /\ <>[](i \in visible /\ i \in up) => []<>Passes(i)
==============================================================================
