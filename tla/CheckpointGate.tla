---------------------------- MODULE CheckpointGate ----------------------------
(***************************************************************************)
(* The routing gate of one instance in the runtime daemon.                 *)
(*                                                                         *)
(* checkpoint.rs keeps, per instance, the phase of the current process     *)
(* (CheckpointCoordinator); supervisor.rs starts, stops and monitors the   *)
(* process; checkpoint_idle.rs saves while nobody asks; the router         *)
(* (proxy.rs, proxy_runtime.rs) resolves a request against the gate and    *)
(* takes a counted permit on the target before it sends.                   *)
(*                                                                         *)
(* Each locked section of the coordinator is one action.  The lifecycle    *)
(* mutex serialises stop, recovery, idle save and start, so the operation  *)
(* that holds it is the single variable op; the monitor threads (one per   *)
(* process, also of processes that are gone) restore WITHOUT that mutex.   *)
(***************************************************************************)
EXTENDS Naturals, FiniteSets

CONSTANTS
    Requests,     \* router requests
    MaxPid,       \* bound: processes started in one behaviour
    None          \* no phase to resume

ASSUME GateAssumption ==
    /\ IsFiniteSet(Requests)
    /\ MaxPid \in Nat \ {0}
    /\ None \notin STRING

VARIABLES
    entry,        \* the CoordinatorEntry of the instance
    running,      \* state.running: the pid recorded for the instance, 0 = none
    alive,        \* the pid of the live engine process, 0 = none
    launched,     \* number of processes started so far
    op,           \* the operation that holds instance_lifecycle
    mon,          \* where the monitor thread of each process is
    req,          \* where each request is
    counted,      \* requests counted in the current target's active_requests
    probe,        \* the health-probe round: the gate as its snapshot saw it
    poisoned,     \* history: processes whose restore failed half way
    recovery,     \* history: processes started to replace a poisoned one
    unkillable    \* history: processes that survived a termination

gateVars == <<entry, running, alive, launched, op, mon, req, counted, probe,
          poisoned, recovery, unkillable>>
router  == <<req, counted, probe>>
ghosts == <<poisoned, recovery, unkillable>>

Pids == 1 .. MaxPid
RoutablePhases == {"Ready", "ReadyCold"}
Phases == RoutablePhases \cup
    {"Disabled", "Starting", "EngineHealthy", "Restoring", "RestartRequired",
     "Draining", "Saving", "Stopping", "Stopped"}

EntryType == [pid : 0 .. MaxPid, gate : BOOLEAN, stop : BOOLEAN, phase : Phases,
              routable : BOOLEAN, cold : BOOLEAN]
\* kind: the caller; step: where it is in stop_instance_locked or poll.
OpType == [kind : {"none", "stop", "recover", "idle"}, pid : 0 .. MaxPid,
           step : {"free", "request", "decide", "ready", "unready", "drain", "saving",
                   "kill", "start", "recheck", "resume"},
           resume : RoutablePhases \cup {None}]
Free == [kind |-> "none", pid |-> 0, step |-> "free", resume |-> None]

\* none - no such process yet; startup - top of the monitor loop; probing - the
\* readiness probe answered; loading - EngineHealthy, looking for a checkpoint;
\* restoring - slots are being written; settled - restore_or_cold returned;
\* recover - about to replace the process; watch - startup resolved; done.
MonitorSteps == {"none", "startup", "probing", "loading", "restoring", "settled",
                 "recover", "watch", "done"}
\* idle; candidate - found in the running map; resolved - let through the gate;
\* holding - target permit taken; sent - the engine is working on it.
RequestSteps == {"idle", "candidate", "resolved", "holding", "sent"}

GateTypeOK ==
    /\ entry \in EntryType
    /\ running \in 0 .. MaxPid
    /\ alive \in 0 .. MaxPid
    /\ launched \in 0 .. MaxPid
    /\ op \in OpType
    /\ mon \in [Pids -> MonitorSteps]
    /\ req \in [Requests -> RequestSteps]
    /\ counted \in SUBSET Requests
    /\ probe \in {"waiting", "open", "closed"}
    /\ poisoned \in SUBSET Pids
    /\ recovery \in SUBSET Pids
    /\ unkillable \in SUBSET Pids

-----------------------------------------------------------------------------
(* CheckpointCoordinator *)

\* legal_checkpoint_transition
Legal ==
    { <<"Starting", "EngineHealthy">>, <<"Starting", "Stopping">>,
      <<"EngineHealthy", "Restoring">>, <<"EngineHealthy", "ReadyCold">>,
      <<"EngineHealthy", "Stopping">>,
      <<"Restoring", "Ready">>, <<"Restoring", "ReadyCold">>,
      <<"Restoring", "RestartRequired">>, <<"Restoring", "Stopping">>,
      <<"RestartRequired", "Stopping">>,
      <<"Ready", "Draining">>, <<"ReadyCold", "Draining">>,
      <<"Ready", "Stopping">>, <<"ReadyCold", "Stopping">>,
      <<"Draining", "Saving">>, <<"Draining", "Stopping">>, <<"Saving", "Stopping">>,
      <<"Stopping", "Stopped">>, <<"Stopping", "Ready">>, <<"Stopping", "ReadyCold">>,
      <<"Disabled", "Stopped">> }

GateAllows == ~entry.stop /\ (~entry.gate \/ entry.routable)

\* Mutant: an event is not checked against the process it belongs to.
CanMove_anyPid(p, next) == <<entry.phase, next>> \in Legal

CanMove(p, next) == entry.pid = p /\ <<entry.phase, next>> \in Legal

\* transition(): an illegal or stale transition is an error and changes nothing.
Move(p, next) ==
    entry' = IF CanMove(p, next)
             THEN [entry EXCEPT !.phase = next,
                                !.routable = ~entry.stop /\ next \in RoutablePhases]
             ELSE entry

\* Mutant: the stop request is not remembered, only today's phase is closed.
RequestStop_forgotten(p, stopping) ==
    entry' = IF entry.pid = p THEN [entry EXCEPT !.routable = FALSE] ELSE entry

RequestStop(p, stopping) ==
    entry' = IF entry.pid = p
             THEN [entry EXCEPT !.stop = stopping,
                     !.routable = ~stopping /\ (~entry.gate \/ entry.phase \in RoutablePhases)]
             ELSE entry

\* mark_stopped, or mark_unexpected_exit when that refuses.
MarkStopped(p) ==
    entry' = IF entry.pid = p
             THEN [entry EXCEPT !.gate = FALSE, !.phase = "Stopped", !.routable = FALSE]
             ELSE entry

RestartRequired(p) == entry.pid = p /\ entry.phase = "RestartRequired"

\* Mutant: a failed restore always ends as a cold start of the same process.
RestoreFailure_cold(p) == Move(p, "ReadyCold")

\* restore_failure: only a failure that is seen in phase Restoring closes the gate.
RestoreFailure(p) ==
    Move(p, IF entry.phase = "Restoring" THEN "RestartRequired" ELSE "ReadyCold")

-----------------------------------------------------------------------------
(* start_instance_locked *)

\* register_start_with_context, prepare_cold_recovery, the insertion into
\* state.running and spawn_instance_monitor.
Launch(eligible, cold) ==
    /\ launched < MaxPid
    /\ launched' = launched + 1
    /\ running' = launched + 1
    /\ alive' = launched + 1
    /\ entry' = [pid |-> launched + 1, gate |-> eligible, stop |-> FALSE,
                 phase |-> IF eligible THEN "Starting" ELSE "Disabled",
                 routable |-> ~eligible, cold |-> cold /\ eligible]
    /\ mon' = [mon EXCEPT ![launched + 1] = "startup"]

\* A start is refused while the recorded process is alive.
StartInstance ==
    /\ op = Free
    /\ running = 0 \/ alive # running
    /\ \E eligible \in BOOLEAN : Launch(eligible, FALSE)
    /\ UNCHANGED <<op, router, ghosts>>

\* The new process was registered but the state could not be persisted: it is
\* killed and waited for, and unregistered, before the lifecycle mutex is freed.
StartRolledBack ==
    /\ op = Free \/ op.step = "start"
    /\ running = 0 \/ alive # running
    /\ launched < MaxPid
    /\ launched' = launched + 1
    /\ running' = 0
    /\ alive' = 0
    /\ entry' = [pid |-> launched + 1, gate |-> FALSE, stop |-> FALSE,
                 phase |-> "Stopped", routable |-> FALSE, cold |-> FALSE]
    /\ op' = Free
    /\ UNCHANGED <<mon, router, ghosts>>

-----------------------------------------------------------------------------
(* stop_instance_locked with checkpoint_before_termination *)

\* A user stops the instance: the lifecycle mutex is taken.  A recorded process
\* that is already dead is cleaned up without a drain.
StopInstance ==
    /\ op = Free
    /\ running # 0
    /\ op' = [kind |-> "stop", pid |-> running,
              step |-> IF alive = running THEN "request" ELSE "kill", resume |-> None]
    /\ IF alive = running THEN UNCHANGED entry ELSE MarkStopped(running)
    /\ UNCHANGED <<running, alive, launched, mon, router, ghosts>>

\* request_stop(true), and the early return when there is no gate.
StopRequest ==
    /\ op.step = "request"
    /\ RequestStop(op.pid, TRUE)
    /\ op' = [op EXCEPT !.step = IF entry.gate THEN "decide" ELSE "kill"]
    /\ UNCHANGED <<running, alive, launched, mon, router, ghosts>>

\* The phase is read; the transition it leads to is a later critical section.
StopDecide ==
    /\ op.step = "decide"
    /\ op' = [op EXCEPT
         !.step = CASE entry.phase \in RoutablePhases -> "ready"
                    [] entry.phase \in {"Starting", "EngineHealthy", "Restoring",
                                        "RestartRequired"} -> "unready"
                    [] OTHER -> "kill",
         !.resume = IF entry.phase \in RoutablePhases THEN entry.phase ELSE None]
    /\ UNCHANGED <<entry, running, alive, launched, mon, router, ghosts>>

\* skip_save_not_ready
StopUnready ==
    /\ op.step = "unready"
    /\ Move(op.pid, "Stopping")
    /\ op' = [op EXCEPT !.step = "kill"]
    /\ UNCHANGED <<running, alive, launched, mon, router, ghosts>>

\* begin_draining; if it fails there is nothing to resume either.
StopReady ==
    /\ op.step = "ready"
    /\ Move(op.pid, "Draining")
    /\ op' = IF CanMove(op.pid, "Draining") THEN [op EXCEPT !.step = "drain"]
             ELSE [op EXCEPT !.step = "kill", !.resume = None]
    /\ UNCHANGED <<running, alive, launched, mon, router, ghosts>>

Processing == { r \in Requests : req[r] = "sent" }

\* The engine's connections break; the handlers still hold their permits.
Disconnect == req' = [r \in Requests |-> IF req[r] = "sent" THEN "holding" ELSE req[r]]

\* The router counts nothing and every slot is idle: save_before_stop starts.
StopDrained ==
    /\ op.step = "drain"
    /\ counted = {}
    /\ Processing = {}
    /\ Move(op.pid, "Saving")
    /\ op' = [op EXCEPT !.step = "saving"]
    /\ UNCHANGED <<running, alive, launched, mon, router, ghosts>>

\* CHECKPOINT_DRAIN_TIMEOUT, a failed slot probe, or save turned off.
StopSkipSave ==
    /\ op.step = "drain"
    /\ Move(op.pid, "Stopping")
    /\ op' = [op EXCEPT !.step = "kill"]
    /\ UNCHANGED <<running, alive, launched, mon, router, ghosts>>

\* save_before_stop ends, with or without a committed generation.
StopSaved ==
    /\ op.kind # "idle"
    /\ op.step = "saving"
    /\ Move(op.pid, "Stopping")
    /\ op' = [op EXCEPT !.step = "kill"]
    /\ UNCHANGED <<running, alive, launched, mon, router, ghosts>>

\* terminate_running_instance succeeds, or the process is gone by itself.  A
\* recovery goes on to start the replacement under the same lock.
KillSucceeds ==
    /\ op.step = "kill"
    /\ alive' = 0
    /\ Disconnect
    /\ MarkStopped(op.pid)
    /\ running' = 0
    /\ op' = IF op.kind = "recover" THEN [op EXCEPT !.step = "start"] ELSE Free
    /\ UNCHANGED <<launched, mon, counted, probe, ghosts>>

\* Mutant: the survivor is dropped from the instance map.
KillFails_untracked ==
    /\ op.step = "kill"
    /\ alive = op.pid
    /\ RequestStop(op.pid, FALSE)
    /\ running' = 0
    /\ unkillable' = unkillable \cup {op.pid}
    /\ op' = Free
    /\ UNCHANGED <<alive, launched, mon, router, poisoned, recovery>>

\* The process survives: the request is withdrawn; what was drained is reopened.
KillFails ==
    /\ op.step = "kill"
    /\ alive = op.pid
    /\ RequestStop(op.pid, FALSE)
    /\ unkillable' = unkillable \cup {op.pid}
    /\ op' = IF op.resume = None THEN Free ELSE [op EXCEPT !.step = "resume"]
    /\ UNCHANGED <<running, alive, launched, mon, router, poisoned, recovery>>

\* Mutant: the gate stays closed when the process was kept after all.
Resume_stays ==
    /\ op.step = "resume"
    /\ op' = Free
    /\ UNCHANGED <<entry, running, alive, launched, mon, router, ghosts>>

\* resume_after_stop_failure, after a failed termination and after an idle save.
Resume ==
    /\ op.step = "resume"
    /\ Move(op.pid, op.resume)
    /\ op' = Free
    /\ UNCHANGED <<running, alive, launched, mon, router, ghosts>>

\* recover_checkpoint_process starts the replacement, which must not restore.
RecoveryStart ==
    /\ op.step = "start"
    /\ \E eligible \in BOOLEAN : Launch(eligible, TRUE)
    /\ recovery' = recovery \cup {launched'}
    /\ op' = Free
    /\ UNCHANGED <<router, poisoned, unkillable>>

\* The stop could not be persisted, or the replacement cannot be spawned.
RecoveryStartFails ==
    /\ op.step = "start"
    /\ op' = Free
    /\ UNCHANGED <<entry, running, alive, launched, mon, router, ghosts>>

-----------------------------------------------------------------------------
(* The engine process, and record_process_exit *)

ProcessDies ==
    /\ alive # 0
    /\ alive' = 0
    /\ Disconnect
    /\ UNCHANGED <<entry, running, launched, op, mon, counted, probe, ghosts>>

RecordProcessExit ==
    /\ op = Free
    /\ running # 0
    /\ alive # running
    /\ running' = 0
    /\ MarkStopped(running)
    /\ UNCHANGED <<alive, launched, op, mon, router, ghosts>>

-----------------------------------------------------------------------------
(* spawn_instance_monitor and resolve_checkpoint_startup *)

To(p, step) == mon' = [mon EXCEPT ![p] = step]

\* Top of the loop: the thread ends when its process is no longer the current
\* one; otherwise the readiness probe runs and succeeds.
MonitorProbe(p) ==
    /\ mon[p] = "startup"
    /\ To(p, IF running = p /\ alive = p THEN "probing" ELSE "done")
    /\ UNCHANGED <<entry, running, alive, launched, op, router, ghosts>>

\* on_engine_healthy; gate_active is asked about the instance, not the process.
MonitorHealthy(p) ==
    /\ mon[p] = "probing"
    /\ IF ~entry.gate
       THEN To(p, "watch") /\ UNCHANGED entry
       ELSE IF RestartRequired(p) \/ ~CanMove(p, "EngineHealthy")
       THEN To(p, "settled") /\ UNCHANGED entry
       ELSE To(p, "loading") /\ Move(p, "EngineHealthy")
    /\ UNCHANGED <<running, alive, launched, op, router, ghosts>>

\* A compatible generation was found and the slots are idle.
MonitorRestore(p) ==
    /\ mon[p] = "loading"
    /\ entry.gate
    /\ ~entry.cold
    /\ CanMove(p, "Restoring")
    /\ Move(p, "Restoring")
    /\ To(p, "restoring")
    /\ UNCHANGED <<running, alive, launched, op, router, ghosts>>

\* Nothing to restore (restore off, no or another fingerprint, no generation).
MonitorCold(p) ==
    /\ mon[p] = "loading"
    /\ IF entry.gate THEN Move(p, "ReadyCold") ELSE UNCHANGED entry
    /\ To(p, "settled")
    /\ UNCHANGED <<running, alive, launched, op, router, ghosts>>

\* An error before any slot was written: load_latest, health, the slot set, or
\* the transition to Restoring itself.
MonitorLoadFails(p) ==
    /\ mon[p] = "loading"
    /\ entry.gate
    /\ ~entry.cold
    /\ RestoreFailure(p)
    /\ To(p, "settled")
    /\ UNCHANGED <<running, alive, launched, op, router, ghosts>>

\* All slots restored and verified.
MonitorRestored(p) ==
    /\ mon[p] = "restoring"
    /\ alive = p
    /\ Move(p, "Ready")
    /\ To(p, "settled")
    /\ UNCHANGED <<running, alive, launched, op, router, ghosts>>

\* A slot could not be restored or verified: the process memory is suspect.
MonitorRestoreFails(p) ==
    /\ mon[p] = "restoring"
    /\ poisoned' = poisoned \cup {p}
    /\ RestoreFailure(p)
    /\ To(p, "settled")
    /\ UNCHANGED <<running, alive, launched, op, router, recovery, unkillable>>

\* Back in the loop: replace the process, keep watching it, or try again.
MonitorSettled(p) ==
    /\ mon[p] = "settled"
    /\ To(p, CASE RestartRequired(p) -> "recover"
               [] ~RestartRequired(p) /\ GateAllows -> "watch"
               [] OTHER -> "startup")
    /\ UNCHANGED <<entry, running, alive, launched, op, router, ghosts>>

\* recover_checkpoint_process: a stop and a cold start under one lock.
MonitorRecover(p) ==
    /\ mon[p] = "recover"
    /\ op = Free
    /\ To(p, "done")
    /\ IF running = p /\ RestartRequired(p)
       THEN IF alive = p
            THEN /\ op' = [kind |-> "recover", pid |-> p, step |-> "request", resume |-> None]
                 /\ UNCHANGED entry
            ELSE /\ op' = [kind |-> "recover", pid |-> p, step |-> "kill", resume |-> None]
                 /\ MarkStopped(p)
       ELSE UNCHANGED <<op, entry>>
    /\ UNCHANGED <<running, alive, launched, router, ghosts>>

\* The loop of a monitor that is not inside poll finds its process gone.
MonitorEnds(p) ==
    /\ mon[p] = "watch"
    /\ ~(op.kind = "idle" /\ op.pid = p)
    /\ running # p \/ alive # p
    /\ To(p, "done")
    /\ UNCHANGED <<entry, running, alive, launched, op, router, ghosts>>

-----------------------------------------------------------------------------
(* checkpoint_idle::poll, called by the monitor with the lifecycle mutex held *)

\* idle_save_due and begin_draining.
IdleClose(p) ==
    /\ mon[p] = "watch"
    /\ op = Free
    /\ running = p
    /\ alive = p
    /\ entry.pid = p /\ entry.gate /\ ~entry.stop /\ entry.phase \in RoutablePhases
    /\ counted = {}
    /\ Processing = {}
    /\ op' = [kind |-> "idle", pid |-> p, step |-> "recheck", resume |-> entry.phase]
    /\ Move(p, "Draining")
    /\ UNCHANGED <<running, alive, launched, mon, router, ghosts>>

\* The gate is closed: is the router idle now?  Then the slots are looked at.
IdleRecheck ==
    /\ op.step = "recheck"
    /\ IF counted = {} /\ Processing = {}
       THEN Move(op.pid, "Saving") /\ op' = [op EXCEPT !.step = "saving"]
       ELSE Move(op.pid, "Stopping") /\ op' = [op EXCEPT !.step = "resume"]
    /\ UNCHANGED <<running, alive, launched, mon, router, ghosts>>

IdleSaved ==
    /\ op.kind = "idle"
    /\ op.step = "saving"
    /\ Move(op.pid, "Stopping")
    /\ op' = [op EXCEPT !.step = "resume"]
    /\ UNCHANGED <<running, alive, launched, mon, router, ghosts>>

-----------------------------------------------------------------------------
(* The router: proxy_upstream and the health-probe loop *)

\* resolve_proxy_request reads the running map, releases state ...
LookUp(r) ==
    /\ req[r] = "idle"
    /\ running # 0
    /\ req' = [req EXCEPT ![r] = "candidate"]
    /\ UNCHANGED <<entry, running, alive, launched, op, mon, counted, probe, ghosts>>

\* ... and then asks the coordinator; a gated instance is no candidate.
Resolve(r) ==
    /\ req[r] = "candidate"
    /\ req' = [req EXCEPT ![r] = IF GateAllows THEN "resolved" ELSE "idle"]
    /\ UNCHANGED <<entry, running, alive, launched, op, mon, counted, probe, ghosts>>

\* select_and_acquire_target: active_requests is counted, the gate is not read.
Acquire(r) ==
    /\ req[r] = "resolved"
    /\ req' = [req EXCEPT ![r] = "holding"]
    /\ counted' = counted \cup {r}
    /\ UNCHANGED <<entry, running, alive, launched, op, mon, probe, ghosts>>

\* The request reaches the process that listens on the instance's port.
Send(r) ==
    /\ req[r] = "holding"
    /\ alive # 0
    /\ req' = [req EXCEPT ![r] = "sent"]
    /\ UNCHANGED <<entry, running, alive, launched, op, mon, counted, probe, ghosts>>

\* The response ends, or the request fails or is cancelled: the permit is
\* dropped.  It decrements only the entry it was counted in.
Finish(r) ==
    /\ req[r] \in {"holding", "sent"}
    /\ req' = [req EXCEPT ![r] = "idle"]
    /\ counted' = counted \ {r}
    /\ UNCHANGED <<entry, running, alive, launched, op, mon, probe, ghosts>>

\* probe_snapshot_targets: proxy_snapshot, then retain_targets some time later.
ProbeSnapshot ==
    /\ probe = "waiting"
    /\ probe' = IF running # 0 /\ GateAllows THEN "open" ELSE "closed"
    /\ UNCHANGED <<entry, running, alive, launched, op, mon, req, counted, ghosts>>

RetainTargets ==
    /\ probe # "waiting"
    /\ counted' = IF probe = "closed" THEN {} ELSE counted
    /\ probe' = "waiting"
    /\ UNCHANGED <<entry, running, alive, launched, op, mon, req, ghosts>>

-----------------------------------------------------------------------------

GateInit ==
    /\ entry = [pid |-> 0, gate |-> FALSE, stop |-> FALSE, phase |-> "Stopped",
                routable |-> FALSE, cold |-> FALSE]
    /\ running = 0
    /\ alive = 0
    /\ launched = 0
    /\ op = Free
    /\ mon = [p \in Pids |-> "none"]
    /\ req = [r \in Requests |-> "idle"]
    /\ counted = {}
    /\ probe = "waiting"
    /\ poisoned = {}
    /\ recovery = {}
    /\ unkillable = {}

\* What the holder of the lifecycle mutex does next.
OpStep ==
    \/ StopRequest \/ StopDecide \/ StopUnready \/ StopReady
    \/ StopDrained \/ StopSkipSave \/ StopSaved
    \/ KillSucceeds \/ KillFails
    \/ RecoveryStart \/ RecoveryStartFails
    \/ IdleRecheck \/ IdleSaved
    \/ Resume

\* What a monitor thread does without being asked, idle saves apart.
MonitorStep(p) ==
    \/ MonitorProbe(p) \/ MonitorHealthy(p)
    \/ MonitorRestore(p) \/ MonitorCold(p) \/ MonitorLoadFails(p)
    \/ MonitorRestored(p) \/ MonitorRestoreFails(p)
    \/ MonitorSettled(p) \/ MonitorRecover(p) \/ MonitorEnds(p)

RequestStep(r) == LookUp(r) \/ Resolve(r) \/ Acquire(r) \/ Send(r) \/ Finish(r)

GateNext ==
    \/ StartInstance
    \/ StartRolledBack
    \/ StopInstance
    \/ OpStep
    \/ \E p \in Pids : MonitorStep(p) \/ IdleClose(p)
    \/ \E r \in Requests : RequestStep(r)
    \/ ProbeSnapshot
    \/ RetainTargets
    \/ ProcessDies
    \/ RecordProcessExit

GateSpec == GateInit /\ [][GateNext]_gateVars

\* Threads that have something to do get to do it: the holder of the lifecycle
\* mutex, every monitor and the exit watcher.  Requests owe nothing.
FairGate ==
    /\ GateSpec
    /\ WF_gateVars(OpStep)
    /\ \A p \in Pids : WF_gateVars(MonitorStep(p))
    /\ WF_gateVars(RecordProcessExit)

-----------------------------------------------------------------------------
(* Properties *)

\* status.routable, the flag requests are gated by, always agrees with the stop
\* request and the phase, although request_stop and transition set it on
\* different threads and in either order.
RoutableIsDerived ==
    entry.gate => (entry.routable <=> ~entry.stop /\ entry.phase \in RoutablePhases)

\* From request_stop(true) until the stop is over or withdrawn, no request is
\* routed to the process - not even when the monitor finishes a restore in the
\* middle of the stop and moves the phase to Ready.
StopClosesRouting ==
    /\ op.kind \in {"stop", "recover"}
    /\ op.step \notin {"request", "resume", "start"}
    /\ entry.pid = op.pid
    /\ alive = op.pid
    => ~GateAllows

\* The instance map never loses a live process, and no second one is started
\* next to it: a stop, a recovery or an exit record is always about the process
\* that is alive.
NoOrphanProcess == alive # 0 => running = alive /\ entry.pid = alive

\* Requests may be routed to a live process whose slot memory is suspect.
RoutesPoisoned(p) == p \in poisoned /\ alive = p /\ running = p /\ GateAllows

\* "Routing stays closed until replacement" (restore_or_cold), stated for the
\* processes that die when they are told to.
RestoreFailureContained == \A p \in Pids : RoutesPoisoned(p) => p \in unkillable

\* The same, as the comment in restore_or_cold has it: without exception.
PoisonedNeverRoutes == \A p \in Pids : ~RoutesPoisoned(p)

\* The process that replaces a poisoned one never restores the checkpoint that
\* failed: recovery cannot loop.
RecoveryStartsCold == \A p \in recovery : mon[p] # "restoring"

\* A failed restore does no further harm: its process is not routed to, and the
\* one that replaces it starts cold (restore_failure, prepare_cold_recovery).
RestoreContained == RestoreFailureContained /\ RecoveryStartsCold

\* "Recheck proxy admission after closing the gate" (checkpoint_idle::poll):
\* while slots are being saved the engine works on no request of the router.
QuiescentSave == entry.phase = "Saving" => Processing = {}

\* A monitor that outlived its process changes nothing for the next one.
StaleEventsIgnored ==
    [][ \A p \in Pids :
          mon[p] # "none" /\ mon'[p] # mon[p] /\ entry' # entry => entry.pid = p ]_gateVars

\* A live process with a gate is routable again and again, or goes away: no
\* interleaving of restore, idle save, stop and recovery leaves it alive behind
\* a closed gate - as long as processes die when they are told to.
GateReopens ==
    [](unkillable = {}) =>
        \A p \in Pids : alive = p ~> GateAllows \/ alive # p
==============================================================================
