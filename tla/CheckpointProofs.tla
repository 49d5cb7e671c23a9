--------------------------- MODULE CheckpointProofs ---------------------------
(***************************************************************************)
(* The lifecycle gate, for any number of requests and processes: no        *)
(* request reaches a process that is stopping, or one whose restore failed *)
(* half way, and no process is lost.                                       *)
(*                                                                         *)
(* The checkpoint store, for any number of generations, slots and launch   *)
(* configurations: what a crash, a failed step or a half-finished removal  *)
(* leaves behind is never taken for a checkpoint, and what was             *)
(* acknowledged survives.                                                  *)
(***************************************************************************)
EXTENDS CheckpointGate, CheckpointStore, FiniteSetTheorems, NaturalsInduction,
        WellFoundedInduction, TLAPS

-----------------------------------------------------------------------------
(* The lifecycle gate *)

StopSteps == {"decide", "ready", "unready", "drain", "saving", "kill"}

\* Which steps belong to which operation, and whose process it works on.
OpShape ==
    /\ op.kind = "none" => op = Free
    /\ op.kind = "idle" => op.step \in {"recheck", "saving", "resume"}
    /\ op.kind \in {"stop", "recover"}
          => op.step \in StopSteps \cup {"request", "start", "resume"}
    /\ op.step = "start" => alive = 0
    /\ op.kind # "none" /\ op.step # "start" => op.pid = launched /\ op.pid # 0
    /\ op.step = "resume" => op.resume \in RoutablePhases
    /\ op.kind = "idle" => op.resume \in RoutablePhases
    /\ op.kind \in {"stop", "recover"} /\ op.step = "resume" => op.pid \in unkillable

\* The coordinator, the instance map and the live process are about one pid.
Tracking ==
    /\ entry.pid = launched
    /\ running # 0 => running = launched
    /\ alive # 0 => running = alive

\* The stop request stands as long as the stop is under way.
StopStands ==
    op.kind \in {"stop", "recover"} /\ op.step \in StopSteps /\ alive = op.pid => entry.stop

\* An idle save runs on the monitor thread and owns the phase.
IdleOwnsPhase ==
    op.kind = "idle" =>
        /\ mon[op.pid] = "watch"
        /\ entry.gate
        /\ op.step = "recheck" => entry.phase = "Draining"
        /\ op.step = "saving" => entry.phase = "Saving"
        /\ op.step = "resume" => entry.phase = "Stopping"

\* The process is about to be killed and no request can come back to it.
Condemned(p) == op.kind \in {"stop", "recover"} /\ op.pid = p /\ op.step = "kill" /\ entry.stop

\* What the phase can be while a process is being restored, and after its
\* restore has failed.
RestorePhase(p) ==
    /\ mon[p] = "loading" /\ entry.gate =>
          entry.phase = "EngineHealthy" \/ (entry.phase = "Stopping" /\ Condemned(p))
    /\ mon[p] = "restoring" =>
          /\ entry.gate
          /\ entry.phase = "Restoring" \/ (entry.phase = "Stopping" /\ Condemned(p))
    /\ p \in poisoned =>
          /\ entry.gate
          /\ mon[p] \notin {"none", "loading", "restoring"}
          /\ \/ entry.phase = "RestartRequired"
             \/ entry.phase \in {"Stopping", "ReadyCold"} /\ Condemned(p)

RestorePhases == \A p \in Pids : alive = p /\ p \notin unkillable => RestorePhase(p)

\* A replacement never restores; nothing is known about processes to come.
ColdRecovery ==
    \A p \in Pids :
        /\ p \in recovery => /\ entry.pid = p => entry.cold \/ ~entry.gate
                             /\ mon[p] # "restoring"
        /\ p > launched => /\ mon[p] = "none"
                           /\ p \notin recovery /\ p \notin poisoned /\ p \notin unkillable

GateInv ==
    /\ GateTypeOK
    /\ OpShape
    /\ Tracking
    /\ RoutableIsDerived
    /\ StopStands
    /\ IdleOwnsPhase
    /\ RestorePhases
    /\ ColdRecovery

USE GateAssumption

-----------------------------------------------------------------------------
(* What the operations of the coordinator do to the entry *)

\* transition(): nothing but the phase and the flag derived from it.
LEMMA MoveEffect ==
    ASSUME GateTypeOK, NEW q, NEW next \in Phases, Move(q, next)
    PROVE  /\ entry' \in EntryType
           /\ entry'.pid = entry.pid /\ entry'.gate = entry.gate
           /\ entry'.stop = entry.stop /\ entry'.cold = entry.cold
           /\ CanMove(q, next) =>
                 /\ entry'.phase = next
                 /\ entry'.routable <=> ~entry.stop /\ next \in RoutablePhases
           /\ ~CanMove(q, next) => entry' = entry
  BY DEF Move, GateTypeOK, EntryType

\* request_stop(): nothing but the request and the flag derived from it.
LEMMA RequestStopEffect ==
    ASSUME GateTypeOK, NEW q, NEW s \in BOOLEAN, RequestStop(q, s)
    PROVE  /\ entry' \in EntryType
           /\ entry'.pid = entry.pid /\ entry'.gate = entry.gate
           /\ entry'.phase = entry.phase /\ entry'.cold = entry.cold
           /\ entry.pid = q =>
                 /\ entry'.stop = s
                 /\ entry'.routable <=> ~s /\ (~entry.gate \/ entry.phase \in RoutablePhases)
           /\ entry.pid # q => entry' = entry
  BY DEF RequestStop, GateTypeOK, EntryType

\* mark_stopped(): the gate is removed, the request stays.
LEMMA MarkStoppedEffect ==
    ASSUME GateTypeOK, NEW q, MarkStopped(q)
    PROVE  /\ entry' \in EntryType
           /\ entry'.pid = entry.pid /\ entry'.stop = entry.stop /\ entry'.cold = entry.cold
           /\ entry.pid = q => ~entry'.gate /\ entry'.phase = "Stopped" /\ ~entry'.routable
           /\ entry.pid # q => entry' = entry
  BY DEF MarkStopped, GateTypeOK, EntryType, Phases

-----------------------------------------------------------------------------
(* The invariant is inductive *)

\* Starting an instance keeps the invariant.
LEMMA LaunchKeeps ==
    ASSUME GateInv,
           \/ StartInstance \/ StartRolledBack \/ RecoveryStart
           \/ RecoveryStartFails
    PROVE  GateInv'
<1>1. CASE StartInstance
  <2>1. GateTypeOK'
    BY <1>1 DEF GateInv, StartInstance, Launch, router, ghosts, GateTypeOK, EntryType, Phases,
        RoutablePhases, Pids, MonitorSteps, RequestSteps
  <2>2. OpShape'
    BY <1>1 DEF GateInv, StartInstance, Free, Launch, OpShape
  <2>3. Tracking'
    BY <1>1 DEF GateInv, StartInstance, Launch, Tracking
  <2>4. RoutableIsDerived'
    BY <1>1 DEF GateInv, StartInstance, Launch, GateTypeOK, EntryType, Phases, RoutablePhases,
        RoutableIsDerived
  <2>5. StopStands'
    BY <1>1 DEF GateInv, StartInstance, Free, Launch, StopStands
  <2>6. IdleOwnsPhase'
    BY <1>1 DEF GateInv, StartInstance, Free, Launch, IdleOwnsPhase
  <2>7. RestorePhases'
    BY <1>1 DEF GateInv, StartInstance, Launch, ghosts, GateTypeOK, RestorePhases,
        RestorePhase, Condemned, ColdRecovery
  <2>8. ColdRecovery'
    <3>1. PICK n : n = launched + 1
      OBVIOUS
    <3>2. launched \in Nat /\ n \in Pids /\ mon \in [Pids -> MonitorSteps]
      BY <1>1, <3>1 DEF GateInv, StartInstance, Launch, GateTypeOK, Pids
    <3>3. /\ launched' = n /\ entry'.pid = n /\ mon' = [mon EXCEPT ![n] = "startup"]
          /\ UNCHANGED <<poisoned, recovery, unkillable>>
      BY <1>1, <3>1 DEF StartInstance, Launch, ghosts
    <3>4. ColdRecovery
      BY DEF GateInv
    <3>5. n \notin recovery
      BY <3>1, <3>2, <3>4 DEF ColdRecovery
    <3>6. \A p \in Pids : p > n => p > launched /\ p # n
      BY <3>1, <3>2 DEF Pids
    <3>7. \A p \in recovery \cap Pids : p # n /\ mon'[p] # "restoring"
      BY <3>2, <3>3, <3>4, <3>5 DEF ColdRecovery
    <3>8. \A p \in Pids : p > n =>
            mon'[p] = "none" /\ p \notin recovery /\ p \notin poisoned /\ p \notin unkillable
      BY <3>2, <3>3, <3>4, <3>6 DEF ColdRecovery
    <3> QED BY <3>3, <3>7, <3>8 DEF ColdRecovery
  <2> QED BY <2>1, <2>2, <2>3, <2>4, <2>5, <2>6, <2>7, <2>8 DEF GateInv
<1>2. CASE StartRolledBack
  <2>1. GateTypeOK'
    BY <1>2 DEF GateInv, StartRolledBack, Free, router, ghosts, GateTypeOK, EntryType, Phases,
        RoutablePhases, OpType, MonitorSteps, RequestSteps
  <2>2. OpShape'
    BY <1>2 DEF GateInv, StartRolledBack, Free, OpShape
  <2>3. Tracking'
    BY <1>2 DEF GateInv, StartRolledBack, Tracking
  <2>4. RoutableIsDerived'
    BY <1>2 DEF GateInv, StartRolledBack, RoutableIsDerived
  <2>5. StopStands'
    BY <1>2 DEF GateInv, StartRolledBack, Free, StopStands
  <2>6. IdleOwnsPhase'
    BY <1>2 DEF GateInv, StartRolledBack, Free, IdleOwnsPhase
  <2>7. RestorePhases'
    BY <1>2 DEF GateInv, StartRolledBack, Pids, RestorePhases, RestorePhase, Condemned
  <2>8. ColdRecovery'
    BY <1>2 DEF GateInv, StartRolledBack, ghosts, GateTypeOK, Pids, ColdRecovery
  <2> QED BY <2>1, <2>2, <2>3, <2>4, <2>5, <2>6, <2>7, <2>8 DEF GateInv
<1>3. CASE RecoveryStart
  <2>1. GateTypeOK'
    <3>1. PICK eligible \in BOOLEAN : Launch(eligible, TRUE)
      BY <1>3 DEF RecoveryStart
    <3>2. /\ launched' \in Pids /\ launched' \in 0 .. MaxPid
          /\ running' = launched' /\ alive' = launched'
      BY <3>1 DEF GateInv, GateTypeOK, Launch, Pids
    <3>3. entry' \in EntryType
      BY <3>1, <3>2 DEF Launch, EntryType, Phases, RoutablePhases, Pids
    <3>4. mon' \in [Pids -> MonitorSteps]
      BY <3>1 DEF GateInv, GateTypeOK, Launch, MonitorSteps
    <3>5. op' \in OpType
      BY <1>3 DEF RecoveryStart, Free, OpType
    <3>6. recovery' \in SUBSET Pids /\ UNCHANGED <<router, poisoned, unkillable>>
      BY <1>3, <3>2 DEF GateInv, GateTypeOK, RecoveryStart
    <3> QED BY <3>2, <3>3, <3>4, <3>5, <3>6 DEF GateInv, GateTypeOK, router
  <2>2. OpShape'
    BY <1>3 DEF GateInv, RecoveryStart, Launch, Free, OpShape
  <2>3. Tracking'
    BY <1>3 DEF GateInv, RecoveryStart, Launch, Tracking
  <2>4. RoutableIsDerived'
    BY <1>3 DEF GateInv, RecoveryStart, Launch, GateTypeOK, EntryType, Phases, RoutablePhases,
        RoutableIsDerived
  <2>5. StopStands'
    BY <1>3 DEF GateInv, RecoveryStart, Launch, Free, StopStands
  <2>6. IdleOwnsPhase'
    BY <1>3 DEF GateInv, RecoveryStart, Launch, Free, IdleOwnsPhase
  <2>7. RestorePhases'
    BY <1>3 DEF GateInv, RecoveryStart, Launch, GateTypeOK, RestorePhases, RestorePhase,
        Condemned, ColdRecovery
  <2>8. ColdRecovery'
    <3>1. PICK eligible \in BOOLEAN : Launch(eligible, TRUE)
      BY <1>3 DEF RecoveryStart
    <3>2. launched' \in Pids /\ launched' = launched + 1 /\ launched \in Nat
      BY <3>1 DEF Launch, GateInv, GateTypeOK, Pids
    <3>3. mon' = [mon EXCEPT ![launched'] = "startup"] /\ DOMAIN mon = Pids
      BY <3>1, <3>2 DEF Launch, GateInv, GateTypeOK
    <3>4. entry'.pid = launched' /\ (entry'.cold \/ ~entry'.gate)
      BY <3>1, <3>2 DEF Launch
    <3>5. /\ recovery' = recovery \cup {launched'}
          /\ poisoned' = poisoned /\ unkillable' = unkillable
      BY <1>3 DEF RecoveryStart
    <3> SUFFICES ASSUME NEW p \in Pids
                 PROVE  /\ p \in recovery' => /\ entry'.pid = p => entry'.cold \/ ~entry'.gate
                                              /\ mon'[p] # "restoring"
                        /\ p > launched' =>
                              /\ mon'[p] = "none"
                              /\ p \notin recovery' /\ p \notin poisoned' /\ p \notin unkillable'
      BY DEF ColdRecovery
    <3>6. CASE p = launched'
      BY <3>2, <3>3, <3>4, <3>6
    <3>7. CASE p # launched'
      <4>1. p > launched' => p > launched
        BY <3>2 DEF Pids
      <4>2. mon'[p] = mon[p]
        BY <3>3, <3>7
      <4> QED BY <3>4, <3>5, <3>7, <4>1, <4>2 DEF GateInv, ColdRecovery
    <3> QED BY <3>6, <3>7
  <2> QED BY <2>1, <2>2, <2>3, <2>4, <2>5, <2>6, <2>7, <2>8 DEF GateInv
<1>4. CASE RecoveryStartFails
  <2>1. GateTypeOK'
    BY <1>4 DEF GateInv, RecoveryStartFails, Free, router, ghosts, GateTypeOK, OpType,
        MonitorSteps, RequestSteps
  <2>2. OpShape'
    BY <1>4 DEF GateInv, RecoveryStartFails, Free, OpShape
  <2>3. StopStands'
    BY <1>4 DEF GateInv, RecoveryStartFails, Free, StopStands
  <2>4. IdleOwnsPhase'
    BY <1>4 DEF GateInv, RecoveryStartFails, Free, IdleOwnsPhase
  <2>5. RestorePhases'
    BY <1>4 DEF GateInv, RecoveryStartFails, ghosts, RestorePhases, RestorePhase, Condemned
  <2>6. Tracking' /\ RoutableIsDerived' /\ ColdRecovery'
    BY <1>4 DEF GateInv, RecoveryStartFails, Tracking, RoutableIsDerived, ColdRecovery,
        router, ghosts
  <2> QED BY <2>1, <2>2, <2>3, <2>4, <2>5, <2>6 DEF GateInv
<1> QED BY <1>1, <1>2, <1>3, <1>4

\* Every step of stop_instance_locked keeps the invariant.
LEMMA StopKeeps ==
    ASSUME GateInv,
           \/ StopInstance \/ StopRequest \/ StopDecide
           \/ StopUnready \/ StopReady \/ StopDrained
           \/ StopSkipSave \/ StopSaved \/ KillSucceeds
           \/ KillFails \/ Resume
    PROVE  GateInv'
<1>1. CASE StopInstance
  <2>1. GateTypeOK'
    BY <1>1, MarkStoppedEffect DEF GateInv, StopInstance, router, ghosts, GateTypeOK, OpType,
        MonitorSteps, RequestSteps
  <2>2. OpShape'
    BY <1>1, MarkStoppedEffect DEF GateInv, StopInstance, EntryType, OpShape, StopSteps,
        Tracking
  <2>3. Tracking'
    BY <1>1, MarkStoppedEffect DEF GateInv, StopInstance, Tracking
  <2>4. RoutableIsDerived'
    BY <1>1, MarkStoppedEffect DEF GateInv, StopInstance, RoutableIsDerived
  <2>5. StopStands'
    BY <1>1, MarkStoppedEffect DEF GateInv, StopInstance, EntryType, StopStands, StopSteps
  <2>6. IdleOwnsPhase'
    BY <1>1, MarkStoppedEffect DEF GateInv, StopInstance, IdleOwnsPhase
  <2>7. RestorePhases'
    BY <1>1, MarkStoppedEffect DEF GateInv, StopInstance, Free, ghosts, Pids, Tracking,
        RestorePhases, RestorePhase, Condemned
  <2>8. ColdRecovery'
    BY <1>1, MarkStoppedEffect DEF GateInv, StopInstance, ghosts, ColdRecovery
  <2> QED BY <2>1, <2>2, <2>3, <2>4, <2>5, <2>6, <2>7, <2>8 DEF GateInv
<1>2. CASE StopRequest
  <2>1. GateTypeOK'
    BY <1>2, RequestStopEffect DEF GateInv, StopRequest, router, ghosts, GateTypeOK, OpType,
        MonitorSteps, RequestSteps
  <2>2. OpShape'
    BY <1>2, RequestStopEffect DEF GateInv, StopRequest, EntryType, OpShape, Free, StopSteps
  <2>3. Tracking'
    BY <1>2, RequestStopEffect DEF GateInv, StopRequest, Tracking
  <2>4. RoutableIsDerived'
    BY <1>2, RequestStopEffect DEF GateInv, StopRequest, RoutableIsDerived
  <2>5. StopStands'
    BY <1>2, RequestStopEffect DEF GateInv, StopRequest, OpShape, Free, Tracking, StopStands
  <2>6. IdleOwnsPhase'
    BY <1>2, RequestStopEffect DEF GateInv, StopRequest, GateTypeOK, OpType, IdleOwnsPhase
  <2>7. RestorePhases'
    BY <1>2, RequestStopEffect DEF GateInv, StopRequest, ghosts, RestorePhases,
        RestorePhase, Condemned
  <2>8. ColdRecovery'
    BY <1>2, RequestStopEffect DEF GateInv, StopRequest, ghosts, ColdRecovery
  <2> QED BY <2>1, <2>2, <2>3, <2>4, <2>5, <2>6, <2>7, <2>8 DEF GateInv
<1>3. CASE StopDecide
  <2>1. GateTypeOK'
    BY <1>3 DEF GateInv, StopDecide, router, ghosts, GateTypeOK, OpType, MonitorSteps,
        RequestSteps
  <2>2. OpShape'
    BY <1>3 DEF GateInv, StopDecide, EntryType, OpShape, Free, StopSteps
  <2>3. StopStands'
    BY <1>3 DEF GateInv, StopDecide, EntryType, StopStands, StopSteps
  <2>4. IdleOwnsPhase'
    BY <1>3 DEF GateInv, StopDecide, IdleOwnsPhase
  <2>5. RestorePhases'
    BY <1>3 DEF GateInv, StopDecide, ghosts, RestorePhases, RestorePhase, Condemned
  <2>6. Tracking' /\ RoutableIsDerived' /\ ColdRecovery'
    BY <1>3 DEF GateInv, StopDecide, Tracking, RoutableIsDerived, ColdRecovery, router,
        ghosts
  <2> QED BY <2>1, <2>2, <2>3, <2>4, <2>5, <2>6 DEF GateInv
<1>4. CASE StopUnready
  <2>1. GateTypeOK'
    BY <1>4, MoveEffect DEF GateInv, StopUnready, router, ghosts, GateTypeOK, Phases,
        RoutablePhases, OpType, MonitorSteps, RequestSteps
  <2>2. OpShape'
    BY <1>4, MoveEffect DEF GateInv, StopUnready, EntryType, OpShape, Free, StopSteps
  <2>3. Tracking'
    BY <1>4, MoveEffect DEF GateInv, StopUnready, Phases, RoutablePhases, Tracking
  <2>4. RoutableIsDerived'
    BY <1>4, MoveEffect DEF GateInv, StopUnready, Phases, RoutablePhases, RoutableIsDerived
  <2>5. StopStands'
    BY <1>4, MoveEffect DEF GateInv, StopUnready, EntryType, Phases, RoutablePhases,
        StopStands, StopSteps
  <2>6. IdleOwnsPhase'
    BY <1>4, MoveEffect DEF GateInv, StopUnready, Phases, RoutablePhases, IdleOwnsPhase
  <2>7. RestorePhases'
    BY <1>4, MoveEffect DEF GateInv, StopUnready, ghosts, GateTypeOK, Phases, RoutablePhases,
        OpType, Pids, OpShape, Free, Tracking, StopStands, RestorePhases, RestorePhase,
        Condemned
  <2>8. ColdRecovery'
    BY <1>4, MoveEffect DEF GateInv, StopUnready, ghosts, Phases, RoutablePhases,
        ColdRecovery
  <2> QED BY <2>1, <2>2, <2>3, <2>4, <2>5, <2>6, <2>7, <2>8 DEF GateInv
<1>5. CASE StopReady
  <2>1. GateTypeOK'
    BY <1>5, MoveEffect DEF GateInv, StopReady, router, ghosts, GateTypeOK, Phases,
        RoutablePhases, OpType, MonitorSteps, RequestSteps
  <2>2. OpShape'
    BY <1>5, MoveEffect DEF GateInv, StopReady, EntryType, OpShape, Free, StopSteps
  <2>3. Tracking'
    BY <1>5, MoveEffect DEF GateInv, StopReady, Phases, RoutablePhases, Tracking
  <2>4. RoutableIsDerived'
    BY <1>5, MoveEffect DEF GateInv, StopReady, Phases, RoutablePhases, RoutableIsDerived
  <2>5. StopStands'
    BY <1>5, MoveEffect DEF GateInv, StopReady, EntryType, Phases, RoutablePhases,
        StopStands, StopSteps
  <2>6. IdleOwnsPhase'
    BY <1>5, MoveEffect DEF GateInv, StopReady, Phases, RoutablePhases, IdleOwnsPhase
  <2>7. RestorePhases'
    BY <1>5, MoveEffect DEF GateInv, StopReady, CanMove, Legal, ghosts, Phases,
        RoutablePhases, RestorePhases, RestorePhase, Condemned
  <2>8. ColdRecovery'
    BY <1>5, MoveEffect DEF GateInv, StopReady, ghosts, Phases, RoutablePhases,
        ColdRecovery
  <2> QED BY <2>1, <2>2, <2>3, <2>4, <2>5, <2>6, <2>7, <2>8 DEF GateInv
<1>6. CASE StopDrained
  <2>1. GateTypeOK'
    BY <1>6, MoveEffect DEF GateInv, StopDrained, router, ghosts, GateTypeOK, Phases,
        RoutablePhases, OpType, MonitorSteps, RequestSteps
  <2>2. OpShape'
    BY <1>6, MoveEffect DEF GateInv, StopDrained, EntryType, OpShape, Free, StopSteps
  <2>3. Tracking'
    BY <1>6, MoveEffect DEF GateInv, StopDrained, Phases, RoutablePhases, Tracking
  <2>4. RoutableIsDerived'
    BY <1>6, MoveEffect DEF GateInv, StopDrained, Phases, RoutablePhases, RoutableIsDerived
  <2>5. StopStands'
    BY <1>6, MoveEffect DEF GateInv, StopDrained, EntryType, Phases, RoutablePhases,
        StopStands, StopSteps
  <2>6. IdleOwnsPhase'
    BY <1>6, MoveEffect DEF GateInv, StopDrained, OpShape, IdleOwnsPhase
  <2>7. RestorePhases'
    BY <1>6, MoveEffect DEF GateInv, StopDrained, ghosts, Phases, RoutablePhases,
        RestorePhases, RestorePhase, Condemned, CanMove, Legal
  <2>8. ColdRecovery'
    BY <1>6, MoveEffect DEF GateInv, StopDrained, ghosts, Phases, RoutablePhases,
        ColdRecovery
  <2> QED BY <2>1, <2>2, <2>3, <2>4, <2>5, <2>6, <2>7, <2>8 DEF GateInv
<1>7. CASE StopSkipSave
  <2>1. GateTypeOK'
    BY <1>7, MoveEffect DEF GateInv, StopSkipSave, router, ghosts, GateTypeOK, Phases,
        RoutablePhases, OpType, MonitorSteps, RequestSteps
  <2>2. OpShape'
    BY <1>7, MoveEffect DEF GateInv, StopSkipSave, EntryType, OpShape, Free, StopSteps
  <2>3. Tracking'
    BY <1>7, MoveEffect DEF GateInv, StopSkipSave, Phases, RoutablePhases, Tracking
  <2>4. RoutableIsDerived'
    BY <1>7, MoveEffect DEF GateInv, StopSkipSave, Phases, RoutablePhases, RoutableIsDerived
  <2>5. StopStands'
    BY <1>7, MoveEffect DEF GateInv, StopSkipSave, EntryType, Phases, RoutablePhases,
        StopStands, StopSteps
  <2>6. IdleOwnsPhase'
    BY <1>7, MoveEffect DEF GateInv, StopSkipSave, Phases, RoutablePhases, IdleOwnsPhase
  <2>7. RestorePhases'
    BY <1>7, MoveEffect DEF GateInv, StopSkipSave, ghosts, GateTypeOK, Phases, RoutablePhases,
        OpType, Pids, OpShape, Free, Tracking, StopStands, RestorePhases, RestorePhase,
        Condemned
  <2>8. ColdRecovery'
    BY <1>7, MoveEffect DEF GateInv, StopSkipSave, ghosts, Phases, RoutablePhases,
        ColdRecovery
  <2> QED BY <2>1, <2>2, <2>3, <2>4, <2>5, <2>6, <2>7, <2>8 DEF GateInv
<1>8. CASE StopSaved
  <2>1. GateTypeOK'
    BY <1>8, MoveEffect DEF GateInv, StopSaved, router, ghosts, GateTypeOK, Phases,
        RoutablePhases, OpType, MonitorSteps, RequestSteps
  <2>2. OpShape'
    BY <1>8, MoveEffect DEF GateInv, StopSaved, EntryType, OpShape, Free, StopSteps
  <2>3. Tracking'
    BY <1>8, MoveEffect DEF GateInv, StopSaved, Phases, RoutablePhases, Tracking
  <2>4. RoutableIsDerived'
    BY <1>8, MoveEffect DEF GateInv, StopSaved, Phases, RoutablePhases, RoutableIsDerived
  <2>5. StopStands'
    BY <1>8, MoveEffect DEF GateInv, StopSaved, EntryType, Phases, RoutablePhases,
        StopStands, StopSteps
  <2>6. IdleOwnsPhase'
    BY <1>8, MoveEffect DEF GateInv, StopSaved, IdleOwnsPhase
  <2>7. RestorePhases'
    BY <1>8, MoveEffect DEF GateInv, StopSaved, ghosts, GateTypeOK, Phases, RoutablePhases,
        OpType, Pids, OpShape, Free, Tracking, StopStands, RestorePhases, RestorePhase,
        Condemned
  <2>8. ColdRecovery'
    BY <1>8, MoveEffect DEF GateInv, StopSaved, ghosts, Phases, RoutablePhases,
        ColdRecovery
  <2> QED BY <2>1, <2>2, <2>3, <2>4, <2>5, <2>6, <2>7, <2>8 DEF GateInv
<1>9. CASE KillSucceeds
  <2>1. GateTypeOK'
    BY <1>9, MarkStoppedEffect DEF GateInv, KillSucceeds, Disconnect, Free, ghosts, GateTypeOK,
        OpType, MonitorSteps, RequestSteps
  <2>2. OpShape'
    BY <1>9, MarkStoppedEffect DEF GateInv, KillSucceeds, Free, OpShape
  <2>3. Tracking'
    BY <1>9, MarkStoppedEffect DEF GateInv, KillSucceeds, Tracking
  <2>4. RoutableIsDerived'
    BY <1>9, MarkStoppedEffect DEF GateInv, KillSucceeds, RoutableIsDerived
  <2>5. StopStands'
    BY <1>9, MarkStoppedEffect DEF GateInv, KillSucceeds, Free, EntryType, StopStands,
        StopSteps
  <2>6. IdleOwnsPhase'
    BY <1>9, MarkStoppedEffect DEF GateInv, KillSucceeds, Free, IdleOwnsPhase
  <2>7. RestorePhases'
    BY <1>9, MarkStoppedEffect DEF GateInv, KillSucceeds, Pids, RestorePhases, RestorePhase,
        Condemned
  <2>8. ColdRecovery'
    BY <1>9, MarkStoppedEffect DEF GateInv, KillSucceeds, ghosts, ColdRecovery
  <2> QED BY <2>1, <2>2, <2>3, <2>4, <2>5, <2>6, <2>7, <2>8 DEF GateInv
<1>10. CASE KillFails
  <2>1. GateTypeOK'
    <3>1. op.pid \in Pids /\ unkillable' \in SUBSET Pids
      BY <1>10 DEF GateInv, GateTypeOK, OpType, OpShape, KillFails, Free, Pids
    <3>2. entry' \in EntryType
      BY <1>10, RequestStopEffect DEF GateInv, KillFails
    <3>3. op' \in OpType
      BY <1>10 DEF GateInv, GateTypeOK, OpType, KillFails, Free
    <3> QED BY <1>10, <3>1, <3>2, <3>3 DEF GateInv, GateTypeOK, KillFails, router
  <2>2. OpShape'
    BY <1>10, RequestStopEffect DEF GateInv, KillFails, Free, GateTypeOK, OpType, OpShape
  <2>3. Tracking'
    BY <1>10, RequestStopEffect DEF GateInv, KillFails, Tracking
  <2>4. RoutableIsDerived'
    BY <1>10, RequestStopEffect DEF GateInv, KillFails, RoutableIsDerived
  <2>5. StopStands'
    BY <1>10, RequestStopEffect DEF GateInv, KillFails, Free, EntryType, StopStands,
        StopSteps
  <2>6. IdleOwnsPhase'
    BY <1>10, RequestStopEffect DEF GateInv, KillFails, Free, OpShape, IdleOwnsPhase
  <2>7. RestorePhases'
    BY <1>10, RequestStopEffect DEF GateInv, KillFails, RestorePhases, RestorePhase,
        Condemned
  <2>8. ColdRecovery'
    <3>1. op.pid = launched /\ launched \in Nat
      BY <1>10 DEF GateInv, GateTypeOK, OpType, OpShape, KillFails, Free
    <3>2. entry'.pid = entry.pid /\ entry'.cold = entry.cold /\ entry'.gate = entry.gate
      BY <1>10, RequestStopEffect DEF GateInv, KillFails
    <3> QED BY <1>10, <3>1, <3>2 DEF GateInv, KillFails, ColdRecovery, Pids
  <2> QED BY <2>1, <2>2, <2>3, <2>4, <2>5, <2>6, <2>7, <2>8 DEF GateInv
<1>11. CASE Resume
  <2>1. GateTypeOK'
    BY <1>11, MoveEffect DEF GateInv, Resume, Free, router, ghosts, GateTypeOK, Phases,
        RoutablePhases, OpType, MonitorSteps, RequestSteps, OpShape
  <2>2. OpShape'
    BY <1>11, MoveEffect DEF GateInv, Resume, Free, OpShape
  <2>3. Tracking'
    BY <1>11, MoveEffect DEF GateInv, Resume, Phases, RoutablePhases, OpShape, Tracking
  <2>4. RoutableIsDerived'
    BY <1>11, MoveEffect DEF GateInv, Resume, Phases, RoutablePhases, OpShape,
        RoutableIsDerived
  <2>5. StopStands'
    BY <1>11, MoveEffect DEF GateInv, Resume, Free, StopStands
  <2>6. IdleOwnsPhase'
    BY <1>11, MoveEffect DEF GateInv, Resume, Free, IdleOwnsPhase
  <2>7. RestorePhases'
    <3>1. op.kind = "idle" \/ op.pid \in unkillable
      BY <1>11 DEF GateInv, GateTypeOK, OpType, OpShape, Resume, Free
    <3>2. alive # 0 => alive = launched /\ entry.pid = launched
      BY DEF GateInv, Tracking
    <3>3. op.pid = launched
      BY <1>11 DEF GateInv, GateTypeOK, OpType, OpShape, Resume, Free
    <3>4. \A q \in Pids : alive = q /\ q \notin unkillable =>
              mon[q] = "watch" /\ entry.phase = "Stopping" /\ ~Condemned(q)
      BY <1>11, <3>1, <3>2, <3>3 DEF GateInv, IdleOwnsPhase, Resume, Pids, Condemned
    <3>5. \A q \in Pids : alive = q /\ q \notin unkillable => q \notin poisoned
      BY <3>4 DEF GateInv, RestorePhases, RestorePhase
    <3> QED BY <1>11, <3>4, <3>5 DEF Resume, RestorePhases, RestorePhase, ghosts
  <2>8. ColdRecovery'
    BY <1>11, MoveEffect DEF GateInv, Resume, ghosts, Phases, RoutablePhases, OpShape,
        ColdRecovery
  <2> QED BY <2>1, <2>2, <2>3, <2>4, <2>5, <2>6, <2>7, <2>8 DEF GateInv
<1> QED BY <1>1, <1>2, <1>3, <1>4, <1>5, <1>6, <1>7, <1>8, <1>9, <1>10, <1>11

\* The end of a process and its record keep the invariant.
LEMMA ExitKeeps ==
    ASSUME GateInv,
           \/ ProcessDies \/ RecordProcessExit
    PROVE  GateInv'
<1>1. CASE ProcessDies
  <2>1. GateTypeOK'
    BY <1>1 DEF GateInv, ProcessDies, Disconnect, ghosts, GateTypeOK, MonitorSteps,
        RequestSteps
  <2>2. OpShape'
    BY <1>1 DEF GateInv, ProcessDies, ghosts, OpShape
  <2>3. Tracking'
    BY <1>1 DEF GateInv, ProcessDies, Tracking
  <2>4. StopStands'
    BY <1>1 DEF GateInv, ProcessDies, OpShape, StopStands
  <2>5. RestorePhases'
    BY <1>1 DEF GateInv, ProcessDies, Pids, RestorePhases, RestorePhase, Condemned
  <2>6. RoutableIsDerived' /\ IdleOwnsPhase' /\ ColdRecovery'
    BY <1>1 DEF GateInv, ProcessDies, RoutableIsDerived, IdleOwnsPhase, ColdRecovery,
        ghosts
  <2> QED BY <2>1, <2>2, <2>3, <2>4, <2>5, <2>6 DEF GateInv
<1>2. CASE RecordProcessExit
  <2>1. GateTypeOK'
    BY <1>2, MarkStoppedEffect DEF GateInv, RecordProcessExit, router, ghosts, GateTypeOK,
        MonitorSteps, RequestSteps
  <2>2. Tracking'
    BY <1>2, MarkStoppedEffect DEF GateInv, RecordProcessExit, Tracking
  <2>3. RoutableIsDerived'
    BY <1>2, MarkStoppedEffect DEF GateInv, RecordProcessExit, RoutableIsDerived
  <2>4. StopStands'
    BY <1>2, MarkStoppedEffect DEF GateInv, RecordProcessExit, StopStands
  <2>5. IdleOwnsPhase'
    BY <1>2, MarkStoppedEffect DEF GateInv, RecordProcessExit, Free, IdleOwnsPhase
  <2>6. RestorePhases'
    BY <1>2, MarkStoppedEffect DEF GateInv, RecordProcessExit, Pids, Tracking,
        RestorePhases, RestorePhase, Condemned
  <2>7. ColdRecovery'
    BY <1>2, MarkStoppedEffect DEF GateInv, RecordProcessExit, ghosts, ColdRecovery
  <2>8. OpShape'
    BY <1>2 DEF GateInv, RecordProcessExit, OpShape, router, ghosts
  <2> QED BY <2>1, <2>2, <2>3, <2>4, <2>5, <2>6, <2>7, <2>8 DEF GateInv
<1> QED BY <1>1, <1>2

\* Every step of a monitor thread keeps the invariant, whatever the holder of
\* the lifecycle mutex has done since the step before.
LEMMA MonitorKeeps ==
    ASSUME GateInv, NEW p \in Pids,
           \/ MonitorProbe(p) \/ MonitorHealthy(p) \/ MonitorRestore(p)
           \/ MonitorCold(p) \/ MonitorLoadFails(p) \/ MonitorRestored(p)
           \/ MonitorRestoreFails(p) \/ MonitorSettled(p) \/ MonitorRecover(p)
           \/ MonitorEnds(p)
    PROVE  GateInv'
<1>1. CASE MonitorProbe(p)
  <2>1. GateTypeOK'
    BY <1>1 DEF GateInv, MonitorProbe, To, router, ghosts, GateTypeOK, MonitorSteps,
        RequestSteps
  <2>2. IdleOwnsPhase'
    BY <1>1 DEF GateInv, MonitorProbe, To, IdleOwnsPhase
  <2>3. RestorePhases'
    BY <1>1 DEF GateInv, MonitorProbe, To, ghosts, RestorePhases, RestorePhase, Condemned
  <2>4. ColdRecovery'
    BY <1>1 DEF GateInv, MonitorProbe, To, ghosts, ColdRecovery
  <2>5. OpShape' /\ Tracking' /\ RoutableIsDerived' /\ StopStands'
    BY <1>1 DEF GateInv, MonitorProbe, OpShape, Tracking, RoutableIsDerived, StopStands,
        router, ghosts
  <2> QED BY <2>1, <2>2, <2>3, <2>4, <2>5 DEF GateInv
<1>2. CASE MonitorHealthy(p)
  <2>1. GateTypeOK'
    BY <1>2, MoveEffect DEF GateInv, MonitorHealthy, To, RestartRequired, router, ghosts,
        GateTypeOK, Phases, RoutablePhases, MonitorSteps, RequestSteps
  <2>2. Tracking'
    BY <1>2, MoveEffect DEF GateInv, MonitorHealthy, RestartRequired, Phases,
        RoutablePhases, Tracking
  <2>3. RoutableIsDerived'
    BY <1>2, MoveEffect DEF GateInv, MonitorHealthy, RestartRequired, Phases,
        RoutablePhases, RoutableIsDerived
  <2>4. StopStands'
    BY <1>2, MoveEffect DEF GateInv, MonitorHealthy, RestartRequired, Phases,
        RoutablePhases, StopStands
  <2>5. IdleOwnsPhase'
    BY <1>2, MoveEffect DEF GateInv, MonitorHealthy, To, RestartRequired, CanMove, GateTypeOK,
        Pids, OpShape, Tracking, IdleOwnsPhase
  <2>6. RestorePhases'
    <3> SUFFICES ASSUME NEW q \in Pids, alive = q, q \notin unkillable
                 PROVE  RestorePhase(q)'
      BY <1>2 DEF MonitorHealthy, RestorePhases, router, ghosts
    <3>1. entry.pid = q
      BY DEF GateInv, Tracking, Pids
    <3>2. CASE q # p
      <4>1. entry' = entry
        BY <1>2, <3>1, <3>2, MoveEffect DEF GateInv, MonitorHealthy, CanMove, Phases
      <4>2. mon'[q] = mon[q]
        BY <1>2, <3>2 DEF GateInv, GateTypeOK, MonitorHealthy, To
      <4> QED BY <1>2, <4>1, <4>2
             DEF GateInv, RestorePhases, RestorePhase, Condemned, MonitorHealthy, router, ghosts
    <3>3. CASE q = p /\ mon'[p] = "loading"
      <4>1. entry.gate /\ entry.phase = "Starting"
        BY <1>2, <3>3 DEF GateInv, GateTypeOK, MonitorHealthy, To, CanMove, Legal
      <4>2. entry'.phase = "EngineHealthy" /\ entry'.gate
        BY <1>2, <3>3, <4>1, MoveEffect DEF GateInv, GateTypeOK, MonitorHealthy, To, Phases
      <4>3. p \notin poisoned
        BY <3>3, <4>1 DEF GateInv, RestorePhases, RestorePhase
      <4> QED BY <1>2, <3>3, <4>2, <4>3 DEF RestorePhase, MonitorHealthy, router, ghosts
    <3>4. CASE q = p /\ mon'[p] # "loading"
      <4>1. entry' = entry /\ mon'[p] \in {"watch", "settled"}
        BY <1>2, <3>4 DEF GateInv, GateTypeOK, MonitorHealthy, To
      <4> QED BY <1>2, <3>4, <4>1
             DEF GateInv, RestorePhases, RestorePhase, Condemned, MonitorHealthy, router, ghosts
    <3> QED BY <3>2, <3>3, <3>4
  <2>7. ColdRecovery'
    BY <1>2, MoveEffect DEF GateInv, MonitorHealthy, To, RestartRequired, ghosts, GateTypeOK,
        Phases, RoutablePhases, ColdRecovery
  <2>8. OpShape'
    BY <1>2 DEF GateInv, MonitorHealthy, OpShape, router, ghosts
  <2> QED BY <2>1, <2>2, <2>3, <2>4, <2>5, <2>6, <2>7, <2>8 DEF GateInv
<1>3. CASE MonitorRestore(p)
  <2>1. GateTypeOK'
    BY <1>3, MoveEffect DEF GateInv, MonitorRestore, To, router, ghosts, GateTypeOK, Phases,
        RoutablePhases, MonitorSteps, RequestSteps
  <2>2. Tracking'
    BY <1>3, MoveEffect DEF GateInv, MonitorRestore, Phases, RoutablePhases, Tracking
  <2>3. RoutableIsDerived'
    BY <1>3, MoveEffect DEF GateInv, MonitorRestore, Phases, RoutablePhases,
        RoutableIsDerived
  <2>4. StopStands'
    BY <1>3, MoveEffect DEF GateInv, MonitorRestore, Phases, RoutablePhases, StopStands
  <2>5. IdleOwnsPhase'
    BY <1>3, MoveEffect DEF GateInv, MonitorRestore, CanMove, OpShape, Tracking,
        IdleOwnsPhase
  <2>6. RestorePhases'
    <3> SUFFICES ASSUME NEW q \in Pids, alive = q, q \notin unkillable
                 PROVE  RestorePhase(q)'
      BY <1>3 DEF MonitorRestore, RestorePhases, router, ghosts
    <3>1. entry.pid = q /\ q = p
      BY <1>3 DEF GateInv, Tracking, Pids, MonitorRestore, CanMove
    <3>2. entry'.phase = "Restoring" /\ entry'.gate
      BY <1>3, MoveEffect DEF GateInv, MonitorRestore, Phases
    <3>3. mon[p] = "loading" /\ mon'[p] = "restoring"
      BY <1>3 DEF GateInv, GateTypeOK, MonitorRestore, To
    <3>4. p \notin poisoned
      BY <3>1, <3>3 DEF GateInv, RestorePhases, RestorePhase
    <3> QED BY <1>3, <3>1, <3>2, <3>3, <3>4 DEF RestorePhase, MonitorRestore, router, ghosts
  <2>7. ColdRecovery'
    BY <1>3, MoveEffect DEF GateInv, MonitorRestore, CanMove, To, ghosts, GateTypeOK,
        EntryType, Phases, RoutablePhases, ColdRecovery
  <2>8. OpShape'
    BY <1>3 DEF GateInv, MonitorRestore, OpShape, router, ghosts
  <2> QED BY <2>1, <2>2, <2>3, <2>4, <2>5, <2>6, <2>7, <2>8 DEF GateInv
<1>4. CASE MonitorCold(p)
  <2>1. GateTypeOK'
    BY <1>4, MoveEffect DEF GateInv, MonitorCold, To, router, ghosts, GateTypeOK, Phases,
        RoutablePhases, MonitorSteps, RequestSteps
  <2>2. Tracking'
    BY <1>4, MoveEffect DEF GateInv, MonitorCold, Phases, RoutablePhases, Tracking
  <2>3. RoutableIsDerived'
    BY <1>4, MoveEffect DEF GateInv, MonitorCold, Phases, RoutablePhases, RoutableIsDerived
  <2>4. StopStands'
    BY <1>4, MoveEffect DEF GateInv, MonitorCold, Phases, RoutablePhases, StopStands
  <2>5. IdleOwnsPhase'
    BY <1>4, MoveEffect DEF GateInv, MonitorCold, To, Phases, RoutablePhases, OpShape,
        Tracking, IdleOwnsPhase, CanMove
  <2>6. RestorePhases'
    BY <1>4, MoveEffect DEF GateInv, MonitorCold, To, ghosts, GateTypeOK, Phases,
        RoutablePhases, Pids, Tracking, RestorePhases, RestorePhase, Condemned, CanMove
  <2>7. ColdRecovery'
    BY <1>4, MoveEffect DEF GateInv, MonitorCold, To, ghosts, Phases, RoutablePhases,
        ColdRecovery
  <2>8. OpShape'
    BY <1>4 DEF GateInv, MonitorCold, OpShape, router, ghosts
  <2> QED BY <2>1, <2>2, <2>3, <2>4, <2>5, <2>6, <2>7, <2>8 DEF GateInv
<1>5. CASE MonitorLoadFails(p)
  <2>1. GateTypeOK'
    BY <1>5, MoveEffect DEF GateInv, MonitorLoadFails, RestoreFailure, To, router, ghosts,
        GateTypeOK, Phases, RoutablePhases, MonitorSteps, RequestSteps
  <2>2. Tracking'
    BY <1>5, MoveEffect DEF GateInv, MonitorLoadFails, RestoreFailure, Phases,
        RoutablePhases, Tracking
  <2>3. RoutableIsDerived'
    BY <1>5, MoveEffect DEF GateInv, MonitorLoadFails, RestoreFailure, Phases,
        RoutablePhases, RoutableIsDerived
  <2>4. StopStands'
    BY <1>5, MoveEffect DEF GateInv, MonitorLoadFails, RestoreFailure, Phases,
        RoutablePhases, StopStands
  <2>5. IdleOwnsPhase'
    <3> SUFFICES ASSUME op.kind = "idle" PROVE IdleOwnsPhase'
      BY <1>5 DEF MonitorLoadFails, IdleOwnsPhase
    <3>1. op.pid # p /\ entry.pid = op.pid
      BY <1>5 DEF GateInv, OpShape, Tracking, IdleOwnsPhase, MonitorLoadFails
    <3>2. entry' = entry
      BY <1>5, <3>1 DEF MonitorLoadFails, RestoreFailure, Move, CanMove
    <3>3. mon'[op.pid] = mon[op.pid]
      BY <1>5, <3>1 DEF GateInv, GateTypeOK, MonitorLoadFails, To
    <3> QED BY <1>5, <3>2, <3>3 DEF GateInv, IdleOwnsPhase, MonitorLoadFails
  <2>6. RestorePhases'
    <3> SUFFICES ASSUME NEW q \in Pids, alive = q, q \notin unkillable
                 PROVE  RestorePhase(q)'
      BY <1>5 DEF MonitorLoadFails, RestorePhases, router, ghosts
    <3>1. entry.pid = q
      BY DEF GateInv, Tracking, Pids
    <3>2. mon[p] = "loading" /\ mon' = [mon EXCEPT ![p] = "settled"] /\ mon'[p] = "settled"
      BY <1>5 DEF GateInv, GateTypeOK, MonitorLoadFails, To
    <3>3. CASE q # p
      <4>1. entry' = entry
        BY <1>5, <3>1, <3>3 DEF MonitorLoadFails, RestoreFailure, Move, CanMove
      <4> QED BY <1>5, <3>2, <3>3, <4>1
             DEF GateInv, GateTypeOK, RestorePhases, RestorePhase, Condemned, MonitorLoadFails, ghosts
    <3>4. CASE q = p
      <4>1. p \notin poisoned
        BY <3>2, <3>4 DEF GateInv, RestorePhases, RestorePhase
      <4> QED BY <1>5, <3>2, <3>4, <4>1 DEF RestorePhase, MonitorLoadFails, ghosts
    <3> QED BY <3>3, <3>4
  <2>7. ColdRecovery'
    BY <1>5, MoveEffect DEF GateInv, MonitorLoadFails, RestoreFailure, To, ghosts, GateTypeOK,
        EntryType, Phases, RoutablePhases, ColdRecovery
  <2>8. OpShape'
    BY <1>5 DEF GateInv, MonitorLoadFails, OpShape, router, ghosts
  <2> QED BY <2>1, <2>2, <2>3, <2>4, <2>5, <2>6, <2>7, <2>8 DEF GateInv
<1>6. CASE MonitorRestored(p)
  <2>1. GateTypeOK'
    BY <1>6, MoveEffect DEF GateInv, MonitorRestored, To, router, ghosts, GateTypeOK, Phases,
        RoutablePhases, MonitorSteps, RequestSteps
  <2>2. Tracking'
    BY <1>6, MoveEffect DEF GateInv, MonitorRestored, Phases, RoutablePhases, Tracking
  <2>3. RoutableIsDerived'
    BY <1>6, MoveEffect DEF GateInv, MonitorRestored, Phases, RoutablePhases,
        RoutableIsDerived
  <2>4. StopStands'
    BY <1>6, MoveEffect DEF GateInv, MonitorRestored, Phases, RoutablePhases, StopStands
  <2>5. IdleOwnsPhase'
    BY <1>6, MoveEffect DEF GateInv, MonitorRestored, To, Phases, RoutablePhases, OpShape,
        Tracking, IdleOwnsPhase, CanMove
  <2>6. RestorePhases'
    BY <1>6, MoveEffect DEF GateInv, MonitorRestored, To, ghosts, GateTypeOK, RestorePhases,
        RestorePhase, Condemned
  <2>7. ColdRecovery'
    BY <1>6, MoveEffect DEF GateInv, MonitorRestored, To, ghosts, Phases, RoutablePhases,
        ColdRecovery
  <2>8. OpShape'
    BY <1>6 DEF GateInv, MonitorRestored, OpShape, router, ghosts
  <2> QED BY <2>1, <2>2, <2>3, <2>4, <2>5, <2>6, <2>7, <2>8 DEF GateInv
<1>7. CASE MonitorRestoreFails(p)
  <2>1. GateTypeOK'
    BY <1>7, MoveEffect DEF GateInv, MonitorRestoreFails, RestoreFailure, To, router,
        GateTypeOK, Phases, RoutablePhases, MonitorSteps, RequestSteps
  <2>2. Tracking'
    BY <1>7, MoveEffect DEF GateInv, MonitorRestoreFails, RestoreFailure, Phases,
        RoutablePhases, Tracking
  <2>3. RoutableIsDerived'
    BY <1>7, MoveEffect DEF GateInv, MonitorRestoreFails, RestoreFailure, Phases,
        RoutablePhases, RoutableIsDerived
  <2>4. StopStands'
    BY <1>7, MoveEffect DEF GateInv, MonitorRestoreFails, RestoreFailure, Phases,
        RoutablePhases, StopStands
  <2>5. IdleOwnsPhase'
    BY <1>7, MoveEffect DEF GateInv, MonitorRestoreFails, RestoreFailure, To, Phases,
        RoutablePhases, OpShape, Tracking, IdleOwnsPhase, CanMove
  <2>6. RestorePhases'
    BY <1>7, MoveEffect DEF GateInv, MonitorRestoreFails, RestoreFailure, To, GateTypeOK,
        Phases, RoutablePhases, Pids, Tracking, RestorePhases, RestorePhase, Condemned,
        CanMove, Legal
  <2>7. ColdRecovery'
    BY <1>7, MoveEffect DEF GateInv, MonitorRestoreFails, RestoreFailure, To, Phases,
        RoutablePhases, ColdRecovery
  <2>8. OpShape'
    BY <1>7 DEF GateInv, MonitorRestoreFails, OpShape, router
  <2> QED BY <2>1, <2>2, <2>3, <2>4, <2>5, <2>6, <2>7, <2>8 DEF GateInv
<1>8. CASE MonitorSettled(p)
  <2>1. GateTypeOK'
    BY <1>8 DEF GateInv, MonitorSettled, To, RestartRequired, GateAllows, router, ghosts,
        GateTypeOK, MonitorSteps, RequestSteps
  <2>2. IdleOwnsPhase'
    BY <1>8 DEF GateInv, MonitorSettled, To, RestartRequired, GateAllows, IdleOwnsPhase
  <2>3. RestorePhases'
    BY <1>8 DEF GateInv, MonitorSettled, To, RestartRequired, GateAllows, ghosts,
        RestorePhases, RestorePhase, Condemned
  <2>4. ColdRecovery'
    BY <1>8 DEF GateInv, MonitorSettled, To, RestartRequired, GateAllows, ghosts,
        ColdRecovery
  <2>5. OpShape' /\ Tracking' /\ RoutableIsDerived' /\ StopStands'
    BY <1>8 DEF GateInv, MonitorSettled, OpShape, Tracking, RoutableIsDerived, StopStands,
        router, ghosts
  <2> QED BY <2>1, <2>2, <2>3, <2>4, <2>5 DEF GateInv
<1>9. CASE MonitorRecover(p)
  <2>1. GateTypeOK'
    BY <1>9, MarkStoppedEffect DEF GateInv, MonitorRecover, To, RestartRequired, router,
        ghosts, GateTypeOK, OpType, MonitorSteps, RequestSteps
  <2>2. OpShape'
    BY <1>9, MarkStoppedEffect DEF GateInv, MonitorRecover, RestartRequired, ghosts,
        EntryType, Pids, OpShape, StopSteps, Tracking
  <2>3. Tracking'
    BY <1>9, MarkStoppedEffect DEF GateInv, MonitorRecover, RestartRequired, Tracking
  <2>4. RoutableIsDerived'
    BY <1>9, MarkStoppedEffect DEF GateInv, MonitorRecover, RestartRequired,
        RoutableIsDerived
  <2>5. StopStands'
    BY <1>9, MarkStoppedEffect DEF GateInv, MonitorRecover, RestartRequired, EntryType,
        StopStands, StopSteps
  <2>6. IdleOwnsPhase'
    BY <1>9, MarkStoppedEffect DEF GateInv, MonitorRecover, To, RestartRequired,
        IdleOwnsPhase
  <2>7. RestorePhases'
    BY <1>9, MarkStoppedEffect DEF GateInv, MonitorRecover, To, RestartRequired, ghosts,
        Pids, Tracking, RestorePhases, RestorePhase, Condemned
  <2>8. ColdRecovery'
    BY <1>9, MarkStoppedEffect DEF GateInv, MonitorRecover, To, RestartRequired, ghosts,
        ColdRecovery
  <2> QED BY <2>1, <2>2, <2>3, <2>4, <2>5, <2>6, <2>7, <2>8 DEF GateInv
<1>10. CASE MonitorEnds(p)
  <2>1. GateTypeOK'
    BY <1>10 DEF GateInv, MonitorEnds, To, router, ghosts, GateTypeOK, MonitorSteps,
        RequestSteps
  <2>2. IdleOwnsPhase'
    BY <1>10 DEF GateInv, MonitorEnds, To, IdleOwnsPhase
  <2>3. RestorePhases'
    BY <1>10 DEF GateInv, MonitorEnds, To, ghosts, RestorePhases, RestorePhase, Condemned
  <2>4. ColdRecovery'
    BY <1>10 DEF GateInv, MonitorEnds, To, ghosts, ColdRecovery
  <2>5. OpShape' /\ Tracking' /\ RoutableIsDerived' /\ StopStands'
    BY <1>10 DEF GateInv, MonitorEnds, OpShape, Tracking, RoutableIsDerived, StopStands,
        router, ghosts
  <2> QED BY <2>1, <2>2, <2>3, <2>4, <2>5 DEF GateInv
<1> QED BY <1>1, <1>2, <1>3, <1>4, <1>5, <1>6, <1>7, <1>8, <1>9, <1>10

\* An idle save that starts keeps the invariant.
LEMMA IdleCloseKeeps ==
    ASSUME GateInv, NEW p \in Pids,
           \/ IdleClose(p)
    PROVE  GateInv'
<1>1. CASE IdleClose(p)
  <2>1. GateTypeOK'
    BY <1>1, MoveEffect DEF GateInv, IdleClose, RoutablePhases, router, ghosts, GateTypeOK,
        Phases, OpType, MonitorSteps, RequestSteps
  <2>2. OpShape'
    <3>1. p = launched /\ p # 0
      BY <1>1 DEF GateInv, Tracking, IdleClose, Pids
    <3>2. op' = [kind |-> "idle", pid |-> p, step |-> "recheck", resume |-> entry.phase]
      BY <1>1 DEF IdleClose
    <3> QED BY <1>1, <3>1, <3>2 DEF IdleClose, OpShape, Free
  <2>3. Tracking'
    BY <1>1, MoveEffect DEF GateInv, IdleClose, RoutablePhases, Phases, Tracking
  <2>4. RoutableIsDerived'
    BY <1>1, MoveEffect DEF GateInv, IdleClose, RoutablePhases, Phases, RoutableIsDerived
  <2>5. StopStands'
    BY <1>1, MoveEffect DEF GateInv, IdleClose, StopStands
  <2>6. IdleOwnsPhase'
    BY <1>1, MoveEffect DEF GateInv, IdleClose, RoutablePhases, EntryType, Phases,
        IdleOwnsPhase, CanMove, Legal
  <2>7. RestorePhases'
    BY <1>1, MoveEffect DEF GateInv, IdleClose, RoutablePhases, ghosts, Phases,
        RestorePhases, RestorePhase, Condemned
  <2>8. ColdRecovery'
    BY <1>1, MoveEffect DEF GateInv, IdleClose, RoutablePhases, ghosts, EntryType, Phases,
        ColdRecovery
  <2> QED BY <2>1, <2>2, <2>3, <2>4, <2>5, <2>6, <2>7, <2>8 DEF GateInv
<1> QED BY <1>1

\* The later steps of an idle save keep it.
LEMMA IdleStepsKeep ==
    ASSUME GateInv,
           \/ IdleRecheck \/ IdleSaved
    PROVE  GateInv'
<1>1. CASE IdleRecheck
  <2>1. GateTypeOK'
    BY <1>1, MoveEffect DEF GateInv, IdleRecheck, router, ghosts, GateTypeOK, Phases,
        RoutablePhases, OpType, MonitorSteps, RequestSteps
  <2>2. OpShape'
    <3>1. op.kind = "idle" /\ op.pid = launched /\ op.pid # 0 /\ op.resume \in RoutablePhases
      BY <1>1 DEF GateInv, GateTypeOK, OpType, OpShape, StopSteps, IdleRecheck, Free
    <3>2. \E s \in {"saving", "resume"} : op' = [op EXCEPT !.step = s]
      BY <1>1 DEF IdleRecheck
    <3> QED BY <1>1, <3>1, <3>2 DEF GateInv, GateTypeOK, OpType, OpShape, IdleRecheck
  <2>3. Tracking'
    BY <1>1, MoveEffect DEF GateInv, IdleRecheck, Phases, RoutablePhases, Tracking
  <2>4. RoutableIsDerived'
    BY <1>1, MoveEffect DEF GateInv, IdleRecheck, Phases, RoutablePhases, RoutableIsDerived
  <2>5. StopStands'
    BY <1>1, MoveEffect DEF GateInv, IdleRecheck, GateTypeOK, Phases, RoutablePhases, OpType,
        OpShape, StopStands
  <2>6. IdleOwnsPhase'
    BY <1>1, MoveEffect DEF GateInv, IdleRecheck, GateTypeOK, Phases, RoutablePhases, OpType,
        OpShape, Tracking, IdleOwnsPhase, CanMove, Legal
  <2>7. RestorePhases'
    BY <1>1, MoveEffect DEF GateInv, IdleRecheck, ghosts, GateTypeOK, EntryType, OpType,
        OpShape, Free, StopSteps, IdleOwnsPhase, RestorePhases, RestorePhase, Condemned
  <2>8. ColdRecovery'
    BY <1>1, MoveEffect DEF GateInv, IdleRecheck, ghosts, Phases, RoutablePhases,
        ColdRecovery
  <2> QED BY <2>1, <2>2, <2>3, <2>4, <2>5, <2>6, <2>7, <2>8 DEF GateInv
<1>2. CASE IdleSaved
  <2>1. GateTypeOK'
    BY <1>2, MoveEffect DEF GateInv, IdleSaved, router, ghosts, GateTypeOK, Phases,
        RoutablePhases, OpType, MonitorSteps, RequestSteps
  <2>2. OpShape'
    <3>1. op.kind = "idle" /\ op.pid = launched /\ op.pid # 0 /\ op.resume \in RoutablePhases
      BY <1>2 DEF GateInv, GateTypeOK, OpType, OpShape, StopSteps, IdleSaved, Free
    <3>2. \E s \in {"saving", "resume"} : op' = [op EXCEPT !.step = s]
      BY <1>2 DEF IdleSaved
    <3> QED BY <1>2, <3>1, <3>2 DEF GateInv, GateTypeOK, OpType, OpShape, IdleSaved
  <2>3. Tracking'
    BY <1>2, MoveEffect DEF GateInv, IdleSaved, Phases, RoutablePhases, Tracking
  <2>4. RoutableIsDerived'
    BY <1>2, MoveEffect DEF GateInv, IdleSaved, Phases, RoutablePhases, RoutableIsDerived
  <2>5. StopStands'
    BY <1>2, MoveEffect DEF GateInv, IdleSaved, StopStands
  <2>6. IdleOwnsPhase'
    BY <1>2, MoveEffect DEF GateInv, IdleSaved, Phases, RoutablePhases, OpShape, Tracking,
        IdleOwnsPhase, CanMove, Legal
  <2>7. RestorePhases'
    BY <1>2, MoveEffect DEF GateInv, IdleSaved, ghosts, IdleOwnsPhase, RestorePhases,
        RestorePhase, Condemned
  <2>8. ColdRecovery'
    BY <1>2, MoveEffect DEF GateInv, IdleSaved, ghosts, Phases, RoutablePhases,
        ColdRecovery
  <2> QED BY <2>1, <2>2, <2>3, <2>4, <2>5, <2>6, <2>7, <2>8 DEF GateInv
<1> QED BY <1>1, <1>2

\* Requests and the health probe touch only the router's own state.
LEMMA RouterKeeps ==
    ASSUME GateInv,
           \/ \E r \in Requests : RequestStep(r)
           \/ ProbeSnapshot \/ RetainTargets
    PROVE  GateInv'
<1>1. /\ UNCHANGED <<entry, running, alive, launched, op, mon, ghosts>>
      /\ req' \in [Requests -> RequestSteps]
      /\ counted' \in SUBSET Requests
      /\ probe' \in {"waiting", "open", "closed"}
  BY DEF GateInv, GateTypeOK, RequestStep, LookUp, Resolve, Acquire, Send, Finish, ProbeSnapshot,
      RetainTargets, RequestSteps, ghosts
<1>2. GateTypeOK'
  BY <1>1 DEF GateInv, GateTypeOK, ghosts
<1>3. OpShape' /\ Tracking' /\ RoutableIsDerived' /\ StopStands' /\ IdleOwnsPhase'
  BY <1>1 DEF GateInv, OpShape, Tracking, RoutableIsDerived, StopStands, IdleOwnsPhase, ghosts
<1>4. RestorePhases' /\ ColdRecovery'
  BY <1>1 DEF GateInv, RestorePhases, RestorePhase, Condemned, ColdRecovery, ghosts
<1> QED BY <1>2, <1>3, <1>4 DEF GateInv

\* The invariant is preserved by every step.
LEMMA GateInvStep == GateInv /\ [GateNext]_gateVars => GateInv'
<1> SUFFICES ASSUME GateInv, [GateNext]_gateVars PROVE GateInv'
  OBVIOUS
<1>1. CASE StartInstance \/ StartRolledBack
  BY <1>1, LaunchKeeps
<1>2. CASE StopInstance
  BY <1>2, StopKeeps
<1>3. CASE OpStep
  BY <1>3, LaunchKeeps, StopKeeps, IdleStepsKeep DEF OpStep
<1>4. CASE \E p \in Pids : MonitorStep(p) \/ IdleClose(p)
  BY <1>4, MonitorKeeps, IdleCloseKeeps DEF MonitorStep
<1>5. CASE (\E r \in Requests : RequestStep(r)) \/ ProbeSnapshot \/ RetainTargets
  BY <1>5, RouterKeeps
<1>6. CASE ProcessDies \/ RecordProcessExit
  BY <1>6, ExitKeeps
<1>7. CASE UNCHANGED gateVars
  <2>1. GateTypeOK' /\ OpShape' /\ Tracking' /\ RoutableIsDerived'
    BY <1>7 DEF GateInv, GateTypeOK, OpShape, Tracking, RoutableIsDerived, gateVars
  <2>2. StopStands' /\ IdleOwnsPhase' /\ RestorePhases' /\ ColdRecovery'
    BY <1>7 DEF GateInv, StopStands, IdleOwnsPhase, RestorePhases, RestorePhase, Condemned,
        ColdRecovery, gateVars
  <2> QED BY <2>1, <2>2 DEF GateInv
<1> QED BY <1>1, <1>2, <1>3, <1>4, <1>5, <1>6, <1>7 DEF GateNext

\* The initial state, with no process and no operation, satisfies the invariant.
LEMMA GateInvInit == GateInit => GateInv
<1> SUFFICES ASSUME GateInit PROVE GateInv
  OBVIOUS
<1>1. GateTypeOK
  BY DEF GateInit, GateTypeOK, EntryType, OpType, Free, Phases, RoutablePhases, MonitorSteps,
      RequestSteps, Pids
<1>2. OpShape /\ Tracking /\ RoutableIsDerived /\ StopStands /\ IdleOwnsPhase
  BY DEF GateInit, Free, OpShape, Tracking, RoutableIsDerived, StopStands, IdleOwnsPhase, StopSteps
<1>3. RestorePhases /\ ColdRecovery
  BY DEF GateInit, RestorePhases, RestorePhase, ColdRecovery, Pids
<1> QED BY <1>1, <1>2, <1>3 DEF GateInv

-----------------------------------------------------------------------------
(* Theorems *)

\* The strengthened invariant holds in every reachable state.
THEOREM GateInvariant == GateSpec => []GateInv
  BY GateInvInit, GateInvStep, PTL DEF GateSpec

\* Every variable keeps its type, whatever the number of requests and processes.
THEOREM GateTypeCorrect == GateSpec => []GateTypeOK
<1>1. GateInv => GateTypeOK
  BY DEF GateInv
<1> QED BY <1>1, GateInvariant, PTL

\* The flag requests are gated by always agrees with the stop request and the
\* phase, although transition and request_stop set it on different threads.
THEOREM RoutableAlwaysDerived == GateSpec => []RoutableIsDerived
<1>1. GateInv => RoutableIsDerived
  BY DEF GateInv
<1> QED BY <1>1, GateInvariant, PTL

\* From request_stop(true) until the stop ends or is withdrawn no request is
\* routed to the live process, even if its monitor reaches Ready meanwhile.
THEOREM StopAlwaysClosesRouting == GateSpec => []StopClosesRouting
<1>1. GateInv => StopClosesRouting
  BY DEF GateInv, GateTypeOK, OpType, OpShape, StopStands, StopSteps, StopClosesRouting,
      GateAllows, Free
<1> QED BY <1>1, GateInvariant, PTL

\* A live process is always the one in the instance map and in the coordinator.
THEOREM NeverOrphaned == GateSpec => []NoOrphanProcess
<1>1. GateInv => NoOrphanProcess
  BY DEF GateInv, Tracking, NoOrphanProcess
<1> QED BY <1>1, GateInvariant, PTL

\* Requests never reach a process whose restore failed half way, unless that
\* process survived a termination.
THEOREM RestoreFailureAlwaysContained == GateSpec => []RestoreFailureContained
<1>1. GateInv => RestoreFailureContained
  <2> SUFFICES ASSUME GateInv, NEW p \in Pids, RoutesPoisoned(p), p \notin unkillable
               PROVE  FALSE
    BY DEF RestoreFailureContained
  <2>1. entry.gate /\ (entry.phase = "RestartRequired" \/ entry.stop)
    BY DEF GateInv, RestorePhases, RestorePhase, Condemned, RoutesPoisoned
  <2>2. ~entry.stop /\ entry.routable
    BY <2>1 DEF RoutesPoisoned, GateAllows
  <2> QED BY <2>1, <2>2 DEF GateInv, RoutableIsDerived, RoutablePhases
<1> QED BY <1>1, GateInvariant, PTL

\* The replacement of a poisoned process never restores a checkpoint, so a
\* recovery cannot cause another one.
THEOREM RecoveryAlwaysCold == GateSpec => []RecoveryStartsCold
<1>1. GateInv => RecoveryStartsCold
  BY DEF GateInv, GateTypeOK, ColdRecovery, RecoveryStartsCold
<1> QED BY <1>1, GateInvariant, PTL

\* A failed restore is contained: routing stays closed, and no recovery loops.
THEOREM RestoreAlwaysContained == GateSpec => []RestoreContained
<1>1. RestoreFailureContained /\ RecoveryStartsCold => RestoreContained
  BY DEF RestoreContained
<1> QED BY <1>1, RestoreFailureAlwaysContained, RecoveryAlwaysCold, PTL

\* Only the monitor of the registered process changes the entry: the late events
\* of a process that is gone change nothing for the next one.
THEOREM StaleEventsAlwaysIgnored == GateSpec => StaleEventsIgnored
<1>1. ASSUME GateInv, [GateNext]_gateVars, NEW q \in Pids,
             mon[q] # "none", mon'[q] # mon[q], entry' # entry
      PROVE  entry.pid = q
  <2>1. CASE StartInstance \/ RecoveryStart
    <3>1. mon' = [mon EXCEPT ![launched + 1] = "startup"] /\ launched < MaxPid
      BY <2>1 DEF StartInstance, RecoveryStart, Launch
    <3>2. launched + 1 \in Pids /\ launched + 1 > launched
      BY <1>1, <3>1 DEF GateInv, GateTypeOK, Pids
    <3>3. mon[launched + 1] = "none"
      BY <1>1, <3>2 DEF GateInv, ColdRecovery
    <3> QED BY <1>1, <3>1, <3>3 DEF GateInv, GateTypeOK
  <2>2. ASSUME NEW p \in Pids, MonitorStep(p)
        PROVE  entry.pid = q
    <3>1. p = q
      BY <1>1, <2>2 DEF GateInv, GateTypeOK, MonitorStep, MonitorProbe, MonitorHealthy,
          MonitorRestore, MonitorCold, MonitorLoadFails, MonitorRestored, MonitorRestoreFails,
          MonitorSettled, MonitorRecover, MonitorEnds, To
    <3> QED BY <1>1, <2>2, <3>1 DEF MonitorStep, MonitorProbe, MonitorHealthy,
          MonitorRestore, MonitorCold, MonitorLoadFails, MonitorRestored, MonitorRestoreFails,
          MonitorSettled, MonitorRecover, MonitorEnds, RestoreFailure, Move, CanMove, MarkStopped
  <2>3. CASE OpStep /\ ~RecoveryStart
    BY <1>1, <2>3 DEF OpStep, StopRequest, StopDecide, StopUnready, StopReady, StopDrained,
        StopSkipSave, StopSaved, KillSucceeds, KillFails, RecoveryStartFails, IdleRecheck,
        IdleSaved, Resume
  <2>4. CASE \/ StartRolledBack \/ StopInstance \/ ProcessDies \/ RecordProcessExit
             \/ ProbeSnapshot \/ RetainTargets \/ UNCHANGED gateVars
    BY <1>1, <2>4 DEF StartRolledBack, StopInstance, ProcessDies, RecordProcessExit, ProbeSnapshot,
        RetainTargets, gateVars
  <2>5. ASSUME NEW p \in Pids, IdleClose(p)
        PROVE  entry.pid = q
    BY <1>1, <2>5 DEF IdleClose
  <2>6. ASSUME NEW r \in Requests, RequestStep(r)
        PROVE  entry.pid = q
    BY <1>1, <2>6 DEF RequestStep, LookUp, Resolve, Acquire, Send, Finish
  <2> QED BY <1>1, <2>1, <2>2, <2>3, <2>4, <2>5, <2>6 DEF GateNext, OpStep
<1>2. GateInv /\ [GateNext]_gateVars =>
        [\A p \in Pids :
           mon[p] # "none" /\ mon'[p] # mon[p] /\ entry' # entry => entry.pid = p]_gateVars
  BY <1>1
<1> QED BY <1>2, GateInvariant, PTL DEF GateSpec, StaleEventsIgnored

-----------------------------------------------------------------------------
(* The checkpoint store *)

USE StoreAssumption, NoGenAssumption

(* One directory *)
Sound(g) ==
    /\ g <= created
    /\ gens[g].marker => g \in rejected
    /\ gens[g].dir = "final" /\ g \notin torn => Complete(g)
    /\ \A s \in Slots : gens[g].tokens[s] = 0 \/ gens[g].tokens[s] >= MinTokens

(* One fingerprint: its pointer and its acknowledged generation *)
Pointed(fp) ==
    /\ latest[fp] <= created
    /\ latest[fp] \in Present => gens[latest[fp]].dir = "final" /\ gens[latest[fp]].fp = fp
    /\ acked[fp] <= latest[fp]
    /\ acked[fp] # 0 => /\ Valid(acked[fp]) /\ gens[acked[fp]].fp = fp
                        /\ acked[fp] \notin torn \cup rejected

(* The generation being saved *)
Committing == pc # "idle" =>
    /\ cur \in Present /\ cur = created /\ cur \notin torn \cup rejected
    /\ outcome = "other"
    /\ Bytes(gens[cur].tokens) <= Limit
    /\ pc \in {"move", "rename"} => gens[cur].dir = "pending"
    /\ pc = "rename" => Complete(cur)
    /\ pc \notin {"move", "rename"} => gens[cur].dir = "final"
    /\ pc = "usage" => latest[gens[cur].fp] = cur

(* What prune_instance has seen and not yet removed *)
Scanned == pc \in {"sweep", "remove", "evict", "reconcile"} =>
    /\ acked[gens[cur].fp] = cur
    /\ cur \in kept
    /\ \A g \in kept : Valid(g)
    /\ \A g \in junk : g \in Present /\ ~Valid(g)
    /\ \A g \in Gens : Valid(g) /\ g \notin rejected => g \in kept
    /\ pc = "remove" => victim \in torn /\ victim \notin junk \cup kept
    /\ pc = "reconcile" => TotalBytes(kept) <= Limit

NoShorter(g, h) == \A s \in Slots : gens[h].tokens[s] >= gens[g].tokens[s]

(* What may come to be restored instead of the generation the pointer names *)
Heirs(fp) == Valid(latest[fp]) /\ latest[fp] \notin rejected =>
    \A h \in Gens : Valid(h) /\ h \notin rejected /\ gens[h].fp = fp /\ h > latest[fp] => NoShorter(latest[fp], h)

(* The generation being built continues the one that would be restored *)
Merging == PreserveLonger /\ pc \in {"move", "rename"} =>
    \A fp \in Fingerprints : gens[cur].fp = fp /\ LoadLatest(fp) # 0 => NoShorter(LoadLatest(fp), cur)

Stored ==
    /\ \A g \in Present : Sound(g)
    /\ \A fp \in Fingerprints : Pointed(fp)
    /\ PreserveLonger => \A fp \in Fingerprints : Heirs(fp)

Inv ==
    /\ TypeOK
    /\ Stored
    /\ Committing
    /\ Scanned
    /\ StorageBounded
    /\ Merging

-----------------------------------------------------------------------------
(* Loading                                                                 *)

LEMMA GenIs ==
    ASSUME TypeOK, NEW g \in Present
    PROVE  /\ g \in Gens /\ g \in Nat /\ g # 0 /\ gens[g] \in Generation /\ gens[g] # NoGen
           /\ gens[g].dir \in {"pending", "final"} /\ gens[g].fp \in Fingerprints
           /\ gens[g].tokens \in [Slots -> 0 .. MaxTokens] /\ gens[g].payload \in SUBSET Slots
           /\ gens[g].manifest \in BOOLEAN /\ gens[g].marker \in BOOLEAN
<1>1. g \in Gens /\ g \in Nat /\ g # 0 /\ gens[g] \in Generation /\ gens[g] # NoGen
  BY DEF TypeOK, Present, Gens
<1> QED BY <1>1 DEF Generation

LEMMA ValidFrame ==
    ASSUME NEW g, gens'[g] = gens[g]
    PROVE  (Valid(g)' <=> Valid(g)) /\ (g \in Present' <=> g \in Present) /\ (Complete(g)' <=> Complete(g))
<1>1. Complete(g)' <=> Complete(g)
  BY DEF Complete, Saved
<1>2. g \in Present' <=> g \in Present
  BY DEF Present
<1> QED BY <1>1, <1>2 DEF Valid

LEMMA ValidIs == ASSUME NEW g, Valid(g) PROVE g \in Present /\ g \in Gens /\ gens[g].dir = "final" /\ Complete(g) /\ ~gens[g].marker
BY DEF Valid, Present

\* A non-empty set of generations has a newest one.
LEMMA NewestIs ==
    ASSUME NEW G \in SUBSET Gens
    PROVE  /\ G = {} => Newest(G) = 0
           /\ G # {} => Newest(G) \in G /\ \A h \in G : h <= Newest(G)
<1>1. G = {} => Newest(G) = 0
  BY DEF Newest
<1>2. ASSUME G # {} PROVE Newest(G) \in G /\ \A h \in G : h <= Newest(G)
  <2>1. \A g \in G : g \in Nat /\ MaxGen - g \in Nat
    BY DEF Gens
  <2>2. PICK D \in SUBSET Nat : D = { MaxGen - g : g \in G }
    BY <2>1
  <2>3. D # {}
    BY <1>2, <2>2
  <2>4. \E n \in D : \A m \in D : ~(<<m, n>> \in OpToRel(<, Nat))
    BY <2>3, WFMin, NatLessThanWellFounded
  <2>5. PICK n \in D : \A m \in D : ~(<<m, n>> \in OpToRel(<, Nat))
    BY <2>4
  <2>6. \A m \in D : m \in Nat /\ n \in Nat /\ ~(m < n)
    BY <2>5 DEF OpToRel
  <2>7. PICK g \in G : n = MaxGen - g
    BY <2>2
  <2>8. \A h \in G : h <= g
    <3> SUFFICES ASSUME NEW h \in G PROVE h <= g
      OBVIOUS
    <3>1. MaxGen - h \in D
      BY <2>2
    <3> QED BY <2>1, <2>6, <2>7, <3>1
  <2> QED BY <1>2, <2>8 DEF Newest
<1> QED BY <1>1, <1>2

\* load_latest finds a valid generation; when it is not the pointer's, no newer
\* one is valid.
LEMMA LoadIs ==
    ASSUME TypeOK, NEW fp \in Fingerprints
    PROVE  /\ LoadLatest(fp) \in 0 .. MaxGen
           /\ Valid(latest[fp]) => LoadLatest(fp) = latest[fp]
           /\ LoadLatest(fp) # 0 => Valid(LoadLatest(fp))
           /\ LoadLatest(fp) # 0 /\ LoadLatest(fp) # latest[fp] => gens[LoadLatest(fp)].fp = fp
           /\ \/ LoadLatest(fp) = latest[fp] /\ Valid(latest[fp])
              \/ \A h \in Gens : Valid(h) /\ gens[h].fp = fp => h <= LoadLatest(fp)
<1>1. latest[fp] \in 0 .. MaxGen
  BY DEF TypeOK
<1>2. PICK G \in SUBSET Gens : G = ValidOf(fp)
  BY DEF ValidOf, Present
<1>3. \A h \in G : Valid(h) /\ gens[h].fp = fp
  BY <1>2 DEF ValidOf
<1>4. CASE Valid(latest[fp])
  <2>1. latest[fp] # 0
    BY <1>4, ValidIs DEF Gens
  <2>2. LoadLatest(fp) = latest[fp]
    BY <1>4, <2>1 DEF LoadLatest
  <2> QED BY <1>1, <1>4, <2>2
<1>5. CASE ~Valid(latest[fp])
  <2>1. LoadLatest(fp) = Newest(G)
    BY <1>2, <1>5 DEF LoadLatest
  <2>2. \A h \in Gens : Valid(h) /\ gens[h].fp = fp => h \in G
    BY <1>2, ValidIs DEF ValidOf
  <2>3. CASE G = {}
    BY <1>5, <2>1, <2>2, <2>3, NewestIs
  <2>4. CASE G # {}
    <3>1. PICK n \in G : n = Newest(G) /\ \A h \in G : h <= n
      BY <2>4, NewestIs
    <3>2. n \in 0 .. MaxGen /\ n # 0
      BY DEF Gens
    <3> QED BY <1>3, <1>5, <2>1, <2>2, <3>1, <3>2
  <2> QED BY <2>3, <2>4
<1> QED BY <1>4, <1>5

\* What is loaded depends on the pointer and on which generations are valid.
LEMMA LoadFrame ==
    ASSUME NEW fp, latest'[fp] = latest[fp],
           \A h \in Gens : (Valid(h)' <=> Valid(h)) /\ (Valid(h) => gens'[h].fp = gens[h].fp)
    PROVE  LoadLatest(fp)' = LoadLatest(fp)
<1>1. \A h : (Valid(h)' => h \in Gens) /\ (Valid(h) => h \in Gens)
  BY DEF Valid, Present
<1>2. \A h : Valid(h)' <=> Valid(h)
  BY <1>1
<1>3. PICK A, B : A = ValidOf(fp) /\ B = ValidOf(fp)'
  OBVIOUS
<1>4. \A h : (h \in A <=> Valid(h) /\ gens[h].fp = fp) /\ (h \in B <=> Valid(h)' /\ gens'[h].fp = fp)
  BY <1>3 DEF ValidOf, Valid
<1>5. A = B
  BY <1>1, <1>2, <1>4
<1>6. ValidOf(fp)' = ValidOf(fp)
  BY <1>3, <1>5
<1>7. Valid(latest[fp])' <=> Valid(latest[fp])
  <2>1. PICK l : l = latest[fp] /\ l = latest'[fp]
    OBVIOUS
  <2>2. Valid(l)' <=> Valid(l)
    BY <1>2
  <2> QED BY <2>1, <2>2 DEF Valid, Complete, Saved
<1> QED BY <1>6, <1>7 DEF LoadLatest, Newest

-----------------------------------------------------------------------------
(* Bytes                                                                   *)

LEMMA DataFinite ==
    ASSUME NEW tokens \in [Slots -> 0 .. MaxTokens]
    PROVE  Data(tokens) \subseteq Slots \X (1 .. MaxTokens) /\ IsFiniteSet(Data(tokens)) /\ Bytes(tokens) \in Nat
<1>1. Data(tokens) \subseteq Slots \X (1 .. MaxTokens)
  <2> SUFFICES ASSUME NEW x \in Data(tokens) PROVE x \in Slots \X (1 .. MaxTokens)
    OBVIOUS
  <2>1. PICK s \in Slots : x \in {s} \X (1 .. tokens[s])
    BY DEF Data
  <2>2. tokens[s] \in 0 .. MaxTokens
    OBVIOUS
  <2> QED BY <2>1, <2>2
<1>2. IsFiniteSet(Slots \X (1 .. MaxTokens))
  <2>1. IsFiniteSet(1 .. MaxTokens)
    BY FS_Interval
  <2> QED BY <2>1, FS_Product
<1>3. IsFiniteSet(Data(tokens))
  BY <1>1, <1>2, FS_Subset
<1> QED BY <1>1, <1>3, FS_CardinalityType DEF Bytes

LEMMA ContentsFinite ==
    ASSUME TypeOK, NEW G \in SUBSET Present
    PROVE  IsFiniteSet(Contents(G)) /\ TotalBytes(G) \in Nat
<1>1. Contents(G) \subseteq Gens \X (Slots \X (1 .. MaxTokens))
  <2> SUFFICES ASSUME NEW x \in Contents(G) PROVE x \in Gens \X (Slots \X (1 .. MaxTokens))
    OBVIOUS
  <2>1. PICK g \in G : x \in {g} \X Data(gens[g].tokens)
    BY DEF Contents
  <2>2. g \in Gens /\ gens[g].tokens \in [Slots -> 0 .. MaxTokens]
    BY GenIs
  <2>3. Data(gens[g].tokens) \subseteq Slots \X (1 .. MaxTokens)
    BY <2>2, DataFinite
  <2> QED BY <2>1, <2>2, <2>3
<1>2. IsFiniteSet(Gens \X (Slots \X (1 .. MaxTokens)))
  <2>1. IsFiniteSet(1 .. MaxTokens) /\ IsFiniteSet(Gens)
    BY FS_Interval DEF Gens
  <2>2. IsFiniteSet(Slots \X (1 .. MaxTokens))
    BY <2>1, FS_Product
  <2> QED BY <2>1, <2>2, FS_Product
<1>3. IsFiniteSet(Contents(G))
  BY <1>1, <1>2, FS_Subset
<1> QED BY <1>3, FS_CardinalityType DEF TotalBytes

\* Fewer generations, with the same contents, take no more room.
LEMMA TotalShrinks ==
    ASSUME TypeOK, NEW A, NEW B \in SUBSET Present, A \subseteq B, \A g \in A : gens'[g].tokens = gens[g].tokens
    PROVE  TotalBytes(A)' <= TotalBytes(B) /\ TotalBytes(A)' \in Nat /\ TotalBytes(B) \in Nat
<1>1. Contents(A)' \subseteq Contents(B)
  <2> SUFFICES ASSUME NEW x \in Contents(A)' PROVE x \in Contents(B)
    OBVIOUS
  <2>1. PICK g \in A : x \in {g} \X Data(gens'[g].tokens)
    BY DEF Contents
  <2>2. g \in B /\ x \in {g} \X Data(gens[g].tokens)
    BY <2>1
  <2> QED BY <2>2 DEF Contents
<1>2. PICK C, D : C = Contents(A)' /\ D = Contents(B)
  OBVIOUS
<1>3. IsFiniteSet(D) /\ C \subseteq D
  BY <1>1, <1>2, ContentsFinite
<1>4. Cardinality(C) <= Cardinality(D) /\ Cardinality(C) \in Nat /\ Cardinality(D) \in Nat
  BY <1>3, FS_Subset, FS_CardinalityType
<1> QED BY <1>2, <1>4 DEF TotalBytes

LEMMA BytesFrame ==
    ASSUME gens'[cur'].tokens = gens[cur].tokens, Bytes(gens[cur].tokens) <= Limit
    PROVE  Bytes(gens[cur].tokens)' <= Limit
<1>1. Bytes(gens[cur].tokens)' = Bytes(gens[cur].tokens)
  BY DEF Bytes, Data
<1> QED BY <1>1

LEMMA TotalOfOne ==
    ASSUME TypeOK, NEW g \in Present
    PROVE  TotalBytes({g}) = Bytes(gens[g].tokens)
<1>1. PICK D : D = Data(gens[g].tokens)
  OBVIOUS
<1>2. IsFiniteSet(D) /\ Cardinality(D) \in Nat
  BY <1>1, GenIs, DataFinite DEF Bytes
<1>3. Contents({g}) = {g} \X D
  BY <1>1 DEF Contents
<1>4. IsFiniteSet({g}) /\ Cardinality({g}) = 1
  BY FS_Singleton
<1>5. Cardinality({g} \X D) = 1 * Cardinality(D)
  BY <1>2, <1>4, FS_Product
<1>6. PICK n \in Nat : n = Cardinality(D)
  BY <1>2
<1>7. Cardinality({g} \X D) = n
  BY <1>5, <1>6
<1> QED BY <1>1, <1>3, <1>6, <1>7 DEF TotalBytes, Bytes

-----------------------------------------------------------------------------
(* What a step leaves alone                                                *)

(* Nothing becomes a valid generation that is not a rejected one, and contents
   do not change *)
NoRevival ==
    \A h \in Gens :
        /\ Valid(h)' /\ h \notin rejected' => Valid(h) /\ h \notin rejected
        /\ Valid(h)' => gens'[h].tokens = gens[h].tokens /\ gens'[h].fp = gens[h].fp

LEMMA NoShorterFrame ==
    ASSUME NEW g, NEW h, gens'[g].tokens = gens[g].tokens, gens'[h].tokens = gens[h].tokens, NoShorter(g, h)
    PROVE  NoShorter(g, h)'
BY DEF NoShorter

LEMMA HeirsStep ==
    ASSUME NEW fp, Heirs(fp), NoRevival, latest'[fp] = latest[fp]
    PROVE  Heirs(fp)'
<1>1. PICK l : l = latest[fp] /\ l = latest'[fp]
  OBVIOUS
<1>2. SUFFICES ASSUME Valid(l)', l \notin rejected',
                      NEW h \in Gens, Valid(h)', h \notin rejected', gens'[h].fp = fp, h > l
               PROVE  NoShorter(l, h)'
  BY <1>1 DEF Heirs, Valid, Complete, Saved, NoShorter
<1>3. l \in Gens
  BY <1>2 DEF Valid, Present
<1>4. /\ Valid(l) /\ l \notin rejected /\ Valid(h) /\ h \notin rejected
      /\ gens'[l].tokens = gens[l].tokens /\ gens'[h].tokens = gens[h].tokens /\ gens'[h].fp = gens[h].fp
  BY <1>2, <1>3 DEF NoRevival
<1>5. NoShorter(l, h)
  BY <1>1, <1>2, <1>4 DEF Heirs
<1> QED BY <1>4, <1>5, NoShorterFrame

\* A step that touches the files of one directory, or removes it.
LEMMA TouchStored ==
    ASSUME TypeOK, Stored, TypeOK', NEW g \in Present,
           \A h \in Gens \ {g} : /\ gens'[h] = gens[h]
                                 /\ h \in torn' <=> h \in torn
                                 /\ h \in rejected' <=> h \in rejected,
           gens'[g] # NoGen => /\ gens'[g].dir = gens[g].dir /\ gens'[g].fp = gens[g].fp
                               /\ gens'[g].tokens = gens[g].tokens
                               /\ gens'[g].marker => g \in rejected'
                               /\ gens'[g].dir = "final" /\ g \notin torn' => Complete(g)'
                               /\ Valid(g)' /\ g \notin rejected' => Valid(g) /\ g \notin rejected,
           created' = created, latest' = latest,
           \A fp \in Fingerprints : acked'[fp] = 0 \/ (acked'[fp] = acked[fp] /\ acked[fp] # g)
    PROVE  /\ Stored' /\ NoRevival
           /\ \A h \in Gens \ {g} : (Valid(h)' <=> Valid(h)) /\ (h \in Present' <=> h \in Present)
<1>1. \A h \in Gens \ {g} : (Valid(h)' <=> Valid(h)) /\ (h \in Present' <=> h \in Present) /\ (Complete(h)' <=> Complete(h))
  BY ValidFrame
<1>2. g \in Gens /\ (g \in Present' <=> gens'[g] # NoGen) /\ (Valid(g)' => g \in Present')
  BY DEF Present, Valid
<1>3. NoRevival
  <2> SUFFICES ASSUME NEW h \in Gens
               PROVE  /\ Valid(h)' /\ h \notin rejected' => Valid(h) /\ h \notin rejected
                      /\ Valid(h)' => gens'[h].tokens = gens[h].tokens /\ gens'[h].fp = gens[h].fp
    BY DEF NoRevival
  <2>1. CASE h = g
    BY <1>2, <2>1
  <2>2. CASE h # g
    BY <1>1, <2>2
  <2> QED BY <2>1, <2>2
<1>4. ASSUME NEW h \in Present' PROVE Sound(h)'
  <2>1. h \in Gens
    BY DEF Present
  <2>2. h \in Present
    BY <1>1, <1>2, <2>1
  <2>3. Sound(h)
    BY <2>2 DEF Stored
  <2>4. CASE h = g
    BY <1>2, <2>3, <2>4 DEF Sound
  <2>5. CASE h # g
    <3>1. gens'[h] = gens[h] /\ (Complete(h)' <=> Complete(h))
      BY <1>1, <2>1, <2>5
    <3> QED BY <2>1, <2>3, <2>5, <3>1 DEF Sound
  <2> QED BY <2>4, <2>5
<1>5. ASSUME NEW fp \in Fingerprints PROVE Pointed(fp)'
  <2>1. Pointed(fp) /\ latest[fp] \in 0 .. MaxGen /\ acked[fp] \in 0 .. MaxGen
    BY DEF Stored, TypeOK
  <2>2. PICK l, a, b : l = latest[fp] /\ l = latest'[fp] /\ a = acked[fp] /\ b = acked'[fp]
    OBVIOUS
  <2>3. l \in Present' => gens'[l].dir = "final" /\ gens'[l].fp = fp
    <3>1. l \in Present' => l \in Gens
      BY DEF Present
    <3>2. l \in Present => gens[l].dir = "final" /\ gens[l].fp = fp
      BY <2>1, <2>2 DEF Pointed
    <3> QED BY <1>1, <1>2, <3>1, <3>2
  <2>4. b <= l
    BY <2>1, <2>2 DEF Pointed
  <2>5. b # 0 => Valid(b)' /\ gens'[b].fp = fp /\ b \notin torn' \cup rejected'
    <3> SUFFICES ASSUME b # 0 PROVE Valid(b)' /\ gens'[b].fp = fp /\ b \notin torn' \cup rejected'
      OBVIOUS
    <3>1. b = a /\ a # g
      BY <2>2
    <3>2. Valid(a) /\ gens[a].fp = fp /\ a \notin torn \cup rejected
      BY <2>1, <2>2, <3>1 DEF Pointed
    <3>3. a \in Gens
      BY <3>2, ValidIs
    <3> QED BY <1>1, <3>1, <3>2, <3>3
  <2> QED BY <2>1, <2>2, <2>3, <2>4, <2>5 DEF Pointed, Valid, Complete, Saved
<1>6. ASSUME PreserveLonger, NEW fp \in Fingerprints PROVE Heirs(fp)'
  BY <1>3, <1>6, HeirsStep DEF Stored
<1>7. Stored'
  BY <1>4, <1>5, <1>6 DEF Stored
<1> QED BY <1>1, <1>3, <1>7

\* A step that leaves all directories alone.
LEMMA SameGens ==
    ASSUME UNCHANGED <<gens, rejected>>
    PROVE  /\ NoRevival /\ Present' = Present /\ \A h : (Valid(h)' <=> Valid(h)) /\ (Complete(h)' <=> Complete(h))
           /\ \A G : TotalBytes(G)' = TotalBytes(G)
<1>1. Present' = Present
  BY DEF Present
<1>2. \A h : (Valid(h)' <=> Valid(h)) /\ (Complete(h)' <=> Complete(h))
  BY ValidFrame
<1>3. \A G : TotalBytes(G)' = TotalBytes(G)
  BY DEF TotalBytes, Contents
<1> QED BY <1>1, <1>2, <1>3 DEF NoRevival

LEMMA QuietStored ==
    ASSUME TypeOK, Stored, UNCHANGED <<gens, rejected, created, latest, acked>>,
           \A g \in Present : g \in torn => g \in torn',
           \A fp \in Fingerprints : acked[fp] # 0 /\ acked[fp] \notin torn => acked[fp] \notin torn'
    PROVE  Stored'
<1>1. NoRevival /\ Present' = Present /\ \A h : (Valid(h)' <=> Valid(h)) /\ (Complete(h)' <=> Complete(h))
  BY SameGens
<1>2. ASSUME NEW g \in Present' PROVE Sound(g)'
  BY <1>1, <1>2 DEF Stored, Sound
<1>3. ASSUME NEW fp \in Fingerprints PROVE Pointed(fp)'
  <2>1. Pointed(fp)
    BY DEF Stored
  <2>2. PICK a : a = acked[fp] /\ a = acked'[fp]
    OBVIOUS
  <2>3. a # 0 => Valid(a)' /\ a \notin torn' \cup rejected'
    BY <1>1, <2>1, <2>2 DEF Pointed
  <2> QED BY <1>1, <2>1, <2>2, <2>3 DEF Pointed, Valid, Complete, Saved
<1>4. ASSUME PreserveLonger, NEW fp \in Fingerprints PROVE Heirs(fp)'
  BY <1>1, <1>4, HeirsStep DEF Stored
<1> QED BY <1>2, <1>3, <1>4 DEF Stored

\* The storage limit stays kept while the store is idle.
LEMMA StorageStep ==
    ASSUME TypeOK, StorageBounded, NoRevival,
           pc' = "idle" /\ outcome' = "saved" => pc = "idle" /\ outcome = "saved"
    PROVE  StorageBounded'
<1> SUFFICES ASSUME pc' = "idle", outcome' = "saved"
             PROVE  TotalBytes({ g \in Present : Valid(g) } \ rejected)' <= Limit
  BY DEF StorageBounded
<1>1. PICK A, B : A = ({ g \in Present : Valid(g) } \ rejected)' /\ B = { g \in Present : Valid(g) } \ rejected
  OBVIOUS
<1>2. B \in SUBSET Present /\ TotalBytes(B) <= Limit
  BY <1>1 DEF StorageBounded
<1>3. \A g \in A : g \in Gens /\ g \in Present' /\ Valid(g)' /\ g \notin rejected'
  BY <1>1 DEF Present
<1>4. \A g \in A : g \in B /\ gens'[g].tokens = gens[g].tokens
  BY <1>1, <1>3, ValidIs DEF NoRevival
<1>5. TotalBytes(A)' <= TotalBytes(B) /\ TotalBytes(A)' \in Nat /\ TotalBytes(B) \in Nat
  BY <1>2, <1>4, TotalShrinks
<1>6. TotalBytes({ g \in Present : Valid(g) } \ rejected)' = TotalBytes(A)'
  BY <1>1 DEF TotalBytes, Contents
<1> QED BY <1>2, <1>5, <1>6

-----------------------------------------------------------------------------
(* The files of one directory                                              *)

LEMMA EditPayload ==
    ASSUME NEW x \in Generation, NEW P, P \subseteq Slots, NEW y, y = [x EXCEPT !.payload = P]
    PROVE  /\ y \in Generation /\ y # NoGen /\ y.dir = x.dir /\ y.fp = x.fp /\ y.tokens = x.tokens
           /\ y.payload = P /\ y.manifest = x.manifest /\ y.marker = x.marker
<1>1. y = [dir |-> x.dir, fp |-> x.fp, tokens |-> x.tokens, payload |-> P, manifest |-> x.manifest, marker |-> x.marker]
  BY DEF Generation
<1>2. y \in Generation
  BY <1>1 DEF Generation
<1> QED BY <1>1, <1>2

LEMMA EditManifest ==
    ASSUME NEW x \in Generation, NEW b \in BOOLEAN, NEW y, y = [x EXCEPT !.manifest = b]
    PROVE  /\ y \in Generation /\ y # NoGen /\ y.dir = x.dir /\ y.fp = x.fp /\ y.tokens = x.tokens
           /\ y.payload = x.payload /\ y.manifest = b /\ y.marker = x.marker
<1>1. y = [dir |-> x.dir, fp |-> x.fp, tokens |-> x.tokens, payload |-> x.payload, manifest |-> b, marker |-> x.marker]
  BY DEF Generation
<1>2. y \in Generation
  BY <1>1 DEF Generation
<1> QED BY <1>1, <1>2

LEMMA EditMarker ==
    ASSUME NEW x \in Generation, NEW b \in BOOLEAN, NEW y, y = [x EXCEPT !.marker = b]
    PROVE  /\ y \in Generation /\ y # NoGen /\ y.dir = x.dir /\ y.fp = x.fp /\ y.tokens = x.tokens
           /\ y.payload = x.payload /\ y.manifest = x.manifest /\ y.marker = b
<1>1. y = [dir |-> x.dir, fp |-> x.fp, tokens |-> x.tokens, payload |-> x.payload, manifest |-> x.manifest, marker |-> b]
  BY DEF Generation
<1>2. y \in Generation
  BY <1>1 DEF Generation
<1> QED BY <1>1, <1>2

LEMMA EditDir ==
    ASSUME NEW x \in Generation, NEW y, y = [x EXCEPT !.dir = "final"]
    PROVE  /\ y \in Generation /\ y # NoGen /\ y.dir = "final" /\ y.fp = x.fp /\ y.tokens = x.tokens
           /\ y.payload = x.payload /\ y.manifest = x.manifest /\ y.marker = x.marker
<1>1. y = [dir |-> "final", fp |-> x.fp, tokens |-> x.tokens, payload |-> x.payload, manifest |-> x.manifest, marker |-> x.marker]
  BY DEF Generation
<1>2. y \in Generation
  BY <1>1 DEF Generation
<1> QED BY <1>1, <1>2

\* The type, when one directory changes or goes.
LEMMA TouchType ==
    ASSUME TypeOK, NEW g \in Present, NEW y \in Generation \cup {NoGen}, gens' = [gens EXCEPT ![g] = y],
           torn' \in {torn, torn \cup {g}, torn \ {g}}, rejected' \in {rejected, rejected \cup {g}, rejected \ {g}},
           y = NoGen => torn' = torn \ {g} /\ rejected' = rejected \ {g}
    PROVE  /\ gens' \in [Gens -> Generation \cup {NoGen}] /\ gens'[g] = y
           /\ \A h \in Gens \ {g} : /\ gens'[h] = gens[h]
                                    /\ h \in torn' <=> h \in torn
                                    /\ h \in rejected' <=> h \in rejected
           /\ torn' \in SUBSET Present' /\ rejected' \in SUBSET Present'
<1>1. g \in Gens /\ gens \in [Gens -> Generation \cup {NoGen}] /\ torn \in SUBSET Present /\ rejected \in SUBSET Present
  BY DEF TypeOK, Present
<1>2. gens' \in [Gens -> Generation \cup {NoGen}] /\ gens'[g] = y /\ \A h \in Gens \ {g} : gens'[h] = gens[h]
  BY <1>1
<1>3. \A h \in Gens \ {g} : h \in Present' <=> h \in Present
  BY <1>2 DEF Present
<1>4. y # NoGen => g \in Present'
  BY <1>1, <1>2 DEF Present
<1>5. \A h \in Present : h \in Gens
  BY DEF Present
<1>6. \A h \in Present : (h = g /\ y = NoGen) \/ h \in Present'
  BY <1>3, <1>4, <1>5
<1>7. torn' \in SUBSET Present' /\ rejected' \in SUBSET Present'
  BY <1>1, <1>6
<1> QED BY <1>2, <1>7

\* The generation a save has published is valid.
LEMMA CurValid ==
    ASSUME TypeOK, Stored, Committing, pc \notin {"idle", "move", "rename"}
    PROVE  Valid(cur) /\ cur \in Present
<1>1. cur \in Present /\ cur \notin torn \cup rejected /\ gens[cur].dir = "final"
  BY DEF Committing
<1>2. Sound(cur)
  BY <1>1 DEF Stored
<1> QED BY <1>1, <1>2 DEF Sound, Valid

\* A generation that is not valid was not acknowledged, and the pointer names no
\* generation that is being built.
LEMMA NotAcked ==
    ASSUME Stored, NEW g, ~Valid(g), NEW fp \in Fingerprints
    PROVE  acked[fp] = 0 \/ acked[fp] # g
BY DEF Stored, Pointed

-----------------------------------------------------------------------------
(* Building a generation                                                   *)

\* The slots of the new manifest are in range, and none is shorter than before.
LEMMA MergedIs ==
    ASSUME TypeOK, Stored, NEW prev \in 0 .. MaxGen, prev # 0 => prev \in Present,
           NEW saved \in [Slots -> 0 .. MaxTokens], NEW tokens, tokens = Merged(prev, saved)
    PROVE  /\ tokens \in [Slots -> 0 .. MaxTokens]
           /\ \A s \in Slots : tokens[s] = 0 \/ tokens[s] >= MinTokens
           /\ prev # 0 => \A s \in Slots : tokens[s] >= gens[prev].tokens[s]
<1> SUFFICES ASSUME NEW s \in Slots
             PROVE  /\ tokens[s] \in 0 .. MaxTokens
                    /\ tokens[s] = 0 \/ tokens[s] >= MinTokens
                    /\ prev # 0 => tokens[s] >= gens[prev].tokens[s]
  BY DEF Merged
<1>1. saved[s] \in 0 .. MaxTokens
  OBVIOUS
<1>2. tokens[s] = IF Longer(prev, s, saved[s]) THEN gens[prev].tokens[s]
                  ELSE IF saved[s] > 0 /\ saved[s] >= MinTokens THEN saved[s] ELSE 0
  BY DEF Merged
<1>3. CASE prev = 0
  BY <1>1, <1>2, <1>3 DEF Longer
<1>4. CASE prev # 0
  <2>1. PICK n \in 0 .. MaxTokens : n = gens[prev].tokens[s]
    BY <1>4, GenIs
  <2>2. n = 0 \/ n >= MinTokens
    BY <1>4, <2>1 DEF Stored, Sound
  <2>3. Longer(prev, s, saved[s]) <=> n > saved[s]
    BY <1>4, <2>1 DEF Longer
  <2> QED BY <1>1, <1>2, <2>1, <2>2, <2>3
<1> QED BY <1>3, <1>4

LEMMA SaveBeginInv ==
    ASSUME Inv, NEW fp \in Fingerprints, NEW saved \in [Slots -> 0 .. MaxTokens], SaveBegin(fp, saved)
    PROVE  Inv'
<1>1. TypeOK /\ Stored
  BY DEF Inv
<1>2. PICK n \in Gens : n = created + 1 /\ created < n
  BY <1>1 DEF SaveBegin, TypeOK, Gens
<1>3. PICK prev \in 0 .. MaxGen : prev = Previous(fp)
  BY <1>1, LoadIs DEF Previous
<1>4. prev # 0 => prev \in Present /\ PreserveLonger
  BY <1>1, <1>3, LoadIs, ValidIs DEF Previous
<1>5. PICK tokens \in [Slots -> 0 .. MaxTokens] :
        /\ tokens = Merged(prev, saved) /\ \A s \in Slots : tokens[s] = 0 \/ tokens[s] >= MinTokens
        /\ prev # 0 => \A s \in Slots : tokens[s] >= gens[prev].tokens[s]
  BY <1>1, <1>4, MergedIs
<1>6. PICK y : y = [dir |-> "pending", fp |-> fp, tokens |-> tokens, payload |-> {}, manifest |-> FALSE, marker |-> FALSE]
  OBVIOUS
<1>7. y \in Generation /\ y # NoGen
  <2>1. y \in Generation
    BY <1>6 DEF Generation
  <2> QED BY <2>1
<1>8. /\ pc = "idle" /\ pc' = "move" /\ cur' = n /\ created' = n /\ gens' = [gens EXCEPT ![n] = y]
      /\ Bytes(tokens) <= Limit /\ outcome' = "other"
      /\ UNCHANGED <<latest, junk, kept, victim, todo, acked, rejected, torn, damages>>
  BY <1>2, <1>3, <1>5, <1>6 DEF SaveBegin, pruning, history
<1>9. n \notin Present
  <2> SUFFICES ASSUME n \in Present PROVE FALSE
    OBVIOUS
  <2>1. Sound(n)
    BY <1>1 DEF Stored
  <2>2. n <= created /\ created \in Nat /\ n \in Nat
    BY <1>1, <2>1 DEF Sound, TypeOK, Gens
  <2> QED BY <1>2, <2>2
<1>10. /\ gens'[n] = y /\ \A h \in Gens \ {n} : gens'[h] = gens[h]
       /\ gens' \in [Gens -> Generation \cup {NoGen}]
  BY <1>1, <1>7, <1>8 DEF TypeOK
<1>11. /\ \A h \in Gens \ {n} : (Valid(h)' <=> Valid(h)) /\ (h \in Present' <=> h \in Present) /\ (Complete(h)' <=> Complete(h))
       /\ ~Valid(n) /\ ~Valid(n)' /\ n \in Present' /\ Present \subseteq Present'
  <2>1. \A h \in Gens \ {n} : (Valid(h)' <=> Valid(h)) /\ (h \in Present' <=> h \in Present) /\ (Complete(h)' <=> Complete(h))
    BY <1>10, ValidFrame
  <2>2. ~Valid(n)
    BY <1>9, ValidIs
  <2>3. ~Valid(n)'
    BY <1>6, <1>10 DEF Valid
  <2>4. n \in Present'
    BY <1>7, <1>10 DEF Present
  <2>5. \A h \in Present : h \in Gens
    BY DEF Present
  <2> QED BY <2>1, <2>2, <2>3, <2>4, <2>5
<1>12. TypeOK'
  <2>1. torn' \in SUBSET Present' /\ rejected' \in SUBSET Present'
    BY <1>1, <1>8, <1>11 DEF TypeOK
  <2>2. created' \in 0 .. MaxGen /\ cur' \in 0 .. MaxGen /\ pc' \in Locations /\ outcome' \in {"other", "saved", "refused"}
    BY <1>8 DEF Gens, Locations
  <2> QED BY <1>1, <1>8, <1>10, <2>1, <2>2 DEF TypeOK
<1>13. NoRevival
  BY <1>8, <1>10, <1>11 DEF NoRevival
<1>14. ASSUME NEW h \in Present' PROVE Sound(h)'
  <2>1. h \in Gens
    BY DEF Present
  <2>2. CASE h = n
    BY <1>2, <1>5, <1>6, <1>8, <1>10, <2>2 DEF Sound
  <2>3. CASE h # n
    <3>1. gens'[h] = gens[h] /\ h \in Present /\ (Complete(h)' <=> Complete(h)) /\ h \in Nat
      BY <1>10, <1>11, <1>14, <2>1, <2>3 DEF Gens
    <3>2. Sound(h) /\ created \in Nat
      BY <1>1, <3>1 DEF Stored, TypeOK
    <3>3. h <= created'
      BY <1>2, <1>8, <3>1, <3>2 DEF Sound
    <3> QED BY <1>8, <3>1, <3>2, <3>3 DEF Sound
  <2> QED BY <2>2, <2>3
<1>15. ASSUME NEW q \in Fingerprints PROVE Pointed(q)'
  <2>1. Pointed(q) /\ latest[q] \in 0 .. MaxGen /\ acked[q] \in 0 .. MaxGen /\ created \in Nat
    BY <1>1 DEF Stored, TypeOK
  <2>2. PICK l \in Nat, a \in Nat : l = latest[q] /\ l = latest'[q] /\ a = acked[q] /\ a = acked'[q]
    BY <1>8, <2>1
  <2>3. l <= created /\ l # n /\ l <= created'
    BY <1>2, <1>8, <2>1, <2>2 DEF Pointed
  <2>4. l \in Present' => gens'[l].dir = "final" /\ gens'[l].fp = q
    <3>1. l \in Present' => l \in Gens
      BY DEF Present
    <3> QED BY <1>10, <1>11, <2>1, <2>2, <2>3, <3>1 DEF Pointed
  <2>5. a # 0 => Valid(a)' /\ gens'[a].fp = q /\ a \notin torn' \cup rejected'
    <3>1. a # 0 => Valid(a) /\ a \in Gens \ {n}
      BY <1>11, <2>1, <2>2, ValidIs DEF Pointed
    <3> QED BY <1>8, <1>10, <1>11, <2>1, <2>2, <3>1 DEF Pointed
  <2> QED BY <2>1, <2>2, <2>3, <2>4, <2>5 DEF Pointed, Valid, Complete, Saved
<1>16. Stored'
  <2>1. ASSUME PreserveLonger, NEW q \in Fingerprints PROVE Heirs(q)'
    BY <1>1, <1>8, <1>13, <2>1, HeirsStep DEF Stored
  <2> QED BY <1>14, <1>15, <2>1 DEF Stored
<1>17. Committing'
  <2>1. n \notin torn \cup rejected
    BY <1>1, <1>9 DEF TypeOK
  <2>2. gens'[n].tokens = tokens /\ gens'[n].dir = "pending"
    BY <1>6, <1>10
  <2>3. Bytes(gens[cur].tokens)' <= Limit
    BY <1>8, <2>2 DEF Bytes, Data
  <2> QED BY <1>8, <1>11, <2>1, <2>2, <2>3 DEF Committing
<1>18. Scanned' /\ StorageBounded'
  BY <1>8 DEF Scanned, StorageBounded
<1>19. Merging'
  <2> SUFFICES ASSUME PreserveLonger, NEW q \in Fingerprints, gens'[cur'].fp = q, LoadLatest(q)' # 0
               PROVE  NoShorter(LoadLatest(q), cur)'
    BY DEF Merging
  <2>1. q = fp
    BY <1>6, <1>8, <1>10
  <2>2. LoadLatest(q)' = LoadLatest(q)
    BY <1>8, <1>10, <1>11, LoadFrame
  <2>3. LoadLatest(q) = prev /\ prev # 0 /\ prev # n
    BY <1>3, <1>4, <1>9, <2>1, <2>2 DEF Previous
  <2>4. \A s \in Slots : gens'[n].tokens[s] >= gens'[prev].tokens[s]
    <3>1. gens'[n].tokens = tokens
      BY <1>6, <1>10
    <3>2. prev \in Gens \ {n}
      BY <2>3 DEF Gens
    <3>3. gens'[prev] = gens[prev]
      BY <1>10, <3>2
    <3> QED BY <1>5, <2>3, <3>1, <3>3
  <2> QED BY <1>8, <2>2, <2>3, <2>4 DEF NoShorter
<1> QED BY <1>12, <1>16, <1>17, <1>18, <1>19 DEF Inv

\* The steps up to the rename change only the directory being built: it is not
\* valid before or after.
LEMMA BuildInv ==
    ASSUME Inv, pc = "move", pc' \in {"move", "rename"}, NEW y \in Generation, y # NoGen,
           gens' = [gens EXCEPT ![cur] = y],
           y.dir = gens[cur].dir, y.fp = gens[cur].fp, y.tokens = gens[cur].tokens, y.marker = gens[cur].marker,
           pc' = "rename" => Complete(cur)',
           UNCHANGED <<latest, created, cur, junk, kept, victim, todo, outcome, acked, rejected, torn, damages>>
    PROVE  Inv'
<1>1. TypeOK /\ Stored /\ Committing /\ Merging
  BY DEF Inv
<1>2. cur \in Present /\ gens[cur].dir = "pending" /\ cur \in Gens
  BY <1>1 DEF Committing, Present
<1>3. /\ gens' \in [Gens -> Generation \cup {NoGen}] /\ gens'[cur] = y
      /\ \A h \in Gens \ {cur} : /\ gens'[h] = gens[h]
                                 /\ h \in torn' <=> h \in torn
                                 /\ h \in rejected' <=> h \in rejected
      /\ torn' \in SUBSET Present' /\ rejected' \in SUBSET Present'
  BY <1>1, <1>2, TouchType
<1>4. TypeOK'
  BY <1>1, <1>3 DEF TypeOK, Locations
<1>5. ~Valid(cur) /\ ~Valid(cur)'
  BY <1>2, <1>3 DEF Valid
<1>6. /\ Stored' /\ NoRevival
      /\ \A h \in Gens \ {cur} : (Valid(h)' <=> Valid(h)) /\ (h \in Present' <=> h \in Present)
  <2>1. \A fp \in Fingerprints : acked'[fp] = 0 \/ (acked'[fp] = acked[fp] /\ acked[fp] # cur)
    BY <1>1, <1>5, NotAcked
  <2>2. gens'[cur].marker => cur \in rejected'
    BY <1>1, <1>2, <1>3 DEF Stored, Sound
  <2> QED BY <1>1, <1>2, <1>3, <1>4, <1>5, <2>1, <2>2, TouchStored
<1>7. Committing'
  <2>1. cur \in Present'
    BY <1>2, <1>3 DEF Present
  <2>2. Bytes(gens[cur].tokens)' <= Limit
    <3>1. Bytes(gens[cur].tokens) <= Limit /\ gens'[cur'].tokens = gens[cur].tokens
      BY <1>1, <1>3 DEF Committing
    <3> QED BY <3>1, BytesFrame
  <2> QED BY <1>1, <1>2, <1>3, <2>1, <2>2 DEF Committing
<1>8. Scanned' /\ StorageBounded'
  BY DEF Scanned, StorageBounded
<1>9. Merging'
  <2> SUFFICES ASSUME PreserveLonger, NEW q \in Fingerprints, gens'[cur'].fp = q, LoadLatest(q)' # 0
               PROVE  NoShorter(LoadLatest(q), cur)'
    BY DEF Merging
  <2>1. LoadLatest(q)' = LoadLatest(q)
    BY <1>3, <1>5, <1>6, LoadFrame
  <2>2. PICK g : g = LoadLatest(q)
    OBVIOUS
  <2>3. Valid(g) /\ g \in Gens \ {cur} /\ NoShorter(g, cur)
    BY <1>1, <1>3, <1>5, <2>1, <2>2, LoadIs, ValidIs DEF Merging
  <2>4. NoShorter(g, cur)'
    BY <1>3, <2>3, NoShorterFrame DEF NoShorter
  <2> QED BY <2>1, <2>2, <2>4 DEF NoShorter
<1> QED BY <1>4, <1>6, <1>7, <1>8, <1>9 DEF Inv

LEMMA MovePayloadInv == ASSUME Inv, NEW s \in Slots, MovePayload(s) PROVE Inv'
<1>1. TypeOK /\ cur \in Present /\ pc = "move"
  BY DEF Inv, Committing, MovePayload
<1>2. PICK x \in Generation : x = gens[cur]
  BY <1>1, GenIs
<1>3. PICK P : P = x.payload \cup {s} /\ P \subseteq Slots
  <2>1. x.payload \subseteq Slots
    BY DEF Generation
  <2> QED BY <2>1
<1>4. PICK y : y = [x EXCEPT !.payload = P]
  OBVIOUS
<1>5. gens' = [gens EXCEPT ![cur] = y]
  <2>1. gens' = [gens EXCEPT ![cur] = [gens[cur] EXCEPT !.payload = gens[cur].payload \cup {s}]]
    BY DEF MovePayload
  <2> QED BY <1>2, <1>3, <1>4, <2>1
<1>6. y \in Generation /\ y # NoGen /\ y.dir = x.dir /\ y.fp = x.fp /\ y.tokens = x.tokens /\ y.marker = x.marker
  <2>1. P \subseteq Slots
    BY <1>3
  <2>2. y = [dir |-> x.dir, fp |-> x.fp, tokens |-> x.tokens, payload |-> P,
             manifest |-> x.manifest, marker |-> x.marker]
    BY <1>4 DEF Generation
  <2>3. y \in Generation
    BY <2>1, <2>2 DEF Generation
  <2> QED BY <2>2, <2>3
<1>7. UNCHANGED <<latest, created, pc, cur, junk, kept, victim, todo, outcome, acked, rejected, torn, damages>>
  BY DEF MovePayload, pruning, history
<1> QED BY <1>1, <1>2, <1>5, <1>6, <1>7, BuildInv

LEMMA WriteManifestInv == ASSUME Inv, WriteManifest PROVE Inv'
<1>1. TypeOK /\ cur \in Present /\ pc = "move" /\ pc' = "rename"
  BY DEF Inv, Committing, WriteManifest
<1>2. PICK x \in Generation : x = gens[cur]
  BY <1>1, GenIs
<1>3. PICK y : y = [x EXCEPT !.manifest = TRUE]
  OBVIOUS
<1>4. gens' = [gens EXCEPT ![cur] = y] /\ gens'[cur] = y
  BY <1>1, <1>2, <1>3 DEF WriteManifest, TypeOK, Present
<1>5. /\ y \in Generation /\ y # NoGen /\ y.dir = x.dir /\ y.fp = x.fp /\ y.tokens = x.tokens /\ y.marker = x.marker
      /\ y.payload = x.payload /\ y.manifest = TRUE
  BY <1>3, EditManifest
<1>6. UNCHANGED <<latest, created, cur, junk, kept, victim, todo, outcome, acked, rejected, torn, damages>>
  BY DEF WriteManifest, pruning, history
<1>7. Complete(cur)'
  <2>1. Saved(x.tokens) \subseteq x.payload
    BY <1>2 DEF WriteManifest
  <2> QED BY <1>4, <1>5, <1>6, <2>1 DEF Complete, Saved
<1> QED BY <1>1, <1>2, <1>4, <1>5, <1>6, <1>7, BuildInv

\* The rename publishes a complete generation that continues the current one.
LEMMA RenameInv == ASSUME Inv, RenameGeneration PROVE Inv'
<1>1. TypeOK /\ Stored /\ Committing /\ Merging /\ pc = "rename" /\ pc' = "pointer"
  BY DEF Inv, RenameGeneration
<1>2. /\ cur \in Present /\ cur \in Gens /\ gens[cur].dir = "pending" /\ Complete(cur)
      /\ cur \notin torn \cup rejected /\ cur = created
  BY <1>1 DEF Committing, Present
<1>3. PICK x, y : x \in Generation /\ x = gens[cur] /\ y = [x EXCEPT !.dir = "final"]
  BY <1>1, <1>2, GenIs
<1>4. /\ y \in Generation /\ y # NoGen /\ y.dir = "final" /\ y.fp = x.fp /\ y.tokens = x.tokens
      /\ y.payload = x.payload /\ y.manifest = x.manifest /\ y.marker = x.marker
  BY <1>3, EditDir
<1>5. gens' = [gens EXCEPT ![cur] = y]
  BY <1>1, <1>2, <1>3 DEF RenameGeneration, TypeOK
<1>6. UNCHANGED <<latest, created, cur, junk, kept, victim, todo, outcome, acked, rejected, torn, damages>>
  BY DEF RenameGeneration, pruning, history
<1>7. /\ gens' \in [Gens -> Generation \cup {NoGen}] /\ gens'[cur] = y
      /\ \A h \in Gens \ {cur} : gens'[h] = gens[h]
      /\ torn' \in SUBSET Present' /\ rejected' \in SUBSET Present'
  BY <1>1, <1>2, <1>4, <1>5, <1>6, TouchType
<1>8. TypeOK'
  BY <1>1, <1>6, <1>7 DEF TypeOK, Locations
<1>9. /\ \A h \in Gens \ {cur} : (Valid(h)' <=> Valid(h)) /\ (h \in Present' <=> h \in Present) /\ (Complete(h)' <=> Complete(h))
      /\ ~Valid(cur) /\ cur \in Present' /\ Complete(cur)'
  <2>1. Complete(cur)'
    BY <1>2, <1>3, <1>4, <1>6, <1>7 DEF Complete, Saved
  <2>2. ~Valid(cur) /\ cur \in Present'
    BY <1>2, <1>4, <1>7 DEF Valid, Present
  <2> QED BY <1>7, <2>1, <2>2, ValidFrame
<1>10. ASSUME NEW h \in Present' PROVE Sound(h)'
  <2>1. h \in Gens
    BY DEF Present
  <2>2. CASE h = cur
    <3>1. Sound(cur) /\ cur' = cur
      BY <1>1, <1>2, <1>6 DEF Stored
    <3>2. \A s \in Slots : y.tokens[s] = 0 \/ y.tokens[s] >= MinTokens
      BY <1>3, <1>4, <3>1 DEF Sound
    <3>3. Complete(h)'
      BY <1>9, <2>2, <3>1 DEF Complete, Saved
    <3> QED BY <1>3, <1>4, <1>6, <1>7, <2>2, <3>1, <3>2, <3>3 DEF Sound
  <2>3. CASE h # cur
    <3>1. gens'[h] = gens[h] /\ h \in Present /\ (Complete(h)' <=> Complete(h))
      BY <1>7, <1>9, <1>10, <2>1, <2>3
    <3>2. Sound(h)
      BY <1>1, <3>1 DEF Stored
    <3> QED BY <1>6, <3>1, <3>2 DEF Sound
  <2> QED BY <2>2, <2>3
<1>11. ASSUME NEW q \in Fingerprints PROVE Pointed(q)'
  <2>1. Pointed(q)
    BY <1>1 DEF Stored
  <2>2. PICK l, a : l = latest[q] /\ l = latest'[q] /\ a = acked[q] /\ a = acked'[q]
    BY <1>6
  <2>3. l # cur
    BY <1>2, <2>1, <2>2 DEF Pointed
  <2>4. l \in Present' => gens'[l].dir = "final" /\ gens'[l].fp = q
    <3>1. l \in Present' => l \in Gens
      BY DEF Present
    <3> QED BY <1>7, <1>9, <2>1, <2>2, <2>3, <3>1 DEF Pointed
  <2>5. a # 0 => Valid(a)' /\ gens'[a].fp = q /\ a \notin torn' \cup rejected'
    <3>1. a # 0 => Valid(a) /\ a \in Gens \ {cur}
      BY <1>9, <2>1, <2>2, ValidIs DEF Pointed
    <3> QED BY <1>6, <1>7, <1>9, <2>1, <2>2, <3>1 DEF Pointed
  <2> QED BY <1>6, <2>1, <2>2, <2>4, <2>5 DEF Pointed, Valid, Complete, Saved
<1>12. ASSUME PreserveLonger, NEW q \in Fingerprints PROVE Heirs(q)'
  <2>1. PICK l : l = latest[q] /\ l = latest'[q]
    BY <1>6
  <2>2. SUFFICES ASSUME Valid(l)', l \notin rejected',
                        NEW h \in Gens, Valid(h)', h \notin rejected', gens'[h].fp = q, h > l
                 PROVE  NoShorter(l, h)'
    BY <2>1 DEF Heirs, Valid, Complete, Saved, NoShorter
  <2>3. l \in Gens /\ l # cur
    <3>1. l # cur
      <4>1. Pointed(q)
        BY <1>1 DEF Stored
      <4> QED BY <1>2, <2>1, <4>1 DEF Pointed
    <3> QED BY <2>2, <3>1 DEF Valid, Present
  <2>4. Valid(l) /\ gens'[l].tokens = gens[l].tokens
    BY <1>7, <1>9, <2>2, <2>3
  <2>5. CASE h = cur
    <3>1. LoadLatest(q) = l /\ l # 0
      <4>1. Valid(latest[q]) => LoadLatest(q) = latest[q]
        BY <1>1, LoadIs
      <4> QED BY <2>1, <2>3, <2>4, <4>1 DEF Gens
    <3>2. gens[cur].fp = q
      BY <1>3, <1>4, <1>7, <2>2, <2>5
    <3>3. NoShorter(LoadLatest(q), cur)
      BY <1>1, <1>12, <3>1, <3>2 DEF Merging
    <3> QED BY <1>3, <1>4, <1>7, <2>4, <2>5, <3>1, <3>3 DEF NoShorter
  <2>6. CASE h # cur
    <3>1. Valid(h) /\ gens'[h] = gens[h]
      BY <1>7, <1>9, <2>2, <2>6
    <3>2. Heirs(q)
      BY <1>1, <1>12 DEF Stored
    <3>3. NoShorter(l, h)
      BY <1>6, <2>1, <2>2, <2>4, <3>1, <3>2 DEF Heirs
    <3> QED BY <2>4, <3>1, <3>3, NoShorterFrame
  <2> QED BY <2>5, <2>6
<1>13. Committing'
  <2>1. Bytes(gens[cur].tokens)' <= Limit
    <3>1. Bytes(gens[cur].tokens) <= Limit /\ gens'[cur'].tokens = gens[cur].tokens
      BY <1>1, <1>3, <1>4, <1>6, <1>7 DEF Committing
    <3> QED BY <3>1, BytesFrame
  <2> QED BY <1>1, <1>2, <1>4, <1>6, <1>7, <1>9, <2>1 DEF Committing
<1>14. Scanned' /\ StorageBounded' /\ Merging'
  BY <1>1 DEF Scanned, StorageBounded, Merging
<1>15. Stored'
  BY <1>10, <1>11, <1>12 DEF Stored
<1> QED BY <1>8, <1>13, <1>14, <1>15 DEF Inv

-----------------------------------------------------------------------------
(* Publishing it                                                           *)

\* A pointer moves to a generation that no valid one of its fingerprint follows.
LEMMA PointerStored ==
    ASSUME TypeOK, Stored, UNCHANGED <<gens, rejected, torn, created, acked>>,
           NEW fp \in Fingerprints, NEW l \in Nat, latest' = [latest EXCEPT ![fp] = l], l <= created,
           l \in Present => gens[l].dir = "final" /\ gens[l].fp = fp,
           \A h \in Gens : Valid(h) /\ gens[h].fp = fp => h <= l,
           acked[fp] # 0 => acked[fp] <= l
    PROVE  Stored'
<1>1. NoRevival /\ Present' = Present /\ \A h : (Valid(h)' <=> Valid(h)) /\ (Complete(h)' <=> Complete(h))
  BY SameGens
<1>2. latest'[fp] = l /\ \A q \in Fingerprints \ {fp} : latest'[q] = latest[q]
  BY DEF TypeOK
<1>3. ASSUME NEW g \in Present' PROVE Sound(g)'
  BY <1>1, <1>3 DEF Stored, Sound
<1>4. ASSUME NEW q \in Fingerprints PROVE Pointed(q)'
  <2>1. Pointed(q) /\ acked[q] \in Nat
    BY DEF Stored, TypeOK
  <2>2. PICK m, a : m = latest'[q] /\ a = acked[q] /\ a = acked'[q]
    OBVIOUS
  <2>3. a # 0 => Valid(a)' /\ gens'[a].fp = q /\ a \notin torn' \cup rejected'
    BY <1>1, <2>1, <2>2 DEF Pointed
  <2>4. m <= created' /\ a <= m /\ (m \in Present' => gens'[m].dir = "final" /\ gens'[m].fp = q)
    <3>1. CASE q = fp
      BY <1>1, <1>2, <2>1, <2>2, <3>1
    <3>2. CASE q # fp
      BY <1>1, <1>2, <2>1, <2>2, <3>2 DEF Pointed
    <3> QED BY <3>1, <3>2
  <2> QED BY <2>2, <2>3, <2>4 DEF Pointed, Valid, Complete, Saved
<1>5. ASSUME PreserveLonger, NEW q \in Fingerprints PROVE Heirs(q)'
  <2>1. CASE q = fp
    <3>1. \A h \in Gens : Valid(h)' /\ gens'[h].fp = fp => ~(h > l)
      BY <1>1 DEF Gens
    <3> QED BY <1>2, <2>1, <3>1 DEF Heirs
  <2>2. CASE q # fp
    BY <1>1, <1>2, <1>5, <2>2, HeirsStep DEF Stored
  <2> QED BY <2>1, <2>2
<1> QED BY <1>3, <1>4, <1>5 DEF Stored

\* The generation being saved is the newest of all.
LEMMA CurPointer ==
    ASSUME Inv, pc \notin {"idle", "move", "rename"}
    PROVE  /\ gens[cur].fp \in Fingerprints /\ cur \in Nat /\ cur \in 0 .. MaxGen /\ cur \in Present /\ cur <= created
           /\ gens[cur].dir = "final" /\ \A h \in Gens : Valid(h) => h <= cur
           /\ acked[gens[cur].fp] <= cur
<1>1. TypeOK /\ Stored /\ Committing
  BY DEF Inv
<1>2. cur \in Present /\ cur = created /\ gens[cur].dir = "final"
  BY <1>1 DEF Committing
<1>3. gens[cur].fp \in Fingerprints /\ cur \in Nat /\ cur \in 0 .. MaxGen
  BY <1>1, <1>2, GenIs DEF TypeOK
<1>4. \A h \in Gens : Valid(h) => h <= cur
  BY <1>1, <1>2, ValidIs DEF Stored, Sound
<1>5. PICK q \in Fingerprints : q = gens[cur].fp
  BY <1>3
<1>6. Pointed(q) /\ latest[q] \in Nat /\ acked[q] \in Nat
  BY <1>1 DEF Stored, TypeOK
<1>7. acked[q] <= cur
  BY <1>2, <1>3, <1>6 DEF Pointed
<1> QED BY <1>2, <1>3, <1>4, <1>5, <1>7

LEMMA UpdateLatestInv == ASSUME Inv, UpdateLatest PROVE Inv'
<1>1. TypeOK /\ Stored /\ Committing /\ pc = "pointer" /\ pc' = "usage"
  BY DEF Inv, UpdateLatest
<1>2. UNCHANGED <<gens, created, cur, junk, kept, victim, todo, outcome, acked, rejected, torn, damages>>
  BY DEF UpdateLatest, pruning, history
<1>3. latest' = [latest EXCEPT ![gens[cur].fp] = cur]
  BY DEF UpdateLatest
<1>4. /\ gens[cur].fp \in Fingerprints /\ cur \in Nat /\ cur \in 0 .. MaxGen /\ cur \in Present /\ cur <= created
      /\ gens[cur].dir = "final" /\ \A h \in Gens : Valid(h) => h <= cur
      /\ acked[gens[cur].fp] <= cur
  BY <1>1, CurPointer
<1>5. TypeOK'
  <2>1. Present' = Present
    BY <1>2 DEF Present
  <2> QED BY <1>1, <1>2, <1>3, <1>4, <2>1 DEF TypeOK, Locations
<1>6. Stored'
  <2>1. PICK q \in Fingerprints : q = gens[cur].fp
    BY <1>4
  <2> QED BY <1>1, <1>2, <1>3, <1>4, <2>1, PointerStored
<1>7. Committing'
  <2>1. latest'[gens[cur].fp] = cur
    BY <1>1, <1>3, <1>4 DEF TypeOK
  <2>2. Present' = Present /\ (Bytes(gens[cur].tokens)' <= Limit)
    BY <1>1, <1>2, BytesFrame DEF Present, Committing
  <2> QED BY <1>1, <1>2, <2>1, <2>2 DEF Committing
<1>8. Scanned' /\ StorageBounded' /\ Merging'
  BY <1>1 DEF Scanned, StorageBounded, Merging
<1> QED BY <1>5, <1>6, <1>7, <1>8 DEF Inv

\* The commit is acknowledged and the prune sees which generations are valid.
LEMMA CommitOkInv == ASSUME Inv, CommitOk PROVE Inv'
<1>1. TypeOK /\ Stored /\ Committing /\ pc = "usage" /\ pc' = "sweep"
  BY DEF Inv, CommitOk
<1>2. UNCHANGED <<gens, latest, created, cur, victim, todo, outcome, rejected, torn, damages>>
  BY DEF CommitOk
<1>3. /\ acked' = [acked EXCEPT ![gens[cur].fp] = cur]
      /\ kept' = { g \in Present : Valid(g) } /\ junk' = { g \in Present : ~Valid(g) }
  BY DEF CommitOk
<1>4. /\ gens[cur].fp \in Fingerprints /\ cur \in 0 .. MaxGen /\ Valid(cur) /\ cur \in Present
      /\ cur \notin torn \cup rejected /\ latest[gens[cur].fp] = cur /\ cur \in Nat
  BY <1>1, CurPointer, CurValid DEF Inv, Committing
<1>5. NoRevival /\ Present' = Present /\ \A h : (Valid(h)' <=> Valid(h)) /\ (Complete(h)' <=> Complete(h))
  BY <1>2, SameGens
<1>6. TypeOK'
  <2>1. kept' \in SUBSET Gens /\ junk' \in SUBSET Gens
    BY <1>3 DEF Present
  <2> QED BY <1>1, <1>2, <1>3, <1>4, <1>5, <2>1 DEF TypeOK, Locations
<1>7. Stored'
  <2>1. ASSUME NEW g \in Present' PROVE Sound(g)'
    BY <1>1, <1>2, <1>5, <2>1 DEF Stored, Sound
  <2>2. ASSUME NEW q \in Fingerprints PROVE Pointed(q)'
    <3>1. Pointed(q)
      BY <1>1 DEF Stored
    <3>2. PICK a, l : a = acked'[q] /\ l = latest[q] /\ l = latest'[q]
      BY <1>2
    <3>3. a <= l /\ (a # 0 => Valid(a)' /\ gens'[a].fp = q /\ a \notin torn' \cup rejected')
      <4>1. CASE q = gens[cur].fp
        <5>1. a = cur /\ l = cur
          BY <1>1, <1>3, <1>4, <3>2, <4>1 DEF TypeOK
        <5> QED BY <1>2, <1>4, <1>5, <4>1, <5>1
      <4>2. CASE q # gens[cur].fp
        <5>1. a = acked[q]
          BY <1>1, <1>3, <3>2, <4>2 DEF TypeOK
        <5> QED BY <1>2, <1>5, <3>1, <3>2, <5>1 DEF Pointed
      <4> QED BY <4>1, <4>2
    <3> QED BY <1>2, <1>5, <3>1, <3>2, <3>3 DEF Pointed, Valid, Complete, Saved
  <2>3. ASSUME PreserveLonger, NEW q \in Fingerprints PROVE Heirs(q)'
    BY <1>1, <1>2, <1>5, <2>3, HeirsStep DEF Stored
  <2> QED BY <2>1, <2>2, <2>3 DEF Stored
<1>8. Committing'
  <2>1. Bytes(gens[cur].tokens)' <= Limit
    BY <1>1, <1>2, BytesFrame DEF Committing
  <2> QED BY <1>1, <1>2, <1>5, <2>1 DEF Committing
<1>9. Scanned'
  <2>1. acked'[gens'[cur'].fp] = cur' /\ cur' \in kept'
    BY <1>1, <1>2, <1>3, <1>4 DEF TypeOK
  <2>2. /\ \A g \in kept' : Valid(g)'
        /\ \A g \in junk' : g \in Present' /\ ~Valid(g)'
    BY <1>3, <1>5
  <2>3. \A g \in Gens : Valid(g)' /\ g \notin rejected' => g \in kept'
    BY <1>3, <1>5, ValidIs
  <2> QED BY <1>1, <2>1, <2>2, <2>3 DEF Scanned
<1>10. StorageBounded' /\ Merging'
  BY <1>1 DEF StorageBounded, Merging
<1> QED BY <1>6, <1>7, <1>8, <1>9, <1>10 DEF Inv

\* Between operations only the store itself counts.
LEMMA IdleInv ==
    ASSUME TypeOK', Stored', StorageBounded', pc' = "idle"
    PROVE  Inv'
BY DEF Inv, Committing, Scanned, Merging

LEMMA CommitFailsInv == ASSUME Inv, CommitFails PROVE Inv'
<1>1. TypeOK /\ Stored /\ Committing /\ pc \in {"move", "rename"}
  BY DEF Inv, CommitFails
<1>2. /\ pc' = "idle" /\ outcome' = "other" /\ cur' = 0 /\ junk' = {} /\ kept' = {} /\ victim' = 0 /\ todo' = {}
      /\ UNCHANGED <<latest, created, acked, damages>>
  BY DEF CommitFails, Fail, ToIdle
<1>3. cur \in Present /\ ~Valid(cur)
  BY <1>1 DEF Committing, Valid
<1>4. StorageBounded'
  BY <1>2 DEF StorageBounded
<1>5. CASE UNCHANGED <<gens, torn, rejected>>
  <2>1. TypeOK'
    BY <1>1, <1>2, <1>5 DEF TypeOK, Locations, Present
  <2>2. Stored'
    BY <1>1, <1>2, <1>5, QuietStored
  <2> QED BY <1>2, <1>4, <2>1, <2>2, IdleInv
<1>6. CASE Gone(cur)
  <2>1. gens' = [gens EXCEPT ![cur] = NoGen] /\ torn' = torn \ {cur} /\ rejected' = rejected \ {cur}
    BY <1>6 DEF Gone
  <2>2. /\ gens' \in [Gens -> Generation \cup {NoGen}] /\ gens'[cur] = NoGen
        /\ \A h \in Gens \ {cur} : /\ gens'[h] = gens[h]
                                   /\ h \in torn' <=> h \in torn
                                   /\ h \in rejected' <=> h \in rejected
        /\ torn' \in SUBSET Present' /\ rejected' \in SUBSET Present'
    <3>1. PICK y \in Generation \cup {NoGen} : y = NoGen
      OBVIOUS
    <3> QED BY <1>1, <1>3, <2>1, <3>1, TouchType
  <2>3. TypeOK'
    BY <1>1, <1>2, <2>2 DEF TypeOK, Locations
  <2>4. \A fp \in Fingerprints : acked'[fp] = 0 \/ (acked'[fp] = acked[fp] /\ acked[fp] # cur)
    BY <1>1, <1>2, <1>3, NotAcked
  <2>5. Stored'
    BY <1>1, <1>2, <1>3, <2>2, <2>3, <2>4, TouchStored
  <2> QED BY <1>2, <1>4, <2>3, <2>5, IdleInv
<1> QED BY <1>5, <1>6 DEF CommitFails

LEMMA CommitFailsLateInv == ASSUME Inv, CommitFailsLate PROVE Inv'
<1>1. TypeOK /\ Stored /\ pc \in {"pointer", "usage"}
  BY DEF Inv, CommitFailsLate
<1>2. /\ pc' = "idle" /\ outcome' = "other" /\ cur' = 0 /\ junk' = {} /\ kept' = {} /\ victim' = 0 /\ todo' = {}
      /\ UNCHANGED <<gens, created, acked, rejected, torn, damages>>
  BY DEF CommitFailsLate, Fail, ToIdle, history
<1>3. StorageBounded'
  BY <1>2 DEF StorageBounded
<1>4. /\ gens[cur].fp \in Fingerprints /\ cur \in Nat /\ cur \in 0 .. MaxGen /\ cur \in Present /\ cur <= created
      /\ gens[cur].dir = "final" /\ \A h \in Gens : Valid(h) => h <= cur
      /\ acked[gens[cur].fp] <= cur
  BY <1>1, CurPointer
<1>5. TypeOK'
  <2>1. latest' \in [Fingerprints -> 0 .. MaxGen]
    BY <1>1, <1>4 DEF CommitFailsLate, TypeOK
  <2>2. Present' = Present
    BY <1>2 DEF Present
  <2> QED BY <1>1, <1>2, <2>1, <2>2 DEF TypeOK, Locations
<1>6. Stored'
  <2>1. CASE UNCHANGED latest
    BY <1>1, <1>2, <2>1, QuietStored
  <2>2. CASE latest' = [latest EXCEPT ![gens[cur].fp] = cur]
    <3>1. PICK q \in Fingerprints : q = gens[cur].fp
      BY <1>4
    <3> QED BY <1>1, <1>2, <1>4, <2>2, <3>1, PointerStored
  <2> QED BY <2>1, <2>2 DEF CommitFailsLate
<1> QED BY <1>2, <1>3, <1>5, <1>6, IdleInv

-----------------------------------------------------------------------------
(* prune_instance                                                          *)

Prunes == {"sweep", "remove", "evict", "reconcile"}

\* A step of the prune that leaves all directories alone.
LEMMA PruneQuiet ==
    ASSUME Inv, pc \in Prunes, pc' \in Prunes, TypeOK', Stored',
           UNCHANGED <<gens, rejected, acked, cur, created, outcome, kept>>, junk' \subseteq junk, cur \notin torn',
           pc' = "remove" => victim' \in torn' /\ victim' \notin junk' \cup kept',
           pc' = "reconcile" => TotalBytes(kept) <= Limit
    PROVE  Inv'
<1>1. Committing /\ Scanned
  BY DEF Inv
<1>2. Present' = Present /\ \A h : Valid(h)' <=> Valid(h)
  BY SameGens
<1>3. Committing'
  <2>1. Bytes(gens[cur].tokens)' <= Limit
    BY <1>1, BytesFrame DEF Committing, Prunes
  <2> QED BY <1>1, <1>2, <2>1 DEF Committing, Prunes
<1>4. Scanned'
  <2>1. /\ acked'[gens'[cur'].fp] = cur' /\ cur' \in kept' /\ \A g \in kept' : Valid(g)'
        /\ \A g \in junk' : g \in Present' /\ ~Valid(g)'
        /\ \A g \in Gens : Valid(g)' /\ g \notin rejected' => g \in kept'
    BY <1>1, <1>2 DEF Scanned, Prunes
  <2>2. pc' = "reconcile" => TotalBytes(kept)' <= Limit
    BY DEF TotalBytes, Contents
  <2> QED BY <2>1, <2>2 DEF Scanned
<1>5. StorageBounded' /\ Merging'
  BY DEF StorageBounded, Merging, Prunes
<1> QED BY <1>3, <1>4, <1>5 DEF Inv

\* A step of the prune that touches the directory g or removes it.
LEMMA PruneTouch ==
    ASSUME Inv, pc \in Prunes, pc' \in Prunes \ {"reconcile"}, TypeOK', Stored', NoRevival, NEW g \in Present, g # cur,
           \A h \in Gens \ {g} : /\ gens'[h] = gens[h]
                                 /\ h \in torn' <=> h \in torn
                                 /\ h \in rejected' <=> h \in rejected,
           UNCHANGED <<cur, created, outcome>>, acked'[gens[cur].fp] = cur,
           kept' = kept \ {g}, junk' \subseteq junk \ {g}, Valid(g)' => g \in rejected',
           pc' = "remove" => victim' \in torn' /\ victim' \notin junk' \cup kept'
    PROVE  Inv'
<1>1. TypeOK /\ Committing /\ Scanned
  BY DEF Inv
<1>2. \A h \in Gens \ {g} : (Valid(h)' <=> Valid(h)) /\ (h \in Present' <=> h \in Present)
  BY ValidFrame
<1>3. cur \in Present /\ cur \in Gens \ {g} /\ gens'[cur] = gens[cur]
  BY <1>1 DEF Committing, Prunes, Present
<1>4. Committing'
  <2>1. Bytes(gens[cur].tokens)' <= Limit
    BY <1>1, <1>3, BytesFrame DEF Committing, Prunes
  <2> QED BY <1>1, <1>2, <1>3, <2>1 DEF Committing, Prunes
<1>5. Scanned'
  <2>1. acked'[gens'[cur'].fp] = cur' /\ cur' \in kept'
    BY <1>1, <1>3 DEF Scanned, Prunes
  <2>2. \A h \in kept' : Valid(h)'
    BY <1>1, <1>2, ValidIs DEF Scanned, Prunes
  <2>3. \A h \in junk' : h \in Present' /\ ~Valid(h)'
    <3> SUFFICES ASSUME NEW h \in junk' PROVE h \in Present' /\ ~Valid(h)'
      OBVIOUS
    <3>1. h \in junk /\ h # g
      OBVIOUS
    <3>2. h \in Present /\ ~Valid(h) /\ h \in Gens
      BY <1>1, <3>1 DEF Scanned, Prunes, Present
    <3> QED BY <1>2, <3>1, <3>2
  <2>4. \A h \in Gens : Valid(h)' /\ h \notin rejected' => h \in kept'
    <3> SUFFICES ASSUME NEW h \in Gens, Valid(h)', h \notin rejected' PROVE h \in kept'
      OBVIOUS
    <3>1. Valid(h) /\ h \notin rejected /\ h # g
      BY DEF NoRevival
    <3> QED BY <1>1, <3>1 DEF Scanned, Prunes
  <2> QED BY <2>1, <2>2, <2>3, <2>4 DEF Scanned
<1>6. StorageBounded' /\ Merging'
  BY DEF StorageBounded, Merging, Prunes
<1> QED BY <1>4, <1>5, <1>6 DEF Inv

\* A directory goes.
LEMMA GoneStored ==
    ASSUME TypeOK, Stored, NEW g \in Present, Gone(g), UNCHANGED <<latest, created>>,
           \A fp \in Fingerprints : acked'[fp] = 0 \/ (acked'[fp] = acked[fp] /\ acked[fp] # g),
           gens' \in [Gens -> Generation \cup {NoGen}] /\ torn' \in SUBSET Present' /\ rejected' \in SUBSET Present' => TypeOK'
    PROVE  /\ TypeOK' /\ Stored' /\ NoRevival /\ ~Valid(g)'
           /\ \A h \in Gens \ {g} : /\ gens'[h] = gens[h]
                                    /\ h \in torn' <=> h \in torn
                                    /\ h \in rejected' <=> h \in rejected
<1>1. gens' = [gens EXCEPT ![g] = NoGen] /\ torn' = torn \ {g} /\ rejected' = rejected \ {g}
  BY DEF Gone
<1>2. /\ gens' \in [Gens -> Generation \cup {NoGen}] /\ gens'[g] = NoGen
      /\ \A h \in Gens \ {g} : /\ gens'[h] = gens[h]
                               /\ h \in torn' <=> h \in torn
                               /\ h \in rejected' <=> h \in rejected
      /\ torn' \in SUBSET Present' /\ rejected' \in SUBSET Present'
  <2>1. PICK y \in Generation \cup {NoGen} : y = NoGen
    OBVIOUS
  <2> QED BY <1>1, <2>1, TouchType
<1>3. TypeOK'
  BY <1>2
<1>4. Stored' /\ NoRevival
  BY <1>2, <1>3, TouchStored
<1>5. ~Valid(g)'
  BY <1>2 DEF Valid, Present
<1> QED BY <1>2, <1>3, <1>4, <1>5

LEMMA SweepPendingInv == ASSUME Inv, NEW g \in Gens, SweepPending(g) PROVE Inv'
<1>1. TypeOK /\ Stored /\ Committing /\ Scanned /\ pc = "sweep" /\ pc' = "sweep" /\ g \in junk /\ junk' = junk \ {g}
  BY DEF Inv, SweepPending
<1>2. UNCHANGED <<latest, created, cur, kept, victim, todo, outcome, acked, damages>>
  BY DEF SweepPending
<1>3. /\ g \in Present /\ ~Valid(g) /\ cur \in kept /\ Valid(cur) /\ g \notin kept
      /\ acked[gens[cur].fp] = cur /\ cur \notin torn
  BY <1>1 DEF Scanned, Committing
<1>4. \A fp \in Fingerprints : acked'[fp] = 0 \/ (acked'[fp] = acked[fp] /\ acked[fp] # g)
  BY <1>1, <1>2, <1>3, NotAcked
<1>5. CASE UNCHANGED <<gens, torn, rejected>>
  <2>1. TypeOK'
    BY <1>1, <1>2, <1>5 DEF TypeOK, Locations, Present
  <2>2. Stored'
    BY <1>1, <1>2, <1>5, QuietStored
  <2> QED BY <1>1, <1>2, <1>3, <1>5, <2>1, <2>2, PruneQuiet DEF Prunes
<1>6. CASE Gone(g)
  <2>1. ASSUME gens' \in [Gens -> Generation \cup {NoGen}], torn' \in SUBSET Present', rejected' \in SUBSET Present'
        PROVE  TypeOK'
    BY <1>1, <1>2, <2>1 DEF TypeOK, Locations
  <2>2. /\ TypeOK' /\ Stored' /\ NoRevival /\ ~Valid(g)'
        /\ \A h \in Gens \ {g} : /\ gens'[h] = gens[h]
                                 /\ h \in torn' <=> h \in torn
                                 /\ h \in rejected' <=> h \in rejected
    BY <1>1, <1>2, <1>3, <1>4, <1>6, <2>1, GoneStored
  <2>3. kept' = kept \ {g} /\ g # cur /\ acked'[gens[cur].fp] = cur
    BY <1>2, <1>3
  <2> QED BY <1>1, <1>2, <1>3, <2>2, <2>3, PruneTouch DEF Prunes
<1> QED BY <1>5, <1>6 DEF SweepPending

LEMMA SweepInvalidInv == ASSUME Inv, NEW g \in Gens, SweepInvalid(g) PROVE Inv'
<1>1. /\ TypeOK /\ Stored /\ Committing /\ Scanned /\ pc = "sweep" /\ pc' = "remove" /\ g \in junk
      /\ junk' = junk \ {g} /\ victim' = g /\ torn' = torn \cup {g}
  BY DEF Inv, SweepInvalid
<1>2. UNCHANGED <<gens, latest, created, cur, kept, todo, outcome, acked, rejected, damages>>
  BY DEF SweepInvalid, disk
<1>3. g \in Present /\ ~Valid(g) /\ g \notin kept /\ cur \in kept /\ cur \notin torn
  BY <1>1 DEF Scanned, Committing
<1>4. TypeOK'
  <2>1. Present' = Present
    BY <1>2 DEF Present
  <2>2. junk' \in SUBSET Gens /\ victim' \in 0 .. MaxGen /\ torn' \in SUBSET Present'
    BY <1>1, <1>3, <2>1 DEF TypeOK, Gens
  <2> QED BY <1>1, <1>2, <2>1, <2>2 DEF TypeOK, Locations
<1>5. Stored'
  <2>1. \A fp \in Fingerprints : acked[fp] = 0 \/ acked[fp] # g
    BY <1>1, <1>3, NotAcked
  <2> QED BY <1>1, <1>2, <2>1, QuietStored
<1>6. /\ cur \notin torn' /\ victim' \in torn' /\ victim' \notin junk' \cup kept' /\ junk' \subseteq junk
  BY <1>1, <1>2, <1>3
<1> QED BY <1>1, <1>2, <1>4, <1>5, <1>6, PruneQuiet DEF Prunes

\* One file less in the directory being removed.
LEMMA FileGone ==
    ASSUME RemoveFile, NEW g, g = victim, NEW x \in Generation, x = gens[g]
    PROVE  \E y \in Generation :
             /\ gens' = [gens EXCEPT ![g] = y] /\ y # NoGen /\ y.dir = x.dir /\ y.fp = x.fp /\ y.tokens = x.tokens
             /\ y.payload \subseteq x.payload /\ (y.manifest => x.manifest) /\ (y.marker => x.marker)
             /\ y.marker = x.marker \/ x.marker
<1>1. CASE gens' = [gens EXCEPT ![g].manifest = FALSE]
  <2>1. PICK b, y : b \in BOOLEAN /\ b = FALSE /\ y = [x EXCEPT !.manifest = b]
    OBVIOUS
  <2>2. gens' = [gens EXCEPT ![g] = y]
    BY <1>1, <2>1
  <2>3. /\ y \in Generation /\ y # NoGen /\ y.dir = x.dir /\ y.fp = x.fp /\ y.tokens = x.tokens
        /\ y.payload = x.payload /\ y.manifest = b /\ y.marker = x.marker
    BY <2>1, EditManifest
  <2> QED BY <2>1, <2>2, <2>3
<1>2. CASE gens[g].marker /\ gens' = [gens EXCEPT ![g].marker = FALSE]
  <2>1. PICK b, y : b \in BOOLEAN /\ b = FALSE /\ y = [x EXCEPT !.marker = b]
    OBVIOUS
  <2>2. gens' = [gens EXCEPT ![g] = y]
    BY <1>2, <2>1
  <2>3. /\ y \in Generation /\ y # NoGen /\ y.dir = x.dir /\ y.fp = x.fp /\ y.tokens = x.tokens
        /\ y.payload = x.payload /\ y.manifest = x.manifest /\ y.marker = b
    BY <2>1, EditMarker
  <2> QED BY <1>2, <2>1, <2>2, <2>3
<1>3. ASSUME NEW s \in gens[g].payload, gens' = [gens EXCEPT ![g].payload = gens[g].payload \ {s}]
      PROVE  \E y \in Generation :
                /\ gens' = [gens EXCEPT ![g] = y] /\ y # NoGen /\ y.dir = x.dir /\ y.fp = x.fp /\ y.tokens = x.tokens
                /\ y.payload \subseteq x.payload /\ (y.manifest => x.manifest) /\ (y.marker => x.marker)
                /\ y.marker = x.marker \/ x.marker
  <2>1. x.payload \subseteq Slots
    BY DEF Generation
  <2>2. PICK P, y : P = x.payload \ {s} /\ y = [x EXCEPT !.payload = P]
    OBVIOUS
  <2>3. P \subseteq Slots /\ P \subseteq x.payload
    BY <2>1, <2>2
  <2>4. gens' = [gens EXCEPT ![g] = y]
    BY <1>3, <2>2
  <2>5. /\ y \in Generation /\ y # NoGen /\ y.dir = x.dir /\ y.fp = x.fp /\ y.tokens = x.tokens
        /\ y.payload = P /\ y.manifest = x.manifest /\ y.marker = x.marker
    BY <2>2, <2>3, EditPayload
  <2> QED BY <2>3, <2>4, <2>5
<1> QED BY <1>1, <1>2, <1>3 DEF RemoveFile

LEMMA RemoveFileInv == ASSUME Inv, RemoveFile PROVE Inv'
<1>1. TypeOK /\ Stored /\ Committing /\ Scanned /\ pc = "remove" /\ pc' = "remove"
  BY DEF Inv, RemoveFile
<1>2. UNCHANGED <<latest, created, cur, junk, kept, victim, todo, outcome, acked, rejected, torn, damages>>
  BY DEF RemoveFile, pruning, history
<1>3. PICK g : g = victim
  OBVIOUS
<1>4. /\ g \in torn /\ g \in Present /\ g \in Gens /\ g \notin junk \cup kept /\ cur \in kept
      /\ acked[gens[cur].fp] = cur /\ cur \in Present
  BY <1>1, <1>3 DEF Scanned, TypeOK, Present, Committing
<1>5. PICK x \in Generation : x = gens[g]
  BY <1>1, <1>4, GenIs
<1>6. PICK y \in Generation :
        /\ gens' = [gens EXCEPT ![g] = y] /\ y # NoGen /\ y.dir = x.dir /\ y.fp = x.fp /\ y.tokens = x.tokens
        /\ y.payload \subseteq x.payload /\ (y.manifest => x.manifest) /\ (y.marker => x.marker)
        /\ y.marker = x.marker \/ x.marker
  BY <1>3, <1>5, FileGone
<1>7. /\ gens' \in [Gens -> Generation \cup {NoGen}] /\ gens'[g] = y
      /\ \A h \in Gens \ {g} : /\ gens'[h] = gens[h]
                               /\ h \in torn' <=> h \in torn
                               /\ h \in rejected' <=> h \in rejected
      /\ torn' \in SUBSET Present' /\ rejected' \in SUBSET Present'
  BY <1>1, <1>2, <1>4, <1>6, TouchType
<1>8. TypeOK'
  BY <1>1, <1>2, <1>7 DEF TypeOK, Locations
<1>9. x.marker => g \in rejected
  BY <1>1, <1>4, <1>5 DEF Stored, Sound
<1>10. Valid(g)' => g \in rejected'
  <2> SUFFICES ASSUME Valid(g)', g \notin rejected PROVE FALSE
    BY <1>2
  <2>1. ~x.marker
    BY <1>9
  <2>2. y.manifest /\ Saved(y.tokens) \subseteq y.payload /\ y.dir = "final"
    BY <1>7 DEF Valid, Complete, Saved
  <2>3. Valid(g)
    BY <1>4, <1>5, <1>6, <2>1, <2>2 DEF Valid, Complete
  <2> QED BY <1>1, <1>4, <2>3 DEF Scanned
<1>11. Stored' /\ NoRevival
  <2>1. \A fp \in Fingerprints : acked'[fp] = 0 \/ (acked'[fp] = acked[fp] /\ acked[fp] # g)
    BY <1>1, <1>2, <1>4 DEF Stored, Pointed
  <2> QED BY <1>1, <1>2, <1>4, <1>5, <1>6, <1>7, <1>8, <1>9, <1>10, <2>1, TouchStored
<1>12. kept' = kept \ {g} /\ junk' \subseteq junk \ {g} /\ g # cur /\ acked'[gens[cur].fp] = cur
  BY <1>2, <1>4
<1>13. victim' \in torn' /\ victim' \notin junk' \cup kept'
  BY <1>2, <1>3, <1>4
<1> QED BY <1>1, <1>2, <1>4, <1>7, <1>8, <1>10, <1>11, <1>12, <1>13, PruneTouch DEF Prunes

LEMMA RemoveDirectoryInv == ASSUME Inv, RemoveDirectory PROVE Inv'
<1>1. TypeOK /\ Stored /\ Committing /\ Scanned /\ pc = "remove" /\ pc' = "sweep" /\ victim' = 0
  BY DEF Inv, RemoveDirectory
<1>2. UNCHANGED <<latest, created, cur, junk, kept, todo, outcome, acked, damages>>
  BY DEF RemoveDirectory
<1>3. PICK g : g = victim
  OBVIOUS
<1>4. /\ g \in torn /\ g \in Present /\ g \notin junk \cup kept /\ cur \in kept
      /\ acked[gens[cur].fp] = cur
  BY <1>1, <1>3 DEF Scanned, TypeOK
<1>5. \A fp \in Fingerprints : acked'[fp] = 0 \/ (acked'[fp] = acked[fp] /\ acked[fp] # g)
  BY <1>1, <1>2, <1>4 DEF Stored, Pointed
<1>6. ASSUME gens' \in [Gens -> Generation \cup {NoGen}], torn' \in SUBSET Present', rejected' \in SUBSET Present'
      PROVE  TypeOK'
  BY <1>1, <1>2, <1>6 DEF TypeOK, Locations
<1>7. Gone(g)
  BY <1>3 DEF RemoveDirectory
<1>8. /\ TypeOK' /\ Stored' /\ NoRevival /\ ~Valid(g)'
      /\ \A h \in Gens \ {g} : /\ gens'[h] = gens[h]
                               /\ h \in torn' <=> h \in torn
                               /\ h \in rejected' <=> h \in rejected
  BY <1>1, <1>2, <1>4, <1>5, <1>6, <1>7, GoneStored
<1>9. kept' = kept \ {g} /\ junk' \subseteq junk \ {g} /\ g # cur /\ acked'[gens[cur].fp] = cur
  BY <1>2, <1>4
<1> QED BY <1>1, <1>2, <1>4, <1>8, <1>9, PruneTouch DEF Prunes

\* The steps between the phases of the prune.
LEMMA PhaseInv == ASSUME Inv, RemoveFails \/ SweepDone \/ EvictDone PROVE Inv'
<1>1. TypeOK /\ Stored /\ Committing /\ Scanned
  BY DEF Inv
<1>2. UNCHANGED <<gens, latest, created, cur, junk, kept, outcome, acked, rejected, torn, damages>>
  BY DEF RemoveFails, SweepDone, EvictDone, disk, pruning, history
<1>3. pc \in Prunes /\ pc' \in Prunes /\ pc' # "remove" /\ victim' \in {victim, 0} /\ todo' \in {todo, Fingerprints}
  BY DEF RemoveFails, SweepDone, EvictDone, pruning, Prunes
<1>4. TypeOK'
  BY <1>1, <1>2, <1>3 DEF TypeOK, Locations, Present, Prunes
<1>5. Stored'
  BY <1>1, <1>2, QuietStored
<1>6. cur \in Present /\ cur \in kept /\ cur \notin torn' /\ kept \in SUBSET Present /\ Bytes(gens[cur].tokens) <= Limit
  BY <1>1, <1>2, <1>3, ValidIs DEF Committing, Scanned, Prunes
<1>7. ASSUME pc' = "reconcile" PROVE TotalBytes(kept) <= Limit
  <2>1. EvictDone
    BY <1>7 DEF RemoveFails, SweepDone
  <2>2. TotalBytes(kept) \in Nat
    BY <1>1, <1>6, ContentsFinite
  <2>3. CASE ~OverLimit
    BY <2>2, <2>3 DEF OverLimit
  <2>4. CASE \A g \in Gens : ~Evictable(g)
    <3>1. kept = {cur}
      BY <1>6, <2>4 DEF Evictable, Present
    <3>2. TotalBytes({cur}) = Bytes(gens[cur].tokens)
      BY <1>1, <1>6, TotalOfOne
    <3> QED BY <1>6, <3>1, <3>2
  <2> QED BY <2>1, <2>3, <2>4 DEF EvictDone
<1> QED BY <1>2, <1>3, <1>4, <1>5, <1>6, <1>7, PruneQuiet

\* What eviction does to the acknowledgements: the one it takes away is excused.
LEMMA EvictedAcks ==
    ASSUME Inv, NEW g \in kept \ {cur}, pc = "evict", Evicted(g)
    PROVE  /\ acked' \in [Fingerprints -> 0 .. MaxGen] /\ g \in Present /\ gens[cur].fp \in Fingerprints
           /\ \A fp \in Fingerprints : acked'[fp] = 0 \/ (acked'[fp] = acked[fp] /\ acked[fp] # g)
           /\ acked'[gens[cur].fp] = cur
<1>1. TypeOK /\ Stored /\ Committing /\ Scanned
  BY DEF Inv
<1>2. /\ g \in Present /\ g \in Gens /\ cur \in Present /\ acked[gens[cur].fp] = cur /\ g # 0
  BY <1>1, ValidIs DEF Scanned, Committing, Gens
<1>3. gens[cur].fp \in Fingerprints
  BY <1>1, <1>2, GenIs
<1>4. \A fp \in Fingerprints : acked[fp] = g => gens[g].fp = fp
  BY <1>1, <1>2 DEF Stored, Pointed
<1>5. CASE gens[g].fp = gens[cur].fp
  <2>1. acked' = acked
    BY <1>5 DEF Evicted
  <2>2. \A fp \in Fingerprints : acked[fp] # g
    BY <1>2, <1>4, <1>5
  <2> QED BY <1>1, <1>2, <1>3, <2>1, <2>2 DEF TypeOK
<1>6. CASE gens[g].fp # gens[cur].fp
  <2>1. acked' = [fp \in Fingerprints |-> IF acked[fp] = g THEN 0 ELSE acked[fp]]
    BY <1>6 DEF Evicted, Excused
  <2>2. acked' \in [Fingerprints -> 0 .. MaxGen]
    BY <1>1, <2>1 DEF TypeOK
  <2> QED BY <1>2, <1>3, <2>1, <2>2
<1> QED BY <1>5, <1>6

LEMMA EvictInv == ASSUME Inv, NEW g \in Gens, Evict(g) PROVE Inv'
<1>1. TypeOK /\ Stored /\ Committing /\ Scanned /\ pc = "evict" /\ pc' = "evict"
  BY DEF Inv, Evict
<1>2. UNCHANGED <<latest, created, cur, junk, victim, todo, outcome, damages>> /\ kept' = kept \ {g}
  BY DEF Evict
<1>3. g \in kept \ {cur} /\ Evicted(g) /\ Gone(g)
  BY DEF Evict, Evictable
<1>4. /\ acked' \in [Fingerprints -> 0 .. MaxGen] /\ g \in Present
      /\ \A fp \in Fingerprints : acked'[fp] = 0 \/ (acked'[fp] = acked[fp] /\ acked[fp] # g)
      /\ acked'[gens[cur].fp] = cur
  BY <1>1, <1>3, EvictedAcks
<1>5. ASSUME gens' \in [Gens -> Generation \cup {NoGen}], torn' \in SUBSET Present', rejected' \in SUBSET Present'
      PROVE  TypeOK'
  BY <1>1, <1>2, <1>4, <1>5 DEF TypeOK, Locations
<1>6. /\ TypeOK' /\ Stored' /\ NoRevival /\ ~Valid(g)'
      /\ \A h \in Gens \ {g} : /\ gens'[h] = gens[h]
                               /\ h \in torn' <=> h \in torn
                               /\ h \in rejected' <=> h \in rejected
  BY <1>1, <1>2, <1>3, <1>4, <1>5, GoneStored
<1>7. junk' \subseteq junk \ {g}
  BY <1>1, <1>2, <1>3 DEF Scanned
<1> QED BY <1>1, <1>2, <1>3, <1>4, <1>6, <1>7, PruneTouch DEF Prunes

\* A generation loses its manifest.
LEMMA SpoilStored ==
    ASSUME TypeOK, Stored, NEW g \in Present, gens' = [gens EXCEPT ![g].manifest = FALSE], torn' = torn \cup {g},
           UNCHANGED <<latest, created, rejected>>,
           \A fp \in Fingerprints : acked'[fp] = 0 \/ (acked'[fp] = acked[fp] /\ acked[fp] # g),
           gens' \in [Gens -> Generation \cup {NoGen}] /\ torn' \in SUBSET Present' /\ rejected' \in SUBSET Present' => TypeOK'
    PROVE  TypeOK' /\ Stored' /\ NoRevival
<1>1. PICK x, b, y : x \in Generation /\ b \in BOOLEAN /\ x = gens[g] /\ b = FALSE /\ y = [x EXCEPT !.manifest = b]
  BY GenIs
<1>2. /\ y \in Generation /\ y # NoGen /\ y.dir = x.dir /\ y.fp = x.fp /\ y.tokens = x.tokens
      /\ y.manifest = b /\ y.marker = x.marker
  BY <1>1, EditManifest
<1>3. gens' = [gens EXCEPT ![g] = y]
  BY <1>1
<1>4. /\ gens' \in [Gens -> Generation \cup {NoGen}] /\ gens'[g] = y
      /\ \A h \in Gens \ {g} : /\ gens'[h] = gens[h]
                               /\ h \in torn' <=> h \in torn
                               /\ h \in rejected' <=> h \in rejected
      /\ torn' \in SUBSET Present' /\ rejected' \in SUBSET Present'
  BY <1>2, <1>3, TouchType
<1>5. TypeOK'
  BY <1>4
<1>6. ~Valid(g)'
  BY <1>1, <1>2, <1>4 DEF Valid, Complete
<1>7. y.marker => g \in rejected'
  BY <1>1, <1>2 DEF Stored, Sound
<1> QED BY <1>1, <1>2, <1>4, <1>5, <1>6, <1>7, TouchStored

LEMMA EvictFailsInv == ASSUME Inv, NEW g \in Gens, EvictFails(g) PROVE Inv'
<1>1. TypeOK /\ Stored /\ pc = "evict"
  BY DEF Inv, EvictFails
<1>2. /\ pc' = "idle" /\ outcome' = "other" /\ cur' = 0 /\ junk' = {} /\ kept' = {} /\ victim' = 0 /\ todo' = {}
      /\ UNCHANGED <<latest, created, rejected, damages>>
  BY DEF EvictFails, Fail, ToIdle
<1>3. g \in kept \ {cur} /\ Evicted(g) /\ gens' = [gens EXCEPT ![g].manifest = FALSE] /\ torn' = torn \cup {g}
  BY DEF EvictFails, Evictable
<1>4. /\ acked' \in [Fingerprints -> 0 .. MaxGen] /\ g \in Present
      /\ \A fp \in Fingerprints : acked'[fp] = 0 \/ (acked'[fp] = acked[fp] /\ acked[fp] # g)
  BY <1>1, <1>3, EvictedAcks
<1>5. ASSUME gens' \in [Gens -> Generation \cup {NoGen}], torn' \in SUBSET Present', rejected' \in SUBSET Present'
      PROVE  TypeOK'
  BY <1>1, <1>2, <1>4, <1>5 DEF TypeOK, Locations
<1>6. TypeOK' /\ Stored'
  BY <1>1, <1>2, <1>3, <1>4, <1>5, SpoilStored
<1>7. StorageBounded'
  BY <1>2 DEF StorageBounded
<1> QED BY <1>2, <1>6, <1>7, IdleInv

LEMMA ReconcileInv == ASSUME Inv, NEW fp \in Fingerprints, Reconcile(fp) PROVE Inv'
<1>1. TypeOK /\ Stored /\ Committing /\ Scanned /\ pc = "reconcile" /\ pc' = "reconcile" /\ todo' = todo \ {fp}
  BY DEF Inv, Reconcile
<1>2. UNCHANGED <<gens, created, cur, junk, kept, victim, outcome, acked, rejected, torn, damages>>
  BY DEF Reconcile, history
<1>3. PICK G \in SUBSET Gens : G = ValidOf(fp)
  BY DEF ValidOf, Present
<1>4. \A h : h \in G <=> Valid(h) /\ gens[h].fp = fp
  BY <1>3 DEF ValidOf, Valid
<1>5. PICK l : l = Newest(G)
  OBVIOUS
<1>6. l \in 0 .. MaxGen /\ (l # 0 => l \in G) /\ \A h \in G : h <= l
  <2>1. CASE G = {}
    BY <1>5, <2>1, NewestIs
  <2>2. CASE G # {}
    <3>1. l \in G /\ \A h \in G : h <= l
      BY <1>5, <2>2, NewestIs
    <3> QED BY <3>1 DEF Gens
  <2> QED BY <2>1, <2>2
<1>7. latest' = [latest EXCEPT ![fp] = l]
  BY <1>3, <1>5 DEF Reconcile
<1>8. TypeOK'
  BY <1>1, <1>2, <1>6, <1>7 DEF TypeOK, Locations, Present
<1>9. l <= created
  <2>1. created \in Nat
    BY <1>1 DEF TypeOK
  <2>2. l # 0 => Sound(l)
    BY <1>1, <1>4, <1>6, ValidIs DEF Stored
  <2> QED BY <1>6, <2>1, <2>2 DEF Sound
<1>10. acked[fp] # 0 => acked[fp] <= l
  BY <1>1, <1>4, <1>6 DEF Stored, Pointed
<1>11. l \in Present => gens[l].dir = "final" /\ gens[l].fp = fp
  <2>1. l \in Present => l # 0
    BY <1>1, GenIs
  <2> QED BY <1>4, <1>6, <2>1, ValidIs
<1>12. \A h \in Gens : Valid(h) /\ gens[h].fp = fp => h <= l
  BY <1>4, <1>6
<1>13. l \in Nat
  BY <1>6
<1>14. Stored'
  BY <1>1, <1>2, <1>7, <1>9, <1>10, <1>11, <1>12, <1>13, PointerStored
<1>15. cur \notin torn' /\ TotalBytes(kept) <= Limit
  BY <1>1, <1>2 DEF Committing, Scanned
<1> QED BY <1>1, <1>2, <1>8, <1>14, <1>15, PruneQuiet DEF Prunes

-----------------------------------------------------------------------------
(* Ends of an operation, and the steps of an idle store                    *)

\* Nothing on disk changes and no operation is left.
LEMMA EndInv ==
    ASSUME Inv, UNCHANGED <<gens, latest, created, acked, rejected, torn, damages>>, pc' = "idle",
           cur' = 0 \/ cur' = cur, junk' = {} \/ junk' = junk, kept' = {} \/ kept' = kept,
           victim' = 0 \/ victim' = victim, todo' = {} \/ todo' = todo,
           outcome' \in {"other", "saved", "refused"}, StorageBounded'
    PROVE  Inv'
<1>1. TypeOK /\ Stored
  BY DEF Inv
<1>2. TypeOK'
  BY <1>1 DEF TypeOK, Locations, Present
<1>3. Stored'
  BY <1>1, QuietStored
<1> QED BY <1>2, <1>3, IdleInv

LEMMA SaveOkInv == ASSUME Inv, SaveOk PROVE Inv'
<1>1. TypeOK /\ Scanned /\ pc = "reconcile"
  BY DEF Inv, SaveOk
<1>2. /\ pc' = "idle" /\ outcome' = "saved" /\ cur' = 0 /\ junk' = {} /\ kept' = {} /\ victim' = 0 /\ todo' = {}
      /\ UNCHANGED <<gens, latest, created, acked, rejected, torn, damages>>
  BY DEF SaveOk, ToIdle, disk, history
<1>3. /\ kept \in SUBSET Present /\ TotalBytes(kept) <= Limit
      /\ \A g \in Gens : Valid(g) /\ g \notin rejected => g \in kept
  BY <1>1, ValidIs DEF Scanned
<1>4. PICK A : A = ({ g \in Present : Valid(g) } \ rejected)'
  OBVIOUS
<1>5. A = { g \in Present : Valid(g) } \ rejected
  <2>1. Present' = Present /\ \A h : Valid(h)' <=> Valid(h)
    BY <1>2, SameGens
  <2> QED BY <1>2, <1>4, <2>1
<1>6. A \subseteq kept /\ \A g \in A : gens'[g].tokens = gens[g].tokens
  BY <1>2, <1>3, <1>5 DEF Present
<1>7. TotalBytes(A)' <= TotalBytes(kept) /\ TotalBytes(A)' \in Nat /\ TotalBytes(kept) \in Nat
  BY <1>1, <1>3, <1>6, TotalShrinks
<1>8. TotalBytes({ g \in Present : Valid(g) } \ rejected)' = TotalBytes(A)'
  BY <1>4 DEF TotalBytes, Contents
<1>9. TotalBytes({ g \in Present : Valid(g) } \ rejected)' <= Limit
  BY <1>3, <1>7, <1>8
<1>10. StorageBounded'
  BY <1>9 DEF StorageBounded
<1> QED BY <1>2, <1>10, EndInv

\* A failed or crashed operation, and a save that commits nothing.
LEMMA NothingInv ==
    ASSUME Inv, PruneFails \/ Crash \/ \E fp \in Fingerprints : SaveAbandoned(fp) \/ SaveRefused(fp)
    PROVE  Inv'
<1>1. /\ UNCHANGED <<gens, latest, created, acked, rejected, torn, damages>> /\ pc' = "idle"
      /\ (cur' = 0 \/ cur' = cur) /\ (junk' = {} \/ junk' = junk) /\ (kept' = {} \/ kept' = kept)
      /\ (victim' = 0 \/ victim' = victim) /\ (todo' = {} \/ todo' = todo)
  BY DEF PruneFails, Crash, SaveAbandoned, SaveRefused, Fail, ToIdle, disk, pruning, history
<1>2. outcome' \in {"other", "refused"}
  <2>1. CASE Crash
    BY <2>1 DEF Crash, Inv, Committing
  <2>2. CASE ~Crash
    BY <2>2 DEF PruneFails, SaveAbandoned, SaveRefused, Fail
  <2> QED BY <2>1, <2>2
<1>3. StorageBounded'
  BY <1>2 DEF StorageBounded
<1> QED BY <1>1, <1>2, <1>3, EndInv

LEMMA ExcusedIs ==
    ASSUME TypeOK, NEW g, acked' = Excused(g)
    PROVE  /\ acked' \in [Fingerprints -> 0 .. MaxGen]
           /\ \A fp \in Fingerprints : acked'[fp] = 0 \/ (acked'[fp] = acked[fp] /\ acked[fp] # g)
BY DEF TypeOK, Excused

LEMMA RestoreRejectInv == ASSUME Inv, NEW fp \in Fingerprints, RestoreReject(fp) PROVE Inv'
<1>1. TypeOK /\ Stored /\ StorageBounded /\ pc = "idle"
  BY DEF Inv, RestoreReject
<1>2. PICK g : g = LoadLatest(fp)
  OBVIOUS
<1>3. /\ g # 0 /\ gens' = [gens EXCEPT ![g].marker = TRUE] /\ rejected' = rejected \cup {g} /\ acked' = Excused(g)
      /\ UNCHANGED <<latest, created, pc, cur, junk, kept, victim, todo, outcome, torn, damages>>
  BY <1>2 DEF RestoreReject, pruning
<1>4. Valid(g) /\ g \in Present /\ Complete(g)
  BY <1>1, <1>2, <1>3, LoadIs, ValidIs
<1>5. PICK x \in Generation : x = gens[g]
  BY <1>1, <1>4, GenIs
<1>6. PICK b, y : b \in BOOLEAN /\ b = TRUE /\ y = [x EXCEPT !.marker = b]
  OBVIOUS
<1>7. /\ y \in Generation /\ y # NoGen /\ y.dir = x.dir /\ y.fp = x.fp /\ y.tokens = x.tokens
      /\ y.payload = x.payload /\ y.manifest = x.manifest /\ y.marker = b
  BY <1>6, EditMarker
<1>8. gens' = [gens EXCEPT ![g] = y]
  BY <1>3, <1>5, <1>6
<1>9. /\ gens' \in [Gens -> Generation \cup {NoGen}] /\ gens'[g] = y
      /\ \A h \in Gens \ {g} : /\ gens'[h] = gens[h]
                               /\ h \in torn' <=> h \in torn
                               /\ h \in rejected' <=> h \in rejected
      /\ torn' \in SUBSET Present' /\ rejected' \in SUBSET Present'
  BY <1>1, <1>3, <1>4, <1>7, <1>8, TouchType
<1>10. /\ acked' \in [Fingerprints -> 0 .. MaxGen]
      /\ \A q \in Fingerprints : acked'[q] = 0 \/ (acked'[q] = acked[q] /\ acked[q] # g)
  BY <1>1, <1>3, ExcusedIs
<1>11. TypeOK'
  BY <1>1, <1>3, <1>9, <1>10 DEF TypeOK
<1>12. ~Valid(g)' /\ Complete(g)' /\ g \in rejected'
  <2>1. Complete(g)'
    BY <1>4, <1>5, <1>7, <1>9 DEF Complete, Saved
  <2> QED BY <1>3, <1>5, <1>7, <1>9, <2>1 DEF Valid
<1>13. Stored' /\ NoRevival
  BY <1>1, <1>3, <1>4, <1>5, <1>7, <1>9, <1>10, <1>11, <1>12, TouchStored
<1>14. StorageBounded'
  BY <1>1, <1>3, <1>13, StorageStep
<1> QED BY <1>1, <1>3, <1>11, <1>13, <1>14, IdleInv

LEMMA DamageInv == ASSUME Inv, NEW g \in Gens, Damage(g) PROVE Inv'
<1>1. TypeOK /\ Stored /\ StorageBounded /\ pc = "idle" /\ g \in Present
  BY DEF Inv, Damage
<1>2. /\ gens' = [gens EXCEPT ![g].manifest = FALSE] /\ torn' = torn \cup {g} /\ acked' = Excused(g)
      /\ UNCHANGED <<latest, created, pc, cur, junk, kept, victim, todo, outcome, rejected>>
      /\ damages < MaxDamages /\ damages' = damages + 1
  BY DEF Damage, pruning
<1>3. /\ acked' \in [Fingerprints -> 0 .. MaxGen]
      /\ \A q \in Fingerprints : acked'[q] = 0 \/ (acked'[q] = acked[q] /\ acked[q] # g)
  BY <1>1, <1>2, ExcusedIs
<1>4. damages' \in 0 .. MaxDamages
  BY <1>1, <1>2 DEF TypeOK
<1>5. ASSUME gens' \in [Gens -> Generation \cup {NoGen}], torn' \in SUBSET Present', rejected' \in SUBSET Present'
      PROVE  TypeOK'
  BY <1>1, <1>2, <1>3, <1>4, <1>5 DEF TypeOK
<1>6. TypeOK' /\ Stored' /\ NoRevival
  BY <1>1, <1>2, <1>3, <1>5, SpoilStored
<1>7. StorageBounded'
  BY <1>1, <1>2, <1>6, StorageStep
<1> QED BY <1>1, <1>2, <1>6, <1>7, IdleInv

Empty ==
    /\ gens = [g \in Gens |-> NoGen] /\ latest = [fp \in Fingerprints |-> 0] /\ acked = [fp \in Fingerprints |-> 0]
    /\ created \in Nat

LEMMA EmptyStore == Empty => Present = {} /\ Stored /\ \A g : ~Valid(g)
<1> HAVE Empty
<1>1. Present = {}
  BY DEF Present, Empty
<1>2. \A g : ~Valid(g)
  BY <1>1 DEF Valid
<1>3. \A fp \in Fingerprints : Pointed(fp) /\ Heirs(fp)
  BY <1>1, <1>2 DEF Pointed, Heirs, Empty
<1> QED BY <1>1, <1>2, <1>3 DEF Stored

LEMMA ClearInv == ASSUME Inv, Clear PROVE Inv'
<1>1. TypeOK /\ pc = "idle" /\ created \in Nat
  BY DEF Inv, Clear, TypeOK
<1>2. /\ gens' = [g \in Gens |-> NoGen] /\ latest' = [fp \in Fingerprints |-> 0] /\ acked' = [fp \in Fingerprints |-> 0]
      /\ rejected' = {} /\ torn' = {} /\ UNCHANGED <<created, pc, cur, junk, kept, victim, todo, outcome, damages>>
  BY DEF Clear, pruning
<1>3. (Present = {} /\ Stored /\ \A g : ~Valid(g))'
  <2>1. Empty'
    BY <1>1, <1>2 DEF Empty
  <2> QED BY <2>1, EmptyStore, PTL
<1>4. TypeOK'
  BY <1>1, <1>2, <1>3 DEF TypeOK
<1>5. NoRevival
  BY <1>3 DEF NoRevival
<1>6. StorageBounded'
  BY <1>1, <1>2, <1>5, StorageStep DEF Inv
<1> QED BY <1>1, <1>2, <1>3, <1>4, <1>6, IdleInv

LEMMA InitInv == Init => Inv
<1> HAVE Init
<1>1. Present = {} /\ Stored /\ \A g : ~Valid(g)
  BY EmptyStore DEF Init, Empty
<1>2. TypeOK
  BY <1>1 DEF Init, TypeOK, Locations
<1>3. StorageBounded
  BY DEF Init, StorageBounded
<1> QED BY <1>1, <1>2, <1>3 DEF Init, Inv, Committing, Scanned, Merging

LEMMA NextInv == Inv /\ [Next]_vars => Inv'
<1> SUFFICES ASSUME Inv, [Next]_vars PROVE Inv'
  OBVIOUS
<1>1. ASSUME NEW fp \in Fingerprints, Save(fp) PROVE Inv'
  BY <1>1, SaveBeginInv, NothingInv DEF Save
<1>2. CASE Commit
  BY <1>2, MovePayloadInv, WriteManifestInv, RenameInv, UpdateLatestInv, CommitOkInv, CommitFailsInv, CommitFailsLateInv
     DEF Commit
<1>3. CASE Prune
  <2>1. CASE \E g \in Gens : SweepPending(g) \/ SweepInvalid(g)
    BY <2>1, SweepPendingInv, SweepInvalidInv
  <2>2. CASE RemoveFile \/ RemoveDirectory \/ RemoveFails \/ SweepDone \/ EvictDone \/ PruneFails \/ SaveOk
    BY <2>2, RemoveFileInv, RemoveDirectoryInv, PhaseInv, NothingInv, SaveOkInv
  <2>3. CASE \E g \in Gens : Evict(g) \/ EvictFails(g)
    BY <2>3, EvictInv, EvictFailsInv
  <2>4. CASE \E fp \in Fingerprints : Reconcile(fp)
    BY <2>4, ReconcileInv
  <2> QED BY <1>3, <2>1, <2>2, <2>3, <2>4 DEF Prune
<1>4. CASE Crash
  BY <1>4, NothingInv
<1>5. ASSUME NEW fp \in Fingerprints, RestoreReject(fp) PROVE Inv'
  BY <1>5, RestoreRejectInv
<1>6. ASSUME NEW g \in Gens, Damage(g) PROVE Inv'
  BY <1>6, DamageInv
<1>7. CASE UNCHANGED vars
  <2>1. TypeOK /\ Stored
    BY DEF Inv
  <2>2. UNCHANGED <<gens, latest, created, pc, cur, junk, kept, victim, todo, outcome, acked, rejected, torn, damages>>
    BY <1>7 DEF vars
  <2>3. TypeOK'
    BY <2>1, <2>2 DEF TypeOK, Present
  <2>4. Stored'
    BY <2>1, <2>2, QuietStored
  <2>5. StorageBounded'
    BY <2>2 DEF Inv, StorageBounded, Present, Valid, Complete, TotalBytes, Contents
  <2>6. (Committing' <=> Committing) /\ (Scanned' <=> Scanned) /\ (Merging' <=> Merging)
    BY <2>2 DEF Committing, Scanned, Merging, Present, Valid, Complete, TotalBytes, Contents, LoadLatest, ValidOf, NoShorter
  <2> QED BY <2>3, <2>4, <2>5, <2>6 DEF Inv
<1> QED BY <1>1, <1>2, <1>3, <1>4, <1>5, <1>6, <1>7, ClearInv DEF Next

\* The state of the store, the generation being saved and what prune_instance
\* has seen keep to the invariant above through every step, failure and crash.
THEOREM Invariance == Spec => []Inv
BY InitInv, NextInv, PTL DEF Spec

\* commit_slots_with_fault publishes complete generations only: whatever failed
\* or crashed, a renamed directory that nothing has damaged is complete and the
\* latest pointer never names one that is still being built.
THEOREM PublishedCompleteAlways == Spec => []PublishedComplete
<1>1. Inv => PublishedComplete
  <2> SUFFICES ASSUME Inv PROVE PublishedComplete
    OBVIOUS
  <2>1. TypeOK /\ Stored
    BY DEF Inv
  <2>2. \A g \in Present : gens[g].dir = "final" /\ g \notin torn => Complete(g)
    BY <2>1 DEF Stored, Sound
  <2>3. \A fp \in Fingerprints : latest[fp] \in Present => gens[latest[fp]].dir = "final"
    BY <2>1 DEF Stored, Pointed
  <2> QED BY <2>1, <2>2, <2>3 DEF PublishedComplete
<1> QED BY <1>1, Invariance, PTL

\* A commit that returned Ok is durable: load_latest returns the generation
\* acknowledged last, or a newer one, until it is damaged, rejected, cleared or
\* evicted by the save of another fingerprint.
THEOREM AckedSurvivesAlways == Spec => []AckedSurvives
<1>1. Inv => AckedSurvives
  <2> SUFFICES ASSUME Inv, NEW fp \in Fingerprints, acked[fp] # 0
               PROVE  Valid(acked[fp]) /\ LoadLatest(fp) >= acked[fp]
    BY DEF AckedSurvives
  <2>1. TypeOK /\ Pointed(fp)
    BY DEF Inv, Stored
  <2>2. PICK a, l, k : a = acked[fp] /\ l = LoadLatest(fp) /\ k = latest[fp]
    OBVIOUS
  <2>3. Valid(a) /\ gens[a].fp = fp /\ a <= k /\ a \in Gens
    BY <2>1, <2>2, ValidIs DEF Pointed
  <2>4. l = k \/ \A h \in Gens : Valid(h) /\ gens[h].fp = fp => h <= l
    BY <2>1, <2>2, LoadIs
  <2>5. a <= l
    BY <2>3, <2>4
  <2>6. a \in Nat /\ l \in Nat
    BY <2>1, <2>2, <2>3, LoadIs DEF Gens
  <2> QED BY <2>2, <2>3, <2>5, <2>6
<1> QED BY <1>1, Invariance, PTL

\* A save that reports success has brought the valid generations within the
\* storage limit, and nothing that follows brings them above it unnoticed.
THEOREM StorageBoundedAlways == Spec => []StorageBounded
<1>1. Inv => StorageBounded
  BY DEF Inv
<1> QED BY <1>1, Invariance, PTL

-----------------------------------------------------------------------------
(* What a step may publish                                                 *)

\* Only the directory g is touched, and it is not a checkpoint afterwards.
Spoils(g) == (\A h \in Gens \ {g} : gens'[h] = gens[h]) /\ (Valid(g)' => g \in rejected)

LEMMA SpoilsIs ==
    ASSUME TypeOK, NEW g \in Gens, NEW y, gens' = [gens EXCEPT ![g] = y],
           y = NoGen \/ y.dir # "final" \/ ~y.manifest \/ y.marker
    PROVE  Spoils(g)
<1>1. gens'[g] = y /\ \A h \in Gens \ {g} : gens'[h] = gens[h]
  BY DEF TypeOK
<1>2. ~Valid(g)'
  BY <1>1 DEF Valid, Present, Complete
<1> QED BY <1>1, <1>2 DEF Spoils

LEMMA GoneSpoils == ASSUME TypeOK, NEW g \in Gens, Gone(g) PROVE Spoils(g)
BY SpoilsIs DEF Gone

LEMMA EditSpoils ==
    ASSUME TypeOK, NEW g \in Gens,
           \/ gens' = [gens EXCEPT ![g].manifest = FALSE]
           \/ gens' = [gens EXCEPT ![g].marker = TRUE]
    PROVE  g \in Present => Spoils(g)
<1> SUFFICES ASSUME g \in Present PROVE Spoils(g)
  OBVIOUS
<1>1. PICK x \in Generation : x = gens[g]
  BY GenIs
<1>2. CASE gens' = [gens EXCEPT ![g].manifest = FALSE]
  <2>1. PICK b, y : b \in BOOLEAN /\ b = FALSE /\ y = [x EXCEPT !.manifest = b]
    OBVIOUS
  <2>2. gens' = [gens EXCEPT ![g] = y]
    BY <1>1, <1>2, <2>1
  <2>3. ~y.manifest
    BY <2>1, EditManifest
  <2> QED BY <2>2, <2>3, SpoilsIs
<1>3. CASE gens' = [gens EXCEPT ![g].marker = TRUE]
  <2>1. PICK b, y : b \in BOOLEAN /\ b = TRUE /\ y = [x EXCEPT !.marker = b]
    OBVIOUS
  <2>2. gens' = [gens EXCEPT ![g] = y]
    BY <1>1, <1>3, <2>1
  <2>3. y.marker
    BY <2>1, EditMarker
  <2> QED BY <2>2, <2>3, SpoilsIs
<1> QED BY <1>2, <1>3

LEMMA BuildSpoils ==
    ASSUME Inv, WriteManifest \/ \E s \in Slots : MovePayload(s)
    PROVE  \E g \in Gens : Spoils(g)
<1>1. TypeOK /\ pc = "move" /\ cur \in Present /\ gens[cur].dir = "pending" /\ cur \in Gens
  BY GenIs DEF Inv, Committing, WriteManifest, MovePayload
<1>2. PICK g \in Gens, x \in Generation : g = cur /\ x = gens[g]
  BY <1>1, GenIs
<1>3. CASE WriteManifest
  <2>1. PICK b, y : b \in BOOLEAN /\ b = TRUE /\ y = [x EXCEPT !.manifest = b]
    OBVIOUS
  <2>2. gens' = [gens EXCEPT ![g] = y]
    BY <1>2, <1>3, <2>1 DEF WriteManifest
  <2>3. y.dir # "final"
    BY <1>1, <1>2, <2>1, EditManifest
  <2> QED BY <1>1, <2>2, <2>3, SpoilsIs
<1>4. ASSUME NEW s \in Slots, MovePayload(s) PROVE Spoils(g)
  <2>1. x.payload \subseteq Slots
    BY DEF Generation
  <2>2. PICK P, y : P = x.payload \cup {s} /\ y = [x EXCEPT !.payload = P]
    OBVIOUS
  <2>3. gens' = [gens EXCEPT ![g] = y]
    BY <1>2, <1>4, <2>2 DEF MovePayload
  <2>4. P \subseteq Slots
    BY <2>1, <2>2
  <2>5. y.dir # "final"
    BY <1>1, <1>2, <2>2, <2>4, EditPayload
  <2> QED BY <1>1, <2>3, <2>5, SpoilsIs
<1> QED BY <1>1, <1>3, <1>4

LEMMA RemoveFileSpoils == ASSUME Inv, RemoveFile PROVE \E g \in Gens : Spoils(g)
<1>1. TypeOK /\ Stored /\ Scanned /\ pc = "remove"
  BY DEF Inv, RemoveFile
<1>2. PICK g : g = victim
  OBVIOUS
<1>3. g \in torn /\ g \in Present /\ g \in Gens /\ g \notin kept /\ Sound(g)
  BY <1>1, <1>2 DEF Scanned, TypeOK, Present, Stored
<1>4. \A h \in Gens \ {g} : gens'[h] = gens[h]
  BY <1>1, <1>2, <1>3 DEF RemoveFile, TypeOK
<1>5. PICK x \in Generation : x = gens[g]
  BY <1>1, <1>3, GenIs
<1>6. /\ gens'[g].dir = x.dir /\ gens'[g].tokens = x.tokens /\ (gens'[g].manifest => x.manifest)
      /\ gens'[g].payload \subseteq x.payload
  <2>1. PICK y \in Generation :
          /\ gens' = [gens EXCEPT ![g] = y] /\ y # NoGen /\ y.dir = x.dir /\ y.fp = x.fp /\ y.tokens = x.tokens
          /\ y.payload \subseteq x.payload /\ (y.manifest => x.manifest) /\ (y.marker => x.marker)
          /\ y.marker = x.marker \/ x.marker
    BY <1>2, <1>5, FileGone
  <2>2. gens'[g] = y
    BY <1>1, <1>3, <2>1 DEF TypeOK
  <2> QED BY <2>1, <2>2
<1>7. ASSUME Valid(g)', g \notin rejected PROVE FALSE
  <2>1. ~x.marker
    BY <1>3, <1>5, <1>7 DEF Sound
  <2>2. gens'[g].manifest /\ Saved(x.tokens) \subseteq gens'[g].payload /\ x.dir = "final"
    BY <1>6, <1>7 DEF Valid, Complete, Saved
  <2>3. Valid(g)
    BY <1>3, <1>5, <1>6, <2>1, <2>2 DEF Valid, Complete
  <2> QED BY <1>1, <1>3, <1>7, <2>3 DEF Scanned
<1> QED BY <1>3, <1>4, <1>7 DEF Spoils

\* A step makes at most the generation it renames restorable, besides rejected
\* ones that a half-finished removal brings back.
LEMMA Publishes ==
    ASSUME Inv, [Next]_vars, NEW h \in Gens, Valid(h)', h \notin rejected
    PROVE  \/ gens'[h] = gens[h] /\ Valid(h)
           \/ RenameGeneration /\ h = cur
<1>1. TypeOK
  BY DEF Inv
<1>2. ASSUME NEW g \in Gens, Spoils(g) PROVE gens'[h] = gens[h] /\ Valid(h)
  <2>1. h # g
    BY <1>2 DEF Spoils
  <2>2. gens'[h] = gens[h]
    BY <1>2, <2>1 DEF Spoils
  <2> QED BY <2>2, ValidFrame
<1>3. ASSUME UNCHANGED gens PROVE gens'[h] = gens[h] /\ Valid(h)
  BY <1>3, ValidFrame
<1>4. ASSUME NEW fp \in Fingerprints, Save(fp) PROVE gens'[h] = gens[h] /\ Valid(h)
  <2>1. CASE SaveAbandoned(fp) \/ SaveRefused(fp)
    BY <1>3, <2>1 DEF SaveAbandoned, SaveRefused, disk
  <2>2. ASSUME NEW saved \in [Slots -> 0 .. MaxTokens], SaveBegin(fp, saved) PROVE gens'[h] = gens[h] /\ Valid(h)
    <3>1. PICK c, t : c = created + 1 /\ t = Merged(Previous(fp), saved)
      OBVIOUS
    <3>2. PICK y : y = [dir |-> "pending", fp |-> fp, tokens |-> t, payload |-> {}, manifest |-> FALSE, marker |-> FALSE]
      OBVIOUS
    <3>3. c \in Gens /\ gens' = [gens EXCEPT ![c] = y]
      BY <1>1, <2>2, <3>1, <3>2 DEF SaveBegin, TypeOK, Gens
    <3>4. y.dir # "final"
      BY <3>2
    <3>5. Spoils(c)
      BY <1>1, <3>3, <3>4, SpoilsIs
    <3> QED BY <1>2, <3>3, <3>5
  <2> QED BY <1>4, <2>1, <2>2 DEF Save
<1>5. ASSUME Commit PROVE (gens'[h] = gens[h] /\ Valid(h)) \/ (RenameGeneration /\ h = cur)
  <2>1. CASE WriteManifest \/ \E s \in Slots : MovePayload(s)
    BY <1>2, <2>1, BuildSpoils
  <2>2. CASE RenameGeneration
    <3>1. h # cur => gens'[h] = gens[h]
      BY <1>1, <2>2 DEF RenameGeneration, TypeOK
    <3> QED BY <2>2, <3>1, ValidFrame
  <2>3. CASE UpdateLatest \/ CommitOk \/ CommitFailsLate
    BY <1>3, <2>3 DEF UpdateLatest, CommitOk, CommitFailsLate
  <2>4. CASE CommitFails
    <3>1. cur \in Gens
      BY <2>4, GenIs DEF CommitFails, Inv, Committing
    <3>2. PICK g \in Gens : g = cur
      BY <3>1
    <3>3. Gone(g) => Spoils(g)
      BY <1>1, GoneSpoils
    <3> QED BY <1>2, <1>3, <2>4, <3>2, <3>3 DEF CommitFails, Gone
  <2> QED BY <1>5, <2>1, <2>2, <2>3, <2>4 DEF Commit
<1>6. ASSUME Prune PROVE gens'[h] = gens[h] /\ Valid(h)
  <2>1. ASSUME NEW g \in Gens, SweepPending(g) \/ SweepInvalid(g) \/ Evict(g) PROVE gens'[h] = gens[h] /\ Valid(h)
    <3>1. Gone(g) => Spoils(g)
      BY <1>1, GoneSpoils
    <3> QED BY <1>2, <1>3, <2>1, <3>1 DEF SweepPending, SweepInvalid, Evict, disk
  <2>2. CASE RemoveFile
    BY <1>2, <2>2, RemoveFileSpoils
  <2>3. CASE RemoveDirectory
    <3>1. victim \in Gens
      BY <2>3 DEF RemoveDirectory, Inv, Scanned, TypeOK, Present
    <3>2. PICK g \in Gens : g = victim
      BY <3>1
    <3>3. Gone(g) => Spoils(g)
      BY <1>1, GoneSpoils
    <3> QED BY <1>2, <2>3, <3>2, <3>3 DEF RemoveDirectory, Gone
  <2>4. ASSUME NEW g \in Gens, EvictFails(g) PROVE gens'[h] = gens[h] /\ Valid(h)
    <3>1. g \in Present /\ gens' = [gens EXCEPT ![g].manifest = FALSE]
      BY <2>4 DEF EvictFails, Evictable, Inv, Scanned, Valid
    <3>2. Spoils(g)
      BY <1>1, <3>1, EditSpoils
    <3> QED BY <1>2, <3>2
  <2>5. CASE RemoveFails \/ SweepDone \/ EvictDone \/ PruneFails \/ SaveOk \/ \E fp \in Fingerprints : Reconcile(fp)
    BY <1>3, <2>5 DEF RemoveFails, SweepDone, EvictDone, PruneFails, SaveOk, Reconcile, disk
  <2> QED BY <1>6, <2>1, <2>2, <2>3, <2>4, <2>5 DEF Prune
<1>7. ASSUME NEW fp \in Fingerprints, RestoreReject(fp) PROVE gens'[h] = gens[h] /\ Valid(h)
  <2>1. PICK g : g = LoadLatest(fp)
    OBVIOUS
  <2>2. g \in Present /\ g \in Gens /\ gens' = [gens EXCEPT ![g].marker = TRUE]
    BY <1>1, <1>7, <2>1, LoadIs, ValidIs DEF RestoreReject
  <2>3. Spoils(g)
    BY <1>1, <2>2, EditSpoils
  <2> QED BY <1>2, <2>2, <2>3
<1>8. ASSUME NEW g \in Gens, Damage(g) PROVE gens'[h] = gens[h] /\ Valid(h)
  BY <1>1, <1>2, <1>8, EditSpoils DEF Damage
<1>9. CASE Clear
  <2>1. gens'[h] = NoGen
    BY <1>9 DEF Clear
  <2> QED BY <2>1 DEF Valid, Present
<1>10. CASE Crash \/ UNCHANGED vars
  BY <1>3, <1>10 DEF Crash, disk, vars
<1> QED BY <1>4, <1>5, <1>6, <1>7, <1>8, <1>9, <1>10 DEF Next

\* preserve_longer: no step replaces the generation that would be restored by a
\* newer one with a shorter slot, whether it is published by the commit or by the
\* reconciliation after a crash.
THEOREM KeepsLongerAlways == Spec => KeepsLonger
<1>1. ASSUME Inv, Inv', [Next]_vars, NEW fp \in Fingerprints, PreserveLonger,
             LoadLatest(fp) # 0, LoadLatest(fp)' > LoadLatest(fp), {LoadLatest(fp), LoadLatest(fp)'} \cap rejected = {},
             NEW s \in Slots
      PROVE  gens'[LoadLatest(fp)'].tokens[s] >= gens[LoadLatest(fp)].tokens[s]
  <2>1. PICK g, h : g = LoadLatest(fp) /\ h = LoadLatest(fp)'
    OBVIOUS
  <2>2. g # 0 /\ h > g /\ g \notin rejected /\ h \notin rejected
    BY <1>1, <2>1
  <2>3. g \in 0 .. MaxGen /\ Valid(g) /\ (g = latest[fp] \/ \A k \in Gens : Valid(k) /\ gens[k].fp = fp => k <= g)
    BY <1>1, <2>1, <2>2, LoadIs DEF Inv
  <2>4. h \in 0 .. MaxGen /\ (h # 0 => Valid(h)') /\ (h # 0 /\ h # latest'[fp] => gens'[h].fp = fp)
    <3>1. (TypeOK => /\ LoadLatest(fp) \in 0 .. MaxGen
                     /\ LoadLatest(fp) # 0 => Valid(LoadLatest(fp))
                     /\ LoadLatest(fp) # 0 /\ LoadLatest(fp) # latest[fp] => gens[LoadLatest(fp)].fp = fp)'
      BY LoadIs, PTL
    <3> QED BY <1>1, <2>1, <3>1 DEF Inv, Valid, Complete, Saved
  <2>5. h # 0 /\ h \in Gens /\ Valid(h)'
    BY <2>2, <2>3, <2>4 DEF Gens
  <2>6. gens'[h].fp = fp
    BY <1>1, <2>4, <2>5 DEF Inv, Stored, Pointed, Valid
  <2>7. CASE gens'[h] = gens[h] /\ Valid(h)
    <3>1. g = latest[fp]
      BY <2>2, <2>3, <2>5, <2>6, <2>7 DEF Gens
    <3>2. Heirs(fp)
      BY <1>1 DEF Inv, Stored
    <3>3. NoShorter(g, h)
      BY <2>2, <2>3, <2>5, <2>6, <2>7, <3>1, <3>2 DEF Heirs
    <3> QED BY <1>1, <2>1, <2>7, <3>3 DEF NoShorter
  <2>8. CASE RenameGeneration /\ h = cur
    <3>1. cur \in Present /\ pc = "rename" /\ gens' = [gens EXCEPT ![cur].dir = "final"]
      BY <1>1, <2>8 DEF Inv, Committing, RenameGeneration
    <3>2. PICK x, y : x \in Generation /\ x = gens[h] /\ y = [x EXCEPT !.dir = "final"]
      BY <1>1, <2>8, <3>1, GenIs DEF Inv
    <3>3. gens'[h] = y
      BY <1>1, <2>5, <2>8, <3>1, <3>2 DEF Inv, TypeOK
    <3>4. y.fp = x.fp /\ y.tokens = x.tokens
      BY <3>2, EditDir
    <3>5. gens[cur].fp = fp
      BY <2>6, <2>8, <3>2, <3>3, <3>4
    <3>6. NoShorter(g, h)
      BY <1>1, <2>1, <2>2, <2>8, <3>1, <3>5 DEF Inv, Merging
    <3> QED BY <1>1, <2>1, <3>2, <3>3, <3>4, <3>6 DEF NoShorter
  <2> QED BY <1>1, <2>2, <2>5, <2>7, <2>8, Publishes
<1>2. Inv /\ Inv' /\ [Next]_vars =>
        \A fp \in Fingerprints :
          LET g == LoadLatest(fp)
              h == LoadLatest(fp)'
          IN  PreserveLonger /\ g # 0 /\ h > g /\ {g, h} \cap rejected = {} =>
                \A s \in Slots : gens'[h].tokens[s] >= gens[g].tokens[s]
  BY <1>1
<1> QED BY <1>2, Invariance, PTL DEF Spec, KeepsLonger
==============================================================================
