--------------------------- MODULE InstanceControl ---------------------------
(***************************************************************************)
(* One managed instance as the two processes of the application see it:    *)
(* the daemon that starts, stops and watches its llama-server process and  *)
(* persists what runs and what should run (runtime_service/supervisor.rs), *)
(* and the desktop process that asks for it and keeps a mirror of the      *)
(* daemon's table, in memory and in instances.json (commands/server.rs,    *)
(* runtime_service/mod.rs).  Either may die; answers may be lost; writes,  *)
(* launches and kills may fail.  Quitting shuts the daemon down; so does   *)
(* an update of the application, which keeps every request and every new   *)
(* daemon out by a lease until it is installed (runtime_service/update.rs).*)
(*                                                                         *)
(* A step is a section under one lock.  The daemon's lifecycle mutex is    *)
(* job; the desktop's lock per instance is op.                             *)
(***************************************************************************)
EXTENDS Naturals, FiniteSets

CONSTANTS MaxPid,       \* processes ever launched
          MaxOps,       \* commands of the user
          MaxFaults     \* crashes, failing calls, lost answers

ASSUME ControlAssumption ==
    MaxPid \in Nat \ {0} /\ MaxOps \in Nat /\ MaxFaults \in Nat

Pids == 1..MaxPid
None == 0

VARIABLES
    alive,    \* llama-server processes that run
    spawned,  \* pids given out so far
    bg,       \* background mode: the daemon stays without a desktop process
    dm,       \* RuntimeSupervisor: mode, desired_instances, running, and
              \* whether the desktop process it last heard of is gone
    disk,     \* runtime-state.json: desired_instances, running
    pending,  \* commands waiting for the lifecycle mutex
    job,      \* what its holder does
    gui,      \* AppState: up, running, runtime_managed_instances; before
              \* the bridge's first round; UPDATE_LEASE, APP_SHUTTING_DOWN
    saved,    \* running in instances.json
    op,       \* the operation that holds the instance's operation lock
    rec,      \* reconcile_app_runtime, called by the bridge and by start_server
    hist      \* what was promised, what is exempt, and the bounds

vars == <<alive, spawned, bg, dm, disk, pending, job, gui, saved, op, rec, hist>>
daemon == <<dm, disk, pending, job>>
desktop == <<gui, saved, op, rec>>

NoJob == [kind |-> "none", step |-> "none", pid |-> None, from |-> "none", ok |-> FALSE]
NoOp == [kind |-> "none", step |-> "none", pid |-> None, tries |-> 0]
NoRec == [step |-> "none", status |-> None, prev |-> FALSE, changed |-> FALSE]
Empty(mode) == [mode |-> mode, desired |-> FALSE, running |-> None, gone |-> FALSE]
Callers == {"bridge", "start"}
Fresh(pid, managed) == [up |-> TRUE, running |-> pid, managed |-> managed, new |-> TRUE, lease |-> "none"]

(* Shutdown commands of an update and of quit_app, and those nobody waits for *)
Updates == {"update", "lost update"}
Quits == {"quit", "lost quit"}
Shutdowns == Updates \cup Quits

TypeOK ==
    /\ alive \subseteq 1..spawned /\ spawned \in 0..MaxPid /\ bg \in BOOLEAN
    /\ dm \in [mode : {"restart", "relaunch", "ready", "retiring", "left", "crashed"},
               desired : BOOLEAN, running : 0..MaxPid, gone : BOOLEAN]
    /\ disk \in [desired : BOOLEAN, running : 0..MaxPid]
    /\ pending \subseteq [kind : {"start", "stop", "shutdown"}, from : {"op", "lost"} \cup Shutdowns]
    /\ job \in [kind : {"none", "start", "stop"},
                step : {"none", "spawn", "persist", "rollback", "kill", "reply"},
                pid : 0..MaxPid, ok : BOOLEAN,
                from : {"none", "op", "lost", "restore", "recover", "watchdog"} \cup Shutdowns]
    /\ gui \in [up : BOOLEAN, running : 0..MaxPid, managed : BOOLEAN, new : BOOLEAN,
                lease : {"none", "stopping", "locking", "held", "quitting", "closing"}]
    /\ saved \in 0..MaxPid
    /\ op \in [kind : {"none", "start", "stop"}, pid : 0..MaxPid, tries : 0..1,
               step : {"none", "status", "reserve", "send", "call", "insert", "manage", "snap",
                       "save", "undo", "undoing", "unrun", "unmanage", "own", "clear"}]
    /\ rec \in [Callers -> [step : {"none", "prev", "run", "extend", "snap", "save"},
                            status : 0..MaxPid, prev : BOOLEAN, changed : BOOLEAN]]
    /\ hist \in [intent : {"none", "on", "off"}, stray : SUBSET Pids,
                 ops : 0..MaxOps, faults : 0..MaxFaults]

Serving == dm.mode \in {"ready", "retiring"}
Up == Serving \/ dm.mode \in {"restart", "relaunch"}
Held == [desired |-> dm.desired, running |-> dm.running]
Fault == hist.faults < MaxFaults
Faulty == [hist EXCEPT !.faults = @ + 1]

-----------------------------------------------------------------------------
(* Answers.  What the caller in the desktop process does next              *)

Answered(o, ok, pid) ==
    IF o.step = "undoing" THEN [o EXCEPT !.step = "unrun"]
    ELSE CASE o.kind = "start" /\ ok -> [o EXCEPT !.step = "insert", !.pid = pid]
           [] o.kind = "stop" /\ ok -> [o EXCEPT !.step = "unrun"]
           [] OTHER -> NoOp

(* call_recovering: a call the daemon did not survive is made once more,   *)
(* after another has been started                                          *)
Severed(o) ==
    CASE o.step = "call" /\ o.tries = 0 -> [o EXCEPT !.step = "send", !.tries = 1]
      [] o.step = "undoing" /\ o.tries = 0 -> [o EXCEPT !.step = "undo", !.tries = 1]
      [] o.step \in {"call", "undoing"} /\ o.tries # 0 -> Answered(o, FALSE, None)
      [] OTHER -> o

(* The call of a shutdown is not repeated *)
Asking == gui.lease \in {"stopping", "quitting"}
Refused == IF Asking THEN [gui EXCEPT !.lease = "none"] ELSE gui
Acknowledged ==
    [gui EXCEPT !.lease = CASE @ = "stopping" -> "locking" [] @ = "quitting" -> "closing" [] OTHER -> @]

Leave(mode) ==
    /\ dm' = Empty(mode) /\ pending' = {} /\ op' = Severed(op)
    /\ gui' = Refused

(* What the daemon's answer promises.  A command whose answer was lost may *)
(* still be carried out, quitting may overtake the answer, and a start the *)
(* desktop undoes promises nothing.  Nor does a stop that is answered      *)
(* while an update that failed is about to start what it has stopped:      *)
(* restore_missing_desired_instances has read what is desired before       *)
Told ==
    IF \/ ~job.ok \/ op.step = "undoing"
       \/ \E c \in pending : c.from \in {"lost"} \cup Quits \/ (c.kind = "start" /\ op.kind = "stop")
    THEN "none" ELSE IF op.kind = "stop" THEN "off" ELSE "on"

-----------------------------------------------------------------------------
(* The daemon.  A job that is over answers the desktop process, ends the   *)
(* daemon, or lets restore and recover_checkpoint_process go on            *)

Over(j, ok) ==
    CASE j.from = "op" -> [j EXCEPT !.step = "reply", !.ok = ok]
      [] j.from = "recover" /\ j.kind = "stop" /\ ok ->
           [j EXCEPT !.kind = "start", !.step = "spawn"]
      [] OTHER -> NoJob

Ends(j, ok) ==
    /\ job' = Over(j, ok)
    /\ gui' = IF j.from \in {"update", "quit"} THEN Refused ELSE gui

ModeAfter(j) ==
    CASE j.from = "restore" /\ j.kind = "stop" -> "relaunch"
      [] j.from = "restore" /\ j.kind = "start" -> "ready"
      [] OTHER -> dm.mode

(* A write that reports an error may have replaced the file: protecting    *)
(* runtime-state.json comes after the rename                               *)
Unsaved == disk' \in {disk, Held'}

\* Mutant: no guard against a second start.
StartRefused_Never(from) == FALSE

(* start_instance_locked: a running process is not started twice *)
StartRefused(from) == dm.running \in alive

Launch(from) ==
    /\ spawned < MaxPid
    /\ ~StartRefused(from)
    /\ spawned' = spawned + 1
    /\ alive' = alive \cup {spawned + 1}
    /\ dm' = [dm EXCEPT !.desired = TRUE, !.running = spawned + 1]
    /\ job' = [NoJob EXCEPT !.kind = "start", !.step = "persist", !.pid = spawned + 1, !.from = from]
    /\ UNCHANGED <<disk, gui, hist>>

(* It runs already, or validation, the log file or the launch failed, as   *)
(* it does for want of pids                                                *)
LaunchFails(from) ==
    /\ \/ (StartRefused(from) \/ spawned = MaxPid) /\ UNCHANGED hist
       \/ Fault /\ hist' = Faulty
    /\ LET j == [NoJob EXCEPT !.kind = "start", !.from = from]
       IN  Ends(j, FALSE) /\ dm' = [dm EXCEPT !.mode = ModeAfter(j)]
    /\ UNCHANGED <<alive, spawned, disk>>

TakeStart ==
    \E c \in pending :
        /\ c.kind = "start" /\ Serving /\ job = NoJob
        /\ Launch(c.from) \/ LaunchFails(c.from)
        /\ pending' = pending \ {c}
        /\ UNCHANGED <<bg, saved, op, rec>>

StartPersisted ==
    /\ job.kind = "start" /\ job.step = "persist"
    /\ disk' = Held
    /\ dm' = [dm EXCEPT !.mode = ModeAfter(job)]
    /\ Ends(job, TRUE)
    /\ UNCHANGED <<alive, spawned, bg, pending, saved, op, rec, hist>>

(* The start is rolled back; it waits for the process it has to kill *)
StartUnsaved ==
    /\ job.kind = "start" /\ job.step = "persist"
    /\ Fault /\ hist' = Faulty
    /\ \E kill \in {{}, {job.pid}} : alive' = alive \ kill
    /\ dm' = dm /\ Unsaved
    /\ job' = [job EXCEPT !.step = "rollback"]
    /\ UNCHANGED <<spawned, bg, pending, desktop>>

StartRolledBack ==
    /\ job.kind = "start" /\ job.step = "rollback" /\ job.pid \notin alive
    /\ dm' = [dm EXCEPT !.desired = FALSE, !.running = None, !.mode = ModeAfter(job)]
    /\ Ends(job, FALSE)
    /\ UNCHANGED <<alive, spawned, bg, disk, pending, saved, op, rec, hist>>

\* Mutant: every stop forgets what is desired.
Preserves_Never(from) == FALSE

(* stop_instance_locked; restore, recovery and an update preserve what is  *)
(* desired                                                                 *)
Preserves(from) == from \in {"restore", "recover"} \cup Updates
Desired(from) == dm.desired /\ Preserves(from)

StopJob(from) ==
    [NoJob EXCEPT !.kind = "stop", !.step = "kill", !.pid = dm.running, !.from = from]

TakeStop ==
    \E c \in pending :
        /\ c.kind = "stop" /\ Serving /\ job = NoJob
        /\ pending' = pending \ {c}
        /\ \/ /\ dm.running # None
              /\ job' = StopJob(c.from)
              /\ UNCHANGED <<dm, disk, hist>>
           \/ /\ dm.running = None
              /\ dm' = [dm EXCEPT !.desired = FALSE]
              /\ \/ disk' = Held' /\ job' = Over(StopJob(c.from), TRUE) /\ UNCHANGED hist
                 \/ Fault /\ hist' = Faulty /\ Unsaved /\ job' = Over(StopJob(c.from), FALSE)
        /\ UNCHANGED <<alive, spawned, bg, desktop>>

(* The daemon acknowledges a shutdown and exits a little later *)
Retire == dm' = [dm EXCEPT !.mode = "retiring"] /\ gui' = Acknowledged

TakeShutdown ==
    \E c \in pending :
        /\ c.kind = "shutdown" /\ Serving /\ job = NoJob
        /\ pending' = pending \ {c}
        /\ \/ dm.running # None /\ job' = StopJob(c.from) /\ UNCHANGED <<dm, gui>>
           \/ dm.running = None /\ Retire /\ UNCHANGED job
        /\ UNCHANGED <<alive, spawned, bg, disk, saved, op, rec, hist>>

(* An update that could not stop everything starts what it has stopped *)
StopFails ==
    IF job.from \in Updates /\ dm'.desired /\ dm'.running \notin alive
    THEN /\ pending' = pending \cup {[kind |-> "start", from |-> job.from]}
         /\ job' = NoJob /\ UNCHANGED gui
    ELSE Ends(job, FALSE) /\ UNCHANGED pending

StopKills ==
    /\ job.kind = "stop" /\ job.step = "kill"
    /\ alive' = alive \ {job.pid}
    /\ dm' = [dm EXCEPT !.desired = Desired(job.from), !.running = None]
    /\ job' = [job EXCEPT !.step = "persist"]
    /\ UNCHANGED <<spawned, bg, disk, pending, desktop, hist>>

StopKillFails ==
    /\ job.kind = "stop" /\ job.step = "kill" /\ job.pid \in alive
    /\ Fault /\ hist' = Faulty
    /\ dm' = [dm EXCEPT !.mode = ModeAfter(job)]
    /\ StopFails
    /\ UNCHANGED <<alive, spawned, bg, disk, saved, op, rec>>

(* After the watchdog's last stop the daemon exits *)
StopPersisted ==
    /\ job.kind = "stop" /\ job.step = "persist"
    /\ disk' = Held
    /\ job' = Over(job, TRUE)
    /\ \/ job.from = "watchdog" /\ Leave("left")
       \/ job.from \in Shutdowns /\ Retire /\ UNCHANGED <<pending, op>>
       \/ /\ job.from \notin Shutdowns \cup {"watchdog"}
          /\ dm' = [dm EXCEPT !.mode = ModeAfter(job)]
          /\ UNCHANGED <<pending, op, gui>>
    /\ UNCHANGED <<alive, spawned, bg, saved, rec, hist>>

StopUnsaved ==
    /\ job.kind = "stop" /\ job.step = "persist"
    /\ Fault /\ hist' = Faulty
    /\ dm' = [dm EXCEPT !.mode = ModeAfter(job)]
    /\ Unsaved
    /\ StopFails
    /\ UNCHANGED <<alive, spawned, bg, saved, op, rec>>

(* record_process_exit: the thread that waits for the process, or polls an *)
(* adopted one, finds it gone                                              *)
RecordExit ==
    /\ Up /\ job = NoJob /\ dm.running # None /\ dm.running \notin alive
    /\ dm' = [dm EXCEPT !.desired = FALSE, !.running = None]
    /\ \/ disk' = Held' /\ hist' = [hist EXCEPT !.intent = "none"]
       \/ Fault /\ Unsaved /\ hist' = [Faulty EXCEPT !.intent = "none"]
    /\ UNCHANGED <<alive, spawned, bg, pending, job, desktop>>

(* recover_checkpoint_process replaces a poisoned process *)
Recover ==
    /\ Serving /\ job = NoJob /\ dm.running \in alive /\ dm.desired
    /\ spawned < MaxPid
    /\ job' = StopJob("recover")
    /\ UNCHANGED <<alive, spawned, bg, dm, disk, pending, desktop, hist>>

RecoverStarts ==
    /\ job.kind = "start" /\ job.step = "spawn"
    /\ Launch(job.from) \/ LaunchFails(job.from)
    /\ UNCHANGED <<bg, pending, saved, op, rec>>

(* start_watchdog: the desktop process last heard of is gone.  A new one   *)
(* is known by its first heartbeat only                                    *)
Watchdog ==
    /\ Serving /\ job = NoJob /\ dm.gone /\ ~bg
    /\ \/ dm.running = None /\ Leave("left") /\ UNCHANGED job
       \/ dm.running # None /\ job' = StopJob("watchdog") /\ UNCHANGED <<dm, pending, op, gui>>
    /\ hist' = [hist EXCEPT !.intent = "none"]
    /\ UNCHANGED <<alive, spawned, bg, disk, saved, rec>>

(* run_runtime_service: load the state, forget processes that are gone     *)
Survivor(pid) == IF pid \in alive THEN pid ELSE None

(* ensure_runtime_service_inner, or the login; the lease holds the lock of the daemon *)
MayLaunchDaemon ==
    /\ ~Up
    /\ \/ gui.up /\ gui.lease = "none"
       \/ bg /\ gui.lease # "held"

DaemonStart ==
    /\ MayLaunchDaemon
    /\ disk' = [disk EXCEPT !.running = Survivor(@)]
    /\ dm' = [mode |-> "restart", desired |-> disk.desired, running |-> Survivor(disk.running),
              gone |-> FALSE]
    /\ UNCHANGED <<alive, spawned, bg, pending, job, desktop, hist>>

DaemonStartFails ==
    /\ MayLaunchDaemon /\ Fault /\ hist' = Faulty
    /\ disk' \in {disk, [disk EXCEPT !.running = Survivor(@)]}
    /\ UNCHANGED <<alive, spawned, bg, dm, pending, job, desktop>>

(* restore: a process that is desired is replaced by one that is fully     *)
(* supervised; one that cannot be stopped is adopted                       *)
RestoreStop ==
    /\ dm.mode = "restart" /\ job = NoJob
    /\ IF dm.running # None /\ dm.desired
       THEN job' = StopJob("restore") /\ UNCHANGED dm
       ELSE dm' = [dm EXCEPT !.mode = "relaunch"] /\ UNCHANGED job
    /\ UNCHANGED <<alive, spawned, bg, disk, pending, desktop, hist>>

(* restore_missing_desired_instances *)
RestoreMissing ==
    /\ dm.mode = "relaunch" /\ job = NoJob
    /\ \/ dm.desired /\ dm.running \notin alive /\ (Launch("restore") \/ LaunchFails("restore"))
       \/ /\ ~dm.desired \/ dm.running \in alive
          /\ dm' = [dm EXCEPT !.mode = "ready"]
          /\ UNCHANGED <<alive, spawned, disk, job, gui, hist>>
    /\ UNCHANGED <<bg, pending, saved, op, rec>>

Strays ==
    IF job.kind = "start" /\ job.pid \in alive /\ disk.running # job.pid THEN {job.pid} ELSE {}

DaemonCrash ==
    /\ Up /\ Fault
    /\ Leave("crashed") /\ job' = NoJob
    /\ hist' = [Faulty EXCEPT !.stray = @ \cup Strays]
    /\ UNCHANGED <<alive, spawned, bg, disk, saved, rec>>

(* What a command that came after the shutdown has launched stays behind *)
DaemonExits ==
    /\ dm.mode = "retiring"
    /\ Leave("left") /\ job' = NoJob
    /\ hist' = [hist EXCEPT !.stray = @ \cup Strays \cup (alive \cap {dm.running})]
    /\ UNCHANGED <<alive, spawned, bg, disk, saved, rec>>

ProcessDies ==
    /\ Fault /\ hist' = Faulty
    /\ \E p \in alive : alive' = alive \ {p}
    /\ UNCHANGED <<spawned, bg, daemon, desktop>>

-----------------------------------------------------------------------------
(* The desktop process: calls *)

Sends == op.step \in {"send", "undo"}
Command == IF op.kind = "stop" \/ op.step = "undo" THEN "stop" ELSE "start"

Send ==
    /\ Sends /\ dm.mode = "ready" /\ gui.lease \in {"none", "quitting"}
    /\ pending' = pending \cup {[kind |-> Command, from |-> "op"]}
    /\ op' = [op EXCEPT !.step = IF @ = "undo" THEN "undoing" ELSE "call"]
    /\ UNCHANGED <<alive, spawned, bg, dm, disk, job, gui, saved, rec, hist>>

(* Requests wait while the update takes its lease, and fail once it has it *)
Waits == gui.lease \in {"stopping", "locking"}

(* No daemon becomes ready in time *)
SendFails ==
    /\ Sends /\ ~Waits /\ (dm.mode # "ready" \/ gui.lease = "held")
    /\ op' = Answered(op, FALSE, None)
    /\ UNCHANGED <<alive, spawned, bg, daemon, gui, saved, rec, hist>>

Reply ==
    /\ job.step = "reply"
    /\ op' = Answered(op, job.ok, job.pid)
    /\ job' = NoJob
    /\ hist' = [hist EXCEPT !.intent = Told]
    /\ UNCHANGED <<alive, spawned, bg, dm, disk, pending, gui, saved, rec>>

(* The caller no longer waits; the daemon carries on *)
Lost(from) ==
    CASE from = "op" -> "lost" [] from = "update" -> "lost update" [] from = "quit" -> "lost quit"
      [] OTHER -> from
Disown(j) == IF j.step = "reply" THEN NoJob ELSE [j EXCEPT !.from = Lost(@)]
Orphaned == {[c EXCEPT !.from = Lost(@)] : c \in pending}

AnswerTimesOut ==
    /\ op.step \in {"call", "undoing"} \/ Asking
    /\ Fault /\ hist' = Faulty
    /\ op' = (IF op.step \in {"call", "undoing"} THEN Answered(op, FALSE, None) ELSE op)
    /\ gui' = Refused
    /\ job' = Disown(job) /\ pending' = Orphaned
    /\ UNCHANGED <<alive, spawned, bg, dm, disk, saved, rec>>

-----------------------------------------------------------------------------
(* reconcile_app_runtime: the mirror follows a status of the daemon, one   *)
(* lock after the other, while operations go on                            *)

(* The bridge's first round synchronizes the configuration; the later ones *)
(* are the heartbeats                                                      *)
BridgeFetch ==
    /\ gui.up /\ gui.lease = "none" /\ rec["bridge"] = NoRec /\ dm.mode = "ready"
    /\ rec' = [rec EXCEPT !["bridge"].step = "prev", !["bridge"].status = dm.running]
    /\ dm' = [dm EXCEPT !.gone = @ /\ gui.new]
    /\ gui' = [gui EXCEPT !.new = FALSE]
    /\ UNCHANGED <<alive, spawned, bg, disk, pending, job, saved, op, hist>>

RecPrev(c) ==
    /\ rec[c].step = "prev"
    /\ rec' = [rec EXCEPT ![c].step = "run", ![c].prev = gui.managed]
    /\ UNCHANGED <<alive, spawned, bg, daemon, gui, saved, op, hist>>

\* Mutant: an entry the daemon no longer has is kept.
Reconciled_Keeping(r) == IF r.status # None THEN r.status ELSE gui.running

(* What the running table becomes under the status *)
Reconciled(r) ==
    IF r.status # None THEN r.status ELSE IF r.prev THEN None ELSE gui.running

RecRunning(c) ==
    /\ rec[c].step = "run"
    /\ gui' = [gui EXCEPT !.running = Reconciled(rec[c])]
    /\ rec' = [rec EXCEPT ![c].step = "extend", ![c].changed = gui'.running # gui.running]
    /\ UNCHANGED <<alive, spawned, bg, daemon, saved, op, hist>>

RecExtend(c) ==
    /\ rec[c].step = "extend"
    /\ gui' = [gui EXCEPT !.managed = @ \/ rec[c].status # None]
    /\ rec' = [rec EXCEPT ![c] = IF @.changed THEN [NoRec EXCEPT !.step = "snap"] ELSE NoRec]
    /\ UNCHANGED <<alive, spawned, bg, daemon, saved, op, hist>>

RecSnapshot(c) ==
    /\ rec[c].step = "snap"
    /\ rec' = [rec EXCEPT ![c].step = "save", ![c].status = gui.running]
    /\ UNCHANGED <<alive, spawned, bg, daemon, gui, saved, op, hist>>

RecSave(c) ==
    /\ rec[c].step = "save"
    /\ \/ saved' = rec[c].status /\ UNCHANGED hist
       \/ Fault /\ hist' = Faulty /\ UNCHANGED saved
    /\ rec' = [rec EXCEPT ![c] = NoRec]
    /\ UNCHANGED <<alive, spawned, bg, daemon, gui, op>>

Reconcile(c) == RecPrev(c) \/ RecRunning(c) \/ RecExtend(c) \/ RecSnapshot(c) \/ RecSave(c)

-----------------------------------------------------------------------------
(* start_server *)

Ordered == [hist EXCEPT !.ops = @ + 1, !.intent = "none"]
MayOrder == gui.up /\ hist.ops < MaxOps

BeginStart ==
    /\ MayOrder /\ op = NoOp
    /\ op' = [NoOp EXCEPT !.kind = "start", !.step = "status"]
    /\ hist' = Ordered
    /\ UNCHANGED <<alive, spawned, bg, daemon, gui, saved, rec>>

(* The status is asked for once, without starting a daemon *)
StartStatus ==
    /\ op.step = "status" /\ ~Waits
    /\ \/ /\ dm.mode = "ready" /\ gui.lease # "held"
          /\ rec' = [rec EXCEPT !["start"].step = "prev", !["start"].status = dm.running]
          /\ op' = [op EXCEPT !.step = "reserve"]
       \/ (dm.mode # "ready" \/ gui.lease = "held") /\ op' = NoOp /\ UNCHANGED rec
    /\ UNCHANGED <<alive, spawned, bg, daemon, gui, saved, hist>>

StartReserve ==
    /\ op.step = "reserve" /\ rec["start"] = NoRec
    /\ op' = IF gui.running # None THEN NoOp ELSE [op EXCEPT !.step = "send"]
    /\ UNCHANGED <<alive, spawned, bg, daemon, gui, saved, rec, hist>>

(* The command line cannot be built, or does not suit the engine *)
StartInvalid ==
    /\ op.kind = "start" /\ op.step = "send" /\ op.tries = 0
    /\ op' = NoOp
    /\ UNCHANGED <<alive, spawned, bg, daemon, gui, saved, rec, hist>>

StartInsert ==
    /\ op.step = "insert"
    /\ gui' = [gui EXCEPT !.running = op.pid]
    /\ op' = [op EXCEPT !.step = "manage"]
    /\ UNCHANGED <<alive, spawned, bg, daemon, saved, rec, hist>>

StartManage ==
    /\ op.step = "manage"
    /\ gui' = [gui EXCEPT !.managed = TRUE]
    /\ op' = [op EXCEPT !.step = "snap"]
    /\ UNCHANGED <<alive, spawned, bg, daemon, saved, rec, hist>>

StartSnapshot ==
    /\ op.step = "snap"
    /\ op' = [op EXCEPT !.step = "save", !.pid = gui.running]
    /\ UNCHANGED <<alive, spawned, bg, daemon, gui, saved, rec, hist>>

StartSave ==
    /\ op.kind = "start" /\ op.step = "save"
    /\ \/ saved' = op.pid /\ op' = NoOp /\ UNCHANGED hist
       \/ /\ Fault /\ hist' = [Faulty EXCEPT !.intent = "none"]
          /\ op' = [op EXCEPT !.step = "undo", !.tries = 0] /\ UNCHANGED saved
    /\ UNCHANGED <<alive, spawned, bg, daemon, gui, rec>>

-----------------------------------------------------------------------------
(* stop_server, and the cleanup of a start that could not be saved.  The   *)
(* mirror decides: without an entry nothing is asked, and an entry that is *)
(* not managed is the desktop's own to kill                                *)

BeginStop ==
    /\ MayOrder /\ op = NoOp /\ gui.running # None
    /\ op' = [NoOp EXCEPT !.kind = "stop", !.step = IF gui.managed THEN "send" ELSE "own",
                          !.pid = gui.running]
    /\ hist' = Ordered
    /\ UNCHANGED <<alive, spawned, bg, daemon, gui, saved, rec>>

Unrun ==
    /\ op.step = "unrun"
    /\ op' = [op EXCEPT !.step = "unmanage", !.pid = gui.running]
    /\ gui' = [gui EXCEPT !.running = None]
    /\ UNCHANGED <<alive, spawned, bg, daemon, saved, rec, hist>>

(* Without an entry to remove there is nothing to save *)
Unmanage ==
    /\ op.step = "unmanage"
    /\ gui' = [gui EXCEPT !.managed = FALSE]
    /\ op' = IF op.kind = "stop" /\ op.pid # None THEN [op EXCEPT !.step = "save"] ELSE NoOp
    /\ UNCHANGED <<alive, spawned, bg, daemon, saved, rec, hist>>

StopSave ==
    /\ op.kind = "stop" /\ op.step = "save"
    /\ op' = NoOp
    /\ \/ saved' = (IF saved = op.pid THEN None ELSE saved) /\ UNCHANGED hist
       \/ Fault /\ hist' = Faulty /\ UNCHANGED saved
    /\ UNCHANGED <<alive, spawned, bg, daemon, gui, rec>>

(* The process is killed, is gone already, or survives *)
OwnKill ==
    /\ op.step = "own"
    /\ gui' = [gui EXCEPT !.managed = FALSE]
    /\ \/ alive' = alive \ {op.pid} /\ op' = [op EXCEPT !.step = "clear"]
       \/ op.pid \in alive /\ op' = NoOp /\ UNCHANGED alive
    /\ UNCHANGED <<spawned, bg, daemon, saved, rec, hist>>

Forget(pid) ==
    /\ gui' = [gui EXCEPT !.running = IF @ = pid THEN None ELSE @]
    /\ saved' = IF gui.running = pid /\ saved = pid THEN None ELSE saved

OwnClear ==
    /\ op.step = "clear"
    /\ Forget(op.pid) /\ op' = NoOp
    /\ UNCHANGED <<alive, spawned, bg, daemon, rec, hist>>

-----------------------------------------------------------------------------
(* The desktop process comes and goes *)

Exit ==
    /\ gui' = [Fresh(None, FALSE) EXCEPT !.up = FALSE, !.new = FALSE]
    /\ op' = NoOp /\ rec' = [c \in Callers |-> NoRec]
    /\ job' = Disown(job) /\ pending' = Orphaned
    /\ dm' = [dm EXCEPT !.gone = Up]
    /\ UNCHANGED <<spawned, bg, disk>>

(* Quitting hands over to the daemon what both agree runs, or nothing runs *)
GuiExits ==
    /\ MayOrder /\ gui.lease = "none"
    /\ \/ bg /\ dm.mode = "ready" /\ (gui.running = None <=> dm.running = None) /\ saved' = dm.running
       \/ ~bg /\ gui.running = None /\ saved' = None
    /\ Exit /\ hist' = [hist EXCEPT !.ops = @ + 1] /\ UNCHANGED alive

GuiCrash ==
    /\ gui.up /\ Fault
    /\ Exit /\ hist' = Faulty /\ UNCHANGED <<alive, saved>>

(* persisted_managed_instance_ids *)
Known == disk.running # None \/ disk.desired

(* setup, with read_config_unlocked *)
GuiStart ==
    /\ ~gui.up
    /\ saved' = Survivor(saved)
    /\ gui' = Fresh(Survivor(saved), Survivor(saved) # None /\ Known)
    /\ UNCHANGED <<alive, spawned, bg, daemon, op, rec, hist>>

-----------------------------------------------------------------------------
(* quit_app: the daemon ends everything, then the desktop process what is  *)
(* still in its mirror                                                     *)

Quit ==
    /\ MayOrder /\ gui.lease = "none" /\ dm.mode = "ready"
    /\ pending' = pending \cup {[kind |-> "shutdown", from |-> "quit"]}
    /\ gui' = [gui EXCEPT !.lease = "quitting"]
    /\ hist' = Ordered
    /\ UNCHANGED <<alive, spawned, bg, dm, disk, job, saved, op, rec>>

QuitEnds ==
    /\ gui.lease = "closing"
    /\ \/ alive' = alive \ {gui.running} /\ saved' = None /\ UNCHANGED hist
       \/ /\ gui.running \in alive /\ Fault /\ hist' = Faulty
          /\ saved' = gui.running /\ UNCHANGED alive
    /\ Exit

(* prepare_app_update waits for the requests under way; then it shuts the  *)
(* daemon down and takes its lock, or finds the lock free                  *)
Requesting == op.step \in {"call", "undoing"} \/ (Sends /\ op.tries = 1)

PrepareUpdate ==
    /\ MayOrder /\ gui.lease = "none" /\ ~Requesting
    /\ \/ /\ dm.mode = "ready"
          /\ pending' = pending \cup {[kind |-> "shutdown", from |-> "update"]}
          /\ gui' = [gui EXCEPT !.lease = "stopping"]
       \/ ~Up /\ gui' = [gui EXCEPT !.lease = "held"] /\ UNCHANGED pending
    /\ hist' = [hist EXCEPT !.ops = @ + 1]
    /\ UNCHANGED <<alive, spawned, bg, dm, disk, job, saved, op, rec>>

(* wait_for_runtime_lock: another daemon may have been faster *)
TakeLease ==
    /\ gui.lease = "locking" /\ dm.mode # "retiring"
    /\ gui' = [gui EXCEPT !.lease = IF Up THEN "none" ELSE "held"]
    /\ UNCHANGED <<alive, spawned, bg, daemon, saved, op, rec, hist>>

(* The installer ends the process, or fails and the application goes on *)
UpdateEnds ==
    /\ gui.lease = "held"
    /\ \/ Exit
       \/ gui' = [gui EXCEPT !.lease = "none"] /\ UNCHANGED <<spawned, bg, daemon, op, rec>>
    /\ UNCHANGED <<alive, saved, hist>>

-----------------------------------------------------------------------------
(* load_config, when the frontend is loaded again; an entry it has met     *)
(* before is left as it is                                                 *)
Reload ==
    /\ MayOrder
    /\ saved' = Survivor(saved)
    /\ \E met \in BOOLEAN :
         gui' = [gui EXCEPT !.running = Survivor(saved),
                            !.managed = @ \/ (~met /\ Survivor(saved) # None /\ Known)]
    /\ hist' = [hist EXCEPT !.ops = @ + 1]
    /\ UNCHANGED <<alive, spawned, bg, daemon, op, rec>>

-----------------------------------------------------------------------------

Init ==
    /\ alive = {} /\ spawned = 0 /\ bg \in BOOLEAN
    /\ dm = Empty("ready")
    /\ disk = [desired |-> FALSE, running |-> None]
    /\ pending = {} /\ job = NoJob
    /\ gui = [Fresh(None, FALSE) EXCEPT !.new = FALSE]
    /\ saved = None /\ op = NoOp /\ rec = [c \in Callers |-> NoRec]
    /\ hist = [intent |-> "none", stray |-> {}, ops |-> 0, faults |-> 0]

DaemonStep ==
    TakeStart \/ StartPersisted \/ StartRolledBack \/ TakeStop \/ StopKills \/ StopPersisted
    \/ TakeShutdown \/ DaemonExits \/ RecordExit \/ RecoverStarts \/ RestoreStop \/ RestoreMissing \/ Watchdog

OpStep ==
    Send \/ Reply \/ StartStatus \/ StartReserve \/ StartInsert \/ StartManage \/ StartSnapshot
    \/ StartSave \/ Unrun \/ Unmanage \/ StopSave \/ OwnKill \/ OwnClear

LeaseStep == QuitEnds \/ TakeLease \/ UpdateEnds

Environment ==
    StartUnsaved \/ StopKillFails \/ StopUnsaved \/ Recover \/ DaemonStartFails \/ DaemonCrash
    \/ ProcessDies \/ SendFails \/ AnswerTimesOut \/ BeginStart \/ BeginStop \/ GuiExits
    \/ GuiCrash \/ GuiStart \/ Reload \/ StartInvalid \/ Quit \/ PrepareUpdate

Next ==
    \/ DaemonStep \/ OpStep \/ LeaseStep \/ Environment \/ DaemonStart \/ BridgeFetch
    \/ \E c \in Callers : Reconcile(c)

(* The daemon's threads and the desktop's tasks run; a daemon that is gone *)
(* is started again while a desktop process needs it; the bridge goes      *)
(* round for ever.  Nobody has to start a desktop process                  *)
FairSpec ==
    /\ Init /\ [][Next]_vars
    /\ WF_vars(DaemonStep) /\ WF_vars(gui.up /\ DaemonStart)
    /\ WF_vars(LeaseStep)
    /\ WF_vars(OpStep \/ Reconcile("start")) /\ WF_vars(BridgeFetch \/ Reconcile("bridge"))

-----------------------------------------------------------------------------
(* Properties *)

(* Every llama-server the daemon ever launched is the one it has in its    *)
(* table, or, while no daemon runs, the one the next daemon will find in   *)
(* runtime-state.json: never a second one, never a forgotten one.  Exempt  *)
(* is a process whose daemon crashed between launching it and saving its   *)
(* state, or launched it after it had acknowledged its shutdown            *)
(* (start_instance_locked, stop_instance_locked, restore, Shutdown).       *)
NoStray ==
    /\ TypeOK
    /\ alive \ hist.stray \subseteq {IF Up THEN dm.running ELSE disk.running}

(* What the user was told is what the next daemon acts on: after a start   *)
(* that succeeded the instance stays desired on disk until it exits, is    *)
(* stopped or nobody is left to manage it, through restarts, recoveries    *)
(* and crashes of either process; after a stop that succeeded nothing      *)
(* brings it back (preserve_desired, persist before the answer).           *)
IntentKept ==
    /\ hist.intent = "on" => disk.desired
    /\ hist.intent = "off" => /\ ~disk.desired
                              /\ Up => dm.running = None /\ ~dm.desired

(* The mirror shows what the daemon runs, unless the entry belongs to      *)
(* nobody's table; without a desktop process and background mode the       *)
(* daemon has ended every process and left.  Exempt: a rollback that waits *)
(* for a process it failed to kill                                         *)
Agreed ==
    \/ job.step = "rollback"
    \/ gui.up /\ Up /\ (gui.running = dm.running \/ ~gui.managed)
    \/ ~gui.up /\ (bg \/ dm.mode = "crashed" \/ (dm.mode = "left" /\ alive \subseteq hist.stray))

(* In the end desktop and daemon agree, whatever was lost, reloaded or     *)
(* applied out of order on the way, and nothing is left behind             *)
(* (reconcile_app_runtime, start_app_bridge, start_watchdog).              *)
Settles == <>[]Agreed
=============================================================================
