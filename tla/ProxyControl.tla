---------------------------- MODULE ProxyControl ----------------------------
(***************************************************************************)
(* The control of the routing service, composed of the desktop process     *)
(* (its configuration, the operations that hold proxy_lifecycle_lock and   *)
(* the bridge that reconciles them) and of the runtime daemon that owns    *)
(* the listener (runtime_service/supervisor.rs).  The two talk by          *)
(* authenticated calls; call_recovering restarts a dead daemon and repeats *)
(* the call once, so a command may be carried out twice.                   *)
(*                                                                         *)
(* In the daemon, start_proxy, stop_proxy and sync_config hold the         *)
(* proxy_runtime lock from the first read to the last write and put memory *)
(* back when the state file cannot be written: each is one step, and what  *)
(* the daemon has in memory is what it would read after a crash.           *)
(***************************************************************************)
EXTENDS Naturals, Sequences

CONSTANTS Addrs,      \* addresses the router may be asked to listen on
          NoAddr,     \* the router is not listening
          MaxOps,     \* bound on what the user does
          MaxFaults   \* bound on failing writes and binds, crashes, serve errors

ASSUME ControlAssumption ==
    /\ NoAddr \notin Addrs /\ Addrs # {}
    /\ MaxOps \in Nat /\ MaxFaults \in Nat

VARIABLES
    gui,     \* the desktop process: configuration, its file, what is pending
    op,      \* the operation that holds proxy_lifecycle_lock
    dm,      \* the daemon
    loops,   \* its restart loops: asleep, and past the check of enabled
    spent,   \* operations and faults used up
    hist     \* what the properties must know of the past

vars == <<gui, op, dm, loops, spent, hist>>

Configs == [on : BOOLEAN, addr : Addrs, bg : BOOLEAN]
Kinds == {"save", "start", "stop", "restart", "bridge", "detach", "quiet", "quit"}

(***************************************************************************)
(* An operation is the list of the steps it has left.  Programs gives the  *)
(* steps of each, Undo those of its rollback; an operation without one     *)
(* returns at its first error, except stop_background_runtime ("quiet"),   *)
(* which collects its errors and goes on.                                  *)
(***************************************************************************)
Programs ==
    [save    |-> <<"status", "write", "read", "sync", "bg">>,
     start   |-> <<"status", "write", "read", "sync", "proxy">>,
     stop    |-> <<"status", "write", "read", "sync", "proxy">>,
     restart |-> <<"write", "halt", "mark", "read", "sync", "proxy">>,
     bridge  |-> <<"read", "sync", "bg", "proxy">>,
     detach  |-> <<"write", "read", "sync", "proxy", "bg">>,
     quiet   |-> <<"write", "read", "sync", "proxy", "bg">>,
     quit    |-> <<"write", "read", "sync", "proxy", "done", "exit">>]

Undo ==
    [save   |-> <<"write", "read", "sync", "bg">>,
     start  |-> <<"write", "read", "sync", "proxy">>,
     stop   |-> <<"write", "read", "sync", "proxy">>,
     detach |-> <<"write", "read", "sync", "bg">>]

Calls == {"status", "halt", "sync", "bg", "proxy", "exit"}

Idle(c) == [kind |-> "idle", todo |-> <<>>, prev |-> c, want |-> c, was |-> FALSE,
            moved |-> FALSE, inst |-> 1, again |-> FALSE, retried |-> FALSE,
            back |-> FALSE, err |-> FALSE, owed |-> FALSE]

Free == op.kind = "idle"
At(step) == gui.up /\ op.todo # <<>> /\ Head(op.todo) = step
CanFail == spent.faults < MaxFaults
Fails == CanFail /\ spent' = [spent EXCEPT !.faults = @ + 1]
NoFault == UNCHANGED spent

-----------------------------------------------------------------------------
(* The daemon                                                              *)

Serving(d) == d.serving # NoAddr

(* start_proxy: a router that runs is left alone; otherwise bind, and      *)
(* persist enabled = true.  It does not look at enabled itself.            *)
StartProxy(d) ==
    IF Serving(d) THEN d ELSE [d EXCEPT !.serving = d.cfg.addr, !.cfg.on = TRUE]

(* stop_proxy: the router is down whatever the write of enabled = false does *)
StopProxy(d) == [d EXCEPT !.serving = NoAddr, !.cfg.on = FALSE]
StopUnsaved(d) == [d EXCEPT !.serving = NoAddr]

(* sync_config: an equal configuration is acknowledged whatever its        *)
(* revision, another address is refused while the router listens.          *)
Matches(d, c, i) == d.cfg = c /\ d.inst = i
Refused(d, c, i) == ~Matches(d, c, i) /\ Serving(d) /\ d.serving # c.addr
SyncConfig(d, c, i) == [d EXCEPT !.cfg = c, !.inst = i]

SetBackground(d, b) == [d EXCEPT !.bg = b]

NoLoops == [sleep |-> 0, go |-> 0]
Dead(d) == [d EXCEPT !.up = FALSE, !.serving = NoAddr]

(* restore: the router comes back when the saved state wants it; a failure *)
(* is left to a restart loop.                                              *)
Restore ==
    /\ ~dm.up
    /\ \/ /\ dm' = IF dm.cfg.on THEN StartProxy([dm EXCEPT !.up = TRUE])
                                ELSE [dm EXCEPT !.up = TRUE]
          /\ NoFault /\ UNCHANGED loops
       \/ /\ dm.cfg.on /\ Fails
          /\ dm' = [dm EXCEPT !.up = TRUE]
          /\ loops' = [loops EXCEPT !.sleep = @ + 1]

(* axum::serve ends with an error: the router is down and a restart loop   *)
(* is scheduled.                                                           *)
ServeError ==
    /\ dm.up /\ Serving(dm) /\ Fails
    /\ dm' = StopUnsaved(dm)
    /\ loops' = [loops EXCEPT !.sleep = @ + 1]
    /\ UNCHANGED <<gui, op, hist>>

(* schedule_proxy_restart: after the delay the loop reads enabled ...      *)
LoopChecks ==
    /\ loops.sleep > 0
    /\ loops' = IF dm.cfg.on THEN [sleep |-> loops.sleep - 1, go |-> loops.go + 1]
                             ELSE [loops EXCEPT !.sleep = @ - 1]
    /\ UNCHANGED <<gui, op, dm, spent, hist>>

(* ... and starts the router, whatever has happened to enabled since       *)
LoopStarts ==
    /\ loops.go > 0
    /\ dm' = StartProxy(dm)
    /\ loops' = [loops EXCEPT !.go = @ - 1]
    /\ hist' = [hist EXCEPT !.raced = @ \/ (~dm.cfg.on /\ ~Serving(dm))]
    /\ UNCHANGED <<gui, op, spent>>

LoopFails ==
    /\ loops.go > 0 /\ ~Serving(dm) /\ Fails
    /\ loops' = [sleep |-> loops.sleep + 1, go |-> loops.go - 1]
    /\ UNCHANGED <<gui, op, dm, hist>>

DaemonCrash ==
    /\ dm.up /\ Fails
    /\ dm' = Dead(dm) /\ loops' = NoLoops
    /\ UNCHANGED <<gui, op, hist>>

(* start_watchdog: without a GUI and without background mode the daemon    *)
(* stops what it runs and exits, keeping its saved intent.                 *)
WatchdogStops ==
    /\ dm.up /\ ~gui.up /\ ~dm.bg
    /\ dm' = Dead(dm) /\ loops' = NoLoops
    /\ UNCHANGED <<gui, op, spent, hist>>

(* The login item starts the daemon, which gives up unless it was detached *)
LoginStart ==
    /\ ~gui.up /\ dm.bg /\ Restore
    /\ UNCHANGED <<gui, op, hist>>

-----------------------------------------------------------------------------
(* The desktop process: beginning and ending an operation                  *)

Mark(g) == [g EXCEPT !.pending = TRUE]

Begin(kind, want) ==
    op' = [Idle(gui.cfg) EXCEPT !.kind = kind, !.todo = Programs[kind], !.want = want,
                                !.owed = gui.pending]

Ask(kind, want) ==
    /\ gui.up /\ Free /\ spent.ops < MaxOps
    /\ Begin(kind, want)
    /\ spent' = [spent EXCEPT !.ops = @ + 1]
    /\ UNCHANGED <<gui, dm, loops, hist>>

Save == \E a \in Addrs, b \in BOOLEAN :
            /\ <<a, b>> # <<gui.cfg.addr, gui.cfg.bg>>
            /\ Ask("save", [gui.cfg EXCEPT !.addr = a, !.bg = b])
StartRouter == Ask("start", [gui.cfg EXCEPT !.on = TRUE])
StopRouter == Ask("stop", [gui.cfg EXCEPT !.on = FALSE])
RestartRouter == gui.cfg.on /\ Ask("restart", gui.cfg)
Detach == Ask("detach", [gui.cfg EXCEPT !.bg = TRUE])
StopBackground == Ask("quiet", [gui.cfg EXCEPT !.on = FALSE, !.bg = FALSE])
Quit == Ask("quit", [gui.cfg EXCEPT !.on = FALSE])

(* start_app_bridge: reconcile when a change is pending, or after the      *)
(* heartbeat had to restart the daemon.  The generation read here is the   *)
(* one marked complete at the end.                                         *)
BridgeBegins ==
    /\ gui.up /\ Free /\ (gui.pending \/ gui.resync)
    /\ Begin("bridge", gui.cfg)
    /\ gui' = [gui EXCEPT !.resync = FALSE]
    /\ UNCHANGED <<dm, loops, spent, hist>>

HeartbeatFails ==
    /\ gui.up /\ ~At("exit") /\ Restore
    /\ gui' = [gui EXCEPT !.resync = TRUE]
    /\ UNCHANGED <<op, hist>>

(* An instance is saved outside the lock: configuration first, mark second *)
InstanceSaved ==
    /\ gui.up /\ ~gui.unmarked /\ spent.ops < MaxOps
    /\ gui' = [gui EXCEPT !.inst = 3 - @, !.unmarked = TRUE]
    /\ spent' = [spent EXCEPT !.ops = @ + 1]
    /\ UNCHANGED <<op, dm, loops, hist>>

InstanceMarked ==
    /\ gui.up /\ gui.unmarked
    /\ gui' = [Mark(gui) EXCEPT !.unmarked = FALSE]
    /\ op' = [op EXCEPT !.moved = ~Free]
    /\ UNCHANGED <<dm, loops, spent, hist>>

Advance == op' = [op EXCEPT !.todo = Tail(@), !.again = FALSE, !.retried = FALSE]

(* prepare_background_exit: only a hand-over that succeeded ends the process *)
Exits_Always == op.kind = "detach"
Exits == op.kind = "detach" /\ ~op.back

(* For the properties: a rollback restored another running state than the  *)
(* one configured; a completed operation cleared a change that was pending *)
(* before it began and that it did not repair.                             *)
Split == \/ op.back /\ op.kind \in {"start", "stop"} /\ op.was # op.prev.on
         \/ hist.split /\ op.kind \in {"save", "detach"}
Masks == op.kind # "bridge" /\ (op.owed \/ hist.masked)
Judged == [hist EXCEPT !.split = IF op.err THEN @ ELSE Split, !.detached = Exits,
                       !.masked = IF op.err THEN @ ELSE Masks]

(* mark_config_sync_complete(own generation): a later mark keeps it pending *)
OpEnds_Current ==
    /\ gui.up /\ ~Free /\ op.todo = <<>>
    /\ op' = Idle(gui.cfg)
    /\ gui' = [gui EXCEPT !.pending = @ /\ op.err, !.up = ~Exits]
    /\ hist' = Judged
    /\ UNCHANGED <<dm, loops, spent>>
OpEnds ==
    /\ gui.up /\ ~Free /\ op.todo = <<>>
    /\ op' = Idle(gui.cfg)
    /\ gui' = [gui EXCEPT !.pending = @ /\ (op.err \/ op.moved), !.up = ~Exits]
    /\ hist' = Judged
    /\ UNCHANGED <<dm, loops, spent>>

(***************************************************************************)
(* A step failed.  The first error starts the rollback where there is one; *)
(* errors of the rollback are collected and keep the change pending.  A    *)
(* failed synchronisation spares the router in the rollback of a start or  *)
(* a stop.                                                                 *)
(***************************************************************************)
RollsBack == op.kind \in DOMAIN Undo /\ ~op.back
Collects == op.back \/ op.kind = "quiet"
RestOf(step) ==
    IF ~Collects \/ (op.back /\ step = "sync" /\ op.kind \in {"start", "stop"})
    THEN <<>> ELSE Tail(op.todo)

Fail(step) ==
    IF RollsBack
    THEN /\ op' = [op EXCEPT !.todo = Undo[op.kind], !.want = op.prev, !.back = TRUE,
                             !.moved = FALSE, !.again = FALSE, !.retried = FALSE]
         /\ gui' = [Mark(gui) EXCEPT !.cfg = op.prev]
    ELSE /\ op' = [op EXCEPT !.todo = RestOf(step), !.err = TRUE,
                             !.again = FALSE, !.retried = FALSE]
         /\ UNCHANGED gui

-----------------------------------------------------------------------------
(* The steps of an operation                                               *)

(* ensure_runtime_service and, for a save, validate_proxy_config_update    *)
StepStatus ==
    /\ At("status") /\ dm.up
    /\ IF op.kind = "save" /\ Serving(dm) /\ op.want.addr # dm.serving
       THEN op' = Idle(gui.cfg)
       ELSE op' = [op EXCEPT !.todo = Tail(@), !.was = Serving(dm), !.retried = FALSE]
    /\ UNCHANGED <<gui, dm, loops, spent, hist>>

(* update_and_persist, then memory, then the mark (a save marks first; the *)
(* restart marks in a step of its own)                                     *)
StepWrite ==
    /\ At("write") /\ NoFault
    /\ gui' = [gui EXCEPT !.cfg = op.want, !.disk = op.want,
                          !.pending = IF op.kind = "restart" THEN @ ELSE TRUE]
    /\ op' = [op EXCEPT !.todo = Tail(@), !.moved = @ /\ op.back]
    /\ UNCHANGED <<dm, loops, hist>>

WriteFails ==
    /\ At("write") /\ Fails
    /\ IF op.kind \in {"save", "detach"} \/ op.back THEN Fail("write")
       ELSE op' = Idle(gui.cfg) /\ UNCHANGED gui
    /\ UNCHANGED <<dm, loops, hist>>

StepMark ==
    /\ At("mark")
    /\ gui' = Mark(gui)
    /\ op' = [op EXCEPT !.todo = Tail(@), !.moved = FALSE]
    /\ UNCHANGED <<dm, loops, spent, hist>>

(* shutdown_proxy_for_app completes before quit_app shuts the daemon down *)
StepDone ==
    /\ At("done")
    /\ gui' = [gui EXCEPT !.pending = @ /\ op.moved]
    /\ Advance
    /\ hist' = [hist EXCEPT !.masked = Masks]
    /\ UNCHANGED <<dm, loops, spent>>

(* sync_app_config reads what it sends *)
StepRead ==
    /\ At("read")
    /\ op' = [op EXCEPT !.todo = Tail(@), !.inst = gui.inst]
    /\ UNCHANGED <<gui, dm, loops, spent, hist>>

(* SyncConfig.  A revision behind the daemon's is refused once: the caller *)
(* asks for the daemon's revision and sends the same configuration again.  *)
StaleRevision == gui.behind /\ op.kind # "detach" /\ ~op.again /\ ~Matches(dm, gui.cfg, op.inst)
StepSync_NoRetry ==
    /\ At("sync") /\ dm.up /\ NoFault
    /\ IF Refused(dm, gui.cfg, op.inst) \/ StaleRevision
       THEN Fail("sync") /\ UNCHANGED dm
       ELSE Advance /\ dm' = SyncConfig(dm, gui.cfg, op.inst) /\ UNCHANGED gui
    /\ UNCHANGED <<loops, hist>>
StepSync ==
    /\ At("sync") /\ dm.up /\ NoFault
    /\ CASE Refused(dm, gui.cfg, op.inst) -> Fail("sync") /\ UNCHANGED dm
         [] ~Refused(dm, gui.cfg, op.inst) /\ StaleRevision ->
              op' = [op EXCEPT !.again = TRUE] /\ UNCHANGED <<gui, dm>>
         [] OTHER -> Advance /\ dm' = SyncConfig(dm, gui.cfg, op.inst) /\ UNCHANGED gui
    /\ UNCHANGED <<loops, hist>>

SyncFails ==
    /\ At("sync") /\ dm.up /\ ~Matches(dm, gui.cfg, op.inst) /\ Fails
    /\ Fail("sync")
    /\ UNCHANGED <<dm, loops, hist>>

(* SetBackgroundEnabled.  A save asks only when the mode changes, its      *)
(* rollback and the others always; the detach verifies the router first.   *)
AskedMode == gui.cfg.bg
Skips == op.kind = "save" /\ ~op.back /\ op.want.bg = op.prev.bg
Verified == (op.kind = "detach" /\ ~op.back)
                => dm.serving = (IF gui.cfg.on THEN gui.cfg.addr ELSE NoAddr)
StepBackground ==
    /\ At("bg") /\ dm.up /\ NoFault
    /\ IF Skips \/ Verified
       THEN /\ Advance /\ UNCHANGED gui
            /\ dm' = IF Skips THEN dm ELSE SetBackground(dm, AskedMode)
       ELSE Fail("bg") /\ UNCHANGED dm
    /\ UNCHANGED <<loops, hist>>

BackgroundFails ==
    /\ At("bg") /\ dm.up /\ ~Skips /\ dm.bg # AskedMode /\ Fails
    /\ Fail("bg")
    /\ UNCHANGED <<dm, loops, hist>>

(* What the operation asks of the router.  The bridge and the detach       *)
(* compare the configuration with what the daemon does.                    *)
Level == CASE gui.cfg.on /\ ~Serving(dm) -> "start"
           [] ~gui.cfg.on /\ Serving(dm) -> "stop"
           [] OTHER -> "none"
Wants ==
    CASE At("halt") \/ At("exit") -> "stop"
      [] At("proxy") /\ op.back -> (IF op.was THEN "start" ELSE "stop")
      [] At("proxy") /\ ~op.back /\ op.kind \in {"start", "restart"} -> "start"
      [] At("proxy") /\ ~op.back /\ op.kind \in {"stop", "quit"} -> "stop"
      [] At("proxy") /\ op.kind = "quiet" -> (IF Serving(dm) THEN "stop" ELSE "none")
      [] At("proxy") /\ op.kind \in {"bridge", "detach"} -> Level
      [] OTHER -> "none"

Asked == CASE Wants = "start" -> StartProxy(dm)
           [] Wants = "stop" -> StopProxy(dm)
           [] OTHER -> dm
Settled == [hist EXCEPT !.raced = @ /\ Wants # "stop", !.halted = @ /\ Wants # "start"]

StepProxy ==
    /\ At("halt") \/ At("proxy")
    /\ dm.up
    /\ dm' = Asked /\ Advance
    /\ hist' = Settled
    /\ UNCHANGED <<gui, loops, spent>>

StartFails ==
    /\ Wants = "start" /\ dm.up /\ ~Serving(dm) /\ Fails
    /\ Fail("proxy")
    /\ UNCHANGED <<dm, loops, hist>>

StopFails ==
    /\ Wants = "stop" /\ dm.up /\ Fails
    /\ dm' = StopUnsaved(dm)
    /\ Fail(Head(op.todo))
    /\ hist' = [hist EXCEPT !.halted = @ \/ op.kind = "restart"]
    /\ UNCHANGED loops

(* Shutdown { stop_instances: true }: stop_proxy once more, then exit      *)
StepExit ==
    /\ At("exit") /\ dm.up
    /\ dm' = Dead(StopProxy(dm)) /\ loops' = NoLoops
    /\ op' = Idle(gui.cfg)
    /\ gui' = [gui EXCEPT !.up = FALSE]
    /\ UNCHANGED <<spent, hist>>

(* The daemon dies after carrying out a command and before answering       *)
Done == CASE At("sync") -> IF Refused(dm, gui.cfg, op.inst) THEN dm
                           ELSE SyncConfig(dm, gui.cfg, op.inst)
          [] At("bg") -> IF Skips THEN dm ELSE SetBackground(dm, AskedMode)
          [] At("halt") \/ At("proxy") \/ At("exit") -> Asked
          [] OTHER -> dm
AnswerLost ==
    /\ \E step \in Calls \ {"status"} : At(step)
    /\ dm.up /\ Fails
    /\ dm' = Dead(Done) /\ loops' = NoLoops
    /\ hist' = Settled
    /\ UNCHANGED <<gui, op>>

(* call_recovering: restart the daemon and repeat the call, once.  The     *)
(* detach is a single command and is repeated from its first part; the     *)
(* shutdown is not repeated.                                               *)
Rewound ==
    IF op.kind = "detach" /\ ~op.back /\ (At("proxy") \/ At("bg"))
    THEN <<"sync", "proxy", "bg">> ELSE op.todo
Recover ==
    /\ \E step \in Calls \ {"exit"} : At(step)
    /\ ~op.retried /\ Restore
    /\ op' = [op EXCEPT !.retried = TRUE, !.todo = Rewound]
    /\ UNCHANGED <<gui, hist>>

CallFails ==
    /\ \E step \in Calls : At(step)
    /\ (op.retried \/ At("exit")) /\ ~dm.up
    /\ IF At("status") THEN op' = Idle(gui.cfg) /\ UNCHANGED gui
       ELSE Fail(Head(op.todo))
    /\ hist' = [hist EXCEPT !.halted = @ \/ At("halt")]
    /\ UNCHANGED <<dm, loops, spent>>

-----------------------------------------------------------------------------
(* The desktop process goes and comes back                                 *)

GuiCrash ==
    /\ gui.up /\ Fails
    /\ gui' = [gui EXCEPT !.up = FALSE, !.unmarked = FALSE]
    /\ op' = Idle(gui.disk)
    /\ UNCHANGED <<dm, loops, hist>>

(* A new process starts with generation 1 and nothing synchronised; its    *)
(* revisions follow the wall clock, which may be behind the daemon's.      *)
GuiStart ==
    /\ ~gui.up
    /\ \E late \in BOOLEAN :
         /\ IF late THEN Fails ELSE NoFault
         /\ gui' = [gui EXCEPT !.up = TRUE, !.cfg = gui.disk, !.pending = TRUE,
                               !.resync = TRUE, !.unmarked = FALSE, !.behind = late]
    /\ op' = Idle(gui.disk)
    /\ hist' = [hist EXCEPT !.detached = FALSE]
    /\ UNCHANGED <<dm, loops>>

Init ==
    \E c \in {c \in Configs : ~c.on /\ ~c.bg}, a \in BOOLEAN :
        /\ gui = [up |-> TRUE, cfg |-> c, disk |-> c, inst |-> 1, pending |-> TRUE,
                  resync |-> TRUE, unmarked |-> FALSE, behind |-> a]
        /\ op = Idle(c)
        /\ dm = [up |-> FALSE, cfg |-> c, inst |-> 1, bg |-> FALSE, serving |-> NoAddr]
        /\ loops = NoLoops
        /\ spent = [ops |-> 0, faults |-> 0]
        /\ hist = [raced |-> FALSE, split |-> FALSE, halted |-> FALSE, detached |-> FALSE,
                  masked |-> FALSE]

User == Save \/ StartRouter \/ StopRouter \/ RestartRouter \/ Detach \/ StopBackground
          \/ Quit \/ InstanceSaved
Faults == ServeError \/ LoopFails \/ DaemonCrash \/ WriteFails \/ SyncFails
            \/ BackgroundFails \/ StartFails \/ StopFails \/ AnswerLost \/ GuiCrash
Daemon == LoopChecks \/ LoopStarts \/ WatchdogStops \/ LoginStart
Desktop == BridgeBegins \/ HeartbeatFails \/ InstanceMarked \/ OpEnds \/ StepStatus
             \/ StepWrite \/ StepMark \/ StepDone \/ StepRead \/ StepSync \/ StepBackground
             \/ StepProxy \/ StepExit \/ Recover \/ CallFails \/ GuiStart

Next == User \/ Faults \/ Daemon \/ Desktop

Spec == Init /\ [][Next]_vars

(* The bridge wakes every three seconds, a restart loop every ten, and an  *)
(* operation that holds the lock runs to its end.                          *)
FairSpec == Spec /\ WF_vars(Desktop) /\ WF_vars(LoopChecks) /\ WF_vars(LoopStarts)

-----------------------------------------------------------------------------
TypeOK ==
    /\ gui \in [up : BOOLEAN, cfg : Configs, disk : Configs, inst : {1, 2},
                pending : BOOLEAN, resync : BOOLEAN, unmarked : BOOLEAN, behind : BOOLEAN]
    /\ op \in [kind : Kinds \cup {"idle"}, todo : Seq(Calls \cup {"write", "mark", "done", "read"}),
               prev : Configs, want : Configs, was : BOOLEAN, moved : BOOLEAN,
               inst : {1, 2}, again : BOOLEAN, retried : BOOLEAN, back : BOOLEAN, err : BOOLEAN,
               owed : BOOLEAN]
    /\ dm \in [up : BOOLEAN, cfg : Configs, inst : {1, 2}, bg : BOOLEAN,
               serving : Addrs \cup {NoAddr}]
    /\ loops \in [sleep : Nat, go : Nat]
    /\ spent \in [ops : 0..MaxOps, faults : 0..MaxFaults]
    /\ hist \in [raced : BOOLEAN, split : BOOLEAN, halted : BOOLEAN, detached : BOOLEAN,
                 masked : BOOLEAN]

(* Nothing is under way and nothing is known to be out of date *)
Quiet == gui.up /\ Free /\ ~gui.pending /\ ~gui.unmarked /\ ~gui.resync

Exempt == hist.raced \/ hist.split \/ hist.halted \/ hist.masked

(***************************************************************************)
(* When the desktop process believes the daemon to be up to date, the      *)
(* daemon has its configuration, instances and background mode, and does   *)
(* not listen when the router is switched off: no change made during a     *)
(* synchronisation, no rollback, repeated command or restart of either     *)
(* process is lost.  Exempt are the restart loop that turns enabled back   *)
(* on (raced), the rollback that restores another running state than the   *)
(* one configured (split), the restart that fails in its first half        *)
(* (halted) and the operation that marks complete a change pending before  *)
(* it, which it did not repair (masked).  The state keeps its type.        *)
(***************************************************************************)
Reconciled ==
    /\ TypeOK
    /\ Quiet /\ ~Exempt
        => /\ dm.cfg = gui.cfg /\ dm.inst = gui.inst /\ dm.bg = gui.cfg.bg
           /\ ~gui.cfg.on => ~Serving(dm)

(***************************************************************************)
(* A desktop process that exits through the hand-over leaves a daemon that *)
(* stays (background mode), has the saved configuration, and listens on    *)
(* the configured address, is trying to, or has crashed.                   *)
(***************************************************************************)
HandedOver ==
    hist.detached /\ ~hist.raced
        => /\ dm.bg /\ dm.cfg = gui.disk
           /\ dm.up /\ dm.cfg.on => \/ dm.serving = dm.cfg.addr
                                    \/ loops.sleep + loops.go > 0

(* The daemon refuses every synchronisation: it listens on another address *)
Stuck == Serving(dm) /\ dm.serving # gui.cfg.addr

(***************************************************************************)
(* Once the user and the failures stop, the desktop process gets the       *)
(* daemon to do what it is configured to do: the bridge and the restart    *)
(* loops between them repair every failed or half-done operation.          *)
(***************************************************************************)
Converges ==
    <>[](gui.up /\ ~Exempt /\ ~Stuck
           => Quiet /\ dm.up /\ dm.serving = (IF gui.cfg.on THEN gui.cfg.addr ELSE NoAddr))

=============================================================================
