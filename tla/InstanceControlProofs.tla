------------------------ MODULE InstanceControlProofs ------------------------
(***************************************************************************)
(* Proofs about InstanceControl: the daemon never has a second             *)
(* llama-server process of an instance nor forgets one, and what the user  *)
(* was told about it outlives restarts, crashes, failed writes and lost    *)
(* answers, for any number of processes, commands and faults.              *)
(***************************************************************************)
EXTENDS InstanceControl, TLAPS

USE ControlAssumption

-----------------------------------------------------------------------------
(* The types of the variables *)

Modes == {"restart", "relaunch", "ready", "retiring", "left", "crashed"}
DmSet == [mode : Modes, desired : BOOLEAN, running : 0..MaxPid, gone : BOOLEAN]
DiskSet == [desired : BOOLEAN, running : 0..MaxPid]
Commands == [kind : {"start", "stop", "shutdown"}, from : {"op", "lost"} \cup Shutdowns]
Froms == {"none", "op", "lost", "restore", "recover", "watchdog"} \cup Shutdowns
JobSet == [kind : {"none", "start", "stop"},
           step : {"none", "spawn", "persist", "rollback", "kill", "reply"},
           pid : 0..MaxPid, ok : BOOLEAN, from : Froms]
GuiSet == [up : BOOLEAN, running : 0..MaxPid, managed : BOOLEAN, new : BOOLEAN,
           lease : {"none", "stopping", "locking", "held", "quitting", "closing"}]
OpSet == [kind : {"none", "start", "stop"}, pid : 0..MaxPid, tries : 0..1,
          step : {"none", "status", "reserve", "send", "call", "insert", "manage", "snap",
                  "save", "undo", "undoing", "unrun", "unmanage", "own", "clear"}]
Round == [step : {"none", "prev", "run", "extend", "snap", "save"},
          status : 0..MaxPid, prev : BOOLEAN, changed : BOOLEAN]
PidSets == SUBSET Pids
HistSet == [intent : {"none", "on", "off"}, stray : PidSets, ops : 0..MaxOps, faults : 0..MaxFaults]

Processes == alive \subseteq 1..spawned /\ spawned \in 0..MaxPid /\ bg \in BOOLEAN
DaemonTypes == dm \in DmSet /\ disk \in DiskSet /\ pending \subseteq Commands /\ job \in JobSet
DesktopTypes == gui \in GuiSet /\ saved \in 0..MaxPid /\ op \in OpSet /\ rec \in [Callers -> Round]
Types == Processes /\ DaemonTypes /\ DesktopTypes /\ hist \in HistSet

LEMMA TypesOK == Types <=> TypeOK
BY DEF Types, TypeOK, Processes, DaemonTypes, DesktopTypes, Modes, DmSet, DiskSet, Commands, Froms,
       JobSet, GuiSet, OpSet, Round, PidSets, HistSet

-----------------------------------------------------------------------------
(* The inductive invariant *)

Live == alive \ hist.stray

(* The table.  What the daemon has launched is in its table, and in the    *)
(* file as well except while the start that launched it is not over        *)
InTable ==
    /\ Live \subseteq {IF Up THEN dm.running ELSE disk.running}
    /\ Up /\ dm.running \in Live =>
         dm.running = disk.running \/ (job.kind = "start" /\ job.step \in {"persist", "rollback"})

(* The holder of the lifecycle mutex works on the process in the table *)
Working ==
    /\ ~Up => job = NoJob /\ pending = {}
    /\ job.kind = "none" => job = NoJob
    /\ job.kind # "none" => job.from # "none"
    /\ job.kind = "start" => job.step \in {"spawn", "persist", "rollback", "reply"}
    /\ job.kind = "stop" => job.step \in {"kill", "persist", "reply"}
    /\ job.kind = "start" /\ job.step \in {"persist", "rollback"} =>
         job.pid = dm.running /\ dm.running # None /\ dm.desired
    /\ job.step = "kill" => job.pid = dm.running /\ dm.running # None
    /\ job.kind = "stop" /\ job.step = "persist" =>
         dm.running = None /\ (dm.desired => Preserves(job.from))
    /\ job.step = "reply" =>
         /\ job.from = "op"
         /\ job.ok => /\ disk = Held
                      /\ IF job.kind = "start" THEN dm.desired ELSE dm.running = None /\ ~dm.desired

(* A command of the desktop process is in one place, and the operation     *)
(* that sent it waits for its answer                                       *)
Calling == op.step \in {"call", "undoing"}
Starting == op.kind # "stop" /\ op.step = "call"
Linked ==
    /\ \A c \in pending :
         /\ c.from = "op" =>
              Calling /\ job.from # "op" /\ c.kind = (IF Starting THEN "start" ELSE "stop")
         /\ c.from \in Updates => c.kind # "stop"
    /\ job.from = "op" => Calling /\ job.kind = (IF Starting THEN "start" ELSE "stop")

(* Nothing stays promised while something is under way that may change it *)
Early == {"status", "reserve", "send", "call", "undo", "undoing"}
Careful == {"none", "restore", "recover"} \cup Updates
Silent ==
    \/ hist.intent = "none"
    \/ /\ op.step \notin Early
       /\ job.from \in Careful
       /\ \A c \in pending : c.from \in Updates

(* What was promised is in the file, and the daemon is bound by it *)
Promised ==
    /\ hist.intent = "on" =>
         /\ disk.desired
         /\ job.step = "persist" => dm.desired
         /\ Up /\ dm.running # None => dm.desired
    /\ hist.intent = "off" =>
         /\ ~disk.desired /\ disk.running = None
         /\ Up => dm.running = None /\ ~dm.desired
         /\ job = NoJob
         /\ \A c \in pending : c.kind # "start"

Bound == InTable /\ Working /\ Linked /\ Silent /\ Promised
Inv == Types /\ Bound

-----------------------------------------------------------------------------
(* What the operators of the model return *)

LEMMA HistEdits ==
    ASSUME hist \in HistSet
    PROVE  /\ Fault => /\ Faulty \in HistSet
                       /\ Faulty.intent = hist.intent /\ Faulty.stray = hist.stray
           /\ hist.ops < MaxOps =>
                /\ Ordered \in HistSet /\ Ordered.intent = "none" /\ Ordered.stray = hist.stray
                /\ [hist EXCEPT !.ops = @ + 1] \in HistSet
                /\ [hist EXCEPT !.ops = @ + 1].intent = hist.intent
                /\ [hist EXCEPT !.ops = @ + 1].stray = hist.stray
<1>1. ASSUME Fault
      PROVE  /\ Faulty \in HistSet
             /\ Faulty.intent = hist.intent /\ Faulty.stray = hist.stray
  <2>1. PICK n : n = hist.faults + 1
    OBVIOUS
  <2>2. n \in 0..MaxFaults
    BY <1>1, <2>1 DEF Fault, HistSet
  <2>3. Faulty = [hist EXCEPT !.faults = n]
    BY <2>1 DEF Faulty
  <2> QED BY <2>2, <2>3 DEF HistSet
<1>2. ASSUME hist.ops < MaxOps
      PROVE  /\ Ordered \in HistSet /\ Ordered.intent = "none" /\ Ordered.stray = hist.stray
             /\ [hist EXCEPT !.ops = @ + 1] \in HistSet
             /\ [hist EXCEPT !.ops = @ + 1].intent = hist.intent
             /\ [hist EXCEPT !.ops = @ + 1].stray = hist.stray
  <2>1. PICK n : n = hist.ops + 1
    OBVIOUS
  <2>2. n \in 0..MaxOps
    BY <1>2, <2>1 DEF HistSet
  <2>3. Ordered = [hist EXCEPT !.ops = n, !.intent = "none"]
    BY <2>1 DEF Ordered
  <2>4. [hist EXCEPT !.ops = n, !.intent = "none"] \in HistSet
    BY <2>2 DEF HistSet
  <2>5. Ordered \in HistSet /\ Ordered.intent = "none" /\ Ordered.stray = hist.stray
    BY <2>3, <2>4 DEF HistSet
  <2>6. [hist EXCEPT !.ops = n] \in HistSet
    BY <2>2 DEF HistSet
  <2> QED BY <2>1, <2>5, <2>6 DEF HistSet
<1> QED BY <1>1, <1>2

\* A promise that is given or withdrawn, and what a crash leaves behind.
LEMMA HistPromise ==
    ASSUME NEW h \in HistSet, NEW i \in {"none", "on", "off"}
    PROVE  /\ [h EXCEPT !.intent = i] \in HistSet
           /\ [h EXCEPT !.intent = i].intent = i /\ [h EXCEPT !.intent = i].stray = h.stray
BY DEF HistSet

LEMMA HistStrays ==
    ASSUME NEW h \in HistSet, NEW S \in PidSets
    PROVE  /\ [h EXCEPT !.stray = S] \in HistSet
           /\ [h EXCEPT !.stray = S].stray = S /\ [h EXCEPT !.stray = S].intent = h.intent
BY DEF HistSet

\* The answer to a call ends it.
LEMMA AnsweredOp ==
    ASSUME NEW o \in OpSet, NEW ok \in BOOLEAN, NEW p \in 0..MaxPid
    PROVE  /\ Answered(o, ok, p) \in OpSet
           /\ Answered(o, ok, p).step \in {"unrun", "insert", "none"}
<1>1. CASE o.step = "undoing"
  BY <1>1 DEF Answered, OpSet
<1>2. CASE o.step # "undoing" /\ o.kind = "start" /\ ok
  <2>1. [o EXCEPT !.step = "insert", !.pid = p] \in OpSet
    BY DEF OpSet
  <2>2. [o EXCEPT !.step = "insert", !.pid = p].step = "insert"
    BY DEF OpSet
  <2> QED BY <1>2, <2>1, <2>2 DEF Answered
<1>3. CASE o.step # "undoing" /\ o.kind = "stop" /\ ok
  BY <1>3 DEF Answered, OpSet
<1>4. CASE o.step # "undoing" /\ ~(o.kind \in {"start", "stop"} /\ ok)
  <2>1. NoOp \in OpSet /\ NoOp.step = "none"
    BY DEF NoOp, OpSet, None
  <2> QED BY <1>4, <2>1 DEF Answered
<1> QED BY <1>1, <1>2, <1>3, <1>4

\* A call the daemon did not survive is over too, or sent again.
LEMMA SeveredOp ==
    ASSUME NEW o \in OpSet
    PROVE  /\ Severed(o) \in OpSet
           /\ Severed(o).step \notin {"call", "undoing"}
           /\ Severed(o).step \in Early => o.step \in Early
<1>1. CASE o.step \in {"call", "undoing"} /\ o.tries = 0
  <2>1. PICK t \in 0..1 : t = 1
    OBVIOUS
  <2>2. /\ [o EXCEPT !.step = "send", !.tries = t] \in OpSet
        /\ [o EXCEPT !.step = "send", !.tries = t].step = "send"
    BY DEF OpSet
  <2>3. /\ [o EXCEPT !.step = "undo", !.tries = t] \in OpSet
        /\ [o EXCEPT !.step = "undo", !.tries = t].step = "undo"
    BY DEF OpSet
  <2>4. CASE o.step = "call"
    <3>1. Severed(o) = [o EXCEPT !.step = "send", !.tries = 1]
      BY <1>1, <2>4 DEF Severed
    <3> QED BY <2>2, <2>1, <2>4, <3>1 DEF Early
  <2>5. CASE o.step = "undoing"
    <3>1. Severed(o) = [o EXCEPT !.step = "undo", !.tries = 1]
      BY <1>1, <2>5 DEF Severed
    <3> QED BY <2>3, <2>1, <2>5, <3>1 DEF Early
  <2> QED BY <1>1, <2>4, <2>5
<1>2. CASE o.step \in {"call", "undoing"} /\ o.tries # 0
  <2>1. Severed(o) = Answered(o, FALSE, None)
    BY <1>2 DEF Severed
  <2>2. FALSE \in BOOLEAN /\ None \in 0..MaxPid
    BY DEF None
  <2> QED BY <1>2, <2>1, <2>2, AnsweredOp DEF Early
<1>3. CASE o.step \notin {"call", "undoing"}
  BY <1>3 DEF Severed
<1> QED BY <1>1, <1>2, <1>3

\* The answer to a request, and the end of a shutdown, move the lease.
LEMMA LeaseGui ==
    ASSUME gui \in GuiSet
    PROVE  Refused \in GuiSet /\ Acknowledged \in GuiSet
<1>1. Refused \in GuiSet
  BY DEF Refused, GuiSet
<1>2. Acknowledged \in GuiSet
  <2>1. PICK l \in {"none", "stopping", "locking", "held", "quitting", "closing"} :
          Acknowledged = [gui EXCEPT !.lease = l]
    BY DEF Acknowledged, GuiSet
  <2> QED BY <2>1 DEF GuiSet
<1> QED BY <1>1, <1>2

LEMMA Idle ==
    /\ NoJob \in JobSet /\ NoJob.kind = "none" /\ NoJob.step = "none" /\ NoJob.from = "none"
    /\ NoJob.pid = None /\ NoJob.ok = FALSE
    /\ NoOp \in OpSet /\ NoOp.kind = "none" /\ NoOp.step = "none" /\ NoOp.tries = 0
    /\ NoRec \in Round
BY DEF NoJob, NoOp, NoRec, JobSet, OpSet, Round, Froms, None

LEMMA FailedJob ==
    ASSUME NEW f \in Froms, NEW j, j = [NoJob EXCEPT !.kind = "start", !.from = f]
    PROVE  j \in JobSet /\ j.kind = "start" /\ j.from = f
BY Idle DEF JobSet

LEMMA StoppingJob ==
    ASSUME NEW f \in Froms, dm \in DmSet
    PROVE  /\ StopJob(f) \in JobSet
           /\ StopJob(f).kind = "stop" /\ StopJob(f).step = "kill" /\ StopJob(f).from = f
           /\ StopJob(f).pid = dm.running /\ StopJob(f).ok = FALSE
BY DEF StopJob, NoJob, JobSet, DmSet, None

\* A job that is over answers, goes on with the second half of a recovery,
\* or leaves the lifecycle mutex to the next.
LEMMA OverJob ==
    ASSUME NEW j \in JobSet, NEW ok \in BOOLEAN
    PROVE  /\ Over(j, ok) \in JobSet
           /\ j.from = "op" =>
                /\ Over(j, ok).step = "reply" /\ Over(j, ok).from = "op" /\ Over(j, ok).ok = ok
                /\ Over(j, ok).kind = j.kind /\ Over(j, ok).pid = j.pid
           /\ j.from = "recover" /\ j.kind = "stop" /\ ok =>
                /\ Over(j, ok).kind = "start" /\ Over(j, ok).step = "spawn"
                /\ Over(j, ok).from = "recover"
           /\ j.from # "op" /\ ~(j.from = "recover" /\ j.kind = "stop" /\ ok) => Over(j, ok) = NoJob
<1>1. CASE j.from = "op"
  <2>1. Over(j, ok) = [j EXCEPT !.step = "reply", !.ok = ok]
    BY <1>1 DEF Over
  <2> QED BY <1>1, <2>1 DEF JobSet
<1>2. CASE j.from = "recover" /\ j.kind = "stop" /\ ok
  <2>1. Over(j, ok) = [j EXCEPT !.kind = "start", !.step = "spawn"]
    BY <1>2 DEF Over
  <2> QED BY <1>2, <2>1 DEF JobSet
<1>3. CASE j.from # "op" /\ ~(j.from = "recover" /\ j.kind = "stop" /\ ok)
  BY <1>3, Idle DEF Over
<1> QED BY <1>1, <1>2, <1>3

\* A caller that is gone does not take its commands with it.
LEMMA DisownedJob ==
    ASSUME NEW j \in JobSet
    PROVE  /\ Disown(j) \in JobSet
           /\ Disown(j).from # "op"
           /\ j.step = "reply" => Disown(j) = NoJob
           /\ j.from # "none" /\ j.step # "reply" => Disown(j).from # "none"
           /\ j.step # "reply" =>
                /\ Disown(j).kind = j.kind /\ Disown(j).step = j.step
                /\ Disown(j).pid = j.pid /\ Disown(j).ok = j.ok
           /\ Preserves(j.from) => j.step = "reply" \/ Preserves(Disown(j).from)
           /\ j.from \in Careful => Disown(j).from \in Careful
<1>1. CASE j.step = "reply"
  BY <1>1, Idle DEF Disown, Careful
<1>2. CASE j.step # "reply"
  <2>1. PICK f \in Froms : f = Lost(j.from)
    BY DEF Lost, JobSet, Froms, Shutdowns, Updates, Quits
  <2>2. Disown(j) = [j EXCEPT !.from = f]
    BY <1>2, <2>1 DEF Disown
  <2>3. f # "op" /\ (j.from # "none" => f # "none")
    BY <2>1 DEF Lost
  <2>4. /\ Preserves(j.from) => Preserves(f)
        /\ j.from \in Careful => f \in Careful
    BY <2>1 DEF Lost, Preserves, Careful, Updates
  <2>5. [j EXCEPT !.from = f] \in JobSet
    BY DEF JobSet
  <2>6. /\ [j EXCEPT !.from = f].kind = j.kind /\ [j EXCEPT !.from = f].step = j.step
        /\ [j EXCEPT !.from = f].pid = j.pid /\ [j EXCEPT !.from = f].ok = j.ok
        /\ [j EXCEPT !.from = f].from = f
    BY DEF JobSet
  <2> QED BY <1>2, <2>2, <2>3, <2>4, <2>5, <2>6
<1> QED BY <1>1, <1>2

LEMMA DisownedIdle == Disown(NoJob) = NoJob
BY DEF Disown, NoJob, Lost, None

LEMMA OrphanedCommands ==
    ASSUME pending \subseteq Commands
    PROVE  /\ Orphaned \subseteq Commands
           /\ \A c \in Orphaned : /\ c.from # "op"
                                  /\ \E d \in pending : c.kind = d.kind /\ (d.from \in Updates <=> c.from \in Updates)
<1> SUFFICES ASSUME NEW d \in pending, NEW c, c = [d EXCEPT !.from = Lost(@)]
             PROVE  /\ c \in Commands /\ c.from # "op" /\ c.kind = d.kind
                    /\ d.from \in Updates <=> c.from \in Updates
  BY DEF Orphaned
<1>1. d \in Commands
  OBVIOUS
<1>2. PICK f \in {"op", "lost"} \cup Shutdowns : f = Lost(d.from)
  BY <1>1 DEF Lost, Commands, Shutdowns, Updates, Quits
<1>3. f # "op" /\ (d.from \in Updates <=> f \in Updates)
  BY <1>1, <1>2 DEF Lost, Updates, Quits, Shutdowns, Commands
<1>4. c = [d EXCEPT !.from = f]
  BY <1>2
<1> QED BY <1>1, <1>3, <1>4 DEF Commands

-----------------------------------------------------------------------------
(* Steps beside the daemon *)

\* The daemon's table and its file are as they were, and so are the
\* processes, except for those that died.
SameTable ==
    /\ alive' \subseteq alive
    /\ dm'.mode = dm.mode /\ dm'.desired = dm.desired /\ dm'.running = dm.running
    /\ disk' = disk

\* A promise may be withdrawn.
Withdrawn == hist'.stray = hist.stray /\ (hist'.intent = hist.intent \/ hist'.intent = "none")

\* The operation goes on without having called the daemon.
Onward ==
    \/ op'.kind = op.kind /\ op'.step = op.step
    \/ /\ ~Calling /\ op'.step \notin {"call", "undoing"}
       /\ op'.step \in Early => op.step \in Early \/ hist'.intent = "none"

LEMMA Aside ==
    ASSUME Inv, SameTable, Withdrawn, Onward, pending' = pending, job' = job
    PROVE  Bound'
<1>1. Bound
  BY DEF Inv
<1>2. Up' = Up /\ (hist'.intent = "none" \/ hist'.intent = hist.intent)
  BY DEF SameTable, Up, Serving, Withdrawn
<1>3. InTable'
  BY <1>1, <1>2 DEF Bound, InTable, Live, SameTable, Withdrawn
<1>4. Working'
  BY <1>1, <1>2 DEF Bound, Working, Held, SameTable
<1>5. Linked'
  BY <1>1 DEF Bound, Linked, Calling, Starting, Onward
<1>6. Silent'
  BY <1>1, <1>2 DEF Bound, Silent, Early, Calling, Onward
<1>7. Promised'
  BY <1>1, <1>2 DEF Bound, Promised, SameTable
<1> QED BY <1>3, <1>4, <1>5, <1>6, <1>7 DEF Bound

LEMMA Disowned ==
    ASSUME Inv, SameTable, Withdrawn, job' = Disown(job), pending' = Orphaned,
           op'.step \notin {"call", "undoing"}, op'.step \in Early => op.step \in Early
    PROVE  Bound' /\ job' \in JobSet /\ pending' \subseteq Commands
<1>1. Bound /\ job \in JobSet /\ pending \subseteq Commands
  BY DEF Inv, Types, DaemonTypes
<1>2. Up' = Up /\ (hist'.intent = "none" \/ hist'.intent = hist.intent)
  BY DEF SameTable, Up, Serving, Withdrawn
<1>3. /\ job' \in JobSet /\ job'.from # "op"
      /\ job.step = "reply" => job' = NoJob
      /\ job.from # "none" /\ job.step # "reply" => job'.from # "none"
      /\ job.step # "reply" =>
           job'.kind = job.kind /\ job'.step = job.step /\ job'.pid = job.pid /\ job'.ok = job.ok
      /\ Preserves(job.from) => job.step = "reply" \/ Preserves(job'.from)
      /\ job.from \in Careful => job'.from \in Careful
      /\ job = NoJob => job' = NoJob
  BY <1>1, DisownedJob, DisownedIdle
<1>4. /\ pending' \subseteq Commands
      /\ \A c \in pending' : /\ c.from # "op"
                             /\ \E d \in pending : c.kind = d.kind /\ (d.from \in Updates <=> c.from \in Updates)
  BY <1>1, OrphanedCommands
<1>5. InTable'
  BY <1>1, <1>2, <1>3 DEF Bound, InTable, Live, SameTable, Withdrawn
<1>6. Working'
  <2>1. /\ ~Up' => job' = NoJob /\ pending' = {}
        /\ job'.kind = "none" => job' = NoJob
    BY <1>1, <1>2, <1>3, <1>4 DEF Bound, Working
  <2>2. CASE job.step = "reply"
    BY <1>3, <2>1, <2>2, Idle DEF Working
  <2>3. CASE job.step # "reply"
    <3>1. Preserves(job.from) => Preserves(job'.from)
      BY <1>3, <2>3
    <3>2. job'.kind = job.kind /\ job'.step = job.step /\ job'.pid = job.pid /\ job'.ok = job.ok
      BY <1>3, <2>3
    <3>3. job.from # "none" => job'.from # "none"
      BY <1>3, <2>3
    <3> QED BY <1>1, <2>1, <2>3, <3>1, <3>2, <3>3 DEF Bound, Working, SameTable
  <2> QED BY <2>2, <2>3
<1>7. Linked'
  BY <1>1, <1>3, <1>4 DEF Bound, Linked
<1>8. Silent'
  BY <1>1, <1>2, <1>3, <1>4 DEF Bound, Silent
<1>9. Promised'
  <2>1. hist'.intent # "none" => job.step # "reply"
    BY <1>1, <1>2 DEF Bound, Silent, Working, Careful, Updates
  <2> QED BY <1>1, <1>2, <1>3, <1>4, <2>1 DEF Bound, Promised, SameTable
<1> QED BY <1>3, <1>4, <1>5, <1>6, <1>7, <1>8, <1>9 DEF Bound

\* The daemon is gone: nothing of it is left but the file.
LEMMA LeftBound ==
    ASSUME Inv, NEW m \in {"left", "crashed"}, Leave(m), job' = NoJob,
           hist'.intent = hist.intent \/ hist'.intent = "none",
           (alive' \ hist'.stray) \subseteq {disk'.running},
           hist.intent = "on" => disk'.desired, hist.intent = "off" => disk' = disk
    PROVE  Bound' /\ dm' \in DmSet /\ op' \in OpSet /\ gui' \in GuiSet /\ pending' = {}
<1>1. Bound /\ gui \in GuiSet /\ op \in OpSet
  BY DEF Inv, Types, DesktopTypes
<1>2. dm' = Empty(m) /\ pending' = {} /\ op' = Severed(op) /\ gui' = Refused
  BY DEF Leave
<1>3. /\ dm' \in DmSet /\ dm'.mode = m /\ dm'.running = None /\ dm'.desired = FALSE
  <2>1. PICK z \in 0..MaxPid : z = None
    BY DEF None
  <2>2. dm' = [mode |-> m, desired |-> FALSE, running |-> z, gone |-> FALSE]
    BY <1>2, <2>1 DEF Empty
  <2> QED BY <2>1, <2>2 DEF DmSet, Modes
<1>4. ~Up'
  BY <1>3 DEF Up, Serving
<1>5. /\ op' \in OpSet /\ op'.step \notin {"call", "undoing"}
      /\ op'.step \in Early => op.step \in Early
  BY <1>1, <1>2, SeveredOp
<1>6. InTable'
  BY <1>4 DEF InTable, Live
<1>7. Working'
  BY <1>2, <1>4, Idle DEF Working
<1>8. Linked'
  BY <1>2, Idle DEF Linked
<1>9. Silent'
  BY <1>1, <1>2, <1>5, Idle DEF Bound, Silent, Careful
<1>10. Promised'
  BY <1>1, <1>2, <1>4, Idle DEF Bound, Promised
<1> QED BY <1>1, <1>2, <1>3, <1>5, <1>6, <1>7, <1>8, <1>9, <1>10, LeaseGui DEF Bound

-----------------------------------------------------------------------------
(* The desktop process *)

\* The numbers of processes in the records.
LEMMA PidFields ==
    ASSUME Types
    PROVE  /\ dm.running \in 0..MaxPid /\ disk.running \in 0..MaxPid /\ job.pid \in 0..MaxPid
           /\ gui.running \in 0..MaxPid /\ op.pid \in 0..MaxPid /\ saved \in 0..MaxPid
           /\ \A c \in Callers : rec[c] \in Round /\ rec[c].status \in 0..MaxPid
           /\ None \in 0..MaxPid
<1>1. dm.running \in 0..MaxPid /\ disk.running \in 0..MaxPid /\ job.pid \in 0..MaxPid
  BY DEF Types, DaemonTypes, DmSet, DiskSet, JobSet
<1>2. gui.running \in 0..MaxPid /\ op.pid \in 0..MaxPid /\ saved \in 0..MaxPid
  BY DEF Types, DesktopTypes, GuiSet, OpSet
<1>3. \A c \in Callers : rec[c] \in Round /\ rec[c].status \in 0..MaxPid
  BY DEF Types, DesktopTypes, Round
<1>4. None \in 0..MaxPid
  BY DEF None
<1> QED BY <1>1, <1>2, <1>3, <1>4

LEMMA BeginStartInv == ASSUME Inv, BeginStart PROVE Inv'
<1>1. Types
  BY DEF Inv
<1>2. op' \in OpSet /\ op'.step = "status"
  BY <1>1, Idle DEF Types, DesktopTypes, OpSet, BeginStart
<1>3. hist' \in HistSet /\ hist'.stray = hist.stray /\ hist'.intent = "none"
  BY <1>1, HistEdits DEF Types, MayOrder, BeginStart
<1>4. SameTable /\ pending' = pending /\ job' = job /\ op.step = "none"
  BY <1>1, Idle DEF BeginStart, daemon, SameTable
<1>5. Withdrawn /\ Onward
  BY <1>2, <1>3, <1>4 DEF Withdrawn, Onward, Calling, Early
<1>6. Types'
  BY <1>1, <1>2, <1>3, <1>4 DEF BeginStart, daemon, SameTable, Types, Processes, DaemonTypes, DesktopTypes
<1> QED BY <1>4, <1>5, <1>6, Aside DEF Inv

LEMMA BeginStopInv == ASSUME Inv, BeginStop PROVE Inv'
<1>1. Types
  BY DEF Inv
<1>2. PICK s \in {"send", "own"} : op' = [NoOp EXCEPT !.kind = "stop", !.step = s, !.pid = gui.running]
  BY <1>1 DEF BeginStop
<1>3. op' \in OpSet /\ op'.step \in {"send", "own"}
  BY <1>1, <1>2, Idle, PidFields DEF OpSet
<1>4. hist' \in HistSet /\ hist'.stray = hist.stray /\ hist'.intent = "none"
  BY <1>1, HistEdits DEF Types, MayOrder, BeginStop
<1>5. SameTable /\ pending' = pending /\ job' = job /\ op.step = "none"
  BY <1>1, Idle DEF BeginStop, daemon, SameTable
<1>6. Withdrawn /\ Onward
  BY <1>2, <1>3, <1>4, <1>5 DEF Withdrawn, Onward, Calling, Early
<1>7. Types'
  BY <1>1, <1>2, <1>3, <1>4, <1>5 DEF BeginStop, daemon, SameTable, Types, Processes, DaemonTypes, DesktopTypes
<1> QED BY <1>5, <1>6, <1>7, Aside DEF Inv

LEMMA StartStatusInv == ASSUME Inv, StartStatus PROVE Inv'
<1>1. Types
  BY DEF Inv
<1>2. op' \in OpSet /\ op'.step \in {"none", "reserve"}
  BY <1>1, Idle DEF Types, DesktopTypes, OpSet, StartStatus
<1>3. "start" \in Callers
  BY <1>1 DEF Callers
<1>4. rec' \in [Callers -> Round]
  BY <1>1, <1>3, PidFields DEF Types, DesktopTypes, Round, StartStatus
<1>5. SameTable /\ pending' = pending /\ job' = job /\ hist' = hist /\ op.step = "status"
  BY <1>1 DEF StartStatus, daemon, SameTable
<1>6. Withdrawn /\ Onward
  BY <1>2, <1>3, <1>4, <1>5 DEF Withdrawn, Onward, Calling, Early
<1>7. Types'
  BY <1>1, <1>2, <1>3, <1>4, <1>5 DEF StartStatus, daemon, SameTable, Types, Processes, DaemonTypes, DesktopTypes
<1> QED BY <1>5, <1>6, <1>7, Aside DEF Inv

LEMMA StartReserveInv == ASSUME Inv, StartReserve PROVE Inv'
<1>1. Types
  BY DEF Inv
<1>2. op' \in OpSet /\ op'.step \in {"none", "send"}
  BY <1>1, Idle DEF Types, DesktopTypes, OpSet, StartReserve
<1>3. SameTable /\ pending' = pending /\ job' = job /\ hist' = hist /\ op.step = "reserve"
  BY <1>1 DEF StartReserve, daemon, SameTable
<1>4. Withdrawn /\ Onward
  BY <1>2, <1>3 DEF Withdrawn, Onward, Calling, Early
<1>5. Types'
  BY <1>1, <1>2, <1>3 DEF StartReserve, daemon, SameTable, Types, Processes, DaemonTypes, DesktopTypes
<1> QED BY <1>3, <1>4, <1>5, Aside DEF Inv

LEMMA StartInvalidInv == ASSUME Inv, StartInvalid PROVE Inv'
<1>1. Types
  BY DEF Inv
<1>2. op' \in OpSet /\ op'.step = "none"
  BY <1>1, Idle DEF Types, DesktopTypes, StartInvalid
<1>3. SameTable /\ pending' = pending /\ job' = job /\ hist' = hist /\ op.step = "send"
  BY <1>1 DEF StartInvalid, daemon, SameTable
<1>4. Withdrawn /\ Onward
  BY <1>2, <1>3 DEF Withdrawn, Onward, Calling, Early
<1>5. Types'
  BY <1>1, <1>2, <1>3 DEF StartInvalid, daemon, SameTable, Types, Processes, DaemonTypes, DesktopTypes
<1> QED BY <1>3, <1>4, <1>5, Aside DEF Inv

LEMMA SendFailsInv == ASSUME Inv, SendFails PROVE Inv'
<1>1. Types
  BY DEF Inv
<1>2. op' \in OpSet /\ op'.step \in {"unrun", "insert", "none"}
  BY <1>1, PidFields, AnsweredOp DEF Types, DesktopTypes, SendFails
<1>3. SameTable /\ pending' = pending /\ job' = job /\ hist' = hist /\ op.step \in {"send", "undo"}
  BY <1>1 DEF SendFails, Sends, daemon, SameTable
<1>4. Withdrawn /\ Onward
  BY <1>2, <1>3 DEF Withdrawn, Onward, Calling, Early
<1>5. Types'
  BY <1>1, <1>2, <1>3 DEF SendFails, Sends, daemon, SameTable, Types, Processes, DaemonTypes, DesktopTypes
<1> QED BY <1>3, <1>4, <1>5, Aside DEF Inv

LEMMA StartInsertInv == ASSUME Inv, StartInsert PROVE Inv'
<1>1. Types
  BY DEF Inv
<1>2. gui' \in GuiSet /\ op' \in OpSet /\ op'.step = "manage"
  BY <1>1, PidFields DEF Types, DesktopTypes, GuiSet, OpSet, StartInsert
<1>3. SameTable /\ pending' = pending /\ job' = job /\ hist' = hist /\ op.step = "insert"
  BY <1>1 DEF StartInsert, daemon, SameTable
<1>4. Withdrawn /\ Onward
  BY <1>2, <1>3 DEF Withdrawn, Onward, Calling, Early
<1>5. Types'
  BY <1>1, <1>2, <1>3 DEF StartInsert, daemon, SameTable, Types, Processes, DaemonTypes, DesktopTypes
<1> QED BY <1>3, <1>4, <1>5, Aside DEF Inv

LEMMA StartManageInv == ASSUME Inv, StartManage PROVE Inv'
<1>1. Types
  BY DEF Inv
<1>2. gui' \in GuiSet /\ op' \in OpSet /\ op'.step = "snap"
  BY <1>1 DEF Types, DesktopTypes, GuiSet, OpSet, StartManage
<1>3. SameTable /\ pending' = pending /\ job' = job /\ hist' = hist /\ op.step = "manage"
  BY <1>1 DEF StartManage, daemon, SameTable
<1>4. Withdrawn /\ Onward
  BY <1>2, <1>3 DEF Withdrawn, Onward, Calling, Early
<1>5. Types'
  BY <1>1, <1>2, <1>3 DEF StartManage, daemon, SameTable, Types, Processes, DaemonTypes, DesktopTypes
<1> QED BY <1>3, <1>4, <1>5, Aside DEF Inv

LEMMA StartSnapshotInv == ASSUME Inv, StartSnapshot PROVE Inv'
<1>1. Types
  BY DEF Inv
<1>2. op' \in OpSet /\ op'.step = "save"
  BY <1>1, PidFields DEF Types, DesktopTypes, OpSet, StartSnapshot
<1>3. SameTable /\ pending' = pending /\ job' = job /\ hist' = hist /\ op.step = "snap"
  BY <1>1 DEF StartSnapshot, daemon, SameTable
<1>4. Withdrawn /\ Onward
  BY <1>2, <1>3 DEF Withdrawn, Onward, Calling, Early
<1>5. Types'
  BY <1>1, <1>2, <1>3 DEF StartSnapshot, daemon, SameTable, Types, Processes, DaemonTypes, DesktopTypes
<1> QED BY <1>3, <1>4, <1>5, Aside DEF Inv

LEMMA StartSaveInv == ASSUME Inv, StartSave PROVE Inv'
<1>1. Types
  BY DEF Inv
<1>2. SameTable /\ pending' = pending /\ job' = job /\ op.step = "save"
  BY <1>1 DEF StartSave, daemon, SameTable
<1>3. CASE saved' = op.pid /\ op' = NoOp /\ UNCHANGED hist
  <2>1. Withdrawn /\ Onward
    BY <1>2, <1>3, Idle DEF Withdrawn, Onward, Calling, Early
  <2>2. Types'
    BY <1>1, <1>2, <1>3, Idle, PidFields
       DEF StartSave, daemon, SameTable, Types, Processes, DaemonTypes, DesktopTypes
  <2> QED BY <1>2, <2>1, <2>2, Aside DEF Inv
<1>4. CASE /\ Fault /\ hist' = [Faulty EXCEPT !.intent = "none"]
           /\ op' = [op EXCEPT !.step = "undo", !.tries = 0] /\ UNCHANGED saved
  <2>1. hist' \in HistSet /\ hist'.stray = hist.stray /\ hist'.intent = "none"
    BY <1>1, <1>4, HistEdits, HistPromise DEF Types
  <2>2. PICK t \in 0..1 : t = 0
    OBVIOUS
  <2>3. op' = [op EXCEPT !.step = "undo", !.tries = t]
    BY <1>4, <2>2
  <2>4. op' \in OpSet /\ op'.step = "undo"
    BY <1>1, <2>3 DEF Types, DesktopTypes, OpSet
  <2>5. Withdrawn /\ Onward
    BY <1>2, <2>1, <2>4 DEF Withdrawn, Onward, Calling, Early
  <2>6. Types'
    BY <1>1, <1>2, <1>4, <2>1, <2>4
       DEF StartSave, daemon, SameTable, Types, Processes, DaemonTypes, DesktopTypes
  <2> QED BY <1>2, <2>5, <2>6, Aside DEF Inv
<1> QED BY <1>3, <1>4 DEF StartSave

LEMMA UnrunInv == ASSUME Inv, Unrun PROVE Inv'
<1>1. Types
  BY DEF Inv
<1>2. op' \in OpSet /\ op'.step = "unmanage"
  BY <1>1, PidFields DEF Types, DesktopTypes, OpSet, Unrun
<1>3. gui' \in GuiSet
  BY <1>1, PidFields DEF Types, DesktopTypes, GuiSet, Unrun
<1>4. SameTable /\ pending' = pending /\ job' = job /\ hist' = hist /\ op.step = "unrun"
  BY <1>1 DEF Unrun, daemon, SameTable
<1>5. Withdrawn /\ Onward
  BY <1>2, <1>3, <1>4 DEF Withdrawn, Onward, Calling, Early
<1>6. Types'
  BY <1>1, <1>2, <1>3, <1>4 DEF Unrun, daemon, SameTable, Types, Processes, DaemonTypes, DesktopTypes
<1> QED BY <1>4, <1>5, <1>6, Aside DEF Inv

LEMMA UnmanageInv == ASSUME Inv, Unmanage PROVE Inv'
<1>1. Types
  BY DEF Inv
<1>2. op' \in OpSet /\ op'.step \in {"none", "save"}
  BY <1>1, Idle DEF Types, DesktopTypes, OpSet, Unmanage
<1>3. gui' \in GuiSet
  BY <1>1 DEF Types, DesktopTypes, GuiSet, Unmanage
<1>4. SameTable /\ pending' = pending /\ job' = job /\ hist' = hist /\ op.step = "unmanage"
  BY <1>1 DEF Unmanage, daemon, SameTable
<1>5. Withdrawn /\ Onward
  BY <1>2, <1>3, <1>4 DEF Withdrawn, Onward, Calling, Early
<1>6. Types'
  BY <1>1, <1>2, <1>3, <1>4 DEF Unmanage, daemon, SameTable, Types, Processes, DaemonTypes, DesktopTypes
<1> QED BY <1>4, <1>5, <1>6, Aside DEF Inv

LEMMA StopSaveInv == ASSUME Inv, StopSave PROVE Inv'
<1>1. Types
  BY DEF Inv
<1>2. op' \in OpSet /\ op'.step = "none"
  BY <1>1, Idle DEF Types, DesktopTypes, StopSave
<1>3. hist' \in HistSet /\ hist'.stray = hist.stray /\ hist'.intent = hist.intent
  BY <1>1, HistEdits DEF Types, StopSave
<1>4. saved' \in 0..MaxPid
  BY <1>1, PidFields DEF StopSave
<1>5. SameTable /\ pending' = pending /\ job' = job /\ op.step = "save"
  BY <1>1 DEF StopSave, daemon, SameTable
<1>6. Withdrawn /\ Onward
  BY <1>2, <1>3, <1>4, <1>5 DEF Withdrawn, Onward, Calling, Early
<1>7. Types'
  BY <1>1, <1>2, <1>3, <1>4, <1>5 DEF StopSave, daemon, SameTable, Types, Processes, DaemonTypes, DesktopTypes
<1> QED BY <1>5, <1>6, <1>7, Aside DEF Inv

LEMMA OwnKillInv == ASSUME Inv, OwnKill PROVE Inv'
<1>1. Types
  BY DEF Inv
<1>2. op' \in OpSet /\ op'.step \in {"none", "clear"}
  BY <1>1, Idle DEF Types, DesktopTypes, OpSet, OwnKill
<1>3. gui' \in GuiSet
  BY <1>1 DEF Types, DesktopTypes, GuiSet, OwnKill
<1>4. SameTable /\ pending' = pending /\ job' = job /\ hist' = hist /\ op.step = "own"
  BY <1>1 DEF OwnKill, daemon, SameTable
<1>5. Withdrawn /\ Onward
  BY <1>2, <1>3, <1>4 DEF Withdrawn, Onward, Calling, Early
<1>6. Types'
  BY <1>1, <1>2, <1>3, <1>4 DEF OwnKill, daemon, SameTable, Types, Processes, DaemonTypes, DesktopTypes
<1> QED BY <1>4, <1>5, <1>6, Aside DEF Inv

LEMMA OwnClearInv == ASSUME Inv, OwnClear PROVE Inv'
<1>1. Types
  BY DEF Inv
<1>2. op' \in OpSet /\ op'.step = "none"
  BY <1>1, Idle DEF Types, DesktopTypes, OwnClear
<1>3. gui' \in GuiSet /\ saved' \in 0..MaxPid
  BY <1>1, PidFields DEF Types, DesktopTypes, GuiSet, OwnClear, Forget
<1>4. SameTable /\ pending' = pending /\ job' = job /\ hist' = hist /\ op.step = "clear"
  BY <1>1 DEF OwnClear, daemon, SameTable
<1>5. Withdrawn /\ Onward
  BY <1>2, <1>3, <1>4 DEF Withdrawn, Onward, Calling, Early
<1>6. Types'
  BY <1>1, <1>2, <1>3, <1>4 DEF OwnClear, daemon, SameTable, Types, Processes, DaemonTypes, DesktopTypes
<1> QED BY <1>4, <1>5, <1>6, Aside DEF Inv

LEMMA RecPrevInv == ASSUME Inv, NEW c \in Callers, RecPrev(c) PROVE Inv'
<1>1. Types
  BY DEF Inv
<1>2. gui.managed \in BOOLEAN /\ rec[c] \in Round
  BY <1>1, PidFields DEF Types, DesktopTypes, GuiSet
<1>3. [rec[c] EXCEPT !.step = "run", !.prev = gui.managed] \in Round
  BY <1>1, <1>2 DEF Round
<1>4. rec' \in [Callers -> Round]
  BY <1>1, <1>2, <1>3 DEF Types, DesktopTypes, RecPrev
<1>5. SameTable /\ pending' = pending /\ job' = job /\ hist' = hist /\ op' = op
  BY <1>1 DEF RecPrev, daemon, SameTable
<1>6. Withdrawn /\ Onward
  BY <1>2, <1>3, <1>4, <1>5 DEF Withdrawn, Onward, Calling, Early
<1>7. Types'
  BY <1>1, <1>2, <1>3, <1>4, <1>5 DEF RecPrev, daemon, SameTable, Types, Processes, DaemonTypes, DesktopTypes
<1> QED BY <1>5, <1>6, <1>7, Aside DEF Inv

LEMMA RecRunningInv == ASSUME Inv, NEW c \in Callers, RecRunning(c) PROVE Inv'
<1>1. Types
  BY DEF Inv
<1>2. Reconciled(rec[c]) \in 0..MaxPid /\ rec[c] \in Round
  BY <1>1, PidFields DEF Reconciled
<1>3. gui' \in GuiSet
  BY <1>1, <1>2 DEF Types, DesktopTypes, GuiSet, RecRunning
<1>4. PICK b \in BOOLEAN : rec' = [rec EXCEPT ![c].step = "extend", ![c].changed = b]
  BY <1>1 DEF RecRunning
<1>5. [rec[c] EXCEPT !.step = "extend", !.changed = b] \in Round
  BY <1>1, <1>2 DEF Round
<1>6. rec' \in [Callers -> Round]
  BY <1>1, <1>4, <1>5 DEF Types, DesktopTypes
<1>7. SameTable /\ pending' = pending /\ job' = job /\ hist' = hist /\ op' = op
  BY <1>1 DEF RecRunning, daemon, SameTable
<1>8. Withdrawn /\ Onward
  BY <1>2, <1>3, <1>4, <1>5, <1>6, <1>7 DEF Withdrawn, Onward, Calling, Early
<1>9. Types'
  BY <1>1, <1>2, <1>3, <1>4, <1>5, <1>6, <1>7 DEF RecRunning, daemon, SameTable, Types, Processes, DaemonTypes, DesktopTypes
<1> QED BY <1>7, <1>8, <1>9, Aside DEF Inv

LEMMA RecExtendInv == ASSUME Inv, NEW c \in Callers, RecExtend(c) PROVE Inv'
<1>1. Types
  BY DEF Inv
<1>2. gui' \in GuiSet
  BY <1>1 DEF Types, DesktopTypes, GuiSet, RecExtend
<1>3. [NoRec EXCEPT !.step = "snap"] \in Round /\ NoRec \in Round
  BY <1>1, Idle DEF Round
<1>4. rec' \in [Callers -> Round]
  BY <1>1, <1>3 DEF Types, DesktopTypes, RecExtend
<1>5. SameTable /\ pending' = pending /\ job' = job /\ hist' = hist /\ op' = op
  BY <1>1 DEF RecExtend, daemon, SameTable
<1>6. Withdrawn /\ Onward
  BY <1>2, <1>3, <1>4, <1>5 DEF Withdrawn, Onward, Calling, Early
<1>7. Types'
  BY <1>1, <1>2, <1>3, <1>4, <1>5 DEF RecExtend, daemon, SameTable, Types, Processes, DaemonTypes, DesktopTypes
<1> QED BY <1>5, <1>6, <1>7, Aside DEF Inv

LEMMA RecSnapshotInv == ASSUME Inv, NEW c \in Callers, RecSnapshot(c) PROVE Inv'
<1>1. Types
  BY DEF Inv
<1>2. gui.running \in 0..MaxPid /\ rec[c] \in Round
  BY <1>1, PidFields DEF Types
<1>3. [rec[c] EXCEPT !.step = "save", !.status = gui.running] \in Round
  BY <1>1, <1>2 DEF Round
<1>4. rec' \in [Callers -> Round]
  BY <1>1, <1>2, <1>3 DEF Types, DesktopTypes, RecSnapshot
<1>5. SameTable /\ pending' = pending /\ job' = job /\ hist' = hist /\ op' = op
  BY <1>1 DEF RecSnapshot, daemon, SameTable
<1>6. Withdrawn /\ Onward
  BY <1>2, <1>3, <1>4, <1>5 DEF Withdrawn, Onward, Calling, Early
<1>7. Types'
  BY <1>1, <1>2, <1>3, <1>4, <1>5 DEF RecSnapshot, daemon, SameTable, Types, Processes, DaemonTypes, DesktopTypes
<1> QED BY <1>5, <1>6, <1>7, Aside DEF Inv

LEMMA RecSaveInv == ASSUME Inv, NEW c \in Callers, RecSave(c) PROVE Inv'
<1>1. Types
  BY DEF Inv
<1>2. saved' \in 0..MaxPid
  BY <1>1, PidFields DEF RecSave
<1>3. hist' \in HistSet /\ hist'.stray = hist.stray /\ hist'.intent = hist.intent
  BY <1>1, HistEdits DEF Types, RecSave
<1>4. rec' \in [Callers -> Round]
  BY <1>1, Idle DEF Types, DesktopTypes, RecSave
<1>5. SameTable /\ pending' = pending /\ job' = job /\ op' = op
  BY <1>1 DEF RecSave, daemon, SameTable
<1>6. Withdrawn /\ Onward
  BY <1>2, <1>3, <1>4, <1>5 DEF Withdrawn, Onward, Calling, Early
<1>7. Types'
  BY <1>1, <1>2, <1>3, <1>4, <1>5 DEF RecSave, daemon, SameTable, Types, Processes, DaemonTypes, DesktopTypes
<1> QED BY <1>5, <1>6, <1>7, Aside DEF Inv

LEMMA BridgeFetchInv == ASSUME Inv, BridgeFetch PROVE Inv'
<1>1. Types
  BY DEF Inv
<1>2. "bridge" \in Callers
  BY <1>1 DEF Callers
<1>3. rec["bridge"] \in Round /\ dm.running \in 0..MaxPid
  BY <1>1, <1>2, PidFields DEF Types
<1>4. [rec["bridge"] EXCEPT !.step = "prev", !.status = dm.running] \in Round
  BY <1>1, <1>3 DEF Round
<1>5. rec' \in [Callers -> Round]
  BY <1>1, <1>2, <1>4 DEF Types, DesktopTypes, BridgeFetch
<1>6. gui' \in GuiSet
  BY <1>1 DEF Types, DesktopTypes, GuiSet, BridgeFetch
<1>7. dm' \in DmSet /\ dm'.mode = dm.mode /\ dm'.desired = dm.desired /\ dm'.running = dm.running
  BY <1>1 DEF Types, DaemonTypes, DesktopTypes, DmSet, GuiSet, BridgeFetch
<1>8. SameTable /\ pending' = pending /\ job' = job /\ hist' = hist /\ op' = op
  BY <1>1, <1>7 DEF BridgeFetch, daemon, SameTable
<1>9. Withdrawn /\ Onward
  BY <1>2, <1>3, <1>4, <1>5, <1>6, <1>7, <1>8 DEF Withdrawn, Onward, Calling, Early
<1>10. Types'
  BY <1>1, <1>2, <1>3, <1>4, <1>5, <1>6, <1>7, <1>8 DEF BridgeFetch, daemon, SameTable, Types, Processes, DaemonTypes, DesktopTypes
<1> QED BY <1>8, <1>9, <1>10, Aside DEF Inv

LEMMA GuiStartInv == ASSUME Inv, GuiStart PROVE Inv'
<1>1. Types
  BY DEF Inv
<1>2. Survivor(saved) \in 0..MaxPid
  BY <1>1, PidFields DEF Survivor
<1>3. gui' \in GuiSet
  BY <1>1, <1>2 DEF GuiSet, GuiStart, Fresh
<1>4. SameTable /\ pending' = pending /\ job' = job /\ hist' = hist /\ op' = op
  BY <1>1 DEF GuiStart, daemon, SameTable
<1>5. Withdrawn /\ Onward
  BY <1>2, <1>3, <1>4 DEF Withdrawn, Onward, Calling, Early
<1>6. Types'
  BY <1>1, <1>2, <1>3, <1>4 DEF GuiStart, daemon, SameTable, Types, Processes, DaemonTypes, DesktopTypes
<1> QED BY <1>4, <1>5, <1>6, Aside DEF Inv

LEMMA ReloadInv == ASSUME Inv, Reload PROVE Inv'
<1>1. Types
  BY DEF Inv
<1>2. Survivor(saved) \in 0..MaxPid
  BY <1>1, PidFields DEF Survivor
<1>3. PICK b \in BOOLEAN : gui' = [gui EXCEPT !.running = Survivor(saved), !.managed = b]
  BY <1>1 DEF Types, DesktopTypes, GuiSet, Reload
<1>4. gui' \in GuiSet
  BY <1>1, <1>2, <1>3 DEF Types, DesktopTypes, GuiSet
<1>5. hist' \in HistSet /\ hist'.stray = hist.stray /\ hist'.intent = hist.intent
  BY <1>1, HistEdits DEF Types, MayOrder, Reload
<1>6. SameTable /\ pending' = pending /\ job' = job /\ op' = op
  BY <1>1 DEF Reload, daemon, SameTable
<1>7. Withdrawn /\ Onward
  BY <1>2, <1>3, <1>4, <1>5, <1>6 DEF Withdrawn, Onward, Calling, Early
<1>8. Types'
  BY <1>1, <1>2, <1>3, <1>4, <1>5, <1>6 DEF Reload, daemon, SameTable, Types, Processes, DaemonTypes, DesktopTypes
<1> QED BY <1>6, <1>7, <1>8, Aside DEF Inv

LEMMA TakeLeaseInv == ASSUME Inv, TakeLease PROVE Inv'
<1>1. Types
  BY DEF Inv
<1>2. gui' \in GuiSet
  BY <1>1 DEF Types, DesktopTypes, GuiSet, TakeLease
<1>3. SameTable /\ pending' = pending /\ job' = job /\ hist' = hist /\ op' = op
  BY <1>1 DEF TakeLease, daemon, SameTable
<1>4. Withdrawn /\ Onward
  BY <1>2, <1>3 DEF Withdrawn, Onward, Calling, Early
<1>5. Types'
  BY <1>1, <1>2, <1>3 DEF TakeLease, daemon, SameTable, Types, Processes, DaemonTypes, DesktopTypes
<1> QED BY <1>3, <1>4, <1>5, Aside DEF Inv

LEMMA ProcessDiesInv == ASSUME Inv, ProcessDies PROVE Inv'
<1>1. Types
  BY DEF Inv
<1>2. hist' \in HistSet /\ hist'.stray = hist.stray /\ hist'.intent = hist.intent
  BY <1>1, HistEdits DEF Types, ProcessDies
<1>3. SameTable /\ pending' = pending /\ job' = job /\ op' = op
  BY <1>1 DEF ProcessDies, daemon, desktop, SameTable
<1>4. Withdrawn /\ Onward
  BY <1>2, <1>3 DEF Withdrawn, Onward, Calling, Early
<1>5. Types'
  BY <1>1, <1>2, <1>3 DEF ProcessDies, daemon, desktop, SameTable, Types, Processes, DaemonTypes, DesktopTypes
<1> QED BY <1>3, <1>4, <1>5, Aside DEF Inv

-----------------------------------------------------------------------------
(* Commands on their way to the daemon and back *)

\* Another command that the desktop process does not wait for as an operation.
LEMMA Asked ==
    ASSUME Inv, SameTable, Withdrawn, Onward, job' = job, Up,
           NEW c \in Commands, pending' = pending \cup {c}, c.kind = "shutdown", c.from # "op",
           hist'.intent = "none" \/ c.from \in Updates
    PROVE  Bound'
<1>1. Bound
  BY DEF Inv
<1>2. Up' = Up /\ (hist'.intent = "none" \/ hist'.intent = hist.intent)
  BY DEF SameTable, Up, Serving, Withdrawn
<1>3. InTable'
  BY <1>1, <1>2 DEF Bound, InTable, Live, SameTable, Withdrawn
<1>4. Working'
  BY <1>1, <1>2 DEF Bound, Working, Held, SameTable
<1>5. Linked'
  BY <1>1 DEF Bound, Linked, Calling, Starting, Onward
<1>6. Silent'
  BY <1>1, <1>2 DEF Bound, Silent, Early, Calling, Onward
<1>7. Promised'
  BY <1>1, <1>2 DEF Bound, Promised, SameTable
<1> QED BY <1>3, <1>4, <1>5, <1>6, <1>7 DEF Bound

LEMMA QuitInv == ASSUME Inv, Quit PROVE Inv'
<1>1. Types
  BY DEF Inv
<1>2. hist' \in HistSet /\ hist'.stray = hist.stray /\ hist'.intent = "none"
  BY <1>1, HistEdits DEF Types, MayOrder, Quit
<1>3. PICK c : c = [kind |-> "shutdown", from |-> "quit"]
  OBVIOUS
<1>4. c \in Commands /\ c.kind = "shutdown" /\ c.from = "quit"
  BY <1>3 DEF Commands, Shutdowns, Quits
<1>5. gui' \in GuiSet
  BY <1>1 DEF Types, DesktopTypes, GuiSet, Quit
<1>6. SameTable /\ job' = job /\ op' = op /\ Up /\ pending' = pending \cup {c}
  BY <1>3 DEF Quit, SameTable, Up, Serving
<1>7. Withdrawn /\ Onward
  BY <1>2, <1>6 DEF Withdrawn, Onward
<1>8. Types'
  BY <1>1, <1>2, <1>4, <1>5, <1>6 DEF Quit, SameTable, Types, Processes, DaemonTypes, DesktopTypes
<1> QED BY <1>2, <1>4, <1>6, <1>7, <1>8, Asked DEF Inv

LEMMA PrepareUpdateInv == ASSUME Inv, PrepareUpdate PROVE Inv'
<1>1. Types
  BY DEF Inv
<1>2. hist' \in HistSet /\ hist'.stray = hist.stray /\ hist'.intent = hist.intent
  BY <1>1, HistEdits DEF Types, MayOrder, PrepareUpdate
<1>3. PICK c : c = [kind |-> "shutdown", from |-> "update"]
  OBVIOUS
<1>4. c \in Commands /\ c.kind = "shutdown" /\ c.from = "update" /\ c.from \in Updates
  BY <1>3 DEF Commands, Shutdowns, Updates
<1>5. gui' \in GuiSet
  BY <1>1 DEF Types, DesktopTypes, GuiSet, PrepareUpdate
<1>6. SameTable /\ job' = job /\ op' = op
  BY DEF PrepareUpdate, SameTable
<1>7. Withdrawn /\ Onward
  BY <1>2, <1>6 DEF Withdrawn, Onward
<1>8. \/ Up /\ pending' = pending \cup {c}
      \/ pending' = pending
  BY <1>3 DEF PrepareUpdate, Up, Serving
<1>9. Types'
  BY <1>1, <1>2, <1>4, <1>5, <1>6, <1>8 DEF PrepareUpdate, SameTable, Types, Processes, DaemonTypes, DesktopTypes
<1> QED BY <1>4, <1>6, <1>7, <1>8, <1>9, Asked, Aside DEF Inv

LEMMA SendInv == ASSUME Inv, Send PROVE Inv'
<1>1. Types /\ Bound
  BY DEF Inv
<1>2. /\ op.step \in {"send", "undo"} /\ Up /\ dm.mode = "ready"
      /\ UNCHANGED <<alive, spawned, bg, dm, disk, job, gui, saved, rec, hist>>
  BY DEF Send, Sends, Up, Serving
<1>3. /\ op' \in OpSet /\ op'.kind = op.kind
      /\ op'.step = IF op.step = "undo" THEN "undoing" ELSE "call"
  BY <1>1 DEF Types, DesktopTypes, OpSet, Send
<1>4. PICK c : c = [kind |-> Command, from |-> "op"]
  OBVIOUS
<1>5. c \in Commands /\ c.kind = Command /\ c.from = "op" /\ pending' = pending \cup {c}
  BY <1>4 DEF Commands, Command, Send
<1>6. c.kind = IF Starting' THEN "start" ELSE "stop"
  BY <1>1, <1>2, <1>3, <1>5 DEF Command, Starting, Types, DesktopTypes, OpSet
<1>7. /\ \A d \in pending : d.from # "op"
      /\ job.from # "op"
  BY <1>1, <1>2 DEF Bound, Linked, Calling
<1>8. hist.intent = "none"
  BY <1>1, <1>2 DEF Bound, Silent, Early
<1>9. InTable'
  BY <1>1, <1>2 DEF Bound, InTable, Live, Up, Serving
<1>10. Working'
  BY <1>1, <1>2 DEF Bound, Working, Up, Serving, Held
<1>11. Linked'
  BY <1>1, <1>2, <1>3, <1>5, <1>6, <1>7 DEF Bound, Linked, Calling, Updates
<1>12. Silent' /\ Promised'
  BY <1>2, <1>8 DEF Silent, Promised
<1>13. Types'
  BY <1>1, <1>2, <1>3, <1>5 DEF Types, Processes, DaemonTypes, DesktopTypes
<1> QED BY <1>9, <1>10, <1>11, <1>12, <1>13 DEF Inv, Bound

\* The answer: what it promises is in the file by then.
LEMMA ReplyInv == ASSUME Inv, Reply PROVE Inv'
<1>1. Types /\ Bound
  BY DEF Inv
<1>2. /\ job.step = "reply" /\ job' = NoJob
      /\ UNCHANGED <<alive, spawned, bg, dm, disk, pending, gui, saved, rec>>
  BY DEF Reply
<1>3. job.from = "op" /\ Calling /\ job.kind = (IF Starting THEN "start" ELSE "stop")
  BY <1>1, <1>2 DEF Bound, Working, Linked
<1>4. \A c \in pending : c.from # "op"
  BY <1>1, <1>3 DEF Bound, Linked
<1>5. op' \in OpSet /\ op'.step \in {"unrun", "insert", "none"}
  BY <1>1, PidFields, AnsweredOp DEF Reply, Types, DaemonTypes, DesktopTypes, JobSet
<1>6. Told \in {"none", "on", "off"}
  BY DEF Told
<1>7. hist' \in HistSet /\ hist'.stray = hist.stray /\ hist'.intent = Told
  BY <1>1, <1>6, HistPromise DEF Reply, Types
<1>8. Told # "none" => /\ job.ok /\ op.step = "call"
                       /\ \A c \in pending : c.from \in Updates
  BY <1>1, <1>3, <1>4 DEF Told, Calling, Types, DaemonTypes, Commands, Shutdowns, Quits
<1>9. Told = "on" => op.kind # "stop"
  BY DEF Told
<1>10. Told = "off" => op.kind = "stop" /\ \A c \in pending : c.kind # "start"
  BY DEF Told
<1>11. Up
  BY <1>1, <1>2, Idle DEF Bound, Working
<1>12. InTable'
  BY <1>1, <1>2, <1>7 DEF Bound, InTable, Live, Up, Serving
<1>13. Working'
  BY <1>2, <1>11, Idle DEF Working, Up, Serving
<1>14. Linked'
  BY <1>1, <1>2, <1>4, Idle DEF Bound, Linked
<1>15. Silent'
  BY <1>2, <1>5, <1>7, <1>8, Idle DEF Silent, Early, Careful
<1>16. Promised'
  <2>1. CASE Told = "none"
    BY <1>7, <2>1 DEF Promised
  <2>2. CASE Told = "on"
    <3>1. disk = Held /\ dm.desired
      BY <1>1, <1>2, <1>3, <1>8, <1>9, <2>2 DEF Bound, Working, Starting
    <3>2. disk.desired
      BY <3>1 DEF Held
    <3> QED BY <1>2, <1>7, <2>2, <3>1, <3>2, Idle DEF Promised
  <2>3. CASE Told = "off"
    <3>1. disk = Held /\ dm.running = None /\ ~dm.desired
      BY <1>1, <1>2, <1>3, <1>8, <1>10, <2>3 DEF Bound, Working, Starting
    <3>2. ~disk.desired /\ disk.running = None
      BY <3>1 DEF Held
    <3> QED BY <1>2, <1>7, <1>10, <2>3, <3>1, <3>2 DEF Promised
  <2> QED BY <1>6, <2>1, <2>2, <2>3
<1>17. Types'
  BY <1>1, <1>2, <1>5, <1>7, Idle DEF Types, Processes, DaemonTypes, DesktopTypes
<1> QED BY <1>12, <1>13, <1>14, <1>15, <1>16, <1>17 DEF Inv, Bound

LEMMA AnswerTimesOutInv == ASSUME Inv, AnswerTimesOut PROVE Inv'
<1>1. Types
  BY DEF Inv
<1>2. hist' \in HistSet /\ hist'.stray = hist.stray /\ hist'.intent = hist.intent
  BY <1>1, HistEdits DEF Types, AnswerTimesOut
<1>3. op' \in OpSet /\ op'.step \notin {"call", "undoing"} /\ (op'.step \in Early => op.step \in Early)
  BY <1>1, PidFields, AnsweredOp DEF AnswerTimesOut, Types, DesktopTypes, Early
<1>4. /\ SameTable /\ job' = Disown(job) /\ pending' = Orphaned
      /\ UNCHANGED <<alive, spawned, bg, dm, disk, saved, rec>>
  BY DEF AnswerTimesOut, SameTable
<1>5. Bound' /\ job' \in JobSet /\ pending' \subseteq Commands
  BY <1>2, <1>3, <1>4, Disowned DEF Withdrawn
<1>6. gui' \in GuiSet
  BY <1>1, LeaseGui DEF AnswerTimesOut, Types, DesktopTypes
<1>7. Types'
  BY <1>1, <1>2, <1>3, <1>4, <1>5, <1>6 DEF Types, Processes, DaemonTypes, DesktopTypes
<1> QED BY <1>5, <1>7 DEF Inv

-----------------------------------------------------------------------------
(* The desktop process goes *)

LEMMA ExitInv ==
    ASSUME Inv, Exit, alive' \subseteq alive, saved' \in 0..MaxPid,
           hist' \in HistSet, Withdrawn
    PROVE  Inv'
<1>1. Types
  BY DEF Inv
<1>2. /\ op' = NoOp /\ rec' = [c \in Callers |-> NoRec] /\ job' = Disown(job) /\ pending' = Orphaned
      /\ dm' = [dm EXCEPT !.gone = Up] /\ UNCHANGED <<spawned, bg, disk>>
  BY DEF Exit
<1>3. PICK b \in BOOLEAN : dm' = [dm EXCEPT !.gone = b]
  BY <1>2 DEF Up, Serving
<1>4. dm' \in DmSet /\ dm'.mode = dm.mode /\ dm'.desired = dm.desired /\ dm'.running = dm.running
  BY <1>1, <1>3 DEF Types, DaemonTypes, DmSet
<1>5. gui' \in GuiSet
  <2>1. PICK z \in 0..MaxPid : z = None
    BY DEF None
  <2>2. Fresh(None, FALSE) = [up |-> TRUE, running |-> z, managed |-> FALSE, new |-> TRUE, lease |-> "none"]
    BY <2>1 DEF Fresh
  <2>3. [up |-> TRUE, running |-> z, managed |-> FALSE, new |-> TRUE, lease |-> "none"] \in GuiSet
    BY DEF GuiSet
  <2> QED BY <2>2, <2>3 DEF Exit, GuiSet
<1>6. SameTable
  BY <1>2, <1>4 DEF SameTable
<1>7. Bound' /\ job' \in JobSet /\ pending' \subseteq Commands
  BY <1>2, <1>6, Idle, Disowned DEF Early
<1>8. Types'
  BY <1>1, <1>2, <1>4, <1>5, <1>7, Idle DEF Types, Processes, DaemonTypes, DesktopTypes
<1> QED BY <1>7, <1>8 DEF Inv

LEMMA GuiExitsInv == ASSUME Inv, GuiExits PROVE Inv'
<1>1. Types
  BY DEF Inv
<1>2. hist' \in HistSet /\ Withdrawn
  BY <1>1, HistEdits DEF Types, MayOrder, GuiExits, Withdrawn
<1>3. saved' \in 0..MaxPid
  BY <1>1, PidFields DEF GuiExits
<1> QED BY <1>2, <1>3, ExitInv DEF GuiExits

LEMMA GuiCrashInv == ASSUME Inv, GuiCrash PROVE Inv'
<1>1. Types
  BY DEF Inv
<1>2. hist' \in HistSet /\ Withdrawn
  BY <1>1, HistEdits DEF Types, GuiCrash, Withdrawn
<1>3. saved' \in 0..MaxPid
  BY <1>1, PidFields DEF GuiCrash
<1> QED BY <1>2, <1>3, ExitInv DEF GuiCrash

LEMMA QuitEndsInv == ASSUME Inv, QuitEnds PROVE Inv'
<1>1. Types
  BY DEF Inv
<1>2. hist' \in HistSet /\ Withdrawn
  BY <1>1, HistEdits DEF Types, QuitEnds, Withdrawn
<1>3. saved' \in 0..MaxPid /\ alive' \subseteq alive
  BY <1>1, PidFields DEF QuitEnds
<1> QED BY <1>2, <1>3, ExitInv DEF QuitEnds

LEMMA UpdateEndsInv == ASSUME Inv, UpdateEnds PROVE Inv'
<1>1. Types
  BY DEF Inv
<1>2. UNCHANGED <<alive, saved, hist>>
  BY DEF UpdateEnds
<1>3. CASE Exit
  <2>1. hist' \in HistSet /\ Withdrawn /\ saved' \in 0..MaxPid
    BY <1>1, <1>2, PidFields DEF Types, Withdrawn
  <2> QED BY <1>2, <1>3, <2>1, ExitInv
<1>4. CASE gui' = [gui EXCEPT !.lease = "none"] /\ UNCHANGED <<spawned, bg, daemon, op, rec>>
  <2>1. gui' \in GuiSet
    BY <1>1, <1>4 DEF Types, DesktopTypes, GuiSet
  <2>2. SameTable /\ pending' = pending /\ job' = job /\ Withdrawn /\ Onward
    BY <1>2, <1>4 DEF daemon, SameTable, Withdrawn, Onward
  <2>3. Types'
    BY <1>1, <1>2, <1>4, <2>1, <2>2 DEF daemon, Types, Processes, DaemonTypes, DesktopTypes
  <2> QED BY <2>2, <2>3, Aside DEF Inv
<1> QED BY <1>3, <1>4 DEF UpdateEnds

-----------------------------------------------------------------------------
(* The daemon: starts *)

UpModes == {"restart", "relaunch", "ready", "retiring"}

LEMMA NextMode ==
    ASSUME Up, NEW j
    PROVE  ModeAfter(j) \in UpModes
BY DEF Up, Serving, ModeAfter, UpModes

LEMMA ModeEdit ==
    ASSUME NEW d \in DmSet, NEW m \in UpModes, NEW e, e = [d EXCEPT !.mode = m]
    PROVE  e \in DmSet /\ e.mode = m /\ e.running = d.running /\ e.desired = d.desired
BY DEF DmSet, Modes, UpModes

LEMMA SameCommand ==
    ASSUME NEW c \in Commands, NEW d \in Commands, c.kind = d.kind, c.from = d.from
    PROVE  c = d
BY DEF Commands

\* A command of the desktop process is taken once.
LEMMA TakenOnce ==
    ASSUME Inv, NEW c \in pending, c.from = "op"
    PROVE  /\ Calling /\ job.from # "op" /\ c.kind = (IF Starting THEN "start" ELSE "stop")
           /\ \A d \in pending \ {c} : d.from # "op"
<1>1. Linked /\ pending \subseteq Commands
  BY DEF Inv, Bound, Types, DaemonTypes
<1>2. Calling /\ job.from # "op" /\ c.kind = (IF Starting THEN "start" ELSE "stop")
  BY <1>1 DEF Linked
<1>3. ASSUME NEW d \in pending \ {c}, d.from = "op" PROVE FALSE
  <2>1. d.kind = c.kind
    BY <1>1, <1>2, <1>3 DEF Linked
  <2> QED BY <1>1, <1>3, <2>1, SameCommand
<1> QED BY <1>2, <1>3

\* A job on behalf of f is under way, in the place of the command it was.
Taken(f) ==
    /\ pending' \subseteq pending
    /\ f = "op" => Calling /\ \A c \in pending' : c.from # "op"
    /\ op' = op

LEMMA TakenLinked ==
    ASSUME Inv, NEW f \in Froms, Taken(f), job'.from = f \/ job'.from = "none",
           job'.from = "op" => job'.kind = (IF Starting THEN "start" ELSE "stop")
    PROVE  Linked'
<1>1. Linked
  BY DEF Inv, Bound
<1> QED BY <1>1 DEF Linked, Taken, Calling, Starting

LEMMA TakenSilent ==
    ASSUME Inv, NEW f \in Froms, Taken(f), job'.from = f \/ job'.from = "none",
           hist'.intent = hist.intent \/ hist'.intent = "none", hist.intent = "none" \/ f \in Careful
    PROVE  Silent'
<1>1. Silent
  BY DEF Inv, Bound
<1> QED BY <1>1 DEF Silent, Taken, Early, Careful

\* start_instance_locked, by whomever: it starts a process when none of the
\* instance is left, and nothing at all when it fails.
LEMMA LaunchInv ==
    ASSUME Inv, Up, NEW f \in Froms, f # "none", Launch(f), Taken(f),
           f = "op" => Starting, hist.intent = "none" \/ f \in Careful, hist.intent # "off",
           UNCHANGED <<bg, saved, op, rec>>
    PROVE  Inv'
<1>1. Types /\ Bound
  BY DEF Inv
<1>2. PICK p : p = spawned + 1
  OBVIOUS
<1>3. /\ spawned < MaxPid /\ dm.running \notin alive
      /\ spawned' = p /\ alive' = alive \cup {p}
      /\ dm' = [dm EXCEPT !.desired = TRUE, !.running = p]
      /\ job' = [NoJob EXCEPT !.kind = "start", !.step = "persist", !.pid = p, !.from = f]
      /\ UNCHANGED <<disk, gui, hist>>
  BY <1>2 DEF Launch, StartRefused
<1>4. p \in 0..MaxPid /\ p # None /\ Processes'
  BY <1>1, <1>2, <1>3 DEF Types, Processes, None
<1>5. /\ job' \in JobSet /\ job'.kind = "start" /\ job'.step = "persist" /\ job'.pid = p
      /\ job'.from = f /\ job'.ok = FALSE
  <2>1. PICK j : j = [NoJob EXCEPT !.kind = "start", !.step = "persist", !.pid = p, !.from = f]
    OBVIOUS
  <2>2. j \in JobSet /\ j.kind = "start" /\ j.step = "persist" /\ j.pid = p /\ j.from = f /\ j.ok = FALSE
    <3>1. p \in 0..MaxPid
      BY <1>4
    <3>2. [NoJob EXCEPT !.kind = "start", !.step = "persist", !.pid = p, !.from = f] \in JobSet
      BY <3>1, Idle DEF JobSet
    <3> QED BY <2>1, <3>2, Idle DEF JobSet
  <2> QED BY <1>3, <2>1, <2>2
<1>7. dm' \in DmSet /\ dm'.mode = dm.mode /\ dm'.running = p /\ dm'.desired = TRUE
  <2>1. p \in 0..MaxPid /\ dm \in DmSet /\ TRUE \in BOOLEAN
    BY <1>1, <1>4 DEF Types, DaemonTypes
  <2>2. /\ [dm EXCEPT !.desired = TRUE, !.running = p] \in DmSet
        /\ [dm EXCEPT !.desired = TRUE, !.running = p].mode = dm.mode
        /\ [dm EXCEPT !.desired = TRUE, !.running = p].running = p
        /\ [dm EXCEPT !.desired = TRUE, !.running = p].desired = TRUE
    BY <2>1 DEF DmSet
  <2> QED BY <1>3, <2>2
<1>8. Up'
  BY <1>7 DEF Up, Serving
<1>9. InTable'
  BY <1>1, <1>3, <1>5, <1>7, <1>8 DEF Bound, InTable, Live
<1>10. Working'
  BY <1>4, <1>5, <1>7, <1>8 DEF Working
<1>11. Linked' /\ Silent'
  BY <1>3, <1>5, TakenLinked, TakenSilent DEF Taken
<1>12. Promised'
  BY <1>1, <1>3, <1>7 DEF Bound, Promised
<1>13. Types'
  BY <1>1, <1>3, <1>4, <1>5, <1>7 DEF Types, DaemonTypes, DesktopTypes, Taken
<1> QED BY <1>9, <1>10, <1>11, <1>12, <1>13 DEF Inv, Bound

LEMMA LaunchFailsInv ==
    ASSUME Inv, Up, NEW f \in Froms, f # "none", LaunchFails(f), Taken(f),
           f = "op" => Starting, hist.intent = "none" \/ f \in Careful, hist.intent # "off",
           ~(job.kind = "start" /\ job.step \in {"persist", "rollback"}),
           UNCHANGED <<bg, saved, op, rec>>
    PROVE  Inv'
<1>1. Types /\ Bound
  BY DEF Inv
<1>2. PICK j : j = [NoJob EXCEPT !.kind = "start", !.from = f]
  OBVIOUS
<1>3. j \in JobSet /\ j.kind = "start" /\ j.from = f
  BY <1>2, FailedJob
<1>4. PICK m : m = ModeAfter(j)
  OBVIOUS
<1>5. /\ job' = Over(j, FALSE) /\ dm' = [dm EXCEPT !.mode = m]
      /\ gui' \in GuiSet /\ UNCHANGED <<alive, spawned, disk>>
  BY <1>1, <1>2, <1>4, LeaseGui DEF LaunchFails, Ends, Types, DesktopTypes
<1>6. m \in UpModes
  BY <1>4, NextMode
<1>7. dm' \in DmSet /\ dm'.mode \in UpModes /\ dm'.running = dm.running /\ dm'.desired = dm.desired
  BY <1>1, <1>5, <1>6, ModeEdit DEF Types, DaemonTypes
<1>8. /\ job' \in JobSet
      /\ f = "op" => /\ job'.step = "reply" /\ job'.from = "op" /\ job'.ok = FALSE /\ job'.kind = "start"
      /\ f # "op" => job' = NoJob
  BY <1>3, <1>5, OverJob
<1>9. hist' \in HistSet /\ hist'.stray = hist.stray /\ hist'.intent = hist.intent
  BY <1>1, HistEdits DEF LaunchFails, Types
<1>10. Up'
  BY <1>7 DEF Up, Serving, UpModes
<1>11. InTable'
  BY <1>1, <1>5, <1>7, <1>9, <1>10 DEF Bound, InTable, Live
<1>12. Working'
  BY <1>8, <1>10, Idle DEF Working
<1>13. Linked' /\ Silent'
  BY <1>8, <1>9, Idle, TakenLinked, TakenSilent DEF Taken
<1>14. Promised'
  BY <1>1, <1>5, <1>7, <1>8, <1>9, Idle DEF Bound, Promised
<1>15. Types'
  BY <1>1, <1>5, <1>7, <1>8, <1>9 DEF Types, Processes, DaemonTypes, DesktopTypes, Taken
<1> QED BY <1>11, <1>12, <1>13, <1>14, <1>15 DEF Inv, Bound

LEMMA TakeStartInv == ASSUME Inv, TakeStart PROVE Inv'
<1>1. Types /\ Bound
  BY DEF Inv
<1>2. PICK c \in pending : /\ c.kind = "start" /\ Serving /\ job = NoJob
                           /\ Launch(c.from) \/ LaunchFails(c.from)
                           /\ pending' = pending \ {c} /\ UNCHANGED <<bg, saved, op, rec>>
  BY DEF TakeStart
<1>3. PICK f : f = c.from
  OBVIOUS
<1>4. f \in Froms /\ f # "none"
  BY <1>1, <1>3 DEF Types, DaemonTypes, Commands, Froms, Shutdowns, Updates, Quits
<1>5. Taken(f) /\ (f = "op" => Starting)
  BY <1>2, <1>3, TakenOnce DEF Taken
<1>6. hist.intent = "none" \/ f \in Careful
  BY <1>1, <1>3 DEF Bound, Silent, Careful
<1>7. hist.intent # "off"
  BY <1>1, <1>2 DEF Bound, Promised
<1>8. Up /\ ~(job.kind = "start" /\ job.step \in {"persist", "rollback"})
  BY <1>2, Idle DEF Up
<1> QED BY <1>2, <1>3, <1>4, <1>5, <1>6, <1>7, <1>8, LaunchInv, LaunchFailsInv

LEMMA RecoverStartsInv == ASSUME Inv, RecoverStarts PROVE Inv'
<1>1. Types /\ Bound
  BY DEF Inv
<1>2. /\ job.kind = "start" /\ job.step = "spawn" /\ (Launch(job.from) \/ LaunchFails(job.from))
      /\ UNCHANGED <<bg, pending, saved, op, rec>>
  BY DEF RecoverStarts
<1>3. PICK f : f = job.from
  OBVIOUS
<1>4. f \in Froms /\ f # "none"
  BY <1>1, <1>2, <1>3, Idle DEF Bound, Working, Types, DaemonTypes, JobSet
<1>5. Taken(f) /\ (f = "op" => Starting)
  BY <1>1, <1>2, <1>3 DEF Bound, Linked, Taken
<1>6. hist.intent = "none" \/ f \in Careful
  BY <1>1, <1>3 DEF Bound, Silent
<1>7. hist.intent # "off"
  BY <1>1, <1>2, Idle DEF Bound, Promised
<1>8. Up
  BY <1>1, <1>2, Idle DEF Bound, Working
<1> QED BY <1>2, <1>3, <1>4, <1>5, <1>6, <1>7, <1>8, LaunchInv, LaunchFailsInv

\* The holder of the mutex is known to the operation it works for.
LEMMA Holding ==
    ASSUME Inv, pending' = pending, op' = op
    PROVE  /\ job.from \in Froms /\ Taken(job.from)
           /\ job.from = "op" => job.kind = (IF Starting THEN "start" ELSE "stop")
           /\ hist.intent = "none" \/ job.from \in Careful
<1>1. Types /\ Bound
  BY DEF Inv
<1>2. job.from \in Froms
  BY <1>1 DEF Types, DaemonTypes, JobSet
<1>3. /\ Taken(job.from)
      /\ job.from = "op" => job.kind = (IF Starting THEN "start" ELSE "stop")
  BY <1>1 DEF Bound, Linked, Taken
<1>4. hist.intent = "none" \/ job.from \in Careful
  BY <1>1 DEF Bound, Silent
<1> QED BY <1>2, <1>3, <1>4

\* The mode a job leaves behind; the table itself stays.
LEMMA ModeKept ==
    ASSUME Inv, Up, NEW j, dm' = [dm EXCEPT !.mode = ModeAfter(j)]
    PROVE  dm' \in DmSet /\ dm'.running = dm.running /\ dm'.desired = dm.desired /\ Up'
<1>1. PICK m : m = ModeAfter(j)
  OBVIOUS
<1>2. m \in UpModes
  BY <1>1, NextMode
<1>3. dm \in DmSet
  BY DEF Inv, Types, DaemonTypes
<1>4. dm' \in DmSet /\ dm'.mode \in UpModes /\ dm'.running = dm.running /\ dm'.desired = dm.desired
  BY <1>1, <1>2, <1>3, ModeEdit
<1> QED BY <1>4 DEF Up, Serving, UpModes

LEMMA HeldType ==
    ASSUME Types
    PROVE  Held \in DiskSet /\ Held.desired = dm.desired /\ Held.running = dm.running
BY DEF Types, DaemonTypes, DmSet, DiskSet, Held

LEMMA StartPersistedInv == ASSUME Inv, StartPersisted PROVE Inv'
<1>1. Types /\ Bound
  BY DEF Inv
<1>2. /\ job.kind = "start" /\ job.step = "persist" /\ disk' = Held
      /\ dm' = [dm EXCEPT !.mode = ModeAfter(job)]
      /\ job' = Over(job, TRUE)
      /\ UNCHANGED <<alive, spawned, bg, pending, saved, op, rec, hist>>
  BY DEF StartPersisted, Ends
<1>3. gui' \in GuiSet
  BY <1>1, LeaseGui DEF StartPersisted, Ends, Types, DesktopTypes
<1>4. Up /\ dm.running = job.pid /\ dm.running # None /\ dm.desired
  BY <1>1, <1>2, Idle DEF Bound, Working
<1>5. dm' \in DmSet /\ dm'.running = dm.running /\ dm'.desired = dm.desired /\ Up'
  BY <1>2, <1>4, ModeKept
<1>6. disk' \in DiskSet /\ disk' = Held' /\ disk'.running = dm.running /\ disk'.desired = TRUE
  BY <1>1, <1>2, <1>4, <1>5, HeldType DEF Held
<1>7. /\ job' \in JobSet
      /\ job.from = "op" => job'.step = "reply" /\ job'.from = "op" /\ job'.kind = "start"
      /\ job.from # "op" => job' = NoJob
  BY <1>1, <1>2, OverJob DEF Types, DaemonTypes
<1>8. InTable'
  BY <1>1, <1>2, <1>4, <1>5, <1>6 DEF Bound, InTable, Live
<1>9. Working'
  BY <1>4, <1>5, <1>6, <1>7, Idle DEF Working
<1>10. Linked' /\ Silent'
  BY <1>2, <1>7, Idle, Holding, TakenLinked, TakenSilent
<1>11. Promised'
  BY <1>1, <1>2, <1>4, <1>5, <1>6, Idle DEF Bound, Promised
<1>12. Types'
  BY <1>1, <1>2, <1>3, <1>5, <1>6, <1>7 DEF Types, Processes, DaemonTypes, DesktopTypes
<1> QED BY <1>8, <1>9, <1>10, <1>11, <1>12 DEF Inv, Bound

LEMMA StartUnsavedInv == ASSUME Inv, StartUnsaved PROVE Inv'
<1>1. Types /\ Bound
  BY DEF Inv
<1>2. /\ job.kind = "start" /\ job.step = "persist" /\ alive' \subseteq alive
      /\ dm' = dm /\ disk' \in {disk, Held}
      /\ job' = [job EXCEPT !.step = "rollback"]
      /\ UNCHANGED <<spawned, bg, pending, gui, saved, op, rec>>
  BY DEF StartUnsaved, Unsaved, Held, desktop
<1>3. hist' \in HistSet /\ hist'.stray = hist.stray /\ hist'.intent = hist.intent
  BY <1>1, HistEdits DEF StartUnsaved, Types
<1>4. Up /\ Up' /\ dm.running = job.pid /\ dm.running # None /\ dm.desired
  BY <1>1, <1>2, Idle DEF Bound, Working, Up, Serving
<1>5. disk' \in DiskSet /\ (disk' = disk \/ (disk'.running = dm.running /\ disk'.desired = TRUE))
  BY <1>1, <1>2, <1>4, HeldType DEF Types, DaemonTypes
<1>6. /\ job' \in JobSet /\ job'.kind = "start" /\ job'.step = "rollback"
      /\ job'.pid = job.pid /\ job'.from = job.from
  BY <1>1, <1>2 DEF Types, DaemonTypes, JobSet
<1>7. InTable'
  BY <1>1, <1>2, <1>3, <1>4, <1>6 DEF Bound, InTable, Live
<1>8. Working'
  BY <1>1, <1>2, <1>4, <1>6 DEF Bound, Working
<1>9. Linked' /\ Silent'
  BY <1>2, <1>3, <1>6, Holding, TakenLinked, TakenSilent
<1>10. Promised'
  BY <1>1, <1>2, <1>3, <1>4, <1>5, <1>6, Idle DEF Bound, Promised
<1>11. Types'
  BY <1>1, <1>2, <1>3, <1>5, <1>6 DEF Types, Processes, DaemonTypes, DesktopTypes
<1> QED BY <1>7, <1>8, <1>9, <1>10, <1>11 DEF Inv, Bound

LEMMA StartRolledBackInv == ASSUME Inv, StartRolledBack PROVE Inv'
<1>1. Types /\ Bound
  BY DEF Inv
<1>2. /\ job.kind = "start" /\ job.step = "rollback" /\ job.pid \notin alive
      /\ job' = Over(job, FALSE)
      /\ UNCHANGED <<alive, spawned, bg, disk, pending, saved, op, rec, hist>>
  BY DEF StartRolledBack, Ends
<1>3. gui' \in GuiSet
  BY <1>1, LeaseGui DEF StartRolledBack, Ends, Types, DesktopTypes
<1>4. Up /\ dm.running = job.pid
  BY <1>1, <1>2, Idle DEF Bound, Working
<1>5. PICK m, z : m = ModeAfter(job) /\ z = None
  OBVIOUS
<1>6. m \in UpModes /\ m \in Modes /\ z \in 0..MaxPid
  BY <1>4, <1>5, NextMode DEF UpModes, Modes, None
<1>7. dm' = [dm EXCEPT !.desired = FALSE, !.running = z, !.mode = m]
  BY <1>5 DEF StartRolledBack
<1>8. dm' \in DmSet /\ dm'.mode = m /\ dm'.running = z /\ dm'.desired = FALSE
  BY <1>1, <1>6, <1>7 DEF Types, DaemonTypes, DmSet
<1>9. Up' /\ dm'.running = None
  BY <1>5, <1>6, <1>8 DEF Up, Serving, UpModes
<1>10. /\ job' \in JobSet
       /\ job.from = "op" => job'.step = "reply" /\ job'.from = "op" /\ job'.kind = "start" /\ job'.ok = FALSE
       /\ job.from # "op" => job' = NoJob
  BY <1>1, <1>2, OverJob DEF Types, DaemonTypes
<1>11. InTable'
  BY <1>1, <1>2, <1>4, <1>9 DEF Bound, InTable, Live
<1>12. Working'
  BY <1>9, <1>10, Idle DEF Working
<1>13. Linked' /\ Silent'
  BY <1>2, <1>10, Idle, Holding, TakenLinked, TakenSilent
<1>14. Promised'
  BY <1>1, <1>2, <1>9, <1>10, Idle DEF Bound, Promised
<1>15. Types'
  BY <1>1, <1>2, <1>3, <1>8, <1>10 DEF Types, Processes, DaemonTypes, DesktopTypes
<1> QED BY <1>11, <1>12, <1>13, <1>14, <1>15 DEF Inv, Bound

LEMMA RestoreMissingInv == ASSUME Inv, RestoreMissing PROVE Inv'
<1>1. Types /\ Bound
  BY DEF Inv
<1>2. dm.mode = "relaunch" /\ job = NoJob /\ Up /\ UNCHANGED <<bg, pending, saved, op, rec>>
  BY DEF RestoreMissing, Up
<1>3. CASE dm.desired /\ dm.running \notin alive /\ (Launch("restore") \/ LaunchFails("restore"))
  <2>1. PICK f \in Froms : f = "restore" /\ f # "none"
    BY DEF Froms
  <2>2. Taken(f) /\ f # "op" /\ f \in Careful
    BY <1>2, <2>1 DEF Taken, Careful
  <2>3. hist.intent # "off"
    BY <1>1, <1>2, <1>3 DEF Bound, Promised
  <2>4. ~(job.kind = "start" /\ job.step \in {"persist", "rollback"})
    BY <1>2, Idle
  <2> QED BY <1>2, <1>3, <2>1, <2>2, <2>3, <2>4, LaunchInv, LaunchFailsInv
<1>4. CASE dm' = [dm EXCEPT !.mode = "ready"] /\ UNCHANGED <<alive, spawned, disk, job, gui, hist>>
  <2>1. dm' \in DmSet /\ dm'.mode = "ready" /\ dm'.running = dm.running /\ dm'.desired = dm.desired
    BY <1>1, <1>4 DEF Types, DaemonTypes, DmSet, Modes
  <2>2. Up'
    BY <2>1 DEF Up, Serving
  <2>3. InTable'
    BY <1>1, <1>2, <1>4, <2>1, <2>2 DEF Bound, InTable, Live
  <2>4. Working'
    BY <1>2, <1>4, <2>2, Idle DEF Working
  <2>5. Linked' /\ Silent' /\ Promised'
    BY <1>1, <1>2, <1>4, <2>1 DEF Bound, Linked, Calling, Starting, Silent, Promised
  <2>6. Types'
    BY <1>1, <1>2, <1>4, <2>1 DEF Types, Processes, DaemonTypes, DesktopTypes
  <2> QED BY <2>3, <2>4, <2>5, <2>6 DEF Inv, Bound
<1> QED BY <1>3, <1>4 DEF RestoreMissing

-----------------------------------------------------------------------------
(* The daemon: stops *)

LEMMA Stopped ==
    ASSUME NEW t \in DmSet, NEW d \in BOOLEAN, NEW e, e = [t EXCEPT !.desired = d, !.running = None]
    PROVE  e \in DmSet /\ e.mode = t.mode /\ e.running = None /\ e.desired = d
<1>1. PICK z \in 0..MaxPid : z = None
  BY DEF None
<1>2. e = [t EXCEPT !.desired = d, !.running = z]
  BY <1>1
<1> QED BY <1>1, <1>2 DEF DmSet

\* Pids start at 1: nothing runs when the table has no entry.
LEMMA NoneRuns ==
    ASSUME Inv
    PROVE  None \notin alive
BY DEF Inv, Types, Processes, None

\* The stop of a process, on behalf of whomever, begins.
LEMMA StoppingInv ==
    ASSUME Inv, Up, dm.running # None, job = NoJob, NEW f \in Froms, f # "none", Taken(f),
           job' = StopJob(f), f = "op" => ~Starting,
           hist' \in HistSet, Withdrawn, hist'.intent = "none" \/ f \in Careful,
           UNCHANGED <<alive, spawned, bg, dm, disk, gui, saved, rec>>
    PROVE  Inv'
<1>1. Types /\ Bound
  BY DEF Inv
<1>2. /\ job' \in JobSet /\ job'.kind = "stop" /\ job'.step = "kill" /\ job'.from = f
      /\ job'.pid = dm.running
  BY <1>1, StoppingJob DEF Types, DaemonTypes
<1>3. Up'
  BY DEF Up, Serving
<1>4. InTable'
  BY <1>1, <1>3, Idle DEF Bound, InTable, Live, Withdrawn
<1>5. Working'
  BY <1>2, <1>3 DEF Working
<1>6. Linked'
  BY <1>2, TakenLinked
<1>7. Silent'
  BY <1>1, <1>2 DEF Bound, Silent, Taken, Early, Careful, Withdrawn
<1>8. Promised'
  BY <1>1, <1>2 DEF Bound, Promised, Withdrawn
<1>9. Types'
  BY <1>1, <1>2 DEF Types, Processes, DaemonTypes, DesktopTypes, Taken
<1> QED BY <1>4, <1>5, <1>6, <1>7, <1>8, <1>9 DEF Inv, Bound

\* A command to stop is the user's, or of one that no longer waits.
LEMMA TakeStopInv == ASSUME Inv, TakeStop PROVE Inv'
<1>1. Types /\ Bound
  BY DEF Inv
<1>2. PICK c \in pending : /\ c.kind = "stop" /\ Serving /\ job = NoJob
                           /\ pending' = pending \ {c}
                           /\ \/ /\ dm.running # None
                                 /\ job' = StopJob(c.from)
                                 /\ UNCHANGED <<dm, disk, hist>>
                              \/ /\ dm.running = None
                                 /\ dm' = [dm EXCEPT !.desired = FALSE]
                                 /\ \/ /\ disk' = Held' /\ job' = Over(StopJob(c.from), TRUE)
                                       /\ UNCHANGED hist
                                    \/ /\ Fault /\ hist' = Faulty /\ Unsaved
                                       /\ job' = Over(StopJob(c.from), FALSE)
                           /\ UNCHANGED <<alive, spawned, bg, gui, saved, op, rec>>
  BY DEF TakeStop, desktop
<1>3. PICK f : f = c.from
  OBVIOUS
<1>4. f \in Froms /\ f # "none" /\ f # "recover"
  BY <1>1, <1>3 DEF Types, DaemonTypes, Commands, Froms, Shutdowns, Updates, Quits
<1>5. Taken(f) /\ (f = "op" => ~Starting)
  BY <1>2, <1>3, TakenOnce DEF Taken
<1>6. hist.intent = "none" /\ Up
  BY <1>1, <1>2 DEF Bound, Silent, Linked, Up
<1>7. CASE dm.running # None
  <2>1. hist' \in HistSet /\ Withdrawn /\ hist'.intent = "none"
    BY <1>1, <1>2, <1>6, <1>7 DEF Types, Withdrawn
  <2> QED BY <1>2, <1>3, <1>4, <1>5, <1>6, <1>7, <2>1, StoppingInv
<1>8. CASE dm.running = None
  <2>1. dm' \in DmSet /\ dm'.mode = dm.mode /\ dm'.running = None /\ dm'.desired = FALSE
    BY <1>1, <1>2, <1>8 DEF Types, DaemonTypes, DmSet
  <2>2. Held' \in DiskSet /\ disk' \in DiskSet
    <3>1. Held' = [desired |-> dm'.desired, running |-> dm'.running]
      BY DEF Held
    <3>2. Held' \in DiskSet
      BY <2>1, <3>1 DEF DmSet, DiskSet
    <3> QED BY <1>1, <1>2, <1>8, <3>2 DEF Unsaved, Types, DaemonTypes
  <2>3. hist' \in HistSet /\ hist'.stray = hist.stray /\ hist'.intent = "none"
    BY <1>1, <1>2, <1>6, HistEdits DEF Types
  <2>4. PICK j, ok : /\ j = StopJob(f) /\ ok \in BOOLEAN /\ job' = Over(j, ok)
                     /\ ok => disk' = Held'
    BY <1>2, <1>3, <1>8
  <2>5. j \in JobSet /\ j.kind = "stop" /\ j.from = f
    BY <1>1, <1>4, <2>4, StoppingJob DEF Types, DaemonTypes
  <2>6. /\ job' \in JobSet
        /\ f = "op" => /\ job'.step = "reply" /\ job'.from = "op" /\ job'.kind = "stop"
                       /\ job'.ok => disk' = Held'
        /\ f # "op" => job' = NoJob
    BY <1>4, <2>4, <2>5, OverJob
  <2>7. Up'
    BY <1>6, <2>1 DEF Up, Serving
  <2>8. InTable'
    BY <1>1, <1>2, <1>6, <1>8, <2>3, <2>7, NoneRuns DEF Bound, InTable, Live
  <2>9. Working'
    BY <2>1, <2>6, <2>7, Idle DEF Working
  <2>10. Linked'
    BY <1>4, <1>5, <2>6, Idle, TakenLinked
  <2>11. Silent' /\ Promised'
    BY <2>3 DEF Silent, Promised
  <2>12. Types'
    BY <1>1, <1>2, <2>1, <2>2, <2>3, <2>6 DEF Types, Processes, DaemonTypes, DesktopTypes
  <2> QED BY <2>8, <2>9, <2>10, <2>11, <2>12 DEF Inv, Bound
<1> QED BY <1>7, <1>8

\* The daemon has nothing to stop and retires: its table and its file stay.
LEMMA RetireTypes ==
    ASSUME Inv, Retire
    PROVE  dm' \in DmSet /\ dm'.running = dm.running /\ dm'.desired = dm.desired /\ Up' /\ gui' \in GuiSet
<1>1. dm \in DmSet /\ gui \in GuiSet
  BY DEF Inv, Types, DaemonTypes, DesktopTypes
<1>2. PICK m \in UpModes : m = "retiring"
  BY DEF UpModes
<1>3. dm' \in DmSet /\ dm'.mode = "retiring" /\ dm'.running = dm.running /\ dm'.desired = dm.desired
  BY <1>1, <1>2, ModeEdit DEF Retire
<1> QED BY <1>1, <1>3, LeaseGui DEF Retire, Up, Serving

LEMMA TakeShutdownInv == ASSUME Inv, TakeShutdown PROVE Inv'
<1>1. Types /\ Bound
  BY DEF Inv
<1>2. PICK c \in pending : /\ c.kind = "shutdown" /\ Serving /\ job = NoJob
                           /\ pending' = pending \ {c}
                           /\ \/ dm.running # None /\ job' = StopJob(c.from) /\ UNCHANGED <<dm, gui>>
                              \/ dm.running = None /\ Retire /\ UNCHANGED job
                           /\ UNCHANGED <<alive, spawned, bg, disk, saved, op, rec, hist>>
  BY DEF TakeShutdown
<1>3. PICK f : f = c.from
  OBVIOUS
<1>4. f \in Froms /\ f # "none"
  BY <1>1, <1>3 DEF Types, DaemonTypes, Commands, Froms, Shutdowns, Updates, Quits
<1>5. f # "op" /\ Taken(f)
  BY <1>1, <1>2, <1>3 DEF Bound, Linked, Taken
<1>6. Up /\ hist' \in HistSet /\ Withdrawn /\ (hist'.intent = "none" \/ f \in Careful)
  BY <1>1, <1>2, <1>3 DEF Types, Up, Withdrawn, Bound, Silent, Careful
<1>7. CASE dm.running # None
  BY <1>2, <1>3, <1>4, <1>5, <1>6, <1>7, StoppingInv
<1>8. CASE dm.running = None
  <2>1. dm' \in DmSet /\ dm'.running = dm.running /\ dm'.desired = dm.desired /\ Up' /\ gui' \in GuiSet
    BY <1>2, <1>8, RetireTypes
  <2>2. InTable'
    BY <1>1, <1>2, <1>6, <1>8, <2>1 DEF Bound, InTable, Live
  <2>3. Working'
    BY <1>2, <1>8, <2>1, Idle DEF Working
  <2>4. Linked' /\ Silent' /\ Promised'
    BY <1>1, <1>2, <1>6, <1>8, <2>1 DEF Bound, Linked, Calling, Starting, Silent, Promised
  <2>5. Types'
    BY <1>1, <1>2, <1>8, <2>1 DEF Types, Processes, DaemonTypes, DesktopTypes
  <2> QED BY <2>2, <2>3, <2>4, <2>5 DEF Inv, Bound
<1> QED BY <1>7, <1>8

LEMMA StopKillsInv == ASSUME Inv, StopKills PROVE Inv'
<1>1. Types /\ Bound
  BY DEF Inv
<1>2. PICK d : d = Desired(job.from)
  OBVIOUS
<1>3. /\ job.kind = "stop" /\ job.step = "kill" /\ alive' = alive \ {job.pid}
      /\ dm' = [dm EXCEPT !.desired = d, !.running = None]
      /\ job' = [job EXCEPT !.step = "persist"]
      /\ UNCHANGED <<spawned, bg, disk, pending, gui, saved, op, rec, hist>>
  BY <1>2 DEF StopKills, desktop
<1>4. Up /\ job.pid = dm.running /\ dm.running # None /\ job.from # "none"
  BY <1>1, <1>3, Idle DEF Bound, Working
<1>5. d \in BOOLEAN /\ (d <=> dm.desired /\ Preserves(job.from))
  BY <1>1, <1>2 DEF Desired, Preserves, Types, DaemonTypes, DmSet
<1>6. dm' \in DmSet /\ dm'.mode = dm.mode /\ dm'.running = None /\ dm'.desired = d
  BY <1>1, <1>3, <1>5, Stopped DEF Types, DaemonTypes
<1>7. Up'
  BY <1>4, <1>6 DEF Up, Serving
<1>8. /\ job' \in JobSet /\ job'.kind = "stop" /\ job'.step = "persist" /\ job'.from = job.from
  BY <1>1, <1>3 DEF Types, DaemonTypes, JobSet
<1>9. InTable'
  BY <1>1, <1>3, <1>4, <1>6, <1>7 DEF Bound, InTable, Live
<1>10. Working'
  BY <1>4, <1>5, <1>6, <1>7, <1>8 DEF Working
<1>11. Linked' /\ Silent'
  BY <1>3, <1>8, Holding, TakenLinked, TakenSilent
<1>12. Promised'
  <2>1. job # NoJob
    BY <1>3, Idle
  <2>2. hist.intent = "on" => dm.desired /\ Preserves(job.from)
    BY <1>1, <1>4 DEF Bound, Promised, Silent, Careful, Preserves
  <2> QED BY <1>1, <1>3, <1>5, <1>6, <2>1, <2>2 DEF Bound, Promised
<1>13. Types'
  BY <1>1, <1>3, <1>6, <1>8 DEF Types, Processes, DaemonTypes, DesktopTypes
<1> QED BY <1>9, <1>10, <1>11, <1>12, <1>13 DEF Inv, Bound

\* A process that could not be killed stays in the table.
LEMMA StopKillFailsInv == ASSUME Inv, StopKillFails PROVE Inv'
<1>1. Types /\ Bound
  BY DEF Inv
<1>2. /\ job.kind = "stop" /\ job.step = "kill" /\ job.pid \in alive
      /\ dm' = [dm EXCEPT !.mode = ModeAfter(job)] /\ StopFails
      /\ UNCHANGED <<alive, spawned, bg, disk, saved, op, rec>>
  BY DEF StopKillFails
<1>3. hist' \in HistSet /\ hist'.stray = hist.stray /\ hist'.intent = hist.intent
  BY <1>1, HistEdits DEF StopKillFails, Types
<1>4. Up /\ job.pid = dm.running /\ dm.running # None
  BY <1>1, <1>2, Idle DEF Bound, Working
<1>5. dm' \in DmSet /\ dm'.running = dm.running /\ dm'.desired = dm.desired /\ Up'
  BY <1>2, <1>4, ModeKept
<1>6. job' = Over(job, FALSE) /\ gui' \in GuiSet /\ pending' = pending
  <2>1. dm'.running \in alive
    BY <1>2, <1>4, <1>5
  <2> QED BY <1>1, <1>2, <2>1, LeaseGui DEF StopFails, Ends, Types, DesktopTypes
<1>7. /\ job' \in JobSet
      /\ job.from = "op" => job'.step = "reply" /\ job'.from = "op" /\ job'.kind = "stop" /\ job'.ok = FALSE
      /\ job.from # "op" => job' = NoJob
  BY <1>1, <1>2, <1>6, OverJob DEF Types, DaemonTypes
<1>8. InTable'
  BY <1>1, <1>2, <1>3, <1>4, <1>5 DEF Bound, InTable, Live
<1>9. Working'
  BY <1>5, <1>7, Idle DEF Working
<1>10. Linked' /\ Silent'
  BY <1>2, <1>3, <1>6, <1>7, Idle, Holding, TakenLinked, TakenSilent
<1>11. Promised'
  BY <1>1, <1>2, <1>3, <1>4, <1>5, <1>7, Idle DEF Bound, Promised
<1>12. Types'
  BY <1>1, <1>2, <1>3, <1>5, <1>6, <1>7 DEF Types, Processes, DaemonTypes, DesktopTypes
<1> QED BY <1>8, <1>9, <1>10, <1>11, <1>12 DEF Inv, Bound

LEMMA StopPersistedInv == ASSUME Inv, StopPersisted PROVE Inv'
<1>1. Types /\ Bound
  BY DEF Inv
<1>2. /\ job.kind = "stop" /\ job.step = "persist" /\ disk' = Held /\ job' = Over(job, TRUE)
      /\ UNCHANGED <<alive, spawned, bg, saved, rec, hist>>
  BY DEF StopPersisted
<1>3. Up /\ dm.running = None /\ (dm.desired => Preserves(job.from))
  BY <1>1, <1>2, Idle DEF Bound, Working
<1>4. disk' \in DiskSet /\ disk'.running = None /\ disk'.desired = dm.desired
  BY <1>1, <1>2, <1>3, HeldType
<1>5. /\ job' \in JobSet
      /\ job.from = "op" => job'.step = "reply" /\ job'.from = "op" /\ job'.kind = "stop"
      /\ job.from = "recover" => job'.kind = "start" /\ job'.step = "spawn" /\ job'.from = "recover"
      /\ job.from \notin {"op", "recover"} => job' = NoJob
  BY <1>1, <1>2, OverJob DEF Types, DaemonTypes
<1>6. Live = {}
  BY <1>1, <1>3, NoneRuns DEF Bound, InTable, Live
<1>7. /\ hist.intent = "on" => disk'.desired
      /\ hist.intent # "off"
  BY <1>1, <1>2, <1>4, Idle DEF Bound, Promised
<1>8. CASE job.from = "watchdog" /\ Leave("left")
  <2>1. hist.intent = "none" /\ job' = NoJob
    BY <1>1, <1>5, <1>8 DEF Bound, Silent, Careful, Updates
  <2>2. (alive' \ hist'.stray) \subseteq {disk'.running} /\ hist'.intent = hist.intent
    BY <1>2, <1>6 DEF Live
  <2>3. PICK m \in {"left", "crashed"} : m = "left"
    OBVIOUS
  <2>4. Bound' /\ dm' \in DmSet /\ op' \in OpSet /\ gui' \in GuiSet /\ pending' = {}
    BY <1>8, <2>1, <2>2, <2>3, LeftBound
  <2>5. Types'
    BY <1>1, <1>2, <1>4, <1>5, <2>4 DEF Types, Processes, DaemonTypes, DesktopTypes
  <2> QED BY <2>4, <2>5 DEF Inv
<1>9. ASSUME \/ job.from \in Shutdowns /\ Retire /\ UNCHANGED <<pending, op>>
             \/ /\ dm' = [dm EXCEPT !.mode = ModeAfter(job)]
                /\ UNCHANGED <<pending, op, gui>>
      PROVE  Inv'
  <2>1. /\ dm' \in DmSet /\ dm'.running = dm.running /\ dm'.desired = dm.desired /\ Up'
        /\ gui' \in GuiSet /\ UNCHANGED <<pending, op>>
    BY <1>1, <1>3, <1>9, RetireTypes, ModeKept DEF Types, DesktopTypes
  <2>2. disk' = Held'
    BY <1>2, <2>1 DEF Held
  <2>3. InTable'
    BY <1>2, <1>6 DEF InTable, Live
  <2>4. Working'
    BY <1>3, <1>5, <2>1, <2>2, Idle DEF Working, Preserves, Updates
  <2>5. Linked' /\ Silent'
    BY <1>2, <1>5, <2>1, Idle, Holding, TakenLinked, TakenSilent
  <2>6. Promised'
    BY <1>2, <1>3, <1>5, <1>7, <2>1, Idle DEF Promised
  <2>7. Types'
    BY <1>1, <1>2, <1>4, <1>5, <2>1 DEF Types, Processes, DaemonTypes, DesktopTypes
  <2> QED BY <2>3, <2>4, <2>5, <2>6, <2>7 DEF Inv, Bound
<1> QED BY <1>8, <1>9 DEF StopPersisted

LEMMA StopUnsavedInv == ASSUME Inv, StopUnsaved PROVE Inv'
<1>1. Types /\ Bound
  BY DEF Inv
<1>2. /\ job.kind = "stop" /\ job.step = "persist" /\ disk' \in {disk, Held'}
      /\ dm' = [dm EXCEPT !.mode = ModeAfter(job)] /\ StopFails
      /\ UNCHANGED <<alive, spawned, bg, saved, op, rec>>
  BY DEF StopUnsaved, Unsaved
<1>3. hist' \in HistSet /\ hist'.stray = hist.stray /\ hist'.intent = hist.intent
  BY <1>1, HistEdits DEF StopUnsaved, Types
<1>4. Up /\ dm.running = None
  BY <1>1, <1>2, Idle DEF Bound, Working
<1>5. dm' \in DmSet /\ dm'.running = dm.running /\ dm'.desired = dm.desired /\ Up'
  BY <1>2, <1>4, ModeKept
<1>6. disk' \in DiskSet /\ (disk' = disk \/ disk'.desired = dm.desired)
  BY <1>1, <1>2, <1>5, HeldType DEF Held, Types, DaemonTypes
<1>7. hist.intent = "on" => disk'.desired
  BY <1>1, <1>2, <1>6 DEF Bound, Promised
<1>8. hist.intent # "off"
  BY <1>1, <1>2, Idle DEF Bound, Promised
<1>9. Live = {}
  BY <1>1, <1>4, NoneRuns DEF Bound, InTable, Live
<1>10. InTable'
  BY <1>2, <1>3, <1>9 DEF InTable, Live
<1>11. CASE /\ job.from \in Updates
            /\ pending' = pending \cup {[kind |-> "start", from |-> job.from]}
            /\ job' = NoJob /\ UNCHANGED gui
  <2>1. PICK c : c = [kind |-> "start", from |-> job.from]
    OBVIOUS
  <2>2. c \in Commands /\ c.kind = "start" /\ c.from \in Updates /\ c.from # "op"
    BY <1>11, <2>1 DEF Commands, Updates, Shutdowns
  <2>3. Working'
    BY <1>5, <1>11, Idle DEF Working
  <2>4. Linked' /\ Silent'
    BY <1>1, <1>2, <1>3, <1>11, <2>1, <2>2, Idle
       DEF Bound, Linked, Silent, Calling, Starting, Early, Careful
  <2>5. Promised'
    BY <1>3, <1>4, <1>5, <1>7, <1>8, <1>11, Idle DEF Promised
  <2>6. Types'
    BY <1>1, <1>2, <1>3, <1>5, <1>6, <1>11, <2>1, <2>2, Idle
       DEF Types, Processes, DaemonTypes, DesktopTypes
  <2> QED BY <1>10, <2>3, <2>4, <2>5, <2>6 DEF Inv, Bound
<1>12. CASE Ends(job, FALSE) /\ UNCHANGED pending
  <2>1. /\ job' \in JobSet
        /\ job.from = "op" => job'.step = "reply" /\ job'.from = "op" /\ job'.kind = "stop" /\ job'.ok = FALSE
        /\ job.from # "op" => job' = NoJob
    BY <1>1, <1>2, <1>12, OverJob DEF Ends, Types, DaemonTypes
  <2>2. gui' \in GuiSet
    BY <1>1, <1>12, LeaseGui DEF Ends, Types, DesktopTypes
  <2>3. Working'
    BY <1>5, <2>1, Idle DEF Working
  <2>4. Linked' /\ Silent'
    BY <1>2, <1>3, <1>12, <2>1, Idle, Holding, TakenLinked, TakenSilent
  <2>5. Promised'
    BY <1>3, <1>4, <1>5, <1>7, <1>8, <2>1, Idle DEF Promised
  <2>6. Types'
    BY <1>1, <1>2, <1>3, <1>5, <1>6, <1>12, <2>1, <2>2 DEF Types, Processes, DaemonTypes, DesktopTypes
  <2> QED BY <1>10, <2>3, <2>4, <2>5, <2>6 DEF Inv, Bound
<1> QED BY <1>2, <1>11, <1>12 DEF StopFails

LEMMA RecoverInv == ASSUME Inv, Recover PROVE Inv'
<1>1. Types /\ Bound
  BY DEF Inv
<1>2. /\ Up /\ job = NoJob /\ dm.running \in alive /\ job' = StopJob("recover")
      /\ UNCHANGED <<alive, spawned, bg, dm, disk, pending, gui, saved, op, rec, hist>>
  BY DEF Recover, Up, desktop
<1>3. PICK f \in Froms : f = "recover"
  BY DEF Froms
<1>4. f # "none" /\ f # "op" /\ f \in Careful /\ Taken(f) /\ dm.running # None
  BY <1>2, <1>3, NoneRuns DEF Careful, Taken
<1>5. hist' \in HistSet /\ Withdrawn
  BY <1>1, <1>2 DEF Types, Withdrawn
<1> QED BY <1>2, <1>3, <1>4, <1>5, StoppingInv

-----------------------------------------------------------------------------
(* The daemon: exits, crashes, restarts *)

LEMMA RecordExitInv == ASSUME Inv, RecordExit PROVE Inv'
<1>1. Types /\ Bound
  BY DEF Inv
<1>2. /\ Up /\ job = NoJob /\ dm.running \notin alive
      /\ dm' = [dm EXCEPT !.desired = FALSE, !.running = None]
      /\ disk' \in {disk, Held'}
      /\ UNCHANGED <<alive, spawned, bg, pending, job, gui, saved, op, rec>>
  BY DEF RecordExit, Unsaved, desktop
<1>3. hist' \in HistSet /\ hist'.stray = hist.stray /\ hist'.intent = "none"
  <2>1. PICK h \in HistSet : hist' = [h EXCEPT !.intent = "none"] /\ h.stray = hist.stray
    BY <1>1, HistEdits DEF RecordExit, Types
  <2> QED BY <2>1, HistPromise
<1>4. dm' \in DmSet /\ dm'.mode = dm.mode /\ dm'.running = None /\ dm'.desired = FALSE
  BY <1>1, <1>2, Stopped DEF Types, DaemonTypes
<1>5. Up'
  BY <1>2, <1>4 DEF Up, Serving
<1>6. disk' \in DiskSet
  <2>1. Held' = [desired |-> dm'.desired, running |-> dm'.running]
    BY DEF Held
  <2>2. Held' \in DiskSet
    BY <1>4, <2>1 DEF DmSet, DiskSet
  <2> QED BY <1>1, <1>2, <2>2 DEF Types, DaemonTypes
<1>7. InTable'
  BY <1>1, <1>2, <1>3, <1>5, NoneRuns DEF Bound, InTable, Live
<1>8. Working'
  BY <1>2, <1>5, Idle DEF Working
<1>9. Linked'
  BY <1>1, <1>2 DEF Bound, Linked, Calling, Starting
<1>10. Silent' /\ Promised'
  BY <1>3 DEF Silent, Promised
<1>11. Types'
  BY <1>1, <1>2, <1>3, <1>4, <1>6 DEF Types, Processes, DaemonTypes, DesktopTypes
<1> QED BY <1>7, <1>8, <1>9, <1>10, <1>11 DEF Inv, Bound

LEMMA RestoreStopInv == ASSUME Inv, RestoreStop PROVE Inv'
<1>1. Types /\ Bound
  BY DEF Inv
<1>2. /\ dm.mode = "restart" /\ job = NoJob /\ Up
      /\ UNCHANGED <<alive, spawned, bg, disk, pending, gui, saved, op, rec, hist>>
  BY DEF RestoreStop, desktop, Up
<1>3. CASE dm.running # None /\ job' = StopJob("restore") /\ UNCHANGED dm
  <2>1. PICK f \in Froms : f = "restore"
    BY DEF Froms
  <2>2. f # "none" /\ f # "op" /\ f \in Careful /\ Taken(f)
    BY <1>2, <2>1 DEF Careful, Taken
  <2>3. hist' \in HistSet /\ Withdrawn
    BY <1>1, <1>2 DEF Types, Withdrawn
  <2> QED BY <1>2, <1>3, <2>1, <2>2, <2>3, StoppingInv
<1>4. CASE dm' = [dm EXCEPT !.mode = "relaunch"] /\ UNCHANGED job
  <2>1. PICK m \in UpModes : m = "relaunch"
    BY DEF UpModes
  <2>2. dm' \in DmSet /\ dm'.mode = "relaunch" /\ dm'.running = dm.running /\ dm'.desired = dm.desired
    BY <1>1, <1>4, <2>1, ModeEdit DEF Types, DaemonTypes
  <2>3. Up'
    BY <2>2 DEF Up
  <2>4. InTable'
    BY <1>1, <1>2, <1>4, <2>2, <2>3 DEF Bound, InTable, Live
  <2>5. Working'
    BY <1>2, <1>4, <2>3, Idle DEF Working
  <2>6. Linked' /\ Silent' /\ Promised'
    BY <1>1, <1>2, <1>4, <2>2 DEF Bound, Linked, Calling, Starting, Silent, Promised
  <2>7. Types'
    BY <1>1, <1>2, <1>4, <2>2 DEF Types, Processes, DaemonTypes, DesktopTypes
  <2> QED BY <2>4, <2>5, <2>6, <2>7 DEF Inv, Bound
<1> QED BY <1>3, <1>4 DEF RestoreStop

LEMMA WatchdogInv == ASSUME Inv, Watchdog PROVE Inv'
<1>1. Types /\ Bound
  BY DEF Inv
<1>2. Up /\ job = NoJob /\ UNCHANGED <<alive, spawned, bg, disk, saved, rec>>
  BY DEF Watchdog, Up
<1>3. hist' \in HistSet /\ Withdrawn /\ hist'.intent = "none"
  BY <1>1, HistPromise DEF Watchdog, Types, Withdrawn
<1>4. CASE dm.running = None /\ Leave("left") /\ UNCHANGED job
  <2>1. Live = {} /\ job' = NoJob
    BY <1>1, <1>2, <1>4, NoneRuns DEF Bound, InTable, Live
  <2>2. (alive' \ hist'.stray) \subseteq {disk'.running}
    BY <1>2, <1>3, <2>1 DEF Live, Withdrawn
  <2>3. hist.intent = "on" => disk'.desired
    BY <1>1, <1>2 DEF Bound, Promised
  <2>4. PICK m \in {"left", "crashed"} : m = "left"
    OBVIOUS
  <2>5. Bound' /\ dm' \in DmSet /\ op' \in OpSet /\ gui' \in GuiSet /\ pending' = {}
    BY <1>2, <1>3, <1>4, <2>1, <2>2, <2>3, <2>4, LeftBound
  <2>6. Types'
    BY <1>1, <1>2, <1>3, <2>1, <2>5, Idle DEF Types, Processes, DaemonTypes, DesktopTypes
  <2> QED BY <2>5, <2>6 DEF Inv
<1>5. CASE dm.running # None /\ job' = StopJob("watchdog") /\ UNCHANGED <<dm, pending, op, gui>>
  <2>1. PICK f \in Froms : f = "watchdog"
    BY DEF Froms
  <2>2. f # "none" /\ f # "op" /\ Taken(f)
    BY <1>5, <2>1 DEF Taken
  <2> QED BY <1>2, <1>3, <1>5, <2>1, <2>2, StoppingInv
<1> QED BY <1>4, <1>5 DEF Watchdog

LEMMA SurvivorPid ==
    ASSUME NEW p \in 0..MaxPid
    PROVE  Survivor(p) \in 0..MaxPid /\ (p \in alive => Survivor(p) = p) /\ (p = None => Survivor(p) = None)
BY DEF Survivor, None

LEMMA DaemonStartInv == ASSUME Inv, DaemonStart PROVE Inv'
<1>1. Types /\ Bound
  BY DEF Inv
<1>2. PICK p : p = Survivor(disk.running)
  OBVIOUS
<1>3. /\ ~Up /\ disk' = [disk EXCEPT !.running = p]
      /\ dm' = [mode |-> "restart", desired |-> disk.desired, running |-> p, gone |-> FALSE]
      /\ UNCHANGED <<alive, spawned, bg, pending, job, gui, saved, op, rec, hist>>
  BY <1>2 DEF DaemonStart, MayLaunchDaemon, desktop
<1>4. p \in 0..MaxPid /\ (disk.running \in alive => p = disk.running) /\ (disk.running = None => p = None)
  BY <1>1, <1>2, SurvivorPid DEF Types, DaemonTypes, DiskSet
<1>5. dm' \in DmSet /\ dm'.running = p /\ dm'.desired = disk.desired /\ Up'
  BY <1>1, <1>3, <1>4 DEF Types, DaemonTypes, DmSet, DiskSet, Modes, Up
<1>6. disk' \in DiskSet /\ disk'.running = p /\ disk'.desired = disk.desired
  BY <1>1, <1>3, <1>4 DEF Types, DaemonTypes, DiskSet
<1>7. job = NoJob /\ pending = {}
  BY <1>1, <1>3 DEF Bound, Working
<1>8. InTable'
  BY <1>1, <1>3, <1>4, <1>5, <1>6 DEF Bound, InTable, Live
<1>9. Working'
  BY <1>3, <1>5, <1>7, Idle DEF Working
<1>10. Linked' /\ Silent'
  BY <1>1, <1>3 DEF Bound, Linked, Calling, Starting, Silent
<1>11. Promised'
  BY <1>1, <1>3, <1>4, <1>5, <1>6, <1>7, Idle DEF Bound, Promised
<1>12. Types'
  BY <1>1, <1>3, <1>5, <1>6 DEF Types, Processes, DaemonTypes, DesktopTypes
<1> QED BY <1>8, <1>9, <1>10, <1>11, <1>12 DEF Inv, Bound

LEMMA DaemonStartFailsInv == ASSUME Inv, DaemonStartFails PROVE Inv'
<1>1. Types /\ Bound
  BY DEF Inv
<1>2. PICK p : p = Survivor(disk.running)
  OBVIOUS
<1>3. /\ ~Up /\ disk' \in {disk, [disk EXCEPT !.running = p]}
      /\ UNCHANGED <<alive, spawned, bg, dm, pending, job, gui, saved, op, rec>>
  BY <1>2 DEF DaemonStartFails, MayLaunchDaemon, desktop
<1>4. hist' \in HistSet /\ hist'.stray = hist.stray /\ hist'.intent = hist.intent
  BY <1>1, HistEdits DEF DaemonStartFails, Types
<1>5. p \in 0..MaxPid /\ (disk.running \in alive => p = disk.running) /\ (disk.running = None => p = None)
  BY <1>1, <1>2, SurvivorPid DEF Types, DaemonTypes, DiskSet
<1>6. disk' \in DiskSet /\ disk'.running \in {disk.running, p} /\ disk'.desired = disk.desired
  BY <1>1, <1>3, <1>5 DEF Types, DaemonTypes, DiskSet
<1>7. ~Up'
  BY <1>3 DEF Up, Serving
<1>8. InTable'
  BY <1>1, <1>3, <1>4, <1>5, <1>6, <1>7 DEF Bound, InTable, Live
<1>9. Working'
  BY <1>1, <1>3, <1>7, Idle DEF Bound, Working
<1>10. Linked' /\ Silent'
  BY <1>1, <1>3, <1>4 DEF Bound, Linked, Calling, Starting, Silent
<1>11. Promised'
  <2>1. job = NoJob /\ pending = {}
    BY <1>1, <1>3 DEF Bound, Working
  <2> QED BY <1>1, <1>3, <1>4, <1>5, <1>6, <1>7, <2>1, Idle DEF Bound, Promised
<1>12. Types'
  BY <1>1, <1>3, <1>4, <1>6 DEF Types, Processes, DaemonTypes, DesktopTypes
<1> QED BY <1>8, <1>9, <1>10, <1>11, <1>12 DEF Inv, Bound

\* What a daemon that is gone leaves behind is in the file or exempt.
LEMMA GoneInv ==
    ASSUME Inv, NEW m \in {"left", "crashed"}, Leave(m), job' = NoJob, hist' \in HistSet,
           hist'.intent = hist.intent, Live \ hist'.stray \subseteq {disk.running},
           hist.stray \subseteq hist'.stray,
           UNCHANGED <<alive, spawned, bg, disk, saved, rec>>
    PROVE  Inv'
<1>1. Types /\ Bound
  BY DEF Inv
<1>2. alive' \ hist'.stray \subseteq {disk'.running}
  BY DEF Live
<1>3. hist.intent = "on" => disk'.desired
  BY <1>1 DEF Bound, Promised
<1>4. Bound' /\ dm' \in DmSet /\ op' \in OpSet /\ gui' \in GuiSet /\ pending' = {}
  BY <1>2, <1>3, LeftBound
<1>5. Types'
  BY <1>1, <1>4, Idle DEF Types, Processes, DaemonTypes, DesktopTypes
<1> QED BY <1>4, <1>5 DEF Inv

LEMMA StraysFound ==
    ASSUME Inv, Up
    PROVE  /\ Strays \in PidSets /\ alive \cap {dm.running} \in PidSets /\ hist.stray \in PidSets
           /\ Live \ Strays \subseteq {disk.running} /\ Live \subseteq {dm.running}
<1>1. Types /\ Bound
  BY DEF Inv
<1>2. Strays \subseteq alive
  BY DEF Strays
<1>3. \A p \in alive : p \in Pids
  BY <1>1 DEF Types, Processes, Pids
<1>4. Strays \in PidSets /\ alive \cap {dm.running} \in PidSets
  BY <1>2, <1>3 DEF PidSets
<1>5. Live \subseteq {dm.running}
  BY <1>1 DEF Bound, InTable
<1>6. Live \ Strays \subseteq {disk.running}
  BY <1>1, <1>5 DEF Bound, InTable, Working, Live, Strays
<1>7. hist.stray \in PidSets
  BY <1>1 DEF Types, HistSet
<1> QED BY <1>4, <1>5, <1>6, <1>7

LEMMA DaemonCrashInv == ASSUME Inv, DaemonCrash PROVE Inv'
<1>1. /\ Up /\ Fault /\ Leave("crashed") /\ job' = NoJob
      /\ UNCHANGED <<alive, spawned, bg, disk, saved, rec>>
  BY DEF DaemonCrash
<1>2. PICK h : h = Faulty
  OBVIOUS
<1>3. h \in HistSet /\ h.intent = hist.intent /\ h.stray = hist.stray
  BY <1>1, <1>2, HistEdits DEF Inv, Types
<1>4. PICK S : S = h.stray \cup Strays
  OBVIOUS
<1>5. S \in PidSets /\ hist.stray \subseteq S /\ Strays \subseteq S
  BY <1>1, <1>3, <1>4, StraysFound DEF PidSets
<1>6. hist' = [h EXCEPT !.stray = S]
  BY <1>2, <1>4 DEF DaemonCrash
<1>7. hist' \in HistSet /\ hist'.stray = S /\ hist'.intent = hist.intent
  BY <1>3, <1>5, <1>6, HistStrays
<1>8. Live \ hist'.stray \subseteq {disk.running}
  BY <1>1, <1>5, <1>7, StraysFound
<1>9. PICK m \in {"left", "crashed"} : m = "crashed"
  OBVIOUS
<1> QED BY <1>1, <1>5, <1>7, <1>8, <1>9, GoneInv

LEMMA DaemonExitsInv == ASSUME Inv, DaemonExits PROVE Inv'
<1>1. /\ Up /\ Leave("left") /\ job' = NoJob
      /\ UNCHANGED <<alive, spawned, bg, disk, saved, rec>>
  BY DEF DaemonExits, Up, Serving
<1>2. hist \in HistSet
  BY DEF Inv, Types
<1>3. PICK S : S = hist.stray \cup Strays \cup (alive \cap {dm.running})
  OBVIOUS
<1>4. S \in PidSets /\ hist.stray \subseteq S /\ alive \cap {dm.running} \subseteq S
  BY <1>1, <1>3, StraysFound DEF PidSets
<1>5. hist' = [hist EXCEPT !.stray = S]
  BY <1>3 DEF DaemonExits
<1>6. hist' \in HistSet /\ hist'.stray = S /\ hist'.intent = hist.intent
  BY <1>2, <1>4, <1>5, HistStrays
<1>7. Live \ hist'.stray \subseteq {disk.running}
  BY <1>1, <1>4, <1>6, StraysFound DEF Live
<1>8. PICK m \in {"left", "crashed"} : m = "left"
  OBVIOUS
<1> QED BY <1>1, <1>4, <1>6, <1>7, <1>8, GoneInv

-----------------------------------------------------------------------------
(* The theorems *)

LEMMA InitInv == Init => Inv
<1> SUFFICES ASSUME Init PROVE Inv
  OBVIOUS
<1>1. PICK z \in 0..MaxPid : z = None
  BY DEF None
<1>2. /\ alive = {} /\ spawned = 0 /\ bg \in BOOLEAN /\ pending = {} /\ job = NoJob
      /\ dm = [mode |-> "ready", desired |-> FALSE, running |-> z, gone |-> FALSE]
      /\ disk = [desired |-> FALSE, running |-> z]
      /\ gui = [up |-> TRUE, running |-> z, managed |-> FALSE, new |-> FALSE, lease |-> "none"]
      /\ saved = z /\ op = NoOp /\ rec = [c \in Callers |-> NoRec]
  BY <1>1 DEF Init, Empty, Fresh
<1>3. hist \in HistSet /\ hist.intent = "none" /\ hist.stray = {}
  <2>1. PICK n, f : n = 0 /\ f = 0 /\ n \in 0..MaxOps /\ f \in 0..MaxFaults
    OBVIOUS
  <2>2. {} \in PidSets
    BY DEF PidSets
  <2>3. hist = [intent |-> "none", stray |-> {}, ops |-> n, faults |-> f]
    BY <2>1 DEF Init
  <2> QED BY <2>1, <2>2, <2>3 DEF HistSet
<1>4. Processes
  BY <1>2 DEF Processes
<1>5. DaemonTypes
  BY <1>2, Idle DEF DaemonTypes, DmSet, DiskSet, Modes
<1>6. DesktopTypes
  BY <1>2, Idle DEF DesktopTypes, GuiSet
<1>7. Up
  BY <1>2 DEF Up, Serving
<1>8. Bound
  BY <1>2, <1>3, <1>7, Idle DEF Bound, InTable, Live, Working, Linked, Silent, Promised
<1> QED BY <1>3, <1>4, <1>5, <1>6, <1>8 DEF Inv, Types

LEMMA StutterInv == Inv /\ UNCHANGED vars => Inv'
BY DEF vars, Inv, Types, Processes, DaemonTypes, DesktopTypes, Bound, InTable, Live, Working, Linked,
       Silent, Promised, Up, Serving, Held, Calling, Starting

LEMMA NextInv == Inv /\ [Next]_vars => Inv'
<1> SUFFICES ASSUME Inv, [Next]_vars PROVE Inv'
  OBVIOUS
<1>1. CASE DaemonStep
  BY <1>1, TakeStartInv, StartPersistedInv, StartRolledBackInv, TakeStopInv, StopKillsInv,
     StopPersistedInv, TakeShutdownInv, DaemonExitsInv, RecordExitInv, RecoverStartsInv,
     RestoreStopInv, RestoreMissingInv, WatchdogInv DEF DaemonStep
<1>2. CASE OpStep
  BY <1>2, SendInv, ReplyInv, StartStatusInv, StartReserveInv, StartInsertInv, StartManageInv,
     StartSnapshotInv, StartSaveInv, UnrunInv, UnmanageInv, StopSaveInv, OwnKillInv, OwnClearInv
     DEF OpStep
<1>3. CASE LeaseStep
  BY <1>3, QuitEndsInv, TakeLeaseInv, UpdateEndsInv DEF LeaseStep
<1>4. CASE Environment
  BY <1>4, StartUnsavedInv, StopKillFailsInv, StopUnsavedInv, RecoverInv, DaemonStartFailsInv,
     DaemonCrashInv, ProcessDiesInv, SendFailsInv, AnswerTimesOutInv, BeginStartInv, BeginStopInv,
     GuiExitsInv, GuiCrashInv, GuiStartInv, ReloadInv, StartInvalidInv, QuitInv, PrepareUpdateInv
     DEF Environment
<1>5. CASE DaemonStart \/ BridgeFetch
  BY <1>5, DaemonStartInv, BridgeFetchInv
<1>6. ASSUME NEW c \in Callers, Reconcile(c) PROVE Inv'
  BY <1>6, RecPrevInv, RecRunningInv, RecExtendInv, RecSnapshotInv, RecSaveInv DEF Reconcile
<1>7. CASE UNCHANGED vars
  BY <1>7, StutterInv
<1> QED BY <1>1, <1>2, <1>3, <1>4, <1>5, <1>6, <1>7 DEF Next

LEMMA Invariance == FairSpec => []Inv
BY InitInv, NextInv, PTL DEF FairSpec

(* Types, and with them the bounds of the model: pids are given out once,  *)
(* and the daemon's table, its file and the mirror name only such.         *)
THEOREM TypeCorrect == FairSpec => []TypeOK
<1>1. Inv => TypeOK
  BY TypesOK DEF Inv
<1> QED BY <1>1, Invariance, PTL

(* Whatever crashes, launches, kills and writes fail, and however starts,  *)
(* stops, restarts, recoveries, updates and quits follow each other, a     *)
(* running llama-server that is not exempt is the one in the daemon's      *)
(* table, or, without a daemon, the one its file names                     *)
(* (start_instance_locked, stop_instance_locked, restore, Shutdown).       *)
THEOREM NoStrayAlways == FairSpec => []NoStray
<1>1. Inv => NoStray
  BY TypesOK DEF Inv, Bound, InTable, Live, NoStray
<1> QED BY <1>1, Invariance, PTL

(* A start that was answered with success is desired on disk until the     *)
(* instance exits, the user says otherwise or nobody is left to manage it, *)
(* and a stop that was answered with success is not undone: the daemon     *)
(* answers only what it has persisted, and no step that preserves what is  *)
(* desired is the user's (persist, preserve_desired).                      *)
THEOREM IntentKeptAlways == FairSpec => []IntentKept
<1>1. Inv => IntentKept
  BY DEF Inv, Bound, Promised, IntentKept
<1> QED BY <1>1, Invariance, PTL
=============================================================================
