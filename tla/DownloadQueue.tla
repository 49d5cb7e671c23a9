---------------------------- MODULE DownloadQueue ----------------------------
(***************************************************************************)
(* The download manager (commands/download.rs): the queue of downloads,    *)
(* the task that is spawned for each of them, the commands of the user,    *)
(* and the two files that must bring everything back after a restart.      *)
(*                                                                         *)
(* downloads.json (disk) holds what is queued, paused or finished, and     *)
(* downloads_inflight.json (infl) what is running.  An entry is handed     *)
(* from one to the other in several writes.  The file infl is also written *)
(* by every download that changes its state, from a snapshot of all active *)
(* entries; snapshots carry a generation, so that an old one is dropped.   *)
(*                                                                         *)
(* An entry has one file.  Then the status of the entry is that of the     *)
(* file, except that a pausing file makes the entry active.  Sizes, the    *)
(* network and the .part metadata are left out: a request or a stream may  *)
(* fail at any time.                                                       *)
(***************************************************************************)
EXTENDS Naturals, Sequences, FiniteSets, SequencesExt

CONSTANTS
    Tasks,
    Limits,         \* values of download_max_concurrent
    MaxRetries,     \* max_retries of an entry
    MaxOps,         \* bound: commands of the user
    MaxFaults       \* bound: writes of the two files that fail, and crashes

ASSUME DownloadAssumption ==
    /\ IsFiniteSet(Tasks)
    /\ Limits \subseteq Nat \ {0} /\ Limits # {}
    /\ {MaxRetries, MaxOps, MaxFaults} \subseteq Nat

VARIABLES
    up,       \* the process runs
    queue,    \* download_queue
    active,   \* download_active_entries
    batches,  \* download_active_batches
    jobs,     \* the spawned tasks
    lock,     \* download_scheduler_lock: what its holder still has to do
    fill,     \* someone is about to call fill_download_queue_slots
    cancel,   \* cancel_flags
    pause,    \* pause_flags
    cancels,  \* calls of cancel_and_cleanup_download between their two halves
    closing,  \* download_shutting_down
    limit,    \* download_max_concurrent
    snaps,    \* captured snapshots that are not written yet, by generation
    disk,     \* downloads.json
    infl,     \* downloads_inflight.json
    file,     \* the .part or the final file of a task, and the run that wrote it
    fresh,    \* the last identity that was given out
    ops,
    faults,
    hist      \* history, for the properties only

bounds == <<ops, faults, limit>>
vars   == <<up, queue, active, batches, jobs, lock, fill, cancel, pause, cancels,
            closing, limit, snaps, disk, infl, file, fresh, ops, faults, hist>>

Statuses == {"queued", "active", "pausing", "paused", "error", "completed", "cancelled"}

Entries == [id : Nat, task : Tasks, run : Nat, st : Statuses, retries : Nat]

\* What a job does next: wait for a slot, send the request, read the
\* stream, write the snapshot of its last status, back off, requeue the entry, settle it.
Steps == {"slot", "send", "stream", "snapshot", "sleep", "requeue", "confirm",
          "settle", "terminal", "clear"}

Free == [op |-> "free"]
NoFile == [kind |-> "none", run |-> 0]

\* The tasks that were enqueued; those the user has cancelled or cleared; those the
\* queue has dropped, or will drop since they were queued with no retry left; the
\* runs whose cancellation was confirmed; the tasks a snapshot may take, or has
\* taken, out of infl; those whose task ended with no entry to settle, or could not
\* write it; the runs that left infl after their last state was durable;
\* whether the queue waits for a command, after a restart or a failed write.
History == [accepted : SUBSET Tasks, dropped : SUBSET Tasks, spent : SUBSET Tasks,
            void : SUBSET Nat, atRisk : SUBSET Tasks,
            unsaved : SUBSET Tasks, settled : SUBSET Nat, parked : BOOLEAN]

TypeOK ==
    /\ {up, fill, closing} \subseteq BOOLEAN
    /\ queue \in Seq(Entries)
    /\ {active, disk, infl} \subseteq SUBSET Entries
    /\ {batches, cancel, pause} \subseteq SUBSET Nat
    /\ \A j \in jobs : j.entry \in Entries /\ j.pc \in Steps
    /\ \A c \in cancels : c.task \in Tasks /\ c.run \in Nat
    /\ lock.op \in {"free", "fill", "retry", "remove"}
    /\ \A i \in DOMAIN snaps : snaps[i].content \in SUBSET Entries
    /\ file \in [Tasks -> [kind : {"none", "part", "final"}, run : Nat]]
    /\ {fresh, ops, faults} \subseteq Nat
    /\ limit \in Limits
    /\ hist \in History

-----------------------------------------------------------------------------
(* Entries *)

Ids(S)    == { e.id : e \in S }
TasksOf(S) == { e.task : e \in S }
Queued    == ToSet(queue)

WithoutId(S, id)  == { e \in S : e.id # id }
WithoutTask(S, t) == { e \in S : e.task # t }

\* What remains of a sequence when only the elements of S are retained.
Keep(s, S) ==
    LET kept[n \in 0 .. Len(s)] ==
            IF n = 0 THEN <<>>
            ELSE IF s[n] \in S THEN Append(kept[n - 1], s[n]) ELSE kept[n - 1]
    IN kept[Len(s)]

Terminal(e) == e.st \in {"completed", "cancelled"}

\* derive_entry_status, of an entry with one file
EntryStatus(e) == IF e.st = "pausing" THEN "active" ELSE e.st

\* is_restore_runnable
Runnable(e) == EntryStatus(e) \in {"queued", "active"} /\ e.retries < MaxRetries

Spent(S) == TasksOf({ e \in S : e.retries >= MaxRetries })

\* persist_manager_queue
PersistQueue(S, q) ==
    { e \in S : e.st # "queued" /\ e.id \notin Ids(ToSet(q))
                                /\ e.task \notin TasksOf(ToSet(q)) }
        \cup ToSet(q)

\* normalize_crash_recovered_entry
Normalize(e) == [e EXCEPT !.st = IF @ \in {"active", "pausing"} THEN "paused" ELSE @]

-----------------------------------------------------------------------------
(* Snapshots of the active entries *)

\* Mutant: a snapshot is written whatever has been written since.
Later_All(n) == snaps

\* A generation has been written: earlier snapshots will be dropped.
Later(n) == SubSeq(snaps, n + 1, Len(snaps))

\* update_inflight_state takes the next generation and writes it at once.
InflightWritten(S) ==
    /\ infl' = S
    /\ snaps' = Later(Len(snaps))

\* History: the entry that is between the two files, if the snapshot lacks it.
Handover(content) ==
    IF lock.op \in {"fill", "retry"} /\ lock.step # "next" /\ lock.entry.id \notin Ids(content)
    THEN {lock.entry.task} ELSE {}

\* persist_active_entries_snapshot: content and generation under one lock.  That of
\* the writer thread (owner 0) replaces the one it has not taken yet.
Capture(owner, content) ==
    snaps' = Append(IF owner = 0 THEN Keep(snaps, { s \in ToSet(snaps) : s.owner # 0 }) ELSE snaps,
                    [owner |-> owner, content |-> content, late |-> Handover(content)])

\* persist_inflight_snapshot
SnapshotWritten(n) ==
    /\ infl' = snaps[n].content
    /\ hist' = [hist EXCEPT !.atRisk = (@ \ TasksOf(snaps[n].content)) \cup snaps[n].late]
    /\ snaps' = Later(n)

\* The thread download-inflight-writer.
WriterWrites ==
    /\ up
    /\ \E n \in DOMAIN snaps : snaps[n].owner = 0 /\ SnapshotWritten(n)
    /\ UNCHANGED <<up, queue, active, batches, jobs, lock, fill, cancel, pause, cancels,
                   closing, disk, file, fresh, bounds>>

-----------------------------------------------------------------------------
(* The scheduler: fill_download_queue_slots and process_download_queue_inner *)

SlotsInUse == IF active # {} THEN Cardinality(active) ELSE Cardinality(batches)

Holds(op, step) == up /\ lock.op = op /\ lock.step = step

\* The next iteration: the first one takes the lock, the last one lets go of it.
Filling ==
    /\ up
    /\ \/ fill /\ lock = Free /\ fill' = FALSE
       \/ Holds("fill", "next") /\ UNCHANGED fill

\* Nothing to start.  Entries that may not run are dropped from the queue, and from
\* the file when the queue is left empty.
FillEnds ==
    /\ Filling
    /\ LET runnable == Keep(queue, { e \in Queued : Runnable(e) }) IN
       \/ /\ closing \/ SlotsInUse >= limit
          /\ UNCHANGED <<queue, disk>>
          /\ hist' = [hist EXCEPT !.parked = FALSE]
       \/ /\ ~closing /\ SlotsInUse < limit
          /\ runnable = <<>>
          /\ queue' = <<>>
          /\ disk' = IF queue = <<>> THEN disk ELSE PersistQueue(disk, <<>>)
          /\ hist' = [hist EXCEPT !.spent = @ \cup TasksOf(Queued), !.parked = FALSE]
    /\ lock' = Free
    /\ UNCHANGED <<up, active, batches, jobs, cancel, pause, cancels, closing,
                   snaps, infl, file, fresh, bounds>>

\* Mutant: the entry leaves downloads.json before it is in the other file.
DequeueInflight_Late ==
    /\ Filling
    /\ ~closing /\ SlotsInUse < limit
    /\ LET runnable == Keep(queue, { e \in Queued : Runnable(e) })
           e == [Head(runnable) EXCEPT !.st = "active"] IN
       /\ runnable # <<>>
       /\ queue' = Tail(runnable)
       /\ lock' = [op |-> "fill", step |-> "insert", entry |-> e]
       /\ hist' = [hist EXCEPT !.spent = @ \cup (TasksOf(Queued) \ TasksOf(ToSet(runnable))),
                               !.parked = FALSE]
    /\ UNCHANGED <<up, active, batches, jobs, cancel, pause, cancels, closing,
                   snaps, disk, infl, file, fresh, bounds>>

\* The first entry that may run goes into infl.
DequeueInflight ==
    /\ Filling
    /\ ~closing /\ SlotsInUse < limit
    /\ LET runnable == Keep(queue, { e \in Queued : Runnable(e) })
           e == [Head(runnable) EXCEPT !.st = "active"] IN
       /\ runnable # <<>>
       /\ queue' = Tail(runnable)
       /\ InflightWritten(WithoutId(infl, e.id) \cup {e})
       /\ lock' = [op |-> "fill", step |-> "insert", entry |-> e]
       /\ hist' = [hist EXCEPT !.spent = @ \cup (TasksOf(Queued) \ TasksOf(ToSet(runnable))),
                               !.parked = FALSE]
    /\ UNCHANGED <<up, active, batches, jobs, cancel, pause, cancels, closing,
                   disk, file, fresh, bounds>>

\* ... or cannot be written there, and stays where it was.
DequeueRefused ==
    /\ Filling
    /\ ~closing /\ SlotsInUse < limit
    /\ LET runnable == Keep(queue, { e \in Queued : Runnable(e) }) IN
       /\ runnable # <<>>
       /\ queue' = runnable
       /\ hist' = [hist EXCEPT !.spent = @ \cup (TasksOf(Queued) \ TasksOf(ToSet(runnable))),
                               !.parked = TRUE]
    /\ faults < MaxFaults
    /\ faults' = faults + 1
    /\ lock' = Free
    /\ UNCHANGED <<up, active, batches, jobs, cancel, pause, cancels, closing, snaps, disk,
                   infl, file, fresh, ops, limit>>

DequeueActive ==
    /\ Holds("fill", "insert")
    /\ active' = WithoutId(active, lock.entry.id) \cup {lock.entry}
    /\ lock' = [lock EXCEPT !.step = "persist"]
    /\ UNCHANGED <<up, queue, batches, jobs, fill, cancel, pause, cancels, closing,
                   snaps, disk, infl, file, fresh, bounds, hist>>

\* The entry leaves downloads.json, and its task is spawned.
DequeuePersist ==
    /\ Holds("fill", "persist")
    /\ disk' = PersistQueue(disk, queue)
    /\ batches' = batches \cup {lock.entry.id}
    /\ jobs' = jobs \cup {[entry |-> lock.entry, pc |-> "slot", res |-> "none"]}
    /\ lock' = [op |-> "fill", step |-> "next"]
    /\ UNCHANGED <<up, queue, active, fill, cancel, pause, cancels, closing, snaps,
                   infl, file, fresh, bounds, hist>>

\* ... or this fails, and all is undone.
DequeueFails ==
    /\ Holds("fill", "persist")
    /\ faults < MaxFaults
    /\ faults' = faults + 1
    /\ active' = WithoutId(active, lock.entry.id)
    /\ queue' = <<[lock.entry EXCEPT !.st = "queued"]>> \o queue
    /\ InflightWritten(WithoutId(infl, lock.entry.id))
    /\ lock' = Free
    /\ hist' = [hist EXCEPT !.parked = TRUE]
    /\ UNCHANGED <<up, batches, jobs, fill, cancel, pause, cancels, closing, disk,
                   file, fresh, ops, limit>>

-----------------------------------------------------------------------------
(* The task of an entry: download_single_file *)

Become(j, pc, res) == jobs' = (jobs \ {j}) \cup {[j EXCEPT !.pc = pc, !.res = res]}

\* active_downloads and active_download_paths
Writing == { j \in jobs : j.pc \in {"send", "stream", "snapshot"} }

\* cleanup_artifact_state: the file itself stays.
PartRemoved(t) == [file EXCEPT ![t] = IF @.kind = "part" THEN NoFile ELSE @]

\* update_manager_file_state: the active entries of the task, and a snapshot.
SetStatus(j, st) ==
    LET content == { IF e.task = j.entry.task THEN [e EXCEPT !.st = st] ELSE e : e \in active }
    IN /\ active' = content
       /\ IF j.entry.task \in TasksOf(active)
          THEN Capture(j.entry.run, content)
          ELSE UNCHANGED snaps

\* The last status of the job's file, then the snapshot, written at once.
FileEnds(j, st, res) ==
    /\ SetStatus(j, st)
    /\ Become(j, "snapshot", res)
    /\ UNCHANGED <<up, queue, batches, lock, fill, cancel, pause, cancels, closing, disk,
                   infl, fresh, bounds, hist>>

Cancelled(j) == j.entry.run \in cancel

\* cancel_flags is looked at before the request, and before each chunk.
Abandons(j) ==
    IF j.entry.run \in pause
    THEN FileEnds(j, "paused", "ok") /\ UNCHANGED file
    ELSE FileEnds(j, "cancelled", "ok") /\ file' = PartRemoved(j.entry.task)

\* acquire_global_download_slot, then the claim of the destination.  A second entry for
\* it is refused when it is enqueued; should a restart have brought one back, its claim
\* fails the download for good, which is one of the outcomes of JobRefused.
JobClaims(j) ==
    /\ j.pc = "slot"
    /\ Cardinality(Writing) < limit
    /\ \/ Cancelled(j) /\ Abandons(j)
       \/ /\ ~Cancelled(j)
          /\ Become(j, "send", "none")
          /\ UNCHANGED <<up, queue, active, batches, lock, fill, cancel, pause, cancels,
                         closing, snaps, disk, infl, file, fresh, bounds, hist>>

JobCancelled(j) ==
    /\ j.pc = "stream"
    /\ Cancelled(j)
    /\ Abandons(j)

\* The headers are good, and the .part is opened.
JobConnects(j) ==
    /\ j.pc = "send"
    /\ Become(j, "stream", "none")
    /\ file' = [file EXCEPT ![j.entry.task] = [kind |-> "part", run |-> j.entry.run]]
    /\ UNCHANGED <<up, queue, active, batches, lock, fill, cancel, pause, cancels, closing,
                   snaps, disk, infl, fresh, bounds, hist>>

\* A chunk is written; every half second the progress, which goes to the writer.
JobProgress(j) ==
    /\ j.pc = "stream"
    /\ ~Cancelled(j)
    /\ j.entry.task \in TasksOf(active)
    /\ LET content == { IF e.task = j.entry.task THEN [e EXCEPT !.st = "active"] ELSE e :
                          e \in active }
       IN active' = content /\ Capture(0, content)
    /\ UNCHANGED <<up, queue, batches, jobs, lock, fill, cancel, pause, cancels, closing,
                   disk, infl, file, fresh, bounds, hist>>

\* The size is right, or the server says (416) that nothing is left: the .part becomes the file.
JobCompletes(j) ==
    /\ j.pc \in {"send", "stream"}
    /\ file[j.entry.task].kind = "part"
    /\ FileEnds(j, "completed", "ok")
    /\ file' = [file EXCEPT ![j.entry.task] = [kind |-> "final", run |-> j.entry.run]]

\* No answer: the connection fails, or the headers take too long.
JobUnanswered(j) ==
    /\ j.pc = "send"
    /\ FileEnds(j, "error", "retry") /\ UNCHANGED file

\* The server refuses, for now or for good.
JobRefused(j) ==
    /\ j.pc = "send"
    /\ \E res \in {"retry", "fatal"} : FileEnds(j, "error", res)
    /\ UNCHANGED file

\* The .part does not fit what the server has, and is removed.
JobPartUseless(j) ==
    /\ j.pc = "send"
    /\ FileEnds(j, "error", "retry")
    /\ file' = PartRemoved(j.entry.task)

\* The stream stalls or breaks off, or the disk fails.
JobBreaks(j) ==
    /\ j.pc = "stream"
    /\ \E res \in {"retry", "fatal"} : FileEnds(j, "error", res)
    /\ UNCHANGED file

\* The snapshot of a job is dropped if a later one has been written.
JobSnapshot(j) ==
    /\ j.pc = "snapshot"
    /\ LET mine == { n \in DOMAIN snaps : snaps[n].owner = j.entry.run } IN
       \/ mine = {} /\ UNCHANGED <<infl, snaps, hist>>
       \/ \E n \in mine : SnapshotWritten(n)
    /\ Become(j, IF j.res = "retry" /\ ~closing /\ j.entry.retries < MaxRetries
                 THEN "sleep" ELSE "settle", j.res)
    /\ UNCHANGED <<up, queue, active, batches, lock, fill, cancel, pause, cancels, closing,
                   disk, file, fresh, bounds>>

-----------------------------------------------------------------------------
(* The task of an entry: retry and settlement *)

Live(j) == { e \in active : e.id = j.entry.id }

\* After the delay.  The entry may have been taken away; a file that is finished is
\* not queued again.
JobWakes(j) ==
    /\ j.pc = "sleep"
    /\ \/ /\ closing
          /\ Become(j, "settle", j.res)
          /\ UNCHANGED <<queue, active, batches, lock, fill, hist>>
       \/ /\ ~closing /\ lock = Free /\ Live(j) = {}
          /\ jobs' = jobs \ {j}
          /\ batches' = batches \ {j.entry.id}
          /\ fill' = TRUE
          /\ UNCHANGED <<queue, active, lock, hist>>
       \/ /\ ~closing /\ lock = Free
          /\ \E e \in Live(j) :
               LET again == [e EXCEPT !.retries = @ + 1, !.st = "queued"] IN
               IF Terminal(e)
               THEN /\ Become(j, "settle", j.res)
                    /\ UNCHANGED <<queue, active, batches, lock, hist>>
               ELSE /\ Become(j, "requeue", j.res)
                    /\ batches' = batches \ {e.id}
                    /\ active' = active \ {e}
                    /\ queue' = <<again>> \o queue
                    /\ lock' = [op |-> "retry", step |-> "persist", entry |-> again]
                    /\ hist' = [hist EXCEPT !.spent = @ \cup Spent({again})]
          /\ UNCHANGED fill
    /\ UNCHANGED <<up, cancel, pause, cancels, closing, snaps, disk, infl, file, fresh,
                   bounds>>

JobRequeues(j) ==
    /\ j.pc = "requeue" /\ Holds("retry", "persist")
    /\ disk' = PersistQueue(disk, queue)
    /\ Become(j, "confirm", j.res)
    /\ UNCHANGED <<up, queue, active, batches, lock, fill, cancel, pause, cancels, closing,
                   snaps, infl, file, fresh, bounds, hist>>

JobRequeueFails(j) ==
    /\ j.pc = "requeue" /\ Holds("retry", "persist")
    /\ faults < MaxFaults
    /\ faults' = faults + 1
    /\ queue' = Keep(queue, WithoutId(Queued, j.entry.id))
    /\ lock' = Free
    /\ Become(j, "settle", j.res)
    /\ hist' = [hist EXCEPT !.unsaved = @ \cup {j.entry.task}]
    /\ UNCHANGED <<up, active, batches, fill, cancel, pause, cancels, closing, snaps, disk,
                   infl, file, fresh, ops, limit>>

JobRequeued(j) ==
    /\ j.pc = "confirm"
    /\ InflightWritten(WithoutId(infl, j.entry.id))
    /\ jobs' = jobs \ {j}
    /\ lock' = Free
    /\ fill' = TRUE
    /\ UNCHANGED <<up, queue, active, batches, cancel, pause, cancels, closing, disk, file,
                   fresh, bounds, hist>>

\* The last state of the entry (settle_unfinished_download_files), and, in
\* persist_terminal_entry, whether it is kept: not if the user has cancelled it.
\* This holds no lock.
JobSettles(j) ==
    /\ j.pc = "settle"
    /\ \/ /\ Live(j) = {}
          /\ Become(j, "clear", "lost")
       \/ \E e \in Live(j) :
            LET last == [e EXCEPT !.st = IF @ \in {"active", "queued"} THEN "error" ELSE @]
                gone == last.run \in cancel /\ last.run \notin pause
            IN jobs' = (jobs \ {j}) \cup
                 {[j EXCEPT !.pc = IF last.st = "completed" /\ file[e.task].kind # "final"
                                   THEN "clear" ELSE "terminal",
                            !.res = IF last.st = "completed" /\ file[e.task].kind # "final"
                                    THEN "lost"
                                    ELSE IF last.st = "cancelled" \/ gone THEN "gone" ELSE "kept",
                            !.entry = last]}
    /\ UNCHANGED <<up, queue, active, batches, lock, fill, cancel, pause, cancels, closing,
                   snaps, disk, infl, file, fresh, bounds, hist>>

\* The rest of persist_terminal_entry.
JobTerminal(j) ==
    /\ j.pc = "terminal"
    /\ disk' = { e \in disk : e.id # j.entry.id /\ e.id \notin Ids(Queued) }
                   \cup Queued \cup (IF j.res = "kept" THEN {j.entry} ELSE {})
    /\ hist' = IF j.res = "gone" THEN [hist EXCEPT !.dropped = @ \cup {j.entry.task}]
                                 ELSE hist
    /\ Become(j, "clear", "durable")
    /\ UNCHANGED <<up, queue, active, batches, lock, fill, cancel, pause, cancels, closing,
                   snaps, infl, file, fresh, bounds>>

JobTerminalFails(j) ==
    /\ j.pc = "terminal"
    /\ faults < MaxFaults
    /\ faults' = faults + 1
    /\ Become(j, "clear", "lost")
    /\ hist' = [hist EXCEPT !.unsaved = @ \cup {j.entry.task}]
    /\ UNCHANGED <<up, queue, active, batches, lock, fill, cancel, pause, cancels, closing,
                   snaps, disk, infl, file, fresh, ops, limit>>

\* History: the entry has been resumed, with its id, before its old task was done.
Again(j) ==
    { k.entry.task : k \in { l \in jobs \ {j} : l.entry.id = j.entry.id } }
        \cup (IF lock.op = "fill" /\ lock.step # "next" /\ lock.entry.id = j.entry.id
              THEN {lock.entry.task} ELSE {})

\* Mutant: the task ends without looking at the queue again.
JobClears_Leaves(j) ==
    /\ j.pc = "clear"
    /\ batches' = batches \ {j.entry.id}
    /\ active' = WithoutId(active, j.entry.id)
    /\ InflightWritten(WithoutId(infl, j.entry.id))
    /\ jobs' = jobs \ {j}
    /\ UNCHANGED <<up, queue, lock, fill, cancel, pause, cancels, closing, disk, file,
                   fresh, bounds, hist>>

\* Only a durable last state takes the entry out of infl.
JobClears(j) ==
    /\ j.pc = "clear"
    /\ batches' = batches \ {j.entry.id}
    /\ active' = WithoutId(active, j.entry.id)
    /\ IF j.res = "durable"
       THEN /\ InflightWritten(WithoutId(infl, j.entry.id))
            /\ hist' = [hist EXCEPT !.settled = @ \cup {j.entry.run},
                                    !.unsaved = @ \cup Again(j)]
       ELSE UNCHANGED <<infl, snaps, hist>>
    /\ jobs' = jobs \ {j}
    /\ fill' = TRUE
    /\ UNCHANGED <<up, queue, lock, cancel, pause, cancels, closing, disk, file, fresh,
                   bounds>>

Job(j) ==
    \/ JobClaims(j) \/ JobCancelled(j) \/ JobConnects(j)
    \/ JobProgress(j) \/ JobCompletes(j) \/ JobUnanswered(j) \/ JobRefused(j)
    \/ JobPartUseless(j) \/ JobBreaks(j) \/ JobSnapshot(j)
    \/ JobWakes(j) \/ JobRequeues(j) \/ JobRequeueFails(j) \/ JobRequeued(j)
    \/ JobSettles(j) \/ JobTerminal(j) \/ JobTerminalFails(j) \/ JobClears(j)

-----------------------------------------------------------------------------
(* Commands of the user *)

Command ==
    /\ up /\ ~closing
    /\ ops < MaxOps
    /\ ops' = ops + 1

Locked == Command /\ lock = Free

\* The entries that are known for a task, as each command collects them.
Known == disk \cup Queued \cup active

\* enqueue_download_queue.  The destination of a task that may still write is taken.
Enqueue(t) ==
    /\ Locked
    /\ t \notin hist.accepted
    /\ LET e == [id |-> fresh + 1, task |-> t, run |-> fresh + 1, st |-> "queued",
                 retries |-> 0] IN
       /\ fresh' = fresh + 1
       /\ \/ /\ queue' = Append(queue, e)
             /\ disk' = PersistQueue(disk, Append(queue, e))
             /\ fill' = TRUE
             /\ hist' = [hist EXCEPT !.accepted = @ \cup {t}, !.spent = @ \cup Spent({e})]
             /\ UNCHANGED faults
          \/ /\ faults < MaxFaults
             /\ faults' = faults + 1
             /\ UNCHANGED <<queue, disk, fill, hist>>
    /\ UNCHANGED <<up, active, batches, jobs, lock, cancel, pause, cancels, closing, snaps,
                   infl, file, limit>>

\* pause_file_download, of a file in the queue ...
PauseQueued(t) ==
    /\ Locked
    /\ \E e \in Queued :
         /\ e.task = t
         /\ fresh' = fresh + 1
         /\ disk' = WithoutTask(disk, t) \cup {[e EXCEPT !.id = fresh + 1, !.st = "paused"]}
         /\ queue' = Keep(queue, Queued \ {e})
    /\ UNCHANGED <<up, active, batches, jobs, lock, fill, cancel, pause, cancels, closing,
                   snaps, infl, file, faults, limit, hist>>

\* ... or of one that runs.
PauseRunning(t) ==
    /\ Locked
    /\ t \notin TasksOf(Queued)
    /\ \E e \in active :
         /\ e.task = t
         /\ pause' = pause \cup {e.run}
         /\ cancel' = cancel \cup {e.run}
    /\ UNCHANGED <<up, queue, active, batches, jobs, lock, fill, cancels, closing, snaps,
                   disk, infl, file, fresh, faults, limit, hist>>

\* cancel_and_cleanup_download sets the flag, and lets go of the lock ...
CancelBegins(t) ==
    /\ Locked
    /\ \E e \in Known :
         /\ e.task = t
         /\ cancel' = cancel \cup {e.run}
         /\ pause' = pause \ {e.run}
         /\ cancels' = cancels \cup {[task |-> t, run |-> e.run]}
    /\ UNCHANGED <<up, queue, active, batches, jobs, lock, fill, closing, snaps, disk, infl,
                   file, fresh, faults, limit, hist>>

\* Mutant: the files are removed without waiting for the writer.
Stopped_Always(run) == TRUE

Stopped(run) == \A j \in Writing : j.entry.run # run

\* ... until the run has stopped; then it removes the files and the entries, first
\* those on disk,
CancelRemoves(c) ==
    /\ up /\ lock = Free
    /\ Stopped(c.run)
    /\ file' = [file EXCEPT ![c.task] = NoFile]
    /\ disk' = WithoutTask(disk, c.task)
    /\ InflightWritten(WithoutTask(infl, c.task))
    /\ cancels' = cancels \ {c}
    /\ lock' = [op |-> "remove", step |-> "memory", entry |-> c]
    /\ hist' = [hist EXCEPT !.dropped = @ \cup {c.task}]
    /\ UNCHANGED <<up, queue, active, batches, jobs, fill, cancel, pause, closing, fresh,
                   bounds>>

\* then those in memory.
CancelForgets ==
    /\ Holds("remove", "memory")
    /\ active' = WithoutTask(active, lock.entry.task)
    /\ queue' = Keep(queue, WithoutTask(Queued, lock.entry.task))
    /\ lock' = Free
    /\ hist' = [hist EXCEPT !.void = @ \cup {lock.entry.run}]
    /\ UNCHANGED <<up, batches, jobs, fill, cancel, pause, cancels, closing, snaps, disk,
                   infl, file, fresh, bounds>>

\* After five seconds it gives up.
CancelTimesOut(c) ==
    /\ up
    /\ ~Stopped(c.run)
    /\ cancels' = cancels \ {c}
    /\ UNCHANGED <<up, queue, active, batches, jobs, lock, fill, cancel, pause, closing,
                   snaps, disk, infl, file, fresh, bounds, hist>>

\* pause_all_downloads
PauseAll ==
    /\ Locked
    /\ LET runs == { j.entry.run : j \in Writing }
           content == { IF e.run \in runs THEN [e EXCEPT !.st = "pausing"] ELSE e : e \in active }
           paused == [i \in DOMAIN queue |-> [queue[i] EXCEPT !.st = "paused"]]
       IN /\ cancel' = cancel \cup runs
          /\ pause' = pause \cup runs
          /\ active' = content
          /\ InflightWritten(content)
          /\ \/ /\ disk' = PersistQueue(disk, paused)
                /\ queue' = <<>>
                /\ UNCHANGED faults
             \/ /\ faults < MaxFaults
                /\ faults' = faults + 1
                /\ queue' = paused
                /\ UNCHANGED disk
    /\ UNCHANGED <<up, batches, jobs, lock, fill, cancels, closing, file, fresh, limit,
                   hist>>

\* resume_download_task: a new entry with a new run.
Resume(t) ==
    /\ Locked
    /\ t \notin TasksOf(active) \cup TasksOf(Queued)
    /\ \E e \in disk :
         LET again == [e EXCEPT !.id = fresh + 1, !.run = fresh + 1, !.st = "queued"] IN
         /\ e.task = t
         /\ fresh' = fresh + 1
         /\ cancel' = cancel \ {e.run}
         /\ pause' = pause \ {e.run}
         /\ queue' = Append(queue, again)
         /\ disk' = PersistQueue(disk \ {e}, Append(queue, again))
         /\ hist' = [hist EXCEPT !.spent = @ \cup Spent({e})]
    /\ fill' = TRUE
    /\ UNCHANGED <<up, active, batches, jobs, lock, cancels, closing, snaps, infl, file,
                   faults, limit>>

\* resume_all_downloads: the same entries with new runs.
ResumeAll ==
    /\ Locked
    /\ LET idle == { e \in disk : e.st = "paused" /\ e.id \notin Ids(Queued) }
           order == SetToSeq(idle)
           again == [i \in DOMAIN order |-> [order[i] EXCEPT !.run = fresh + i, !.st = "queued"]]
       IN /\ idle # {}
          /\ fresh' = fresh + Len(order)
          /\ queue' = queue \o again
          /\ disk' = PersistQueue(disk, queue \o again)
          /\ hist' = [hist EXCEPT !.spent = @ \cup Spent(idle)]
    /\ fill' = TRUE
    /\ UNCHANGED <<up, active, batches, jobs, lock, cancel, pause, cancels, closing, snaps,
                   infl, file, faults, limit>>

\* clear_download_tasks_by_status, with the .part files of what is cleared; not while
\* one of them is written.
ClearStatus(st) ==
    /\ Locked
    /\ LET gone == { e \in Known \cup infl : e.st = st }
           stay(S) == { e \in S : e.st # st }
       IN /\ gone # {}
          /\ \A j \in Writing : j.entry.task \notin TasksOf(gone)
          /\ file' = [t \in Tasks |-> IF t \in TasksOf(gone) /\ file[t].kind = "part"
                                       THEN NoFile ELSE file[t]]
          /\ disk' = { e \in stay(disk) : e.id \notin Ids(Queued) } \cup Queued
          /\ InflightWritten(stay(infl))
          /\ active' = stay(active)
          /\ batches' = batches \ (Ids(active) \ Ids(stay(active)))
          /\ hist' = [hist EXCEPT !.dropped = @ \cup TasksOf(gone)]
    /\ UNCHANGED <<up, queue, jobs, lock, fill, cancel, pause, cancels, closing, fresh,
                   faults, limit>>

\* process_download_queue
Process ==
    /\ up /\ ~closing /\ ~fill
    /\ queue # <<>> /\ SlotsInUse < limit
    /\ lock = Free
    /\ fill' = TRUE
    /\ UNCHANGED <<up, queue, active, batches, jobs, lock, cancel, pause, cancels, closing,
                   snaps, disk, infl, file, fresh, bounds, hist>>

\* set_download_concurrency
SetConcurrency(n) ==
    /\ Command
    /\ n # limit
    /\ limit' = n
    /\ fill' = TRUE
    /\ UNCHANGED <<up, queue, active, batches, jobs, lock, cancel, pause, cancels, closing,
                   snaps, disk, infl, file, fresh, faults, hist>>

-----------------------------------------------------------------------------
(* Shutdown, crash and restart *)

\* flush_download_manager_state pauses what runs, and waits for a while ...
FlushBegins ==
    /\ Locked
    /\ closing' = TRUE
    /\ LET runs == { j.entry.run : j \in Writing } IN
         cancel' = cancel \cup runs /\ pause' = pause \cup runs
    /\ UNCHANGED <<up, queue, active, batches, jobs, lock, fill, cancels, snaps, disk, infl,
                   file, fresh, faults, limit, hist>>

Forgotten ==
    /\ up' = FALSE
    /\ queue' = <<>> /\ active' = {} /\ batches' = {} /\ jobs' = {}
    /\ lock' = Free /\ fill' = FALSE /\ closing' = FALSE
    /\ cancel' = {} /\ pause' = {} /\ cancels' = {} /\ snaps' = <<>>

\* ... then it saves the rest, and the process ends.
FlushEnds ==
    /\ up /\ closing /\ lock = Free
    /\ LET kept == Queued \cup { IF Terminal(e) THEN e ELSE [e EXCEPT !.st = "paused"] :
                                 e \in active }
       IN disk' = { e \in disk : e.id \notin Ids(kept) } \cup kept
    /\ infl' = {}
    /\ Forgotten
    /\ UNCHANGED <<file, fresh, bounds, hist>>

Crash ==
    /\ up
    /\ faults < MaxFaults
    /\ faults' = faults + 1
    /\ Forgotten
    /\ UNCHANGED <<disk, infl, file, fresh, ops, limit, hist>>

\* Mutant: an entry that was active is left as it is.
Recovered_AsIs == { e \in disk : e.id \notin Ids(infl) } \cup infl

\* merge_crash_recovered_inflight and normalize_crash_recovered_entry
Recovered == { Normalize(e) : e \in { d \in disk : d.id \notin Ids(infl) } \cup infl }

\* restore_runtime_queue_from_disk, with either resume policy.  No name of a run or an
\* entry is remembered elsewhere: they are numbered again, so that a restart does not
\* make a state look new.
Restore(auto) ==
    /\ ~up
    /\ up' = TRUE
    /\ LET again(e) == auto /\ e.st = "paused" /\ e.retries < MaxRetries
           order == SetToSeq(Recovered)
           all == [i \in DOMAIN order |->
                     [order[i] EXCEPT !.id = i, !.run = i,
                                      !.st = IF again(order[i]) THEN "queued" ELSE @]]
       IN /\ fresh' = Len(order)
          /\ disk' = ToSet(all)
          /\ queue' = Keep(all, { e \in ToSet(all) : Runnable(e) })
    /\ file' = [t \in Tasks |-> [file[t] EXCEPT !.run = 0]]
    /\ infl' = {}
    /\ fill' = auto
    /\ hist' = [hist EXCEPT !.atRisk = @ \ TasksOf(Recovered),
                            !.unsaved = @ \ TasksOf(Recovered),
                            !.void = {}, !.settled = {}, !.parked = ~auto]
    /\ UNCHANGED <<active, batches, jobs, lock, cancel, pause, cancels, closing, snaps,
                   bounds>>

-----------------------------------------------------------------------------
Init ==
    /\ up = TRUE
    /\ queue = <<>> /\ active = {} /\ batches = {} /\ jobs = {}
    /\ lock = Free /\ fill = FALSE /\ closing = FALSE
    /\ cancel = {} /\ pause = {} /\ cancels = {} /\ snaps = <<>>
    /\ disk = {} /\ infl = {}
    /\ file = [t \in Tasks |-> NoFile]
    /\ fresh = 0
    /\ limit \in Limits
    /\ ops = 0 /\ faults = 0
    /\ hist = [accepted |-> {}, dropped |-> {}, spent |-> {}, void |-> {}, atRisk |-> {},
               unsaved |-> {}, settled |-> {}, parked |-> FALSE]

Fill ==
    \/ FillEnds \/ DequeueInflight \/ DequeueRefused \/ DequeueActive
    \/ DequeuePersist \/ DequeueFails

User ==
    \/ \E t \in Tasks :
         \/ Enqueue(t) \/ PauseQueued(t) \/ PauseRunning(t) \/ CancelBegins(t)
         \/ Resume(t)
    \/ PauseAll \/ ResumeAll
    \/ \E n \in Limits : SetConcurrency(n)
    \/ \E st \in {"error", "paused", "completed"} : ClearStatus(st)

Next ==
    \/ Fill \/ WriterWrites
    \/ \E j \in jobs : Job(j)
    \/ User \/ Process
    \/ \E c \in cancels : CancelRemoves(c) \/ CancelTimesOut(c)
    \/ CancelForgets
    \/ FlushBegins \/ FlushEnds \/ Crash
    \/ \E auto \in BOOLEAN : Restore(auto)

Spec == Init /\ [][Next]_vars

-----------------------------------------------------------------------------
(* Properties *)

Kept == hist.accepted \ (hist.dropped \cup hist.atRisk \cup hist.unsaved)

\* A crash at any moment finds every download that was accepted and not dropped in one
\* of the two files: an entry is in the file it goes to before it leaves the
\* other (process_download_queue_inner, its rollback, the retry, the settlement, the
\* cancellation and the recovery).  Excepted are entries that a snapshot, captured
\* while they were in neither list, has overtaken, those whose last state could
\* not be written, and those without a retry left.
CrashKeeps ==
    Kept \ hist.spent \subseteq TasksOf(disk \cup infl)

\* A download whose last state is in downloads.json, and which has then left the other
\* file, does not come back: a snapshot captured before has an older generation than
\* the removal (persist_inflight_snapshot, update_inflight_state).  A restart would
\* prefer the old entry and start a finished download again.
SettledStaysOut ==
    \A e \in infl : e.run \notin hist.settled

\* Once cancel_and_cleanup_download has returned, and the run it cancelled writes no
\* more, nothing that run wrote is on the disk: the files are removed after its last
\* write, or by the run itself when it starts late and sees the flag.
CancelledGone ==
    \A t \in Tasks : file[t].kind # "none" /\ Stopped(file[t].run) => file[t].run \notin hist.void

\* What is shown as running has a task that will settle it, after a restart too
\* (normalize_crash_recovered_entry): nothing is active for ever.  A file that pause_all
\* marks after its run has reported its last status may stay pausing.  The state keeps
\* its type.
NoOrphan ==
    /\ TypeOK
    /\ up => /\ \A e \in active : \/ \E j \in jobs : j.entry.id = e.id
                                  \/ lock.op = "fill" /\ lock.step = "persist" /\ lock.entry.id = e.id
             /\ \A e \in disk : e.st # "active"

\* A download that may run does not wait in an idle manager: whoever ends, leaves or
\* adds an entry calls fill_download_queue_slots afterwards.
NoIdleQueue ==
    up /\ ~closing /\ lock = Free /\ ~fill /\ jobs = {} /\ ~hist.parked
        => \A e \in Queued : ~Runnable(e)

\* "retry retained tasks after a network interruption" (GUIDE.md:217): a download the
\* user has neither cancelled nor cleared is still known, so that it can be retried.
\* The code does not keep this: a download that failed its last retry is dropped by
\* the next hand-over.
FailedTaskRetained ==
    up /\ lock = Free => Kept \subseteq TasksOf(Known \cup infl)
=============================================================================
