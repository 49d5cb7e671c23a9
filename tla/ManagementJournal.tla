------------------------- MODULE ManagementJournal -------------------------
(***************************************************************************)
(* The task host of the management interface: the journal of tasks in      *)
(* memory and in tasks.json, one worker per accepted task, the resource    *)
(* locks that serialise operations on one instance or domain, cancellation *)
(* before the side effects, removal of finished records, and the restart   *)
(* of the host (management/mod.rs, journal.rs, history.rs, scheduling.rs). *)
(*                                                                         *)
(* Every transition of the journal holds the tasks mutex and is one step;  *)
(* the file is replaced atomically, and a write may fail.  Tasks are       *)
(* numbered in the order in which they are accepted, which is the order of *)
(* their records, so that the journal is a function from task to status.   *)
(***************************************************************************)
EXTENDS Naturals, FiniteSets

CONSTANTS NTasks,       \* number of requests the host accepts
          Keys, NoKey,  \* idempotency keys, and a request without one
          Resources,    \* what resource_key tells apart
          NoLock,       \* no lock, and no worker that holds it
          Requests,     \* what clients ask for
          MaxActive,    \* 32 in the code
          MaxRecords,   \* 200 in the code
          MaxFaults     \* bound on failing writes and crashes

ASSUME JournalAssumption ==
    /\ NTasks \in Nat
    /\ NoKey \notin Keys /\ NoLock \notin 1..NTasks /\ Resources # {}
    /\ Requests \subseteq [key : Keys \cup {NoKey}, res : Resources, validate : BOOLEAN]
    /\ MaxActive \in Nat \ {0} /\ MaxRecords \in Nat /\ MaxActive <= MaxRecords
    /\ MaxFaults \in Nat

Tasks == 1..NTasks

VARIABLES
    up,         \* the host runs
    tasks,      \* Host.tasks: the status of each record in memory
    disk,       \* tasks.json
    req,        \* task -> its request
    worker,     \* task -> where its spawned future is
    notified,   \* tasks whose cancellation Notify holds a permit
    lockOf,     \* ResourceLocks: resource -> its lock, if one is alive
    arc,        \* worker -> the lock it waits for or holds
    holder,     \* lock -> the worker that holds its guard
    faults,     \* failing writes and crashes so far
    forgotten   \* keys whose record was removed or evicted

vars == <<up, tasks, disk, req, worker, notified, lockOf, arc, holder, faults, forgotten>>

Finished == {"succeeded", "failed", "cancelled", "interrupted"}
Statuses == {"queued", "running"} \cup Finished
NoReq == [key |-> NoKey, res |-> CHOOSE r \in Resources : TRUE, validate |-> FALSE]

Absent == "absent"
Nothing == [t \in Tasks |-> Absent]
Ids(journal) == {t \in Tasks : journal[t] # Absent}
Ended(journal) == {t \in Tasks : journal[t] \in Finished}
Active(journal) == Ids(journal) \ Ended(journal)
IsIn(t, s) == tasks[t] = s
With(journal, t, s) == [journal EXCEPT ![t] = IF @ = Absent THEN @ ELSE s]
Without(journal, ids) == [t \in Tasks |-> IF t \in ids THEN Absent ELSE journal[t]]

CanFail == faults < MaxFaults
Locks == <<lockOf, arc, holder>>

-----------------------------------------------------------------------------
(* Host.execute: accepting a request                                       *)

(* A request whose key is in the journal is answered from the journal *)
Replayed(q) == q.key # NoKey /\ \E t \in Ids(tasks) : req[t].key = q.key

(* journal::enqueue drops the oldest finished records of a full journal.   *)
(* When the file cannot be written it accepts nothing and drops nothing.   *)
Oldest(journal) == {t \in Ended(journal) : \A u \in Ended(journal) : t <= u}
Trimmed(journal) ==
    IF Cardinality(Ids(journal)) >= MaxRecords THEN Without(journal, Oldest(journal)) ELSE journal

KeysOf(ids) == {req[t].key : t \in ids} \ {NoKey}

Submit(t, q) ==
    /\ up /\ worker[t] = "new" /\ \A u \in 1..(t - 1) : worker[u] # "new"
    /\ ~Replayed(q) /\ Cardinality(Active(tasks)) < MaxActive
    /\ tasks' = [Trimmed(tasks) EXCEPT ![t] = "queued"]
    /\ disk' = tasks'
    /\ req' = [req EXCEPT ![t] = q]
    /\ worker' = [worker EXCEPT ![t] = "spawned"]
    /\ forgotten' = forgotten \cup KeysOf(Ids(tasks) \ Ids(tasks'))
    /\ UNCHANGED <<up, notified, Locks, faults>>

-----------------------------------------------------------------------------
(* The worker                                                              *)

Goes(t, from, to) == up /\ worker[t] = from /\ worker' = [worker EXCEPT ![t] = to]

(* It gives up at once if the task was cancelled before it first ran *)
Enter(t) ==
    /\ Goes(t, "spawned", IF IsIn(t, "queued") THEN "preparing" ELSE "gone")
    /\ notified' = IF IsIn(t, "queued") THEN notified ELSE notified \ {t}
    /\ UNCHANGED <<up, tasks, disk, req, Locks, faults, forgotten>>

(* operations::prepare: its failure is reported after the task has begun   *)
PrepareFails(t) ==
    /\ Goes(t, "preparing", "unprepared") /\ ~req[t].validate
    /\ UNCHANGED <<up, tasks, disk, req, notified, Locks, faults, forgotten>>

(* Prepared, on to ResourceLocks::acquire: under the map's mutex, forget   *)
(* locks nobody refers to, then share the resource's lock or make one      *)
Alive(l) == \E w \in Tasks : arc[w] = l
Shared(t) == LET l == lockOf[req[t].res] IN IF l # NoLock /\ Alive(l) THEN l ELSE t
Acquire(t) ==
    /\ Goes(t, "preparing", "waiting")
    /\ arc' = [arc EXCEPT ![t] = Shared(t)]
    /\ lockOf' = [r \in Resources |->
                    CASE r = req[t].res -> Shared(t)
                      [] lockOf[r] # NoLock /\ Alive(lockOf[r]) -> lockOf[r]
                      [] OTHER -> NoLock]
    /\ UNCHANGED <<up, tasks, disk, req, notified, holder, faults, forgotten>>

Locked(t) ==
    /\ Goes(t, "waiting", "locked")
    /\ holder[arc[t]] = NoLock
    /\ holder' = [holder EXCEPT ![arc[t]] = t]
    /\ UNCHANGED <<up, tasks, disk, req, notified, lockOf, arc, faults, forgotten>>

(* Dropping the guard, or the future that waits for it *)
Release(t) ==
    /\ holder' = [l \in Tasks |-> IF holder[l] = t THEN NoLock ELSE holder[l]]
    /\ arc' = [arc EXCEPT ![t] = NoLock]
    /\ UNCHANGED lockOf

(* select!: a cancellation ends the wait, and drops a lock just taken      *)
Interrupted(t) ==
    /\ t \in notified
    /\ \E from \in {"preparing", "waiting"} : Goes(t, from, "gone")
    /\ notified' = notified \ {t}
    /\ Release(t)
    /\ UNCHANGED <<up, tasks, disk, req, faults, forgotten>>

(* journal::begin: queued -> running, durable before any side effect *)
Ready(t) == worker[t] \in {"locked", "unprepared"}
Began(t) == IF worker[t] = "locked" THEN "dispatch" ELSE "unable"
Startable_Present(t) == tasks[t] # Absent
Startable(t) == IsIn(t, "queued")
BeginUnsaved_Runs(t) ==
    /\ tasks' = With(tasks, t, "running") /\ disk' = disk
    /\ worker' = [worker EXCEPT ![t] = Began(t)]
BeginUnsaved(t) ==
    /\ UNCHANGED <<tasks, disk>>
    /\ worker' = [worker EXCEPT ![t] = "refused"]
Begin(t) ==
    /\ up /\ Ready(t) /\ Startable(t)
    /\ tasks' = With(tasks, t, "running") /\ disk' = tasks'
    /\ worker' = [worker EXCEPT ![t] = Began(t)]
    /\ UNCHANGED <<up, req, notified, Locks, faults, forgotten>>

(* ... the write fails: the record is queued again and the worker refuses  *)
BeginFails(t) ==
    /\ up /\ Ready(t) /\ Startable(t) /\ CanFail
    /\ faults' = faults + 1
    /\ BeginUnsaved(t)
    /\ UNCHANGED <<up, req, notified, Locks, forgotten>>

(* ... the record is no longer queued, or is no longer there               *)
BeginGivesUp(t) ==
    /\ up /\ Ready(t) /\ ~Startable(t)
    /\ worker' = [worker EXCEPT ![t] = "gone"]
    /\ notified' = notified \ {t}
    /\ Release(t)
    /\ UNCHANGED <<up, tasks, disk, req, faults, forgotten>>

(* The operation itself, which nothing aborts; its guard drops at its end  *)
Dispatch(t) ==
    /\ Goes(t, "dispatch", "report")
    /\ Release(t)
    /\ UNCHANGED <<up, tasks, disk, req, notified, faults, forgotten>>

(* update_task: memory says what happened even when the file cannot        *)
Report(t, s) ==
    /\ tasks' = With(tasks, t, s)
    /\ \/ disk' = tasks' /\ UNCHANGED faults
       \/ CanFail /\ faults' = faults + 1 /\ UNCHANGED disk

Outcomes(t) == {"succeeded", "failed"} \cup (IF req[t].validate THEN {"cancelled"} ELSE {})
Complete(t) ==
    /\ Goes(t, "report", "done")
    /\ \E s \in Outcomes(t) : Report(t, s)
    /\ UNCHANGED <<up, req, notified, Locks, forgotten>>

Unable_Silent(t) ==
    /\ \/ Goes(t, "unable", "done") /\ Report(t, "failed")
       \/ Goes(t, "refused", "gone") /\ UNCHANGED <<tasks, disk, faults>>
    /\ notified' = notified \ {t}
    /\ Release(t)
    /\ UNCHANGED <<up, req, forgotten>>
Unable(t) ==
    /\ Goes(t, "unable", "done") \/ Goes(t, "refused", "gone")
    /\ Report(t, "failed")
    /\ notified' = notified \ {t}
    /\ Release(t)
    /\ UNCHANGED <<up, req, forgotten>>

-----------------------------------------------------------------------------
(* Other commands                                                          *)

(* cancel_task: a queued task only, and only if that can be recorded       *)
Cancellable(t) == IsIn(t, "queued")
CancelTask(t) ==
    /\ up /\ Cancellable(t)
    /\ tasks' = With(tasks, t, "cancelled") /\ disk' = tasks'
    /\ notified' = notified \cup {t}
    /\ UNCHANGED <<up, req, worker, Locks, faults, forgotten>>

(* history::remove: finished records only, the file before the memory      *)
RemoveHistory ==
    /\ up
    /\ \E gone \in (SUBSET Ended(tasks)) \ {{}} :
         /\ tasks' = Without(tasks, gone)
         /\ forgotten' = forgotten \cup KeysOf(gone)
    /\ disk' = tasks'
    /\ UNCHANGED <<up, req, worker, notified, Locks, faults>>

-----------------------------------------------------------------------------
(* The host dies, and starts again                                         *)

Stopped(w) == CASE w \in {"dispatch", "unable"} -> "broken"
                [] w = "report" -> "done"
                [] w \in {"new", "gone", "done", "broken"} -> w
                [] OTHER -> "gone"
Crash ==
    /\ up /\ CanFail /\ faults' = faults + 1
    /\ up' = FALSE /\ tasks' = Nothing
    /\ worker' = [t \in Tasks |-> Stopped(worker[t])]
    /\ notified' = {}
    /\ lockOf' = [r \in Resources |-> NoLock]
    /\ arc' = [t \in Tasks |-> NoLock] /\ holder' = [l \in Tasks |-> NoLock]
    /\ UNCHANGED <<disk, req, forgotten>>

(* start: what was queued or running is interrupted, nothing is replayed   *)
Recovered_Drops(journal) == Without(journal, Active(journal))
Recovered(journal) ==
    [t \in Tasks |-> IF t \in Active(journal) THEN "interrupted" ELSE journal[t]]
Start ==
    /\ ~up /\ up' = TRUE
    /\ tasks' = Recovered(disk) /\ disk' = tasks'
    /\ UNCHANGED <<req, worker, notified, Locks, faults, forgotten>>

-----------------------------------------------------------------------------
Init ==
    /\ up = TRUE /\ tasks = Nothing /\ disk = Nothing
    /\ req = [t \in Tasks |-> NoReq]
    /\ worker = [t \in Tasks |-> "new"]
    /\ notified = {}
    /\ lockOf = [r \in Resources |-> NoLock]
    /\ arc = [t \in Tasks |-> NoLock] /\ holder = [l \in Tasks |-> NoLock]
    /\ faults = 0 /\ forgotten = {}

Work(t) == \/ Enter(t) \/ PrepareFails(t) \/ Acquire(t) \/ Locked(t) \/ Interrupted(t)
           \/ Begin(t) \/ BeginFails(t) \/ BeginGivesUp(t) \/ Dispatch(t)
           \/ Complete(t) \/ Unable(t)

Next ==
    \/ \E t \in Tasks : \/ \E q \in Requests : Submit(t, q)
                        \/ Work(t)
                        \/ CancelTask(t)
    \/ RemoveHistory \/ Crash \/ Start

Spec == Init /\ [][Next]_vars

(* Futures are polled until they end, and operations end (they time out).  *)
(* No worker has infinitely many steps, so fairness to all serves each; a  *)
(* host that died is started again.                                        *)
FairSpec == Spec /\ WF_vars(Start \/ \E t \in Tasks : Work(t))

-----------------------------------------------------------------------------
Places == {"new", "spawned", "preparing", "waiting", "locked", "unprepared",
           "dispatch", "unable", "report", "refused", "done", "gone", "broken"}

TypeOK ==
    /\ up \in BOOLEAN
    /\ tasks \in [Tasks -> Statuses \cup {Absent}]
    /\ disk \in [Tasks -> Statuses \cup {Absent}]
    /\ req \in [Tasks -> Requests \cup {NoReq}]
    /\ worker \in [Tasks -> Places]
    /\ notified \subseteq Tasks
    /\ lockOf \in [Resources -> Tasks \cup {NoLock}]
    /\ arc \in [Tasks -> Tasks \cup {NoLock}]
    /\ holder \in [Tasks -> Tasks \cup {NoLock}]
    /\ faults \in 0..MaxFaults
    /\ forgotten \subseteq Keys

(* What has become of the side effects of a task *)
FateOf(t) ==
    CASE worker[t] = "new" -> "unknown"
      [] worker[t] \in {"dispatch", "unable"} -> "running"
      [] worker[t] \in {"report", "done"} -> "done"
      [] worker[t] = "broken" -> "broken"
      [] worker[t] \notin {"new", "dispatch", "unable", "report", "done", "broken"} ->
           IF up /\ IsIn(t, "queued") /\ worker[t] # "refused" THEN "accepted" ELSE "void"

Fates == [t \in Tasks |-> FateOf(t)]
Fate == INSTANCE TaskFate WITH fate <- Fates

(***************************************************************************)
(* The host implements TaskFate: through failing writes, cancellations,    *)
(* removals, crashes and restarts the side effects of a task begin at most *)
(* once and never after it was withdrawn.                                  *)
(***************************************************************************)
Refines == Fate!Spec

(***************************************************************************)
(* Side effects happen only behind a durable record: while an operation    *)
(* runs, tasks.json says so, and a crash will be reported as interrupted.  *)
(***************************************************************************)
EffectsJournalled ==
    \A t \in Tasks : worker[t] = "dispatch" => disk[t] = "running"

(***************************************************************************)
(* No record lies, in memory or in the file: cancelled means that nothing  *)
(* was done (unless the operation is a validation, which may stop itself), *)
(* and success that all was.                                               *)
(***************************************************************************)
Honest ==
    \A t \in Tasks :
        /\ "cancelled" \in {tasks[t], disk[t]} /\ ~req[t].validate => FateOf(t) = "void"
        /\ "succeeded" \in {tasks[t], disk[t]} => FateOf(t) = "done"

(* Two operations on one resource never run at the same time *)
OneAtATime ==
    \A t, u \in Tasks :
        t # u /\ worker[t] = "dispatch" /\ worker[u] = "dispatch" => req[t].res # req[u].res

(***************************************************************************)
(* The journal is truthful, about what runs and about what has ended, and  *)
(* what runs excludes each other (ResourceLocks::acquire);                 *)
(* its records keep their type.                                            *)
(***************************************************************************)
JournalTruthful == TypeOK /\ EffectsJournalled /\ Honest /\ OneAtATime

(***************************************************************************)
(* A request repeated with its key does its work once, also when the host  *)
(* died in between, as long as the record of the first was not removed.    *)
(***************************************************************************)
Worked(t) == FateOf(t) \in {"running", "done", "broken"}
KeyOnce ==
    \A t, u \in Tasks :
        t # u /\ req[t].key = req[u].key /\ req[t].key \notin forgotten \cup {NoKey}
            => ~(Worked(t) /\ Worked(u))

(***************************************************************************)
(* Once clients stop asking no task stays active, so the queue that        *)
(* refuses at MaxActive drains: no cancellation is lost, no lock is never  *)
(* freed, and no failed write leaves a record queued for good.             *)
(***************************************************************************)
Drains == <>[](up /\ Active(tasks) = {})

=============================================================================
