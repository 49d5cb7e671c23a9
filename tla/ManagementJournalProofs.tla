----------------------- MODULE ManagementJournalProofs -----------------------
(***************************************************************************)
(* The journal is truthful, a key does its work once, and the host         *)
(* implements TaskFate, for any number of tasks, keys and resources.       *)
(***************************************************************************)
EXTENDS ManagementJournal, TLAPS

Pending == {"spawned", "preparing", "waiting", "locked", "unprepared"}
Acting == {"dispatch", "unable"}
Over == {"new", "gone", "done", "broken"}

(* What the two copies of a task's record say, and where its worker is *)
Recorded(t) ==
    /\ worker[t] = "new" => tasks[t] = Absent /\ disk[t] = Absent
    /\ up => (tasks[t] = Absent <=> disk[t] = Absent)
    /\ ~up => tasks[t] = Absent /\ worker[t] \in Over
    /\ t \in notified => tasks[t] # "queued" /\ worker[t] \in Pending \cup {"refused"}
    /\ tasks[t] = "queued" => disk[t] = "queued" /\ worker[t] \in Pending \cup {"refused"}
    /\ tasks[t] = "running" => disk[t] = "running"
    /\ tasks[t] = "running" <=> worker[t] \in Acting \cup {"report"}
    /\ worker[t] \in Pending \cup {"refused"} => tasks[t] \in {"queued", "cancelled", Absent}
    /\ disk[t] = "running" => worker[t] \in Acting \cup {"report", "done", "broken"}
    /\ "cancelled" \in {tasks[t], disk[t]} /\ ~req[t].validate =>
         worker[t] \in Pending \cup {"refused", "gone"}
    /\ "succeeded" \in {tasks[t], disk[t]} => worker[t] = "done"

(* Everyone who refers to the lock of a resource refers to the same lock,  *)
(* which the one who works holds                                           *)
Locking(t) ==
    /\ arc[t] # NoLock => lockOf[req[t].res] = arc[t] /\ worker[t] \notin {"new", "spawned", "preparing"}
    /\ worker[t] = "waiting" => arc[t] # NoLock
    /\ worker[t] \in {"locked", "dispatch"} => arc[t] # NoLock /\ holder[arc[t]] = t

(* A task whose key is not forgotten has a record, and no other its key *)
Keyed ==
    /\ \A t \in Tasks : worker[t] # "new" /\ disk[t] = Absent => req[t].key \in forgotten \cup {NoKey}
    /\ \A t, u \in Tasks :
         t # u /\ worker[t] # "new" /\ worker[u] # "new" /\ req[t].key = req[u].key
            => req[t].key \in forgotten \cup {NoKey}

Inv ==
    /\ TypeOK
    /\ \A t \in Tasks : Recorded(t) /\ Locking(t)
    /\ Keyed

-----------------------------------------------------------------------------
(* Requests and journals                                                   *)

LEMMA RequestType ==
    \A q \in Requests \cup {NoReq} :
        q.key \in Keys \cup {NoKey} /\ q.res \in Resources /\ q.validate \in BOOLEAN
<1>1. (CHOOSE r \in Resources : TRUE) \in Resources
  BY JournalAssumption
<1>2. NoReq \in [key : Keys \cup {NoKey}, res : Resources, validate : BOOLEAN]
  BY <1>1 DEF NoReq
<1>3. Requests \subseteq [key : Keys \cup {NoKey}, res : Resources, validate : BOOLEAN]
  BY JournalAssumption
<1>. QED  BY <1>2, <1>3

LEMMA KeysOfType == ASSUME TypeOK, NEW ids \in SUBSET Tasks PROVE KeysOf(ids) \subseteq Keys
BY RequestType DEF KeysOf, TypeOK

(* A full journal loses finished records only *)
LEMMA TrimmedIs ==
    ASSUME NEW j \in [Tasks -> Statuses \cup {Absent}]
    PROVE  /\ Trimmed(j) \in [Tasks -> Statuses \cup {Absent}]
           /\ \A u \in Tasks : Trimmed(j)[u] = j[u] \/ (Trimmed(j)[u] = Absent /\ j[u] \in Finished)
BY DEF Trimmed, Without, Oldest, Ended

LEMMA InitInv == Init => Inv
<1>. SUFFICES ASSUME Init PROVE Inv
  OBVIOUS
<1>1. TypeOK
  BY JournalAssumption DEF Init, TypeOK, Nothing, Absent, Statuses, Finished, Places
<1>2. \A t \in Tasks : Recorded(t) /\ Locking(t)
  BY JournalAssumption DEF Init, Recorded, Locking, Nothing, Absent, Pending, Acting, Over
<1>3. Keyed
  BY DEF Init, Keyed
<1>. QED  BY <1>1, <1>2, <1>3 DEF Inv

-----------------------------------------------------------------------------
(* Every step preserves the invariant                                      *)

LEMMA SubmitInv == ASSUME Inv, NEW t \in Tasks, NEW q \in Requests, Submit(t, q) PROVE Inv'
<1>1. /\ up /\ worker[t] = "new" /\ ~Replayed(q)
      /\ tasks' = [Trimmed(tasks) EXCEPT ![t] = "queued"] /\ disk' = tasks'
      /\ req' = [req EXCEPT ![t] = q] /\ worker' = [worker EXCEPT ![t] = "spawned"]
      /\ forgotten' = forgotten \cup KeysOf(Ids(tasks) \ Ids(tasks'))
      /\ UNCHANGED <<up, notified, lockOf, arc, holder, faults>>
  BY DEF Submit, Locks
<1>2. TypeOK /\ Keyed /\ \A u \in Tasks : Recorded(u) /\ Locking(u)
  BY DEF Inv
<1>3. /\ Trimmed(tasks) \in [Tasks -> Statuses \cup {Absent}]
      /\ \A u \in Tasks : \/ Trimmed(tasks)[u] = tasks[u]
                          \/ Trimmed(tasks)[u] = Absent /\ tasks[u] \in Finished
  BY <1>2, TrimmedIs DEF TypeOK
<1>4. TypeOK'
  <2>1. forgotten' \subseteq Keys
    BY <1>1, <1>2, KeysOfType DEF TypeOK, Ids
  <2>2. tasks' \in [Tasks -> Statuses \cup {Absent}]
    BY <1>1, <1>3 DEF Statuses
  <2>. QED  BY <1>1, <1>2, <2>1, <2>2 DEF TypeOK, Places
<1>5. \A u \in Tasks : Recorded(u)'
  BY <1>1, <1>2, <1>3 DEF Recorded, TypeOK, Pending, Acting, Over, Statuses, Finished, Absent
<1>6. \A u \in Tasks : Locking(u)'
  BY <1>1, <1>2 DEF Locking, TypeOK
<1>7. Keyed'
  <2>1. \A u \in Tasks : u # t => req'[u] = req[u] /\ worker'[u] = worker[u]
    BY <1>1
  <2>2. \A u \in Tasks : u # t /\ worker[u] # "new" /\ disk'[u] = Absent => req[u].key \in forgotten' \cup {NoKey}
    <3>. SUFFICES ASSUME NEW u \in Tasks, u # t, worker[u] # "new", disk'[u] = Absent,
                         req[u].key # NoKey
                  PROVE  req[u].key \in forgotten'
      OBVIOUS
    <3>1. CASE tasks[u] = Absent
      BY <1>1, <1>2, <3>1 DEF Keyed, Recorded
    <3>2. CASE tasks[u] # Absent
      BY <1>1, <3>2 DEF Ids, KeysOf
    <3>. QED  BY <3>1, <3>2
  <2>3. disk'[t] = "queued" /\ req'[t].key = q.key
    BY <1>1, <1>2, <1>3 DEF TypeOK
  <2>4. \A u \in Tasks : u # t /\ worker[u] # "new" /\ req[u].key = q.key => q.key \in forgotten \cup {NoKey}
    BY <1>1, <1>2 DEF Replayed, Ids, Keyed, Recorded
  <2>5. ASSUME NEW u \in Tasks, worker'[u] # "new", disk'[u] = Absent
        PROVE  req'[u].key \in forgotten' \cup {NoKey}
    BY <2>1, <2>2, <2>3, <2>5 DEF Absent
  <2>6. ASSUME NEW u \in Tasks, NEW v \in Tasks, u # v, worker'[u] # "new", worker'[v] # "new",
               req'[u].key = req'[v].key
        PROVE  req'[u].key \in forgotten' \cup {NoKey}
    <3>1. forgotten \subseteq forgotten'
      BY <1>1
    <3>2. CASE u = t \/ v = t
      BY <2>1, <2>3, <2>4, <2>6, <3>1, <3>2
    <3>3. CASE u # t /\ v # t
      BY <1>2, <2>1, <2>6, <3>1, <3>3 DEF Keyed
    <3>. QED  BY <3>2, <3>3
  <2>. QED  BY <2>5, <2>6 DEF Keyed
<1>. QED  BY <1>4, <1>5, <1>6, <1>7 DEF Inv

(* Keys stay settled when no request is accepted and no record disappears  *)
LEMMA KeyedKept ==
    ASSUME Keyed, UNCHANGED <<req, forgotten>>,
           \A u \in Tasks : worker[u] = "new" => worker'[u] = "new",
           \A u \in Tasks : disk'[u] = Absent => disk[u] = Absent
    PROVE  Keyed'
BY DEF Keyed

(* A worker that drops its guard or its place in the queue disturbs nobody *)
LEMMA ReleaseLocking ==
    ASSUME Inv, NEW t \in Tasks, NEW to \in Places \ {"waiting", "locked", "dispatch"},
           Release(t), UNCHANGED req, worker' = [worker EXCEPT ![t] = to]
    PROVE  /\ \A u \in Tasks : Locking(u)'
           /\ arc' \in [Tasks -> Tasks \cup {NoLock}] /\ holder' \in [Tasks -> Tasks \cup {NoLock}]
           /\ lockOf' = lockOf
<1>1. NoLock \notin Tasks
  BY JournalAssumption DEF Tasks
<1>2. TypeOK /\ \A u \in Tasks : Locking(u)
  BY DEF Inv
<1>3. \A u \in Tasks : u # t => arc'[u] = arc[u] /\ worker'[u] = worker[u]
  BY <1>2 DEF Release, TypeOK
<1>4. \A u \in Tasks : u # t /\ arc[u] # NoLock /\ holder[arc[u]] = u => holder'[arc[u]] = u
  BY <1>1, <1>2 DEF Release, TypeOK
<1>5. arc'[t] = NoLock /\ worker'[t] = to
  BY <1>2 DEF Release, TypeOK
<1>6. \A u \in Tasks : Locking(u)'
  <2>. SUFFICES ASSUME NEW u \in Tasks PROVE Locking(u)'
    OBVIOUS
  <2>1. CASE u = t
    BY <1>5, <2>1 DEF Locking
  <2>2. CASE u # t
    BY <1>2, <1>3, <1>4, <2>2 DEF Locking, Release
  <2>. QED  BY <2>1, <2>2
<1>. QED  BY <1>2, <1>6 DEF Release, TypeOK

LEMMA EnterInv == ASSUME Inv, NEW t \in Tasks, Enter(t) PROVE Inv'
<1>1. TypeOK /\ Keyed /\ \A u \in Tasks : Recorded(u) /\ Locking(u)
  BY DEF Inv
<1>2. /\ up /\ worker[t] = "spawned" /\ UNCHANGED <<up, tasks, disk, req, lockOf, arc, holder, faults, forgotten>>
      /\ \/ tasks[t] = "queued" /\ worker' = [worker EXCEPT ![t] = "preparing"] /\ notified' = notified
         \/ tasks[t] # "queued" /\ worker' = [worker EXCEPT ![t] = "gone"] /\ notified' = notified \ {t}
  BY DEF Enter, Goes, IsIn, Locks
<1>3. TypeOK'
  BY <1>1, <1>2 DEF TypeOK, Places
<1>4. \A u \in Tasks : Recorded(u)'
  BY <1>1, <1>2 DEF Recorded, TypeOK, Pending, Acting, Over, Absent
<1>5. \A u \in Tasks : Locking(u)'
  BY <1>1, <1>2 DEF Locking, TypeOK
<1>6. Keyed'
  BY <1>1, <1>2, KeyedKept DEF TypeOK
<1>. QED  BY <1>3, <1>4, <1>5, <1>6 DEF Inv

LEMMA PrepareFailsInv == ASSUME Inv, NEW t \in Tasks, PrepareFails(t) PROVE Inv'
<1>1. TypeOK /\ Keyed /\ \A u \in Tasks : Recorded(u) /\ Locking(u)
  BY DEF Inv
<1>2. /\ up /\ worker[t] = "preparing" /\ worker' = [worker EXCEPT ![t] = "unprepared"]
      /\ UNCHANGED <<up, tasks, disk, req, notified, lockOf, arc, holder, faults, forgotten>>
  BY DEF PrepareFails, Goes, Locks
<1>3. TypeOK'
  BY <1>1, <1>2 DEF TypeOK, Places
<1>4. \A u \in Tasks : Recorded(u)'
  BY <1>1, <1>2 DEF Recorded, TypeOK, Pending, Acting, Over, Absent
<1>5. \A u \in Tasks : Locking(u)'
  BY <1>1, <1>2 DEF Locking, TypeOK
<1>6. Keyed'
  BY <1>1, <1>2, KeyedKept DEF TypeOK
<1>. QED  BY <1>3, <1>4, <1>5, <1>6 DEF Inv

LEMMA AcquireInv == ASSUME Inv, NEW t \in Tasks, Acquire(t) PROVE Inv'
<1>1. TypeOK /\ Keyed /\ \A u \in Tasks : Recorded(u) /\ Locking(u)
  BY DEF Inv
<1>2. /\ up /\ worker[t] = "preparing" /\ worker' = [worker EXCEPT ![t] = "waiting"]
      /\ arc' = [arc EXCEPT ![t] = Shared(t)]
      /\ UNCHANGED <<up, tasks, disk, req, notified, holder, faults, forgotten>>
  BY DEF Acquire, Goes
<1>3. NoLock \notin Tasks /\ \A u \in Tasks : req[u].res \in Resources
  BY <1>1, RequestType, JournalAssumption DEF TypeOK, Tasks
<1>4. Shared(t) \in Tasks
  BY <1>1, <1>3 DEF Shared, TypeOK
<1>5. /\ lockOf' \in [Resources -> Tasks \cup {NoLock}]
      /\ lockOf'[req[t].res] = Shared(t)
      /\ \A r \in Resources : r # req[t].res /\ lockOf[r] # NoLock /\ Alive(lockOf[r]) => lockOf'[r] = lockOf[r]
  <2>1. lockOf \in [Resources -> Tasks \cup {NoLock}]
    BY <1>1 DEF TypeOK
  <2>2. PICK s \in Tasks, own \in Resources : s = Shared(t) /\ own = req[t].res
    BY <1>3, <1>4
  <2>3. lockOf' = [r \in Resources |->
                     CASE r = own -> s
                       [] lockOf[r] # NoLock /\ Alive(lockOf[r]) -> lockOf[r]
                       [] OTHER -> NoLock]
    BY <2>2 DEF Acquire
  <2>4. lockOf[own] # NoLock /\ Alive(lockOf[own]) => s = lockOf[own]
    BY <2>2 DEF Shared
  <2>. QED  BY <2>1, <2>2, <2>3, <2>4
<1>6. TypeOK'
  BY <1>1, <1>2, <1>4, <1>5 DEF TypeOK, Places
<1>7. \A u \in Tasks : Recorded(u)'
  BY <1>1, <1>2 DEF Recorded, TypeOK, Pending, Acting, Over, Absent
<1>8. \A u \in Tasks : Locking(u)'
  <2>. SUFFICES ASSUME NEW u \in Tasks PROVE Locking(u)'
    OBVIOUS
  <2>1. CASE u = t
    <3>1. arc'[t] = Shared(t) /\ worker'[t] = "waiting" /\ req' = req
      BY <1>1, <1>2 DEF TypeOK
    <3>. QED  BY <1>3, <1>4, <1>5, <2>1, <3>1 DEF Locking
  <2>2. CASE u # t
    <3>1. arc'[u] = arc[u] /\ worker'[u] = worker[u] /\ req'[u] = req[u] /\ holder' = holder
      BY <1>1, <1>2, <2>2 DEF TypeOK
    <3>2. arc[u] # NoLock => lockOf'[req[u].res] = arc[u]
      <4>. SUFFICES ASSUME arc[u] # NoLock PROVE lockOf'[req[u].res] = arc[u]
        OBVIOUS
      <4>1. lockOf[req[u].res] = arc[u] /\ Alive(arc[u])
        BY <1>1 DEF Locking, Alive
      <4>2. req[u].res = req[t].res => Shared(t) = arc[u]
        BY <4>1 DEF Shared
      <4>. QED  BY <1>3, <1>5, <4>1, <4>2
    <3>. QED  BY <1>1, <3>1, <3>2 DEF Locking
  <2>. QED  BY <2>1, <2>2
<1>9. Keyed'
  BY <1>1, <1>2, KeyedKept DEF TypeOK
<1>. QED  BY <1>6, <1>7, <1>8, <1>9 DEF Inv

LEMMA LockedInv == ASSUME Inv, NEW t \in Tasks, Locked(t) PROVE Inv'
<1>1. TypeOK /\ Keyed /\ \A u \in Tasks : Recorded(u) /\ Locking(u)
  BY DEF Inv
<1>2. /\ up /\ worker[t] = "waiting" /\ worker' = [worker EXCEPT ![t] = "locked"]
      /\ holder[arc[t]] = NoLock /\ holder' = [holder EXCEPT ![arc[t]] = t]
      /\ UNCHANGED <<up, tasks, disk, req, notified, lockOf, arc, faults, forgotten>>
  BY DEF Locked, Goes
<1>3. arc[t] \in Tasks /\ NoLock \notin Tasks
  BY <1>1, <1>2, JournalAssumption DEF Locking, TypeOK, Tasks
<1>4. TypeOK'
  BY <1>1, <1>2, <1>3 DEF TypeOK, Places
<1>5. \A u \in Tasks : Recorded(u)'
  BY <1>1, <1>2 DEF Recorded, TypeOK, Pending, Acting, Over, Absent
<1>6. \A u \in Tasks : Locking(u)'
  BY <1>1, <1>2, <1>3 DEF Locking, TypeOK
<1>7. Keyed'
  BY <1>1, <1>2, KeyedKept DEF TypeOK
<1>. QED  BY <1>4, <1>5, <1>6, <1>7 DEF Inv

LEMMA InterruptedInv == ASSUME Inv, NEW t \in Tasks, Interrupted(t) PROVE Inv'
<1>1. TypeOK /\ Keyed /\ \A u \in Tasks : Recorded(u) /\ Locking(u)
  BY DEF Inv
<1>2. /\ up /\ t \in notified /\ worker[t] \in {"preparing", "waiting"}
      /\ worker' = [worker EXCEPT ![t] = "gone"] /\ notified' = notified \ {t} /\ Release(t)
      /\ UNCHANGED <<up, tasks, disk, req, faults, forgotten>>
  BY DEF Interrupted, Goes
<1>3. /\ \A u \in Tasks : Locking(u)'
      /\ arc' \in [Tasks -> Tasks \cup {NoLock}] /\ holder' \in [Tasks -> Tasks \cup {NoLock}]
      /\ lockOf' = lockOf
  BY <1>2, ReleaseLocking DEF Places
<1>4. TypeOK'
  BY <1>1, <1>2, <1>3 DEF TypeOK, Places
<1>5. \A u \in Tasks : Recorded(u)'
  BY <1>1, <1>2 DEF Recorded, TypeOK, Pending, Acting, Over, Absent
<1>6. Keyed'
  BY <1>1, <1>2, KeyedKept DEF TypeOK
<1>. QED  BY <1>3, <1>4, <1>5, <1>6 DEF Inv

(* A journal in which one record has changed is a journal *)
LEMMA WithIs ==
    ASSUME TypeOK, NEW t \in Tasks, NEW s \in Statuses
    PROVE  /\ With(tasks, t, s) \in [Tasks -> Statuses \cup {Absent}]
           /\ \A u \in Tasks : u # t => With(tasks, t, s)[u] = tasks[u]
           /\ With(tasks, t, s)[t] = IF tasks[t] = Absent THEN Absent ELSE s
BY DEF With, TypeOK

LEMMA BeginInv == ASSUME Inv, NEW t \in Tasks, Begin(t) PROVE Inv'
<1>1. TypeOK /\ Keyed /\ \A u \in Tasks : Recorded(u) /\ Locking(u)
  BY DEF Inv
<1>2. /\ up /\ worker[t] \in {"locked", "unprepared"} /\ tasks[t] = "queued"
      /\ worker' = [worker EXCEPT ![t] = Began(t)]
      /\ Began(t) = IF worker[t] = "locked" THEN "dispatch" ELSE "unable"
      /\ disk' = tasks' /\ tasks' = With(tasks, t, "running")
      /\ UNCHANGED <<up, req, notified, lockOf, arc, holder, faults, forgotten>>
  BY DEF Begin, Ready, Startable, IsIn, Began, Locks
<1>3. /\ tasks' \in [Tasks -> Statuses \cup {Absent}] /\ tasks'[t] = "running"
      /\ \A u \in Tasks : u # t => tasks'[u] = tasks[u]
  BY <1>1, <1>2, WithIs DEF Statuses, Absent
<1>4. TypeOK'
  BY <1>1, <1>2, <1>3 DEF TypeOK, Places
<1>5. \A u \in Tasks : Recorded(u)'
  BY <1>1, <1>2, <1>3 DEF Recorded, TypeOK, Pending, Acting, Over, Absent
<1>6. \A u \in Tasks : Locking(u)'
  BY <1>1, <1>2 DEF Locking, TypeOK
<1>7. Keyed'
  BY <1>1, <1>2, <1>3, KeyedKept DEF TypeOK, Recorded, Absent
<1>. QED  BY <1>4, <1>5, <1>6, <1>7 DEF Inv

LEMMA BeginFailsInv == ASSUME Inv, NEW t \in Tasks, BeginFails(t) PROVE Inv'
<1>1. TypeOK /\ Keyed /\ \A u \in Tasks : Recorded(u) /\ Locking(u)
  BY DEF Inv
<1>2. /\ up /\ worker[t] \in {"locked", "unprepared"} /\ tasks[t] = "queued"
      /\ worker' = [worker EXCEPT ![t] = "refused"]
      /\ faults < MaxFaults /\ faults' = faults + 1
      /\ UNCHANGED <<up, tasks, disk, req, notified, lockOf, arc, holder, forgotten>>
  BY DEF BeginFails, Ready, Startable, IsIn, BeginUnsaved, CanFail, Locks
<1>3. TypeOK'
  <2>1. faults' \in 0 .. MaxFaults
    BY <1>1, <1>2, JournalAssumption DEF TypeOK
  <2>. QED  BY <1>1, <1>2, <2>1 DEF TypeOK, Places
<1>4. \A u \in Tasks : Recorded(u)'
  BY <1>1, <1>2 DEF Recorded, TypeOK, Pending, Acting, Over, Absent
<1>5. \A u \in Tasks : Locking(u)'
  BY <1>1, <1>2 DEF Locking, TypeOK
<1>6. Keyed'
  BY <1>1, <1>2, KeyedKept DEF TypeOK
<1>. QED  BY <1>3, <1>4, <1>5, <1>6 DEF Inv

LEMMA BeginGivesUpInv == ASSUME Inv, NEW t \in Tasks, BeginGivesUp(t) PROVE Inv'
<1>1. TypeOK /\ Keyed /\ \A u \in Tasks : Recorded(u) /\ Locking(u)
  BY DEF Inv
<1>2. /\ up /\ worker[t] \in {"locked", "unprepared"} /\ tasks[t] # "queued"
      /\ worker' = [worker EXCEPT ![t] = "gone"] /\ notified' = notified \ {t} /\ Release(t)
      /\ UNCHANGED <<up, tasks, disk, req, faults, forgotten>>
  BY DEF BeginGivesUp, Ready, Startable, IsIn
<1>3. /\ \A u \in Tasks : Locking(u)'
      /\ arc' \in [Tasks -> Tasks \cup {NoLock}] /\ holder' \in [Tasks -> Tasks \cup {NoLock}]
      /\ lockOf' = lockOf
  BY <1>2, ReleaseLocking DEF Places
<1>4. TypeOK'
  BY <1>1, <1>2, <1>3 DEF TypeOK, Places
<1>5. \A u \in Tasks : Recorded(u)'
  BY <1>1, <1>2 DEF Recorded, TypeOK, Pending, Acting, Over, Absent
<1>6. Keyed'
  BY <1>1, <1>2, KeyedKept DEF TypeOK
<1>. QED  BY <1>3, <1>4, <1>5, <1>6 DEF Inv

LEMMA DispatchInv == ASSUME Inv, NEW t \in Tasks, Dispatch(t) PROVE Inv'
<1>1. TypeOK /\ Keyed /\ \A u \in Tasks : Recorded(u) /\ Locking(u)
  BY DEF Inv
<1>2. /\ up /\ worker[t] = "dispatch" /\ worker' = [worker EXCEPT ![t] = "report"] /\ Release(t)
      /\ UNCHANGED <<up, tasks, disk, req, notified, faults, forgotten>>
  BY DEF Dispatch, Goes
<1>3. /\ \A u \in Tasks : Locking(u)'
      /\ arc' \in [Tasks -> Tasks \cup {NoLock}] /\ holder' \in [Tasks -> Tasks \cup {NoLock}]
      /\ lockOf' = lockOf
  BY <1>2, ReleaseLocking DEF Places
<1>4. TypeOK'
  BY <1>1, <1>2, <1>3 DEF TypeOK, Places
<1>5. \A u \in Tasks : Recorded(u)'
  BY <1>1, <1>2 DEF Recorded, TypeOK, Pending, Acting, Over, Absent
<1>6. Keyed'
  BY <1>1, <1>2, KeyedKept DEF TypeOK
<1>. QED  BY <1>3, <1>4, <1>5, <1>6 DEF Inv

(* What update_task does to the two copies of the journal *)
LEMMA ReportIs ==
    ASSUME Inv, up, NEW t \in Tasks, NEW s \in Statuses, Report(t, s)
    PROVE  /\ tasks' \in [Tasks -> Statuses \cup {Absent}] /\ disk' \in [Tasks -> Statuses \cup {Absent}]
           /\ faults' \in 0 .. MaxFaults
           /\ \A u \in Tasks : u # t => tasks'[u] = tasks[u]
           /\ tasks'[t] = IF tasks[t] = Absent THEN Absent ELSE s
           /\ disk' = tasks' \/ disk' = disk
           /\ \A u \in Tasks : disk'[u] = Absent => disk[u] = Absent
<1>1. TypeOK /\ \A u \in Tasks : Recorded(u)
  BY DEF Inv
<1>2. /\ tasks' \in [Tasks -> Statuses \cup {Absent}]
      /\ \A u \in Tasks : u # t => tasks'[u] = tasks[u]
      /\ tasks'[t] = IF tasks[t] = Absent THEN Absent ELSE s
  BY <1>1, WithIs DEF Report
<1>3. s # Absent
  BY DEF Statuses, Finished, Absent
<1>4. faults' \in 0 .. MaxFaults
  BY <1>1, JournalAssumption DEF Report, CanFail, TypeOK
<1>5. disk' = tasks' \/ disk' = disk
  BY DEF Report
<1>6. \A u \in Tasks : disk'[u] = Absent => disk[u] = Absent
  BY <1>1, <1>2, <1>3, <1>5 DEF Recorded
<1>. QED  BY <1>1, <1>2, <1>4, <1>5, <1>6 DEF TypeOK

LEMMA OthersRecorded ==
    ASSUME NEW u \in Tasks, Recorded(u), up, up', UNCHANGED <<tasks[u], worker[u], req[u]>>,
           disk'[u] = tasks[u] \/ disk'[u] = disk[u], u \in notified' => u \in notified
    PROVE  Recorded(u)'
BY DEF Recorded, Pending, Acting, Absent

LEMMA CompleteInv == ASSUME Inv, NEW t \in Tasks, Complete(t) PROVE Inv'
<1>1. TypeOK /\ Keyed /\ \A u \in Tasks : Recorded(u) /\ Locking(u)
  BY DEF Inv
<1>2. /\ up /\ worker[t] = "report" /\ worker' = [worker EXCEPT ![t] = "done"]
      /\ UNCHANGED <<up, req, notified, lockOf, arc, holder, forgotten>>
  BY DEF Complete, Goes, Locks
<1>3. PICK s \in Outcomes(t) : Report(t, s)
  BY DEF Complete
<1>4. s \in {"succeeded", "failed", "cancelled"} /\ (s = "cancelled" => req[t].validate)
  BY DEF Outcomes
<1>5. /\ tasks' \in [Tasks -> Statuses \cup {Absent}] /\ disk' \in [Tasks -> Statuses \cup {Absent}]
      /\ faults' \in 0 .. MaxFaults
      /\ \A u \in Tasks : u # t => tasks'[u] = tasks[u]
      /\ tasks'[t] = IF tasks[t] = Absent THEN Absent ELSE s
      /\ disk' = tasks' \/ disk' = disk
      /\ \A u \in Tasks : disk'[u] = Absent => disk[u] = Absent
  <2>1. s \in Statuses
    BY <1>4 DEF Statuses, Finished
  <2>. QED  BY <1>2, <1>3, <2>1, ReportIs
<1>6. TypeOK'
  BY <1>1, <1>2, <1>5 DEF TypeOK, Places
<1>7. \A u \in Tasks : Recorded(u)'
  <2>. SUFFICES ASSUME NEW u \in Tasks PROVE Recorded(u)'
    OBVIOUS
  <2>1. CASE u = t
    BY <1>1, <1>2, <1>4, <1>5, <2>1 DEF Recorded, TypeOK, Pending, Acting, Over, Absent
  <2>2. CASE u # t
    BY <1>1, <1>2, <1>5, <2>2, OthersRecorded DEF TypeOK
  <2>. QED  BY <2>1, <2>2
<1>8. \A u \in Tasks : Locking(u)'
  BY <1>1, <1>2 DEF Locking, TypeOK
<1>9. Keyed'
  BY <1>1, <1>2, <1>5, KeyedKept DEF TypeOK
<1>. QED  BY <1>6, <1>7, <1>8, <1>9 DEF Inv

LEMMA UnableInv == ASSUME Inv, NEW t \in Tasks, Unable(t) PROVE Inv'
<1>1. TypeOK /\ Keyed /\ \A u \in Tasks : Recorded(u) /\ Locking(u)
  BY DEF Inv
<1>2. /\ up /\ Report(t, "failed") /\ Release(t) /\ notified' = notified \ {t}
      /\ \/ worker[t] = "unable" /\ worker' = [worker EXCEPT ![t] = "done"]
         \/ worker[t] = "refused" /\ worker' = [worker EXCEPT ![t] = "gone"]
      /\ UNCHANGED <<up, req, forgotten>>
  BY DEF Unable, Goes
<1>3. /\ \A u \in Tasks : Locking(u)'
      /\ arc' \in [Tasks -> Tasks \cup {NoLock}] /\ holder' \in [Tasks -> Tasks \cup {NoLock}]
      /\ lockOf' = lockOf
  BY <1>2, ReleaseLocking DEF Places
<1>4. /\ tasks' \in [Tasks -> Statuses \cup {Absent}] /\ disk' \in [Tasks -> Statuses \cup {Absent}]
      /\ faults' \in 0 .. MaxFaults
      /\ \A u \in Tasks : u # t => tasks'[u] = tasks[u]
      /\ tasks'[t] = IF tasks[t] = Absent THEN Absent ELSE "failed"
      /\ disk' = tasks' \/ disk' = disk
      /\ \A u \in Tasks : disk'[u] = Absent => disk[u] = Absent
  BY <1>2, ReportIs DEF Statuses, Finished
<1>5. TypeOK'
  BY <1>1, <1>2, <1>3, <1>4 DEF TypeOK, Places
<1>6. \A u \in Tasks : Recorded(u)'
  <2>. SUFFICES ASSUME NEW u \in Tasks PROVE Recorded(u)'
    OBVIOUS
  <2>1. CASE u = t
    <3>1. disk'[t] = tasks'[t] \/ disk'[t] = disk[t]
      BY <1>4
    <3>2. tasks'[t] = Absent \/ tasks'[t] = "failed"
      BY <1>4
    <3>3. tasks'[t] = Absent <=> tasks[t] = Absent
      BY <1>4 DEF Absent
    <3>4. req' = req /\ up' /\ up /\ t \notin notified'
      BY <1>2
    <3>5. CASE worker[t] = "unable"
      <4>1. worker'[t] = "done"
        BY <1>1, <1>2, <3>5 DEF TypeOK
      <4>. QED  BY <1>1, <2>1, <3>1, <3>2, <3>3, <3>4, <3>5, <4>1
                DEF Recorded, Pending, Acting, Absent
    <3>6. CASE worker[t] = "refused"
      <4>1. worker'[t] = "gone"
        BY <1>1, <1>2, <3>6 DEF TypeOK
      <4>. QED  BY <1>1, <2>1, <3>1, <3>2, <3>3, <3>4, <3>6, <4>1
                DEF Recorded, Pending, Acting, Absent
    <3>. QED  BY <1>2, <3>5, <3>6
  <2>2. CASE u # t
    BY <1>1, <1>2, <1>4, <2>2, OthersRecorded DEF TypeOK
  <2>. QED  BY <2>1, <2>2
<1>7. Keyed'
  BY <1>1, <1>2, <1>4, KeyedKept DEF TypeOK
<1>. QED  BY <1>3, <1>5, <1>6, <1>7 DEF Inv

LEMMA CancelTaskInv == ASSUME Inv, NEW t \in Tasks, CancelTask(t) PROVE Inv'
<1>1. TypeOK /\ Keyed /\ \A u \in Tasks : Recorded(u) /\ Locking(u)
  BY DEF Inv
<1>2. /\ up /\ tasks[t] = "queued" /\ tasks' = With(tasks, t, "cancelled") /\ disk' = tasks'
      /\ notified' = notified \cup {t}
      /\ UNCHANGED <<up, req, worker, lockOf, arc, holder, faults, forgotten>>
  BY DEF CancelTask, Cancellable, IsIn, Locks
<1>3. /\ tasks' \in [Tasks -> Statuses \cup {Absent}] /\ tasks'[t] = "cancelled"
      /\ \A u \in Tasks : u # t => tasks'[u] = tasks[u]
  BY <1>1, <1>2, WithIs DEF Statuses, Finished, Absent
<1>4. TypeOK'
  BY <1>1, <1>2, <1>3 DEF TypeOK
<1>5. \A u \in Tasks : Recorded(u)'
  <2>. SUFFICES ASSUME NEW u \in Tasks PROVE Recorded(u)'
    OBVIOUS
  <2>1. CASE u = t
    BY <1>1, <1>2, <1>3, <2>1 DEF Recorded, Pending, Acting, Over, Absent
  <2>2. CASE u # t
    BY <1>1, <1>2, <1>3, <2>2, OthersRecorded
  <2>. QED  BY <2>1, <2>2
<1>6. \A u \in Tasks : Locking(u)'
  BY <1>1, <1>2 DEF Locking
<1>7. Keyed'
  BY <1>1, <1>2, <1>3, KeyedKept DEF Recorded, Absent
<1>. QED  BY <1>4, <1>5, <1>6, <1>7 DEF Inv

LEMMA RemoveHistoryInv == ASSUME Inv, RemoveHistory PROVE Inv'
<1>1. TypeOK /\ Keyed /\ \A u \in Tasks : Recorded(u) /\ Locking(u)
  BY DEF Inv
<1>2. /\ up /\ disk' = tasks'
      /\ UNCHANGED <<up, req, worker, notified, lockOf, arc, holder, faults>>
  BY DEF RemoveHistory, Locks
<1>3. PICK gone \in SUBSET Ended(tasks) :
        tasks' = Without(tasks, gone) /\ forgotten' = forgotten \cup KeysOf(gone)
  BY DEF RemoveHistory
<1>4. /\ tasks' \in [Tasks -> Statuses \cup {Absent}] /\ gone \in SUBSET Tasks
      /\ \A u \in Tasks : tasks'[u] = IF u \in gone THEN Absent ELSE tasks[u]
      /\ \A u \in gone : tasks[u] \in Finished
  BY <1>1, <1>3 DEF Without, TypeOK, Ended
<1>5. TypeOK'
  <2>1. forgotten' \subseteq Keys
    BY <1>1, <1>3, <1>4, KeysOfType DEF TypeOK
  <2>. QED  BY <1>1, <1>2, <1>4, <2>1 DEF TypeOK
<1>6. \A u \in Tasks : Recorded(u)'
  <2>. SUFFICES ASSUME NEW u \in Tasks PROVE Recorded(u)'
    OBVIOUS
  <2>1. CASE u \in gone
    <3>1. tasks'[u] = Absent /\ disk'[u] = Absent /\ tasks[u] \notin {"queued", "running"}
      BY <1>2, <1>4, <2>1 DEF Finished
    <3>. QED  BY <1>1, <1>2, <3>1 DEF Recorded, Pending, Acting, Absent
  <2>2. CASE u \notin gone
    BY <1>1, <1>2, <1>4, <2>2, OthersRecorded
  <2>. QED  BY <2>1, <2>2
<1>7. \A u \in Tasks : Locking(u)'
  BY <1>1, <1>2 DEF Locking
<1>8. Keyed'
  <2>1. ASSUME NEW u \in Tasks, worker[u] # "new", disk'[u] = Absent
        PROVE  req[u].key \in forgotten' \cup {NoKey}
    <3>1. CASE u \in gone
      BY <1>3, <3>1 DEF KeysOf
    <3>2. CASE u \notin gone
      BY <1>1, <1>2, <1>3, <1>4, <2>1, <3>2 DEF Keyed, Recorded
    <3>. QED  BY <3>1, <3>2
  <2>2. forgotten \subseteq forgotten'
    BY <1>3
  <2>. QED  BY <1>1, <1>2, <2>1, <2>2 DEF Keyed
<1>. QED  BY <1>5, <1>6, <1>7, <1>8 DEF Inv

LEMMA CrashInv == ASSUME Inv, Crash PROVE Inv'
<1>1. TypeOK /\ Keyed /\ \A u \in Tasks : Recorded(u) /\ Locking(u)
  BY DEF Inv
<1>2. /\ up' = FALSE /\ tasks' = Nothing /\ worker' = [t \in Tasks |-> Stopped(worker[t])]
      /\ notified' = {} /\ lockOf' = [r \in Resources |-> NoLock]
      /\ arc' = [t \in Tasks |-> NoLock] /\ holder' = [l \in Tasks |-> NoLock]
      /\ faults' \in 0 .. MaxFaults /\ UNCHANGED <<disk, req, forgotten>> /\ up
  BY <1>1, JournalAssumption DEF Crash, CanFail, TypeOK
<1>3. \A w \in Places : /\ Stopped(w) \in Over /\ (Stopped(w) = "new" <=> w = "new")
                        /\ w \in Acting => Stopped(w) = "broken"
                        /\ w \in {"report", "done"} => Stopped(w) = "done"
                        /\ w = "broken" => Stopped(w) = "broken"
                        /\ w \in Pending \cup {"refused", "gone"} => Stopped(w) = "gone"
  BY DEF Places, Stopped, Over, Acting, Pending
<1>4. Over \subseteq Places
  BY DEF Over, Places
<1>5. TypeOK'
  <2>1. worker' \in [Tasks -> Places]
    BY <1>1, <1>2, <1>3, <1>4 DEF TypeOK
  <2>2. tasks' \in [Tasks -> Statuses \cup {Absent}]
    BY <1>2 DEF Nothing
  <2>. QED  BY <1>1, <1>2, <2>1, <2>2 DEF TypeOK
<1>6. \A u \in Tasks : Recorded(u)'
  <2>. SUFFICES ASSUME NEW u \in Tasks PROVE Recorded(u)'
    OBVIOUS
  <2>1. worker[u] \in Places /\ worker'[u] = Stopped(worker[u])
    BY <1>1, <1>2 DEF TypeOK
  <2>2. tasks'[u] = Absent /\ ~up' /\ disk'[u] = disk[u] /\ req' = req /\ u \notin notified'
    BY <1>2 DEF Nothing
  <2>. QED  BY <1>1, <1>2, <1>3, <2>1, <2>2 DEF Recorded, Acting, Pending, Over, Absent
<1>7. \A u \in Tasks : Locking(u)'
  BY <1>1, <1>2, <1>3 DEF Locking, TypeOK, Over
<1>8. Keyed'
  BY <1>1, <1>2, <1>3, KeyedKept DEF TypeOK
<1>. QED  BY <1>5, <1>6, <1>7, <1>8 DEF Inv

LEMMA StartInv == ASSUME Inv, Start PROVE Inv'
<1>1. TypeOK /\ Keyed /\ \A u \in Tasks : Recorded(u) /\ Locking(u)
  BY DEF Inv
<1>2. /\ ~up /\ up' = TRUE /\ tasks' = Recovered(disk) /\ disk' = tasks'
      /\ UNCHANGED <<req, worker, notified, lockOf, arc, holder, faults, forgotten>>
  BY DEF Start, Locks
<1>3. /\ tasks' \in [Tasks -> Statuses \cup {Absent}]
      /\ \A u \in Tasks : tasks'[u] = IF disk[u] \in {"queued", "running"} THEN "interrupted" ELSE disk[u]
  BY <1>1, <1>2 DEF Recovered, TypeOK, Active, Ids, Ended, Statuses, Finished, Absent
<1>4. TypeOK'
  BY <1>1, <1>2, <1>3 DEF TypeOK
<1>5. \A u \in Tasks : Recorded(u)'
  <2>. SUFFICES ASSUME NEW u \in Tasks PROVE Recorded(u)'
    OBVIOUS
  <2>1. disk'[u] = tasks'[u] /\ up' /\ worker' = worker /\ req' = req /\ notified' = notified
    BY <1>2
  <2>2. tasks'[u] \notin {"queued", "running"}
    BY <1>3
  <2>3. tasks'[u] \in {Absent, "cancelled", "succeeded"} <=> disk[u] \in {Absent, "cancelled", "succeeded"}
    BY <1>3 DEF Absent
  <2>4. tasks'[u] \in {Absent, "cancelled", "succeeded"} => tasks'[u] = disk[u]
    BY <1>3 DEF Absent
  <2>. QED  BY <1>1, <1>2, <2>1, <2>2, <2>3, <2>4 DEF Recorded, Pending, Acting, Over, Absent
<1>6. \A u \in Tasks : Locking(u)'
  BY <1>1, <1>2 DEF Locking
<1>7. Keyed'
  BY <1>1, <1>2, <1>3, KeyedKept DEF Absent
<1>. QED  BY <1>4, <1>5, <1>6, <1>7 DEF Inv

LEMMA NextInv == Inv /\ [Next]_vars => Inv'
<1>. SUFFICES ASSUME Inv, [Next]_vars PROVE Inv'
  OBVIOUS
<1>1. CASE UNCHANGED vars
  BY <1>1 DEF vars, Inv, TypeOK, Recorded, Locking, Keyed
<1>2. ASSUME NEW t \in Tasks, NEW q \in Requests, Submit(t, q) PROVE Inv'
  BY <1>2, SubmitInv
<1>3. ASSUME NEW t \in Tasks, Work(t) PROVE Inv'
  BY <1>3, EnterInv, PrepareFailsInv, AcquireInv, LockedInv, InterruptedInv, BeginInv,
     BeginFailsInv, BeginGivesUpInv, DispatchInv, CompleteInv, UnableInv DEF Work
<1>4. ASSUME NEW t \in Tasks, CancelTask(t) PROVE Inv'
  BY <1>4, CancelTaskInv
<1>5. CASE RemoveHistory \/ Crash \/ Start
  BY <1>5, RemoveHistoryInv, CrashInv, StartInv
<1>. QED  BY <1>1, <1>2, <1>3, <1>4, <1>5 DEF Next

(* The inductive invariant holds of the host (Host.execute and its workers) *)
THEOREM Invariance == Spec => []Inv
BY InitInv, NextInv, PTL DEF Spec

-----------------------------------------------------------------------------
(* What the invariant says of a task                                       *)

Quiet(t) == worker[t] \in Pending \cup {"refused", "gone"}
Awaited(t) == up /\ tasks[t] = "queued" /\ worker[t] # "refused"

LEMMA FateIs ==
    ASSUME TypeOK, NEW t \in Tasks
    PROVE  /\ worker[t] = "new" => FateOf(t) = "unknown"
           /\ worker[t] \in Acting => FateOf(t) = "running"
           /\ worker[t] \in {"report", "done"} => FateOf(t) = "done"
           /\ worker[t] = "broken" => FateOf(t) = "broken"
           /\ Quiet(t) => FateOf(t) = IF Awaited(t) THEN "accepted" ELSE "void"
           /\ \/ worker[t] \in {"new", "report", "done", "broken"} \cup Acting
              \/ Quiet(t)
<1>1. worker[t] \in Places
  BY DEF TypeOK
<1>2. CASE worker[t] \in {"new", "report", "done", "broken"} \cup Acting
  BY <1>2 DEF FateOf, Quiet, Acting, Pending
<1>3. CASE Quiet(t)
  BY <1>3 DEF FateOf, Quiet, Acting, Pending, Awaited, IsIn
<1>. QED  BY <1>1, <1>2, <1>3 DEF Places, Quiet, Pending, Acting

LEMMA InvTruthful == Inv => JournalTruthful
<1>. SUFFICES ASSUME Inv PROVE JournalTruthful
  OBVIOUS
<1>1. TypeOK /\ \A u \in Tasks : Recorded(u) /\ Locking(u)
  BY DEF Inv
<1>2. EffectsJournalled
  BY <1>1 DEF EffectsJournalled, Recorded, Acting
<1>3. Honest
  <2>. SUFFICES ASSUME NEW t \in Tasks
                PROVE  /\ "cancelled" \in {tasks[t], disk[t]} /\ ~req[t].validate => FateOf(t) = "void"
                       /\ "succeeded" \in {tasks[t], disk[t]} => FateOf(t) = "done"
    BY DEF Honest
  <2>1. ASSUME "cancelled" \in {tasks[t], disk[t]}, ~req[t].validate PROVE FateOf(t) = "void"
    <3>1. Quiet(t) /\ tasks[t] # "queued"
      BY <1>1, <2>1 DEF Recorded, Quiet
    <3>. QED  BY <1>1, <3>1, FateIs DEF Awaited
  <2>2. ASSUME "succeeded" \in {tasks[t], disk[t]} PROVE FateOf(t) = "done"
    BY <1>1, <2>2, FateIs DEF Recorded
  <2>. QED  BY <2>1, <2>2
<1>4. OneAtATime
  BY <1>1 DEF OneAtATime, Locking
<1>. QED  BY <1>1, <1>2, <1>3, <1>4 DEF JournalTruthful

(***************************************************************************)
(* What runs is on record before it runs, no record of either copy lies    *)
(* about what was done, and two operations on one resource never overlap,  *)
(* for any number of tasks and resources (journal.rs, scheduling.rs).      *)
(***************************************************************************)
THEOREM JournalTruthfulAlways == Spec => []JournalTruthful
BY Invariance, InvTruthful, PTL

LEMMA InvKeyOnce == Inv => KeyOnce
<1>. SUFFICES ASSUME Inv, NEW t \in Tasks, NEW u \in Tasks, t # u, req[t].key = req[u].key,
                     req[t].key \notin forgotten \cup {NoKey}, Worked(t), Worked(u)
              PROVE  FALSE
  BY DEF KeyOnce
<1>1. worker[t] # "new" /\ worker[u] # "new"
  BY FateIs DEF Inv, Worked
<1>. QED  BY <1>1 DEF Inv, Keyed

(***************************************************************************)
(* A key works once, through crashes and restarts, until the record of its *)
(* task is removed or evicted (Host.execute, journal::enqueue).            *)
(***************************************************************************)
THEOREM KeyOnceAlways == Spec => []KeyOnce
BY Invariance, InvKeyOnce, PTL

-----------------------------------------------------------------------------
(* The host implements TaskFate                                            *)

(* A step that changes the fate of one task *)
LEMMA OneFate ==
    ASSUME NEW t \in Tasks, \A u \in Tasks \ {t} : FateOf(u)' = FateOf(u)
    PROVE  /\ Fate!Becomes(t, FateOf(t), FateOf(t)')
           /\ FateOf(t)' = FateOf(t) => UNCHANGED Fates
BY DEF Fate!Becomes, Fates

(* The fate of a task rests on its worker, its record and the host *)
LEMMA FateFrame ==
    ASSUME TypeOK, TypeOK', NEW u \in Tasks, UNCHANGED <<up, worker[u]>>,
           tasks'[u] = tasks[u] \/ "queued" \notin {tasks[u], tasks'[u]}
    PROVE  FateOf(u)' = FateOf(u)
BY DEF FateOf, IsIn

LEMMA FateIsNext ==
    ASSUME TypeOK', NEW t \in Tasks
    PROVE  /\ worker'[t] \in Acting => FateOf(t)' = "running"
           /\ worker'[t] \in {"report", "done"} => FateOf(t)' = "done"
           /\ worker'[t] = "broken" => FateOf(t)' = "broken"
           /\ worker'[t] = "new" => FateOf(t)' = "unknown"
           /\ Quiet(t)' => FateOf(t)' = IF Awaited(t)' THEN "accepted" ELSE "void"
<1>1. CASE worker'[t] \in {"new", "report", "done", "broken"} \cup Acting
  BY <1>1 DEF FateOf, Quiet, Acting, Pending, IsIn
<1>2. CASE Quiet(t)'
  BY <1>2 DEF FateOf, Quiet, Acting, Pending, Awaited, IsIn
<1>. QED  BY <1>1, <1>2

(* What a step may make of one task *)
Moves(t) ==
    \/ FateOf(t)' = FateOf(t)
    \/ FateOf(t) = "unknown" /\ FateOf(t)' = "accepted"
    \/ FateOf(t) = "accepted" /\ FateOf(t)' \in {"running", "void"}
    \/ FateOf(t) = "running" /\ FateOf(t)' = "done"

Mapped == Fate!Next \/ UNCHANGED Fates

LEMMA MoveMaps ==
    ASSUME Inv, Inv', NEW t \in Tasks, up' = up, Moves(t),
           \A u \in Tasks \ {t} : /\ worker'[u] = worker[u]
                                  /\ tasks'[u] = tasks[u] \/ "queued" \notin {tasks[u], tasks'[u]}
    PROVE  Mapped
<1>1. \A u \in Tasks \ {t} : FateOf(u)' = FateOf(u)
  BY FateFrame DEF Inv
<1>2. CASE FateOf(t)' = FateOf(t)
  BY <1>1, <1>2, OneFate DEF Mapped
<1>3. CASE FateOf(t)' # FateOf(t)
  <2>1. Fate!Becomes(t, FateOf(t), FateOf(t)')
    BY <1>1, OneFate
  <2>2. Fate!Accept(t) \/ Fate!Start(t) \/ Fate!Finish(t) \/ Fate!Withdraw(t)
    BY <1>3, <2>1 DEF Moves, Fate!Accept, Fate!Start, Fate!Finish, Fate!Withdraw
  <2>. QED  BY <2>2 DEF Mapped, Fate!Next
<1>. QED  BY <1>2, <1>3

LEMMA SubmitMaps == ASSUME Inv, Inv', NEW t \in Tasks, NEW q \in Requests, Submit(t, q) PROVE Mapped
<1>1. /\ up /\ worker[t] = "new" /\ tasks' = [Trimmed(tasks) EXCEPT ![t] = "queued"]
      /\ worker' = [worker EXCEPT ![t] = "spawned"] /\ up' = up
  BY DEF Submit
<1>2. /\ Trimmed(tasks) \in [Tasks -> Statuses \cup {Absent}]
      /\ \A u \in Tasks : \/ Trimmed(tasks)[u] = tasks[u]
                          \/ Trimmed(tasks)[u] = Absent /\ tasks[u] \in Finished
  BY TrimmedIs DEF Inv, TypeOK
<1>3. worker'[t] = "spawned" /\ tasks'[t] = "queued"
  BY <1>1, <1>2 DEF Inv, TypeOK
<1>4. FateOf(t) = "unknown" /\ FateOf(t)' = "accepted"
  BY <1>1, <1>3, FateIs, FateIsNext DEF Inv, Quiet, Awaited, Pending
<1>5. \A u \in Tasks \ {t} : /\ worker'[u] = worker[u]
                             /\ tasks'[u] = tasks[u] \/ "queued" \notin {tasks[u], tasks'[u]}
  BY <1>1, <1>2 DEF Inv, TypeOK, Finished, Absent
<1>. QED  BY <1>1, <1>4, <1>5, MoveMaps DEF Moves

(* The steps of a worker that do not change its record *)
LEMMA WorkerMaps ==
    ASSUME Inv, Inv', NEW t \in Tasks, up' = up, tasks' = tasks, Moves(t),
           NEW to, worker' = [worker EXCEPT ![t] = to]
    PROVE  Mapped
<1>1. \A u \in Tasks \ {t} : worker'[u] = worker[u]
  BY DEF Inv, TypeOK
<1>. QED  BY <1>1, MoveMaps

LEMMA WaitingMaps ==
    ASSUME Inv, Inv', NEW t \in Tasks,
           Enter(t) \/ PrepareFails(t) \/ Acquire(t) \/ Locked(t) \/ Interrupted(t) \/ BeginGivesUp(t)
    PROVE  Mapped
<1>1. PICK to \in {"preparing", "unprepared", "waiting", "locked", "gone"} :
        worker' = [worker EXCEPT ![t] = to] /\ up' = up /\ tasks' = tasks
  BY DEF Enter, PrepareFails, Acquire, Locked, Interrupted, BeginGivesUp, Goes
<1>2. worker[t] \in Pending /\ worker'[t] = to
  BY <1>1 DEF Enter, PrepareFails, Acquire, Locked, Interrupted, BeginGivesUp, Goes, Ready, Pending, Inv, TypeOK
<1>3. Quiet(t) /\ Quiet(t)' /\ Awaited(t)' = Awaited(t)
  BY <1>1, <1>2 DEF Quiet, Awaited, Pending
<1>4. FateOf(t)' = FateOf(t)
  BY <1>3, FateIs, FateIsNext DEF Inv
<1>. QED  BY <1>1, <1>4, WorkerMaps DEF Moves

LEMMA BeginMaps == ASSUME Inv, Inv', NEW t \in Tasks, Begin(t) PROVE Mapped
<1>1. /\ up /\ worker[t] \in {"locked", "unprepared"} /\ tasks[t] = "queued"
      /\ worker' = [worker EXCEPT ![t] = Began(t)] /\ Began(t) \in Acting
      /\ tasks' = With(tasks, t, "running") /\ up' = up
  BY DEF Begin, Ready, Startable, IsIn, Began, Acting
<1>2. \A u \in Tasks \ {t} : worker'[u] = worker[u] /\ tasks'[u] = tasks[u]
  BY <1>1, WithIs DEF Inv, TypeOK, Statuses
<1>3. worker'[t] \in Acting
  BY <1>1 DEF Inv, TypeOK
<1>4. FateOf(t) = "accepted" /\ FateOf(t)' = "running"
  BY <1>1, <1>3, FateIs, FateIsNext DEF Inv, Quiet, Awaited, Pending
<1>. QED  BY <1>1, <1>2, <1>4, MoveMaps DEF Moves

LEMMA BeginFailsMaps == ASSUME Inv, Inv', NEW t \in Tasks, BeginFails(t) PROVE Mapped
<1>1. /\ up /\ worker[t] \in {"locked", "unprepared"} /\ tasks[t] = "queued"
      /\ worker' = [worker EXCEPT ![t] = "refused"] /\ up' = up /\ tasks' = tasks
  BY DEF BeginFails, Ready, Startable, IsIn, BeginUnsaved
<1>2. worker'[t] = "refused"
  BY <1>1 DEF Inv, TypeOK
<1>3. FateOf(t) = "accepted" /\ FateOf(t)' = "void"
  BY <1>1, <1>2, FateIs, FateIsNext DEF Inv, Quiet, Awaited, Pending
<1>. QED  BY <1>1, <1>3, WorkerMaps DEF Moves

LEMMA DispatchMaps == ASSUME Inv, Inv', NEW t \in Tasks, Dispatch(t) PROVE Mapped
<1>1. worker[t] = "dispatch" /\ worker' = [worker EXCEPT ![t] = "report"] /\ up' = up /\ tasks' = tasks
  BY DEF Dispatch, Goes
<1>2. worker'[t] = "report"
  BY <1>1 DEF Inv, TypeOK
<1>3. FateOf(t) = "running" /\ FateOf(t)' = "done"
  BY <1>1, <1>2, FateIs, FateIsNext DEF Inv, Acting
<1>. QED  BY <1>1, <1>3, WorkerMaps DEF Moves

LEMMA CompleteMaps == ASSUME Inv, Inv', NEW t \in Tasks, Complete(t) PROVE Mapped
<1>1. up /\ up' = up /\ worker[t] = "report" /\ worker' = [worker EXCEPT ![t] = "done"]
  BY DEF Complete, Goes
<1>2. PICK s \in Statuses : Report(t, s)
  BY DEF Complete, Outcomes, Statuses, Finished
<1>3. \A u \in Tasks \ {t} : worker'[u] = worker[u] /\ tasks'[u] = tasks[u]
  BY <1>1, <1>2, ReportIs DEF Inv, TypeOK
<1>4. worker'[t] = "done"
  BY <1>1 DEF Inv, TypeOK
<1>5. FateOf(t) = "done" /\ FateOf(t)' = "done"
  BY <1>1, <1>4, FateIs, FateIsNext DEF Inv
<1>. QED  BY <1>1, <1>3, <1>5, MoveMaps DEF Moves

LEMMA UnableMaps == ASSUME Inv, Inv', NEW t \in Tasks, Unable(t) PROVE Mapped
<1>1. /\ up /\ up' = up /\ Report(t, "failed")
      /\ \/ worker[t] = "unable" /\ worker' = [worker EXCEPT ![t] = "done"]
         \/ worker[t] = "refused" /\ worker' = [worker EXCEPT ![t] = "gone"]
  BY DEF Unable, Goes
<1>2. \A u \in Tasks \ {t} : worker'[u] = worker[u] /\ tasks'[u] = tasks[u]
  BY <1>1, ReportIs DEF Inv, TypeOK, Statuses, Finished
<1>3. CASE worker[t] = "unable"
  <2>1. worker'[t] = "done"
    BY <1>1, <1>3 DEF Inv, TypeOK
  <2>2. FateOf(t) = "running" /\ FateOf(t)' = "done"
    BY <1>3, <2>1, FateIs, FateIsNext DEF Inv, Acting
  <2>. QED  BY <1>1, <1>2, <2>2, MoveMaps DEF Moves
<1>4. CASE worker[t] = "refused"
  <2>1. worker'[t] = "gone" /\ tasks'[t] # "queued"
    BY <1>1, <1>4, ReportIs DEF Inv, TypeOK, Statuses, Finished, Absent
  <2>2. FateOf(t) = "void" /\ FateOf(t)' = "void"
    BY <1>4, <2>1, FateIs, FateIsNext DEF Inv, Quiet, Awaited
  <2>. QED  BY <1>1, <1>2, <2>2, MoveMaps DEF Moves
<1>. QED  BY <1>1, <1>3, <1>4

LEMMA CancelTaskMaps == ASSUME Inv, Inv', NEW t \in Tasks, CancelTask(t) PROVE Mapped
<1>1. up /\ up' = up /\ worker' = worker /\ tasks[t] = "queued" /\ tasks' = With(tasks, t, "cancelled")
  BY DEF CancelTask, Cancellable, IsIn
<1>2. /\ tasks'[t] = "cancelled"
      /\ \A u \in Tasks \ {t} : worker'[u] = worker[u] /\ tasks'[u] = tasks[u]
  BY <1>1, WithIs DEF Inv, Statuses, Finished, Absent
<1>3. Quiet(t) /\ Quiet(t)'
  BY <1>1 DEF Inv, Recorded, Quiet
<1>4. FateOf(t) \in {"accepted", "void"} /\ FateOf(t)' = "void"
  BY <1>2, <1>3, FateIs, FateIsNext DEF Inv, Awaited
<1>. QED  BY <1>1, <1>2, <1>4, MoveMaps DEF Moves

(* The steps of the host as a whole *)
LEMMA HostMaps == ASSUME Inv, Inv', RemoveHistory \/ Start \/ UNCHANGED vars PROVE Mapped
<1>. SUFFICES ASSUME NEW u \in Tasks PROVE FateOf(u)' = FateOf(u)
  BY DEF Mapped, Fates
<1>1. CASE RemoveHistory
  <2>1. /\ up' = up /\ worker' = worker
        /\ tasks'[u] = tasks[u] \/ (tasks'[u] = Absent /\ tasks[u] \in Finished)
    BY <1>1 DEF RemoveHistory, Without, Ended
  <2>. QED  BY <2>1, FateFrame DEF Inv, Finished, Absent
<1>2. CASE Start
  <2>1. worker' = worker /\ worker[u] \in Over /\ ~up
    BY <1>2 DEF Start, Inv, Recorded
  <2>2. tasks'[u] # "queued"
    BY <1>2 DEF Start, Inv, TypeOK, Recovered, Active, Ids, Ended, Statuses, Finished, Absent
  <2>3. ~Awaited(u) /\ ~Awaited(u)'
    BY <2>1, <2>2 DEF Awaited
  <2>. QED  BY <2>1, <2>3, FateIs, FateIsNext DEF Inv, Over, Quiet
<1>3. CASE UNCHANGED vars
  BY <1>3, FateFrame DEF Inv, vars
<1>. QED  BY <1>1, <1>2, <1>3

LEMMA CrashMaps == ASSUME Inv, Inv', Crash PROVE Mapped
<1>1. ~up' /\ \A t \in Tasks : worker[t] \in Places /\ worker'[t] = Stopped(worker[t])
  BY DEF Crash, Inv, TypeOK
<1>2. ASSUME NEW t \in Tasks
      PROVE  FateOf(t)' = CASE FateOf(t) = "accepted" -> "void"
                            [] FateOf(t) = "running" -> "broken"
                            [] OTHER -> FateOf(t)
  <2>1. CASE worker[t] \in Acting
    <3>1. worker'[t] = "broken"
      BY <1>1, <2>1 DEF Stopped, Acting
    <3>. QED  BY <2>1, <3>1, FateIs, FateIsNext DEF Inv
  <2>2. CASE worker[t] \in {"new", "report", "done", "broken"}
    <3>1. worker'[t] = IF worker[t] = "report" THEN "done" ELSE worker[t]
      BY <1>1, <2>2 DEF Stopped
    <3>. QED  BY <2>2, <3>1, FateIs, FateIsNext DEF Inv
  <2>3. CASE Quiet(t)
    <3>1. worker'[t] = "gone"
      BY <1>1, <2>3 DEF Stopped, Quiet, Pending
    <3>2. FateOf(t)' = "void"
      BY <1>1, <3>1, FateIsNext DEF Inv, Quiet, Awaited
    <3>. QED  BY <2>3, <3>2, FateIs DEF Inv
  <2>. QED  BY <2>1, <2>2, <2>3, FateIs DEF Inv
<1>. QED  BY <1>2 DEF Mapped, Fates, Fate!Next, Fate!Die

LEMMA InitMaps == Init => Fate!Init
<1>. SUFFICES ASSUME Init, NEW t \in Tasks PROVE FateOf(t) = "unknown"
  BY DEF Fate!Init, Fates
<1>1. worker[t] = "new"
  BY DEF Init
<1>. QED  BY <1>1, InitInv, FateIs DEF Inv

LEMMA NextMaps == Inv /\ Inv' /\ [Next]_vars => [Fate!Next]_Fates
<1>. SUFFICES ASSUME Inv, Inv', [Next]_vars PROVE Mapped
  BY DEF Mapped
<1>1. ASSUME NEW t \in Tasks, NEW q \in Requests, Submit(t, q) PROVE Mapped
  BY <1>1, SubmitMaps
<1>2. ASSUME NEW t \in Tasks, Work(t) PROVE Mapped
  BY <1>2, WaitingMaps, BeginMaps, BeginFailsMaps, DispatchMaps, CompleteMaps, UnableMaps DEF Work
<1>3. ASSUME NEW t \in Tasks, CancelTask(t) PROVE Mapped
  BY <1>3, CancelTaskMaps
<1>4. CASE RemoveHistory \/ Start \/ UNCHANGED vars
  BY <1>4, HostMaps
<1>5. CASE Crash
  BY <1>5, CrashMaps
<1>. QED  BY <1>1, <1>2, <1>3, <1>4, <1>5 DEF Next

(***************************************************************************)
(* The host implements TaskFate: every step of a client, a worker or the   *)
(* host itself accepts, starts, finishes or withdraws one task, kills the  *)
(* host, or changes no fate (management/mod.rs, journal.rs).               *)
(***************************************************************************)
THEOREM RefinesTaskFate == Spec => Refines
<1>1. Init => Fate!Init
  BY InitMaps
<1>2. Inv /\ Inv' /\ [Next]_vars => [Fate!Next]_Fates
  BY NextMaps
<1>. QED  BY <1>1, <1>2, Invariance, PTL DEF Spec, Refines, Fate!Spec

==============================================================================
