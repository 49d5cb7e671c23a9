-------------------------- MODULE DownloadQueueProofs --------------------------
(***************************************************************************)
(* The safety properties of DownloadQueue for any tasks and bounds.        *)
(*                                                                         *)
(* An entry is in one place at a time: the queue, the hand of the          *)
(* scheduler, or a task (OneId).  What is shown, captured or written       *)
(* elsewhere has the names of such an entry (Named, Attended), so that a   *)
(* name which has left them all is gone for good (Apart).  The file keeps  *)
(* what waits or has ended, and no run that is going on (Filed, Resting).  *)
(* A cancelled run is flagged for as long as it may start (Silenced), and  *)
(* somebody will look at the queue (Busy).                                 *)
(*                                                                         *)
(* That a crash loses no download is a second invariant, on top of that    *)
(* one: what is not in downloads.json is in hand (Safe); who has an entry  *)
(* in hand finds it among the active ones (Shown), and so in               *)
(* downloads_inflight.json and in every snapshot still to be written,      *)
(* unless the snapshot is marked as one that may lack it (Covered).        *)
(***************************************************************************)
EXTENDS DownloadQueue, FiniteSetTheorems, FunctionTheorems, SequenceTheorems,
        WellFoundedInduction, TLAPS

-----------------------------------------------------------------------------
(* The inductive invariant *)

Outcomes == {"none", "ok", "retry", "fatal", "durable", "lost", "gone", "kept"}
JobType == [entry : Entries, pc : Steps, res : Outcomes]
SnapType == [owner : Nat, content : SUBSET Entries, late : SUBSET Tasks]
CancelType == [task : Tasks, run : Nat]
MoveType == [op : {"fill"}, step : {"insert", "persist"}, entry : Entries]
RetryType == [op : {"retry"}, step : {"persist"}, entry : Entries]
RemoveType == [op : {"remove"}, step : {"memory"}, entry : CancelType]
FillNext == [op |-> "fill", step |-> "next"]

\* The holder of the scheduler's lock takes an entry from the queue, or back to it.
Moving == lock \in MoveType
Taken == lock \in MoveType \cup RetryType

Pausable == {"queued", "paused"}

Typed ==
    /\ TypeOK
    /\ jobs \subseteq JobType
    /\ cancels \subseteq CancelType
    /\ snaps \in Seq(SnapType)
    /\ lock \in {Free, FillNext} \cup MoveType \cup RetryType \cup RemoveType
    /\ lock \in RetryType => lock.entry.st = "queued"
    /\ \A e \in Queued : e.st \in Pausable
    /\ \A j \in jobs : j.pc = "terminal" => j.entry.st # "active"
    /\ up => \A e \in disk : e.st # "active"
    /\ IsFiniteSet(disk) /\ IsFiniteSet(infl) /\ IsFiniteSet(active)
    /\ \A n \in DOMAIN snaps : IsFiniteSet(snaps[n].content)

\* A process that has ended has left nothing but the files.
Down ==
    ~up => /\ queue = <<>> /\ active = {} /\ jobs = {} /\ batches = {} /\ cancels = {}
           /\ lock = Free /\ snaps = <<>> /\ ~fill /\ ~closing

\* The entries that someone is responsible for, and those that are written down.
Held == IF Taken THEN {lock.entry} ELSE {}
Placed == Queued \cup Held \cup { j.entry : j \in jobs }
Pictured == active \cup infl \cup UNION { snaps[n].content : n \in DOMAIN snaps }
Present == Placed \cup Pictured

\* No identity is used before it is given out.
Numbered ==
    /\ \A e \in Present \cup disk : up => e.id \in 1 .. fresh /\ e.run \in 1 .. fresh
    /\ \A c \in cancels : c.run \in 1 .. fresh
    /\ lock \in RemoveType => lock.entry.run \in 1 .. fresh
    /\ up => hist.void \cup hist.settled \subseteq 1 .. fresh
    /\ up => \A t \in Tasks : file[t].run <= fresh

\* A run has one task, and one entry at a time; an entry has one task.
Named ==
    up => /\ \A x, y \in Present : x.run = y.run => x.id = y.id
          /\ \A x, y \in Present \cup disk \cup cancels : x.run = y.run => x.task = y.task
          /\ \A t \in Tasks : \A y \in Present \cup disk \cup cancels :
               file[t].kind # "none" /\ file[t].run = y.run => t = y.task

Requeueing(j) == j.pc \in {"requeue", "confirm"}

\* Until its task has settled it, an entry is in one place.
Distinct(q) == \A i, k \in DOMAIN q : q[i].id = q[k].id => i = k

OneId ==
    /\ Distinct(queue)
    /\ Moving => \A e \in Queued : e.id # lock.entry.id
    /\ \A j \in jobs : j.pc # "clear" /\ ~Requeueing(j) =>
          /\ \A e \in Queued : e.id # j.entry.id
          /\ Moving => lock.entry.id # j.entry.id
    /\ \A j, k \in jobs : j.pc # "clear" /\ k.pc # "clear" /\ j.entry.id = k.entry.id => j = k

\* The file has an entry once, and as queued until its task has settled it.
Filed ==
    up => /\ \A e, f \in disk : e.id = f.id => e = f
          /\ \A e \in disk : e.st # "queued" =>
               /\ \A j \in jobs : j.pc # "clear" => j.entry.id # e.id
               /\ Taken => lock.entry.id # e.id
               /\ \A q \in Queued : q.st = "queued" => q.id # e.id

\* A run that has been settled is in no other place.
Finished ==
    \A j \in jobs : j.pc = "clear" =>
        /\ \A e \in Queued \cup Held : e.run # j.entry.run
        /\ \A k \in jobs \ {j} : k.entry.run # j.entry.run

\* A retry holds the lock until the entry is back in the queue and in the file.
Retrying ==
    /\ \A j \in jobs : Requeueing(j) =>
         /\ lock \in RetryType
         /\ lock.entry.id = j.entry.id /\ lock.entry.run = j.entry.run
         /\ j.entry.id \notin batches
         /\ Live(j) = {}
    /\ lock \in RetryType => lock.entry \in Queued /\ \E j \in jobs : Requeueing(j)

\* What is active has a task that will settle it.
Attended ==
    /\ \A e, f \in active : e.id = f.id => e = f
    /\ \A e \in active :
         \/ \E j \in jobs : j.entry.run = e.run
         \/ Moving /\ lock.step = "persist" /\ lock.entry.run = e.run
    /\ \A e \in active :
         /\ \A j \in jobs : j.pc # "clear" /\ j.entry.id = e.id => j.entry.run = e.run
         /\ Moving /\ lock.step = "persist" /\ lock.entry.id = e.id => lock.entry.run = e.run
    /\ batches \subseteq { j.entry.id : j \in jobs }

\* A download that may run waits for a task that will look at the queue.
Busy ==
    up /\ ~closing /\ ~fill /\ lock.op # "fill" /\ ~hist.parked
        => jobs # {} \/ \A e \in Queued : ~Runnable(e)

\* What has settled is written nowhere that could come back.
Apart == \A x \in Present : x.run \notin hist.settled

\* The runs that may still write, and those whose cancellation is confirmed or about
\* to be.
Late == {"settle", "terminal", "clear"}
Starts(r) ==
    \/ \E e \in Queued \cup Held : e.run = r
    \/ \E j \in jobs : j.pc \notin Late /\ j.entry.run = r
Quelled(r) == r \in cancel \/ ~Starts(r)
Voided == hist.void \cup (IF lock \in RemoveType THEN {lock.entry.run} ELSE {})

Silenced ==
    /\ \A c \in cancels : Quelled(c.run)
    /\ \A r \in Voided :
         /\ Quelled(r)
         /\ \A j \in jobs : j.entry.run = r => j.pc \notin {"send", "stream"}
         /\ \A t \in Tasks : file[t].kind # "none" => file[t].run # r

\* A run that is on disk writes no more, or has not begun.
Resting ==
    up => \A e \in disk :
            /\ \A j \in jobs : j.entry.run = e.run => Requeueing(j) \/ j.pc \in Late
            /\ e.st # "queued" => /\ Moving => lock.entry.run # e.run
                                  /\ \A q \in Queued : q.st = "queued" => q.run # e.run

Inv ==
    /\ Typed /\ Down /\ Numbered /\ Named /\ OneId /\ Filed /\ Finished /\ Retrying /\ Attended
    /\ Busy /\ Apart /\ Silenced /\ Resting
-----------------------------------------------------------------------------
(* Sequences *)

LEMMA Least ==
    ASSUME NEW T \in SUBSET Nat, T # {}
    PROVE  \E n \in T : \A m \in T : n <= m
<1>1. \E n \in T : \A m \in T : ~(<<m, n>> \in OpToRel(<, Nat))
  BY WFMin, NatLessThanWellFounded
<1>2. PICK n \in T : \A m \in T : ~(<<m, n>> \in OpToRel(<, Nat))
  BY <1>1
<1>3. \A m \in T : ~(m < n)
  BY <1>2 DEF OpToRel
<1> QED BY <1>3

\* What Keep has retained of the first n elements, for n up to m.
KeptUpTo(s, S, m, f) ==
    f = [n \in 0 .. m |-> IF n = 0 THEN <<>>
                          ELSE IF s[n] \in S THEN Append(f[n - 1], s[n]) ELSE f[n - 1]]

LEMMA KeptExists ==
    ASSUME NEW s, NEW S, NEW m \in Nat
    PROVE  \E f : KeptUpTo(s, S, m, f)
<1> DEFINE Bad == { n \in Nat : ~ \E f : KeptUpTo(s, S, n, f) }
<1> SUFFICES ASSUME Bad # {} PROVE FALSE
  OBVIOUS
<1>1. PICK n \in Bad : \A k \in Bad : n <= k
  BY Least
<1>2. CASE n = 0
  <2> DEFINE f == [k \in 0 .. 0 |-> <<>>]
  <2>1. f = [k \in 0 .. 0 |-> IF k = 0 THEN <<>>
                              ELSE IF s[k] \in S THEN Append(f[k - 1], s[k]) ELSE f[k - 1]]
    OBVIOUS
  <2> HIDE DEF f
  <2> QED BY <1>1, <1>2, <2>1 DEF KeptUpTo
<1>3. CASE n # 0
  <2>1. n - 1 \in Nat /\ n - 1 \notin Bad
    BY <1>1, <1>3
  <2>2. PICK f : KeptUpTo(s, S, n - 1, f)
    BY <2>1
  <2> DEFINE g == [k \in 0 .. n |->
                     IF k = n THEN IF s[n] \in S THEN Append(f[n - 1], s[n]) ELSE f[n - 1]
                     ELSE f[k]]
  <2>3. \A k \in 0 .. n - 1 :
          f[k] = IF k = 0 THEN <<>>
                 ELSE IF s[k] \in S THEN Append(f[k - 1], s[k]) ELSE f[k - 1]
    BY <2>2 DEF KeptUpTo
  <2>4. \A k \in 0 .. n - 1 : g[k] = f[k]
    BY <2>1
  <2>5. g[n] = IF s[n] \in S THEN Append(f[n - 1], s[n]) ELSE f[n - 1]
    BY <2>1
  <2>6. \A k \in 0 .. n :
          g[k] = IF k = 0 THEN <<>>
                 ELSE IF s[k] \in S THEN Append(g[k - 1], s[k]) ELSE g[k - 1]
    <3> TAKE k \in 0 .. n
    <3>1. CASE k = n
      BY <3>1, <2>1, <2>4, <2>5, <1>3
    <3>2. CASE k # n
      <4>1. k \in 0 .. n - 1 /\ (k # 0 => k - 1 \in 0 .. n - 1)
        BY <3>2, <2>1
      <4> QED BY <4>1, <2>3, <2>4
    <3> QED BY <3>1, <3>2
  <2>7. g = [k \in 0 .. n |-> g[k]]
    OBVIOUS
  <2> HIDE DEF g
  <2>8. g = [k \in 0 .. n |-> IF k = 0 THEN <<>>
                              ELSE IF s[k] \in S THEN Append(g[k - 1], s[k]) ELSE g[k - 1]]
    BY <2>6, <2>7
  <2> QED BY <1>1, <2>8 DEF KeptUpTo
<1> QED BY <1>2, <1>3

LEMMA KeepIs ==
    ASSUME NEW s, NEW S, Len(s) \in Nat
    PROVE  \E f : KeptUpTo(s, S, Len(s), f) /\ Keep(s, S) = f[Len(s)]
<1> DEFINE f == CHOOSE f : KeptUpTo(s, S, Len(s), f)
<1>1. KeptUpTo(s, S, Len(s), f)
  BY KeptExists
<1>2. Keep(s, S) = f[Len(s)]
  BY DEF Keep, KeptUpTo
<1> QED BY <1>1, <1>2

\* The elements of S, in their order: h is where each of them was.
LEMMA KeepElements ==
    ASSUME NEW T, NEW s \in Seq(T), NEW S
    PROVE  /\ Keep(s, S) \in Seq(T)
           /\ \E h \in [1 .. Len(Keep(s, S)) -> 1 .. Len(s)] :
                /\ \A i \in 1 .. Len(Keep(s, S)) : Keep(s, S)[i] = s[h[i]] /\ s[h[i]] \in S
                /\ \A i, k \in 1 .. Len(Keep(s, S)) : h[i] = h[k] => i = k
                /\ \A n \in 1 .. Len(s) : s[n] \in S => \E i \in 1 .. Len(Keep(s, S)) : h[i] = n
<1> DEFINE Good(n, q) ==
      /\ q \in Seq(T)
      /\ \E h \in [1 .. Len(q) -> 1 .. n] :
           /\ \A i \in 1 .. Len(q) : q[i] = s[h[i]] /\ s[h[i]] \in S
           /\ \A i, k \in 1 .. Len(q) : h[i] = h[k] => i = k
           /\ \A m \in 1 .. n : s[m] \in S => \E i \in 1 .. Len(q) : h[i] = m
<1>1. PICK f : KeptUpTo(s, S, Len(s), f) /\ Keep(s, S) = f[Len(s)]
  BY KeepIs, LenProperties
<1>2. /\ Len(s) \in Nat
      /\ f[0] = <<>>
      /\ \A n \in 1 .. Len(s) : f[n] = IF s[n] \in S THEN Append(f[n - 1], s[n]) ELSE f[n - 1]
  <2>1. Len(s) \in Nat
    BY LenProperties
  <2>2. \A n \in 0 .. Len(s) :
          f[n] = IF n = 0 THEN <<>>
                 ELSE IF s[n] \in S THEN Append(f[n - 1], s[n]) ELSE f[n - 1]
    BY <1>1, Zenon DEF KeptUpTo
  <2> QED BY <2>1, <2>2
<1> DEFINE Bad == { n \in 0 .. Len(s) : ~ Good(n, f[n]) }
<1>3. SUFFICES ASSUME Bad # {} PROVE FALSE
  <2>1. Good(Len(s), f[Len(s)])
    BY <1>2, <1>3
  <2> QED BY <2>1, <1>1
<1>4. PICK n \in 0 .. Len(s) :
         ~Good(n, f[n]) /\ \A k \in 0 .. Len(s) : k < n => Good(k, f[k])
  <2>1. Bad \in SUBSET Nat
    BY <1>2
  <2>2. PICK n \in Bad : \A k \in Bad : n <= k
    BY <2>1, <1>3, Least
  <2>3. n \in Nat /\ n \in 0 .. Len(s) /\ ~Good(n, f[n])
    BY <2>1, <2>2
  <2>4. \A k \in 0 .. Len(s) : k < n => k \notin Bad
    <3> HIDE DEF Bad
    <3> QED BY <2>2, <2>3, <1>2
  <2>5. \A k \in 0 .. Len(s) : k < n => Good(k, f[k])
    BY <2>4
  <2> QED BY <2>3, <2>5
<1> HIDE DEF Good
<1>5. CASE n = 0
  <2>1. <<>> \in Seq(T) /\ Len(<<>>) = 0 /\ 1 .. 0 = {}
    OBVIOUS
  <2>2. [i \in {} |-> 1] \in [1 .. 0 -> 1 .. 0]
    BY <2>1
  <2>3. Good(0, <<>>)
    BY <2>1, <2>2 DEF Good
  <2> QED BY <2>3, <1>2, <1>4, <1>5
<1>6. CASE n # 0
  <2>1. n \in 1 .. Len(s) /\ n - 1 \in 0 .. Len(s) /\ n - 1 < n
    BY <1>2, <1>6
  <2> DEFINE q == f[n - 1]
  <2>2. Good(n - 1, q)
    BY <2>1, <1>4
  <2> HIDE DEF q
  <2>3. PICK h \in [1 .. Len(q) -> 1 .. n - 1] :
           /\ \A i \in 1 .. Len(q) : q[i] = s[h[i]] /\ s[h[i]] \in S
           /\ \A i, k \in 1 .. Len(q) : h[i] = h[k] => i = k
           /\ \A m \in 1 .. n - 1 : s[m] \in S => \E i \in 1 .. Len(q) : h[i] = m
    BY <2>2 DEF Good
  <2>4. f[n] = (IF s[n] \in S THEN Append(q, s[n]) ELSE q) /\ q \in Seq(T) /\ Len(q) \in Nat
    BY <1>2, <2>1, <2>2, LenProperties DEF q, Good
  <2>5. CASE s[n] \notin S
    <3>1. h \in [1 .. Len(q) -> 1 .. n]
      BY <2>1, <1>2
    <3>2. \A m \in 1 .. n : s[m] \in S => \E i \in 1 .. Len(q) : h[i] = m
      BY <2>3, <2>5, <2>1, <1>2
    <3>3. Good(n, q)
      BY <3>1, <3>2, <2>3, <2>4 DEF Good
    <3> QED BY <3>3, <2>4, <2>5, <1>4
  <2>6. CASE s[n] \in S
    <3> DEFINE p == Append(q, s[n])
               g == [i \in 1 .. Len(q) + 1 |-> IF i = Len(q) + 1 THEN n ELSE h[i]]
    <3>1. /\ s[n] \in T /\ p \in Seq(T) /\ Len(p) = Len(q) + 1
          /\ p[Len(q) + 1] = s[n]
          /\ \A i \in 1 .. Len(q) : p[i] = q[i]
      BY <2>1, <2>4, <1>2, AppendProperties
    <3>2. /\ g \in [1 .. Len(p) -> 1 .. n]
          /\ g[Len(q) + 1] = n
          /\ \A i \in 1 .. Len(q) : g[i] = h[i] /\ g[i] \in 1 .. n - 1
      <4>1. \A i \in 1 .. Len(q) + 1 : i = Len(q) + 1 \/ i \in 1 .. Len(q)
        BY <2>4
      <4>2. \A i \in 1 .. Len(q) : h[i] \in 1 .. n - 1 /\ h[i] \in 1 .. n /\ i # Len(q) + 1
                                    /\ i \in 1 .. Len(q) + 1
        BY <2>1, <2>4, <1>2
      <4>3. n \in 1 .. n /\ Len(q) + 1 \in 1 .. Len(q) + 1
        BY <2>1, <2>4, <1>2
      <4> QED BY <4>1, <4>2, <4>3, <3>1
    <3>3. \A i \in 1 .. Len(p) : i = Len(q) + 1 \/ i \in 1 .. Len(q)
      BY <3>1, <2>4
    <3> HIDE DEF p, g
    <3>4. \A i \in 1 .. Len(p) : p[i] = s[g[i]] /\ s[g[i]] \in S
      BY <3>1, <3>2, <3>3, <2>3, <2>6
    <3>5. \A i, k \in 1 .. Len(p) : g[i] = g[k] => i = k
      <4>1. \A i \in 1 .. Len(q) : g[i] # n
        BY <3>2, <2>1, <1>2
      <4> QED BY <4>1, <3>2, <3>3, <2>3
    <3>6. \A m \in 1 .. n : s[m] \in S => \E i \in 1 .. Len(p) : g[i] = m
      <4> SUFFICES ASSUME NEW m \in 1 .. n, s[m] \in S
                   PROVE  \E i \in 1 .. Len(p) : g[i] = m
        OBVIOUS
      <4>1. CASE m = n
        BY <4>1, <3>1, <3>2, <2>4
      <4>2. CASE m # n
        <5>1. m \in 1 .. n - 1
          BY <4>2, <2>1, <1>2
        <5>2. PICK i \in 1 .. Len(q) : h[i] = m
          BY <5>1, <2>3
        <5> QED BY <5>2, <3>1, <3>2, <2>4
      <4> QED BY <4>1, <4>2
    <3>7. Good(n, p)
      BY <3>1, <3>2, <3>4, <3>5, <3>6, Zenon DEF Good
    <3> QED BY <3>7, <2>4, <2>6, <1>4 DEF p
  <2> QED BY <2>5, <2>6
<1> QED BY <1>5, <1>6

LEMMA KeepRange ==
    ASSUME NEW T, NEW s \in Seq(T), NEW S
    PROVE  /\ Keep(s, S) \in Seq(T)
           /\ ToSet(Keep(s, S)) = ToSet(s) \cap S
<1>1. Keep(s, S) \in Seq(T) /\ DOMAIN Keep(s, S) = 1 .. Len(Keep(s, S)) /\ DOMAIN s = 1 .. Len(s)
  BY KeepElements, LenProperties
<1>2. PICK h \in [1 .. Len(Keep(s, S)) -> 1 .. Len(s)] :
        /\ \A i \in 1 .. Len(Keep(s, S)) : Keep(s, S)[i] = s[h[i]] /\ s[h[i]] \in S
        /\ \A n \in 1 .. Len(s) : s[n] \in S => \E i \in 1 .. Len(Keep(s, S)) : h[i] = n
  BY KeepElements
<1>3. ASSUME NEW x \in ToSet(Keep(s, S)) PROVE x \in ToSet(s) \cap S
  BY <1>1, <1>2 DEF ToSet
<1>4. ASSUME NEW x \in ToSet(s) \cap S PROVE x \in ToSet(Keep(s, S))
  <2>1. PICK n \in 1 .. Len(s) : x = s[n]
    BY <1>1, <1>4 DEF ToSet
  <2>2. PICK i \in 1 .. Len(Keep(s, S)) : h[i] = n
    BY <2>1, <1>2, <1>4
  <2> QED BY <2>1, <2>2, <1>1, <1>2 DEF ToSet
<1> QED BY <1>1, <1>3, <1>4

LEMMA KeepDistinct ==
    ASSUME NEW q \in Seq(Entries), NEW S, Distinct(q)
    PROVE  Distinct(Keep(q, S))
<1>1. DOMAIN Keep(q, S) = 1 .. Len(Keep(q, S)) /\ DOMAIN q = 1 .. Len(q)
  BY KeepElements, LenProperties
<1>2. PICK h \in [1 .. Len(Keep(q, S)) -> 1 .. Len(q)] :
        /\ \A i \in 1 .. Len(Keep(q, S)) : Keep(q, S)[i] = q[h[i]]
        /\ \A i, k \in 1 .. Len(Keep(q, S)) : h[i] = h[k] => i = k
  BY KeepElements
<1> SUFFICES ASSUME NEW i \in 1 .. Len(Keep(q, S)), NEW k \in 1 .. Len(Keep(q, S)),
                    Keep(q, S)[i].id = Keep(q, S)[k].id
             PROVE  i = k
  BY <1>1 DEF Distinct
<1>3. q[h[i]].id = q[h[k]].id /\ h[i] \in DOMAIN q /\ h[k] \in DOMAIN q
  BY <1>1, <1>2
<1>4. h[i] = h[k]
  BY <1>3 DEF Distinct
<1> QED BY <1>2, <1>4

LEMMA SeqRange ==
    ASSUME NEW T, NEW s \in Seq(T)
    PROVE  /\ DOMAIN s = 1 .. Len(s) /\ Len(s) \in Nat
           /\ ToSet(s) \subseteq T /\ IsFiniteSet(ToSet(s))
           /\ \A x \in ToSet(s) : \E i \in 1 .. Len(s) : x = s[i]
<1>1. DOMAIN s = 1 .. Len(s) /\ Len(s) \in Nat /\ s \in [1 .. Len(s) -> T]
  BY LenProperties
<1>2. IsFiniteSet(1 .. Len(s))
  BY <1>1, FS_Interval
<1>3. ToSet(s) = { s[i] : i \in 1 .. Len(s) }
  BY <1>1 DEF ToSet
<1>4. IsFiniteSet(ToSet(s))
  <2>1. s \in Surjection(1 .. Len(s), ToSet(s))
    BY <1>1, <1>3 DEF Surjection
  <2> QED BY <2>1, <1>2, FS_Surjection
<1> QED BY <1>1, <1>3, <1>4

LEMMA HeadAndTail ==
    ASSUME NEW q \in Seq(Entries), q # <<>>
    PROVE  /\ Head(q) \in ToSet(q) /\ Head(q) \in Entries
           /\ Tail(q) \in Seq(Entries)
           /\ ToSet(q) = {Head(q)} \cup ToSet(Tail(q))
           /\ Distinct(q) => /\ Distinct(Tail(q))
                             /\ \A e \in ToSet(Tail(q)) : e.id # Head(q).id
<1>1. /\ Len(q) \in Nat /\ Len(q) > 0 /\ DOMAIN q = 1 .. Len(q)
      /\ Head(q) = q[1]
      /\ Tail(q) \in Seq(Entries)
      /\ Len(Tail(q)) = Len(q) - 1
      /\ \A i \in 1 .. Len(Tail(q)) : Tail(q)[i] = q[i + 1]
  BY HeadTailProperties, LenProperties, EmptySeq
<1>2. DOMAIN Tail(q) = 1 .. Len(q) - 1
  BY <1>1, LenProperties
<1>3. 1 \in DOMAIN q /\ q[1] \in Entries
  BY <1>1, ElementOfSeq
<1>4. ToSet(Tail(q)) \subseteq ToSet(q)
  <2> SUFFICES ASSUME NEW i \in DOMAIN Tail(q) PROVE Tail(q)[i] \in ToSet(q)
    BY DEF ToSet
  <2>1. i + 1 \in DOMAIN q /\ Tail(q)[i] = q[i + 1]
    BY <1>1, <1>2
  <2> QED BY <2>1 DEF ToSet
<1>5. ToSet(q) \subseteq {Head(q)} \cup ToSet(Tail(q))
  <2> SUFFICES ASSUME NEW i \in DOMAIN q, i # 1 PROVE q[i] \in ToSet(Tail(q))
    BY <1>1 DEF ToSet
  <2>1. i - 1 \in DOMAIN Tail(q) /\ Tail(q)[i - 1] = q[i - 1 + 1] /\ i - 1 + 1 = i
    BY <1>1, <1>2
  <2> QED BY <2>1 DEF ToSet
<1>6. ASSUME Distinct(q)
      PROVE  Distinct(Tail(q)) /\ \A e \in ToSet(Tail(q)) : e.id # Head(q).id
  <2>1. ASSUME NEW i \in DOMAIN Tail(q), NEW k \in DOMAIN Tail(q), Tail(q)[i].id = Tail(q)[k].id
        PROVE  i = k
    <3>1. /\ i + 1 \in DOMAIN q /\ k + 1 \in DOMAIN q
          /\ Tail(q)[i] = q[i + 1] /\ Tail(q)[k] = q[k + 1]
      BY <1>1, <1>2
    <3>2. i + 1 = k + 1
      BY <3>1, <2>1, <1>6 DEF Distinct
    <3> QED BY <3>2, <1>1, <1>2
  <2>2. ASSUME NEW i \in DOMAIN Tail(q) PROVE Tail(q)[i].id # Head(q).id
    <3>1. i + 1 \in DOMAIN q /\ i + 1 # 1 /\ Tail(q)[i] = q[i + 1]
      BY <1>1, <1>2
    <3> QED BY <3>1, <1>1, <1>3, <1>6 DEF Distinct
  <2> QED BY <2>1, <2>2 DEF Distinct, ToSet
<1>7. Head(q) \in ToSet(q)
  BY <1>1, <1>3 DEF ToSet
<1> QED BY <1>1, <1>3, <1>4, <1>5, <1>6, <1>7

LEMMA Joined ==
    ASSUME NEW T, NEW p \in Seq(T), NEW q \in Seq(T)
    PROVE  /\ p \o q \in Seq(T)
           /\ ToSet(p \o q) = ToSet(p) \cup ToSet(q)
<1>1. /\ p \o q \in Seq(T) /\ Len(p \o q) = Len(p) + Len(q)
      /\ \A i \in 1 .. Len(p) + Len(q) :
           (p \o q)[i] = IF i <= Len(p) THEN p[i] ELSE q[i - Len(p)]
  BY ConcatProperties
<1>2. /\ DOMAIN p = 1 .. Len(p) /\ DOMAIN q = 1 .. Len(q)
      /\ DOMAIN (p \o q) = 1 .. Len(p) + Len(q)
      /\ Len(p) \in Nat /\ Len(q) \in Nat
  BY <1>1, LenProperties
<1>3. ASSUME NEW i \in DOMAIN (p \o q) PROVE (p \o q)[i] \in ToSet(p) \cup ToSet(q)
  <2>1. \/ i \in DOMAIN p /\ (p \o q)[i] = p[i]
        \/ i - Len(p) \in DOMAIN q /\ (p \o q)[i] = q[i - Len(p)]
    BY <1>1, <1>2
  <2> QED BY <2>1 DEF ToSet
<1>4. ASSUME NEW i \in DOMAIN p PROVE p[i] \in ToSet(p \o q)
  <2>1. i \in DOMAIN (p \o q) /\ (p \o q)[i] = p[i]
    BY <1>1, <1>2
  <2> QED BY <2>1 DEF ToSet
<1>5. ASSUME NEW i \in DOMAIN q PROVE q[i] \in ToSet(p \o q)
  <2>1. i + Len(p) \in DOMAIN (p \o q) /\ (p \o q)[i + Len(p)] = q[i]
    BY <1>1, <1>2
  <2> QED BY <2>1 DEF ToSet
<1>6. ToSet(p \o q) \subseteq ToSet(p) \cup ToSet(q)
  BY <1>3 DEF ToSet
<1>7. ToSet(p) \subseteq ToSet(p \o q) /\ ToSet(q) \subseteq ToSet(p \o q)
  BY <1>4, <1>5 DEF ToSet
<1> QED BY <1>1, <1>6, <1>7

LEMMA JoinedDistinct ==
    ASSUME NEW p \in Seq(Entries), NEW q \in Seq(Entries), Distinct(p), Distinct(q),
           \A e \in ToSet(p), f \in ToSet(q) : e.id # f.id
    PROVE  Distinct(p \o q)
<1>1. /\ p \o q \in Seq(Entries) /\ Len(p \o q) = Len(p) + Len(q)
      /\ \A i \in 1 .. Len(p) + Len(q) :
           (p \o q)[i] = IF i <= Len(p) THEN p[i] ELSE q[i - Len(p)]
  BY ConcatProperties
<1>2. /\ DOMAIN p = 1 .. Len(p) /\ DOMAIN q = 1 .. Len(q)
      /\ DOMAIN (p \o q) = 1 .. Len(p) + Len(q)
      /\ Len(p) \in Nat /\ Len(q) \in Nat
  BY <1>1, LenProperties
<1> SUFFICES ASSUME NEW i \in DOMAIN (p \o q), NEW k \in DOMAIN (p \o q),
                    (p \o q)[i].id = (p \o q)[k].id
             PROVE  i = k
  BY DEF Distinct
<1>3. \A n \in DOMAIN (p \o q) :
        \/ n \in DOMAIN p /\ (p \o q)[n] = p[n] /\ p[n] \in ToSet(p)
        \/ n - Len(p) \in DOMAIN q /\ (p \o q)[n] = q[n - Len(p)] /\ q[n - Len(p)] \in ToSet(q)
  <2> TAKE n \in DOMAIN (p \o q)
  <2>1. \/ n \in DOMAIN p /\ (p \o q)[n] = p[n]
        \/ n - Len(p) \in DOMAIN q /\ (p \o q)[n] = q[n - Len(p)]
    BY <1>1, <1>2
  <2> QED BY <2>1 DEF ToSet
<1>4. CASE i \in DOMAIN p /\ (p \o q)[i] = p[i] /\ p[i] \in ToSet(p)
  <2>1. k \in DOMAIN p /\ (p \o q)[k] = p[k]
    BY <1>3, <1>4
  <2> QED BY <2>1, <1>4 DEF Distinct
<1>5. CASE /\ i - Len(p) \in DOMAIN q /\ (p \o q)[i] = q[i - Len(p)]
           /\ q[i - Len(p)] \in ToSet(q)
  <2>1. k - Len(p) \in DOMAIN q /\ (p \o q)[k] = q[k - Len(p)]
    BY <1>3, <1>5
  <2>2. i - Len(p) = k - Len(p)
    BY <2>1, <1>5 DEF Distinct
  <2> QED BY <2>2, <1>2
<1> QED BY <1>3, <1>4, <1>5

LEMMA Single ==
    ASSUME NEW T, NEW x \in T
    PROVE  <<x>> \in Seq(T) /\ ToSet(<<x>>) = {x} /\ Distinct(<<x>>)
<1>1. <<x>> \in Seq(T) /\ DOMAIN <<x>> = {1} /\ <<x>>[1] = x
  OBVIOUS
<1>2. ToSet(<<x>>) = {x}
  BY <1>1 DEF ToSet
<1>3. Distinct(<<x>>)
  BY <1>1 DEF Distinct
<1> QED BY <1>1, <1>2, <1>3

LEMMA Appended ==
    ASSUME NEW T, NEW s \in Seq(T), NEW x \in T
    PROVE  Append(s, x) = s \o <<x>>
  OBVIOUS

LEMMA ImageFinite ==
    ASSUME NEW S, IsFiniteSet(S), NEW f, DOMAIN f = S, f = [x \in S |-> f[x]]
    PROVE  IsFiniteSet({ f[x] : x \in S })
<1>1. f \in Surjection(S, { f[x] : x \in S })
  BY DEF Surjection
<1> QED BY <1>1, FS_Surjection

LEMMA SetToSeqOrders ==
    ASSUME NEW S, IsFiniteSet(S)
    PROVE  /\ SetToSeq(S) \in Seq(S) /\ Len(SetToSeq(S)) \in Nat
           /\ DOMAIN SetToSeq(S) = 1 .. Len(SetToSeq(S))
           /\ \A i, k \in DOMAIN SetToSeq(S) : SetToSeq(S)[i] = SetToSeq(S)[k] => i = k
           /\ \A i \in DOMAIN SetToSeq(S) : SetToSeq(S)[i] \in S
           /\ \A x \in S : \E i \in DOMAIN SetToSeq(S) : SetToSeq(S)[i] = x
<1> DEFINE n == Cardinality(S)
           f == SetToSeq(S)
<1>1. n \in Nat /\ \E g : g \in Bijection(1 .. n, S)
  BY FS_CardinalityType DEF ExistsBijection
<1>2. PICK g : g \in Bijection(1 .. n, S)
  BY <1>1
<1> HIDE DEF n, f
<1>3. g \in [1 .. n -> S] /\ \A a, b \in 1 .. n : g[a] = g[b] => a = b
  <2>1. g \in Injection(1 .. n, S)
    BY <1>2 DEF Bijection
  <2> QED BY <2>1 DEF Injection, IsInjective
<1>4. g \in [1 .. n -> S] /\ IsInjective(g)
  BY <1>3 DEF IsInjective
<1>5. f \in [1 .. n -> S] /\ IsInjective(f)
  BY <1>4 DEF SetToSeq, f, n
<1>6. \A a, b \in 1 .. n : f[a] = f[b] => a = b
  BY <1>5 DEF IsInjective
<1>7. f \in Seq(S) /\ Len(f) = n /\ DOMAIN f = 1 .. n
  BY <1>5, <1>1
<1>8. f \in Injection(1 .. n, S)
  BY <1>5 DEF Injection
<1>9. Cardinality(1 .. n) = n
  BY <1>1, FS_Interval
<1>10. f \in Surjection(1 .. n, S)
  BY <1>8, <1>9, FS_Injection DEF n
<1>11. \A x \in S : \E i \in 1 .. n : f[i] = x
  BY <1>10 DEF Surjection
<1> QED BY <1>1, <1>5, <1>6, <1>7, <1>11 DEF f

-----------------------------------------------------------------------------
(* Snapshots *)

Contents == { snaps[n].content : n \in DOMAIN snaps }

\* A picture of finitely many entries.
Picture(S) == S \subseteq Entries /\ IsFiniteSet(S)

LEMMA ContentsAre ==
    ASSUME Typed
    PROVE  /\ \A S \in Contents : Picture(S)
           /\ Pictured = active \cup infl \cup UNION Contents
           /\ snaps \in Seq(SnapType) /\ DOMAIN snaps = 1 .. Len(snaps) /\ Len(snaps) \in Nat
           /\ \A n \in DOMAIN snaps : snaps[n] \in SnapType
<1>1. snaps \in Seq(SnapType) /\ DOMAIN snaps = 1 .. Len(snaps) /\ Len(snaps) \in Nat
  BY LenProperties DEF Typed
<1>2. \A n \in DOMAIN snaps : snaps[n] \in SnapType
  BY <1>1, ElementOfSeq
<1>3. \A S \in Contents : Picture(S)
  BY <1>2 DEF Typed, Contents, Picture, SnapType
<1> QED BY <1>1, <1>2, <1>3 DEF Pictured, Contents

\* The type of snaps', given what is in it.
SnapsFrom(S) ==
    /\ snaps' \in Seq(SnapType)
    /\ Contents' \subseteq S

LEMMA AllDropped ==
    ASSUME Typed, NEW S, InflightWritten(S)
    PROVE  infl' = S /\ snaps' = <<>> /\ SnapsFrom({})
<1>1. snaps' = SubSeq(snaps, Len(snaps) + 1, Len(snaps)) /\ infl' = S
  BY DEF InflightWritten, Later
<1>2. snaps \in Seq(SnapType) /\ Len(snaps) \in Nat
  BY ContentsAre
<1>3. snaps' = <<>>
  BY <1>1, <1>2
<1>4. Contents' = {}
  BY <1>3 DEF Contents
<1>5. <<>> \in Seq(SnapType)
  OBVIOUS
<1> QED BY <1>1, <1>3, <1>4, <1>5 DEF SnapsFrom

LEMMA OneWritten ==
    ASSUME Typed, NEW n \in DOMAIN snaps, SnapshotWritten(n)
    PROVE  /\ infl' \in Contents /\ SnapsFrom(Contents) /\ ToSet(snaps') \subseteq ToSet(snaps)
           /\ hist' \in History /\ hist'.settled = hist.settled /\ hist'.void = hist.void
           /\ hist'.parked = hist.parked
<1>1. /\ snaps \in Seq(SnapType) /\ Len(snaps) \in Nat /\ n \in 1 .. Len(snaps)
      /\ snaps[n] \in SnapType
  BY ContentsAre
<1> DEFINE t == SubSeq(snaps, n + 1, Len(snaps))
<1>2. infl' = snaps[n].content /\ snaps' = t
  BY DEF SnapshotWritten, Later
<1>3. t \in Seq(SnapType) /\ \A i \in DOMAIN t : \E k \in 1 .. Len(snaps) : t[i] = snaps[k]
  <2>1. /\ t \in Seq(SnapType)
        /\ Len(t) = IF n + 1 <= Len(snaps) THEN Len(snaps) - (n + 1) + 1 ELSE 0
        /\ \A i \in 1 .. Len(snaps) - (n + 1) + 1 : t[i] = snaps[n + 1 + i - 1]
    <3>1. \A i \in n + 1 .. Len(snaps) : snaps[i] \in SnapType
      BY <1>1, ElementOfSeq
    <3> QED BY <1>1, <3>1, SubSeqProperties
  <2>2. DOMAIN t = 1 .. Len(t)
    BY <2>1, LenProperties
  <2> HIDE DEF t
  <2>3. ASSUME NEW i \in DOMAIN t PROVE \E k \in 1 .. Len(snaps) : t[i] = snaps[k]
    <3>1. i \in 1 .. Len(snaps) - (n + 1) + 1 /\ n + 1 + i - 1 \in 1 .. Len(snaps)
      BY <1>1, <2>1, <2>2
    <3> QED BY <3>1, <2>1
  <2> QED BY <2>1, <2>3
<1>4. Contents' \subseteq Contents
  <2>1. DOMAIN snaps = 1 .. Len(snaps)
    BY <1>1, LenProperties
  <2> HIDE DEF t
  <2> QED BY <2>1, <1>2, <1>3 DEF Contents
<1>5. hist \in History /\ snaps[n].late \subseteq Tasks
  BY <1>1 DEF Typed, TypeOK, SnapType
<1>6. hist' = [hist EXCEPT !.atRisk = (@ \ TasksOf(snaps[n].content)) \cup snaps[n].late]
  BY DEF SnapshotWritten
<1>7. /\ hist' \in History /\ hist'.settled = hist.settled /\ hist'.void = hist.void
      /\ hist'.parked = hist.parked
  BY <1>5, <1>6 DEF History
<1>8. infl' \in Contents
  BY <1>2 DEF Contents
<1>9. ToSet(snaps') \subseteq ToSet(snaps)
  <2>1. DOMAIN snaps = 1 .. Len(snaps)
    BY <1>1, LenProperties
  <2> HIDE DEF t
  <2> QED BY <2>1, <1>2, <1>3 DEF ToSet
<1> QED BY <1>2, <1>3, <1>4, <1>7, <1>8, <1>9 DEF SnapsFrom

LEMMA Captured ==
    ASSUME Typed, NEW owner \in Nat, NEW S, Picture(S), Capture(owner, S)
    PROVE  /\ SnapsFrom(Contents \cup {S})
           /\ ToSet(snaps') \subseteq
                ToSet(snaps) \cup {[owner |-> owner, content |-> S, late |-> Handover(S)]}
<1> DEFINE kept == Keep(snaps, { s \in ToSet(snaps) : s.owner # 0 })
           base == IF owner = 0 THEN kept ELSE snaps
           new == [owner |-> owner, content |-> S, late |-> Handover(S)]
<1>1. snaps \in Seq(SnapType)
  BY ContentsAre
<1>2. kept \in Seq(SnapType) /\ ToSet(kept) \subseteq ToSet(snaps)
  BY <1>1, KeepRange
<1>3. Handover(S) \subseteq Tasks
  <2>1. lock.op \in {"fill", "retry"} /\ lock.step # "next" => lock.entry.task \in Tasks
    BY DEF Typed, MoveType, RetryType, RemoveType, FillNext, Free, Entries
  <2> QED BY <2>1 DEF Handover
<1>4. new \in SnapType
  BY <1>3 DEF SnapType, Picture
<1>5. base \in Seq(SnapType) /\ ToSet(base) \subseteq ToSet(snaps)
  BY <1>1, <1>2
<1>6. snaps' = Append(base, new)
  BY DEF Capture
<1> HIDE DEF base, new
<1>7. snaps' \in Seq(SnapType) /\ ToSet(snaps') = ToSet(base) \cup {new}
  <2> DEFINE one == <<new>>
  <2>1. one \in Seq(SnapType) /\ ToSet(one) = {new}
    BY <1>4, Single
  <2>2. snaps' = base \o one
    BY <1>4, <1>5, <1>6, Appended
  <2> HIDE DEF one
  <2> QED BY <2>1, <2>2, <1>5, Joined
<1>8. Contents = { s.content : s \in ToSet(snaps) } /\ Contents' = { s.content : s \in ToSet(snaps') }
  BY DEF Contents, ToSet
<1>9. new.content = S
  BY DEF new
<1>10. SnapsFrom(Contents \cup {S})
  BY <1>5, <1>7, <1>8, <1>9 DEF SnapsFrom
<1>11. ToSet(snaps') \subseteq ToSet(snaps) \cup {new}
  BY <1>5, <1>7
<1> QED BY <1>10, <1>11 DEF new

-----------------------------------------------------------------------------
(* What the invariant says of one job *)

Same(x, y) == x.id = y.id /\ x.run = y.run /\ x.task = y.task

LEMMA LockKinds ==
    ASSUME lock \in {Free, FillNext} \cup MoveType \cup RetryType \cup RemoveType
    PROVE  /\ Moving <=> lock.op = "fill" /\ lock.step # "next"
           /\ lock.op = "fill" <=> lock = FillNext \/ Moving
           /\ lock \in RetryType <=> lock.op = "retry"
           /\ lock \in RemoveType <=> lock.op = "remove"
           /\ lock = Free <=> lock.op = "free"
           /\ Taken <=> Moving \/ lock \in RetryType
           /\ Moving => lock.entry \in Entries /\ lock.step \in {"insert", "persist"}
           /\ lock \in RetryType => lock.entry \in Entries /\ lock.step = "persist"
           /\ lock \in RemoveType => lock.entry \in CancelType /\ lock.step = "memory"
           /\ ~(Moving /\ lock \in RetryType) /\ ~(Moving /\ lock \in RemoveType)
           /\ ~(lock \in RetryType /\ lock \in RemoveType)
           /\ lock = Free \/ lock = FillNext => ~Taken /\ lock \notin RemoveType
           /\ lock = FillNext => lock.op = "fill" /\ lock.step = "next"
<1>1. CASE lock = Free
  <2>1. Free.op = "free"
    BY DEF Free
  <2>2. lock \notin MoveType /\ lock \notin RetryType /\ lock \notin RemoveType /\ lock # FillNext
    BY <1>1, <2>1 DEF MoveType, RetryType, RemoveType, FillNext
  <2> QED BY <1>1, <2>1, <2>2 DEF Moving, Taken
<1>2. CASE lock = FillNext
  <2>1. FillNext.op = "fill" /\ FillNext.step = "next"
    BY DEF FillNext
  <2>2. lock \notin MoveType /\ lock \notin RetryType /\ lock \notin RemoveType /\ lock # Free
    BY <1>2, <2>1 DEF MoveType, RetryType, RemoveType, Free
  <2> QED BY <1>2, <2>1, <2>2 DEF Moving, Taken
<1>3. CASE lock \in MoveType
  <2>1. lock.op = "fill" /\ lock.step \in {"insert", "persist"} /\ lock.entry \in Entries
    BY <1>3 DEF MoveType
  <2>2. lock \notin RetryType /\ lock \notin RemoveType /\ lock # Free /\ lock # FillNext
    BY <2>1 DEF Free, FillNext, RetryType, RemoveType
  <2> QED BY <1>3, <2>1, <2>2 DEF Moving, Taken
<1>4. CASE lock \in RetryType
  <2>1. lock.op = "retry" /\ lock.step = "persist" /\ lock.entry \in Entries
    BY <1>4 DEF RetryType
  <2>2. lock \notin MoveType /\ lock \notin RemoveType /\ lock # Free /\ lock # FillNext
    BY <2>1 DEF Free, FillNext, MoveType, RemoveType
  <2> QED BY <1>4, <2>1, <2>2 DEF Moving, Taken
<1>5. CASE lock \in RemoveType
  <2>1. lock.op = "remove" /\ lock.step = "memory" /\ lock.entry \in CancelType
    BY <1>5 DEF RemoveType
  <2>2. lock \notin MoveType /\ lock \notin RetryType /\ lock # Free /\ lock # FillNext
    BY <2>1 DEF Free, FillNext, MoveType, RetryType
  <2> QED BY <1>5, <2>1, <2>2 DEF Moving, Taken
<1> QED BY <1>1, <1>2, <1>3, <1>4, <1>5

LEMMA JobParts ==
    ASSUME Inv, NEW j \in jobs
    PROVE  /\ up
           /\ j \in JobType /\ j.entry \in Entries /\ j.pc \in Steps /\ j.res \in Outcomes
           /\ j.entry.id \in Nat /\ j.entry.run \in Nat /\ j.entry.task \in Tasks
           /\ j.entry \in Placed /\ j.entry \in Present
           /\ j.entry.run \in 1 .. fresh /\ j.entry.id \in 1 .. fresh
<1>1. up
  BY DEF Inv, Down
<1>2. j \in JobType /\ j.entry \in Entries
  BY DEF Inv, Typed, JobType
<1>3. j.entry \in Placed /\ j.entry \in Present
  BY DEF Placed, Present
<1> QED BY <1>1, <1>2, <1>3 DEF JobType, Entries, Inv, Numbered

\* No two places have the same run.
LEMMA OneRun ==
    ASSUME Inv, NEW j \in jobs
    PROVE  /\ \A k \in jobs : k.entry.run = j.entry.run => k = j
           /\ ~Requeueing(j) => \A e \in Queued \cup Held : e.run # j.entry.run
           /\ Moving => \A e \in Queued : e.run # lock.entry.run
<1>1. up /\ j.entry \in Present
  BY JobParts
<1>2. \A x, y \in Present : x.run = y.run => x.id = y.id
  BY <1>1 DEF Inv, Named
<1>3. \A k \in jobs : k.entry \in Present
  BY JobParts
<1>4. \A e \in Queued \cup Held : e \in Present
  BY DEF Present, Placed
<1>5. ASSUME NEW k \in jobs, k.entry.run = j.entry.run PROVE k = j
  <2>1. CASE j.pc = "clear" \/ k.pc = "clear"
    BY <2>1, <1>5 DEF Inv, Finished
  <2>2. CASE j.pc # "clear" /\ k.pc # "clear"
    BY <2>2, <1>1, <1>2, <1>3, <1>5 DEF Inv, OneId
  <2> QED BY <2>1, <2>2
<1>6. ASSUME ~Requeueing(j), NEW e \in Queued \cup Held, e.run = j.entry.run PROVE FALSE
  <2>1. e.id = j.entry.id
    BY <1>1, <1>2, <1>4, <1>6
  <2>2. j.pc # "clear"
    BY <1>6 DEF Inv, Finished
  <2>3. e \notin Queued /\ ~Moving
    BY <2>1, <2>2, <1>6 DEF Inv, OneId, Held, Taken
  <2>4. lock \in RetryType /\ e = lock.entry
    BY <2>3, <1>6 DEF Held, Taken, Moving
  <2>5. PICK k \in jobs : Requeueing(k)
    BY <2>4 DEF Inv, Retrying
  <2>6. k.entry.run = j.entry.run
    BY <2>4, <2>5, <1>6 DEF Inv, Retrying
  <2> QED BY <2>5, <2>6, <1>5, <1>6
<1>7. ASSUME Moving, NEW e \in Queued, e.run = lock.entry.run PROVE FALSE
  <2>1. e \in Present /\ lock.entry \in Present
    BY <1>4, <1>7 DEF Held, Taken, Moving
  <2> QED BY <2>1, <1>2, <1>7 DEF Inv, OneId
<1> QED BY <1>5, <1>6, <1>7

LEMMA OneRequeueing ==
    ASSUME Inv, NEW j \in jobs, NEW k \in jobs, Requeueing(j), Requeueing(k)
    PROVE  j = k
<1>1. j.entry.run = k.entry.run
  BY DEF Inv, Retrying
<1> QED BY <1>1, OneRun

-----------------------------------------------------------------------------
(* Identities *)

\* What a step may do to the names: N are the entries with a run that is given out now.
Naming(N) ==
    /\ up' /\ fresh' \in Nat /\ fresh <= fresh'
    /\ N \subseteq Entries
    /\ \A x \in N : x.id \in 1 .. fresh' /\ x.run \in fresh + 1 .. fresh'
    /\ \A x, y \in N : x.run = y.run => x = y
    /\ \A x \in Present' : x \in N \/ \E y \in Present : Same(x, y)
    /\ \A x \in disk' : /\ x.id \in 1 .. fresh'
                        /\ \/ x \in N
                           \/ \E y \in Present \cup disk : x.run = y.run /\ x.task = y.task
    /\ \A x \in cancels' : \E y \in Present \cup disk \cup cancels :
                              x.run = y.run /\ x.task = y.task
    /\ \A t \in Tasks : \/ file'[t] = NoFile
                        \/ file'[t] = file[t]
                        \/ \E y \in Present : file'[t].run = y.run /\ t = y.task
    /\ lock' \in RemoveType => lock'.entry.run \in 1 .. fresh
    /\ hist'.void \cup hist'.settled \subseteq hist.void \cup hist.settled \cup 1 .. fresh

LEMMA Names ==
    ASSUME Inv, up, NEW N, Naming(N)
    PROVE  Numbered' /\ Named' /\ (hist'.settled = hist.settled => Apart')
<1> DEFINE Old == Present \cup disk \cup cancels
<1>1. /\ \A e \in Present \cup disk : e.id \in 1 .. fresh /\ e.run \in 1 .. fresh
      /\ \A e \in Old : e.run \in 1 .. fresh
      /\ fresh \in Nat /\ fresh' \in Nat /\ fresh <= fresh'
  BY DEF Inv, Numbered, Typed, TypeOK, Naming
<1>2. /\ \A x, y \in Present : x.run = y.run => x.id = y.id
      /\ \A x, y \in Old : x.run = y.run => x.task = y.task
      /\ \A t \in Tasks : \A y \in Old :
            file[t].kind # "none" /\ file[t].run = y.run => t = y.task
  BY DEF Inv, Named
<1>3. ASSUME NEW x \in Present' \cup disk' \cup cancels'
      PROVE  \/ x \in N
             \/ \E y \in Old : x.run = y.run /\ x.task = y.task
  BY <1>3 DEF Naming, Same
<1>4. \A x \in N : x.id \in 1 .. fresh' /\ x.run \in fresh + 1 .. fresh'
  BY DEF Naming
<1>5. \A x \in Present' \cup disk' \cup cancels' : x.run \in 1 .. fresh'
  BY <1>1, <1>3, <1>4
<1>6. \A x \in Present' \cup disk' : x.id \in 1 .. fresh'
  <2>1. ASSUME NEW x \in Present' PROVE x.id \in 1 .. fresh'
    <3>1. x \in N \/ \E y \in Present : Same(x, y)
      BY <2>1 DEF Naming
    <3> QED BY <3>1, <1>1, <1>4 DEF Same
  <2> QED BY <2>1 DEF Naming
<1>7. ASSUME NEW t \in Tasks
      PROVE  /\ file'[t].run <= fresh /\ file'[t].run \in Nat
             /\ \A y \in Old : file'[t].kind # "none" /\ file'[t].run = y.run => t = y.task
  <2>1. file[t].run \in Nat /\ file[t].run <= fresh
    BY DEF Inv, Typed, TypeOK, Numbered
  <2>2. CASE file'[t] = NoFile
    BY <2>2, <1>1 DEF NoFile
  <2>3. CASE file'[t] = file[t]
    BY <2>1, <2>3, <1>2
  <2>4. CASE \E y \in Present : file'[t].run = y.run /\ t = y.task
    <3>1. PICK y \in Present : file'[t].run = y.run /\ t = y.task
      BY <2>4
    <3>2. y \in Old
      OBVIOUS
    <3>3. \A z \in Old : z.run = y.run => z.task = y.task
      BY <3>2, <1>2
    <3> HIDE DEF Old
    <3> QED BY <3>1, <3>2, <3>3, <1>1
  <2> QED BY <2>2, <2>3, <2>4 DEF Naming
<1>8. Numbered'
  <2>1. hist'.void \cup hist'.settled \subseteq 1 .. fresh'
    <3>1. hist.void \cup hist.settled \subseteq 1 .. fresh
      BY DEF Inv, Numbered
    <3> QED BY <3>1, <1>1 DEF Naming
  <2>2. lock' \in RemoveType => lock'.entry.run \in 1 .. fresh'
    BY <1>1 DEF Naming
  <2>3. \A t \in Tasks : file'[t].run <= fresh'
    BY <1>1, <1>7
  <2>4. /\ \A e \in Present' \cup disk' : e.id \in 1 .. fresh' /\ e.run \in 1 .. fresh'
        /\ \A c \in cancels' : c.run \in 1 .. fresh'
    BY <1>5, <1>6
  <2>5. (lock \in RemoveType)' <=> lock' \in RemoveType
    BY DEF RemoveType, CancelType
  <2> QED BY <2>1, <2>2, <2>3, <2>4, <2>5 DEF Numbered
<1>9. Named'
  <2>1. ASSUME NEW x \in Present', NEW y \in Present', x.run = y.run PROVE x.id = y.id
    <3>1. x \in N \/ \E z \in Present : Same(x, z)
      BY <2>1 DEF Naming
    <3>2. y \in N \/ \E z \in Present : Same(y, z)
      BY <2>1 DEF Naming
    <3>3. CASE x \in N /\ y \in N
      BY <3>3, <2>1 DEF Naming
    <3>4. ASSUME NEW z \in Present, NEW w \in N, z.run = w.run PROVE FALSE
      BY <3>4, <1>1, <1>4
    <3>5. CASE x \in N /\ \E z \in Present : Same(y, z)
      BY <3>4, <3>5, <2>1 DEF Same
    <3>7. CASE y \in N /\ \E z \in Present : Same(x, z)
      BY <3>4, <3>7, <2>1 DEF Same
    <3>6. CASE (\E z \in Present : Same(x, z)) /\ (\E z \in Present : Same(y, z))
      BY <3>6, <2>1, <1>2 DEF Same
    <3> QED BY <3>1, <3>2, <3>3, <3>5, <3>6, <3>7
  <2>2. ASSUME NEW x \in Present' \cup disk' \cup cancels', NEW y \in Present' \cup disk' \cup cancels',
               x.run = y.run
        PROVE  x.task = y.task
    <3>1. x \in N \/ \E z \in Old : x.run = z.run /\ x.task = z.task
      BY <1>3
    <3>2. y \in N \/ \E z \in Old : y.run = z.run /\ y.task = z.task
      BY <1>3
    <3> HIDE DEF Old
    <3>3. CASE x \in N /\ y \in N
      BY <3>3, <2>2 DEF Naming
    <3>4. ASSUME NEW z \in Old, NEW w \in N, z.run = w.run PROVE FALSE
      BY <3>4, <1>1, <1>4
    <3>5. CASE x \in N /\ \E z \in Old : y.run = z.run /\ y.task = z.task
      BY <3>4, <3>5, <2>2
    <3>7. CASE y \in N /\ \E z \in Old : x.run = z.run /\ x.task = z.task
      BY <3>4, <3>7, <2>2
    <3>6. CASE /\ \E z \in Old : x.run = z.run /\ x.task = z.task
               /\ \E z \in Old : y.run = z.run /\ y.task = z.task
      BY <3>6, <2>2, <1>2
    <3> QED BY <3>1, <3>2, <3>3, <3>5, <3>6, <3>7
  <2>3. ASSUME NEW t \in Tasks, NEW y \in Present' \cup disk' \cup cancels',
               file'[t].kind # "none", file'[t].run = y.run
        PROVE  t = y.task
    <3>1. y \in N \/ \E z \in Old : y.run = z.run /\ y.task = z.task
      BY <1>3
    <3> HIDE DEF Old
    <3> QED BY <3>1, <2>3, <1>1, <1>4, <1>7
  <2> QED BY <2>1, <2>2, <2>3 DEF Named
<1>10. ASSUME hist'.settled = hist.settled PROVE Apart'
  <2>1. ASSUME NEW x \in Present' PROVE x.run \notin hist.settled
    <3>1. \A r \in hist.settled : r \in 1 .. fresh
      BY DEF Inv, Numbered
    <3>2. x \in N \/ \E y \in Present : Same(x, y)
      BY <2>1 DEF Naming
    <3> QED BY <3>1, <3>2, <1>1, <1>4 DEF Inv, Apart, Same
  <2> QED BY <2>1, <1>10 DEF Apart
<1> QED BY <1>8, <1>9, <1>10

-----------------------------------------------------------------------------
(* A task goes on *)

\* A task's next step, in which it neither gives its entry back nor is done.  What it
\* writes has a name that is known.
Recorded == \A x \in disk' : /\ x.id \in 1 .. fresh
                             /\ \E y \in Present \cup disk : x.run = y.run /\ x.task = y.task

Advances(j, k) ==
    /\ jobs' = (jobs \ {j}) \cup {k}
    /\ k \in JobType /\ Same(k.entry, j.entry)
    /\ j.pc # "clear"
    /\ Requeueing(j) <=> Requeueing(k)
    /\ j.pc \in Late => k.pc \in Late
    /\ k.pc \in {"send", "stream"} =>
         \/ j.pc \in {"send", "stream"}
         \/ j.pc = "slot" /\ j.entry.run \notin cancel
    /\ UNCHANGED <<up, queue, lock, batches, cancel, cancels, closing, fill, fresh>>
    /\ \A e \in active' : \E f \in active : Same(e, f)
    /\ \A e, f \in active' : e.id = f.id => e = f
    /\ \A e \in Pictured' : \E f \in Present : Same(e, f)
    /\ \A t \in Tasks : \/ file'[t] = NoFile
                        \/ file'[t] = file[t]
                        \/ j.pc \in {"send", "stream"} /\ file'[t].run = j.entry.run /\ t = j.entry.task
    /\ hist'.void = hist.void /\ hist'.settled = hist.settled /\ hist'.parked = hist.parked

LEMMA AdvanceNames ==
    ASSUME Inv, NEW j \in jobs, NEW k, Advances(j, k), Recorded
    PROVE  Down' /\ Numbered' /\ Named' /\ Apart'
<1>1. up /\ up' /\ j.entry \in Present
  BY JobParts DEF Advances
<1>2. Queued' = Queued /\ Held' = Held
  BY DEF Advances, Queued, Held, Taken, MoveType, RetryType
<1>3. ASSUME NEW x \in Present' PROVE \E y \in Present : Same(x, y)
  <2>1. CASE x \in Pictured'
    BY <2>1 DEF Advances
  <2>2. CASE x \in Queued \cup Held
    BY <2>2 DEF Present, Placed, Same
  <2>3. CASE x \in { l.entry : l \in jobs' }
    <3>1. PICK l \in jobs' : x = l.entry
      BY <2>3
    <3>2. CASE l = k
      BY <3>1, <3>2, <1>1 DEF Advances
    <3>3. CASE l \in jobs
      <4>1. x \in Present
        BY <3>1, <3>3 DEF Present, Placed
      <4> QED BY <4>1 DEF Same
    <3> QED BY <3>2, <3>3 DEF Advances
  <2> QED BY <1>2, <2>1, <2>2, <2>3 DEF Present, Placed
<1>4. Naming({})
  <2>1. fresh \in Nat /\ fresh' = fresh /\ cancels' = cancels /\ lock' = lock
    BY DEF Inv, Typed, TypeOK, Advances
  <2>2. \A t \in Tasks : file'[t] = NoFile \/ file'[t] = file[t]
                      \/ \E y \in Present : file'[t].run = y.run /\ t = y.task
    BY <1>1 DEF Advances
  <2>3. \A x \in disk' : /\ x.id \in 1 .. fresh
                          /\ \E y \in Present \cup disk : x.run = y.run /\ x.task = y.task
    BY DEF Recorded
  <2>4. lock \in RemoveType => lock.entry.run \in 1 .. fresh
    BY DEF Inv, Numbered
  <2>5. hist'.void = hist.void /\ hist'.settled = hist.settled
    BY DEF Advances
  <2> QED BY <1>1, <1>3, <2>1, <2>2, <2>3, <2>4, <2>5 DEF Naming
<1> QED BY <1>1, <1>4, Names DEF Down, Advances

LEMMA AdvanceCore ==
    ASSUME Inv, NEW j \in jobs, NEW k, Advances(j, k), Recorded
    PROVE  /\ Down' /\ Numbered' /\ Named' /\ Apart' /\ OneId' /\ Finished' /\ Retrying'
           /\ Attended' /\ Busy' /\ Silenced'
<1> USE DEF Advances
<1>1. Down' /\ Numbered' /\ Named' /\ Apart'
  BY AdvanceNames
<1>2. /\ up /\ Queued' = Queued /\ Held' = Held /\ (Moving' <=> Moving) /\ (Taken' <=> Taken)
      /\ Distinct(queue)' = Distinct(queue)
      /\ k.entry.id = j.entry.id /\ k.entry.run = j.entry.run /\ k.entry.task = j.entry.task
  BY JobParts DEF Queued, Held, Moving, Taken, MoveType, RetryType, Same, Distinct
<1>3. /\ \A l \in jobs' : l = k \/ (l \in jobs /\ l # j)
      /\ k \in jobs' /\ \A l \in jobs : l = j \/ l \in jobs'
  <2>1. jobs' = (jobs \ {j}) \cup {k}
    OBVIOUS
  <2> QED BY ONLY <2>1
<1>4. OneId'
  <2>1. \A l, m \in jobs' : l.pc # "clear" /\ m.pc # "clear" /\ l.entry.id = m.entry.id => l = m
    BY <1>2, <1>3 DEF Inv, OneId
  <2>2. \A l \in jobs' : l.pc # "clear" /\ ~Requeueing(l) =>
          /\ \A e \in Queued : e.id # l.entry.id
          /\ Moving => lock.entry.id # l.entry.id
    BY <1>2, <1>3 DEF Inv, OneId
  <2>3. Distinct(queue) /\ (Moving => \A e \in Queued : e.id # lock.entry.id)
    BY DEF Inv, OneId
  <2> QED BY <1>2, <2>1, <2>2, <2>3 DEF OneId, Requeueing, Distinct
<1>6. Finished'
  <2>1. ~Requeueing(j) => \A e \in Queued \cup Held : e.run # j.entry.run
    BY OneRun
  <2>2. \A l \in jobs : l # j => l.entry.run # j.entry.run
    BY OneRun
  <2>3. \A l \in jobs : l.pc = "clear" => /\ \A e \in Queued \cup Held : e.run # l.entry.run
                                          /\ \A m \in jobs \ {l} : m.entry.run # l.entry.run
    BY DEF Inv, Finished
  <2>4. k.pc = "clear" => ~Requeueing(j)
    BY DEF Requeueing
  <2>5. ASSUME NEW l \in jobs', l.pc = "clear"
        PROVE  /\ \A e \in Queued \cup Held : e.run # l.entry.run
               /\ \A m \in jobs' \ {l} : m.entry.run # l.entry.run
    BY <1>2, <1>3, <2>1, <2>2, <2>3, <2>4, <2>5
  <2> QED BY <1>2, <2>5 DEF Finished
<1>7. Retrying'
  <2>1. \A l \in jobs' : Requeueing(l) => \E m \in jobs : Requeueing(m) /\ Same(m.entry, l.entry)
    BY <1>2, <1>3 DEF Same
  <2>2. \A l \in jobs : Requeueing(l) => \E m \in jobs' : Requeueing(m)
    BY <1>3
  <2>3. ASSUME NEW l \in jobs', Requeueing(l) PROVE { e \in active' : e.id = l.entry.id } = {}
    BY <2>1, <2>3 DEF Inv, Retrying, Live, Same
  <2>4. \A l \in jobs' : Requeueing(l) =>
          /\ lock \in RetryType
          /\ lock.entry.id = l.entry.id /\ lock.entry.run = l.entry.run
          /\ l.entry.id \notin batches
    BY <2>1 DEF Inv, Retrying, Same
  <2>5. lock \in RetryType => lock.entry \in Queued /\ \E l \in jobs' : Requeueing(l)
    BY <2>2 DEF Inv, Retrying
  <2> QED BY <1>2, <2>3, <2>4, <2>5 DEF Retrying, Requeueing, Live, RetryType
<1>8. Attended'
  <2>1. ASSUME NEW e \in active'
        PROVE  /\ \/ \E l \in jobs' : l.entry.run = e.run
                  \/ Moving /\ lock.step = "persist" /\ lock.entry.run = e.run
               /\ \A l \in jobs' : l.pc # "clear" /\ l.entry.id = e.id => l.entry.run = e.run
               /\ Moving /\ lock.step = "persist" /\ lock.entry.id = e.id => lock.entry.run = e.run
    <3>1. PICK f \in active : Same(e, f)
      OBVIOUS
    <3>2. /\ \/ \E l \in jobs : l.entry.run = f.run
             \/ Moving /\ lock.step = "persist" /\ lock.entry.run = f.run
          /\ \A l \in jobs : l.pc # "clear" /\ l.entry.id = f.id => l.entry.run = f.run
          /\ Moving /\ lock.step = "persist" /\ lock.entry.id = f.id => lock.entry.run = f.run
      BY DEF Inv, Attended
    <3>3. (\E l \in jobs : l.entry.run = f.run) => \E l \in jobs' : l.entry.run = f.run
      BY <1>2, <1>3
    <3> QED BY <1>2, <1>3, <3>1, <3>2, <3>3 DEF Same
  <2>2. batches' \subseteq { l.entry.id : l \in jobs' }
    BY <1>2, <1>3 DEF Inv, Attended
  <2> QED BY <1>2, <2>1, <2>2 DEF Attended
<1>9. Busy'
  <2>1. jobs' # {}
    BY <1>3
  <2> QED BY <2>1 DEF Busy
<1>10. Silenced'
  <2>1. ASSUME NEW r, Quelled(r) PROVE Quelled(r)'
    <3>1. Starts(r)' => Starts(r)
      <4>1. ASSUME NEW l \in jobs', l.pc \notin Late, l.entry.run = r
            PROVE  \E m \in jobs : m.pc \notin Late /\ m.entry.run = r
        BY <1>2, <1>3, <4>1
      <4> QED BY <1>2, <4>1 DEF Starts, Late
    <3> QED BY <2>1, <3>1 DEF Quelled
  <2>2. Voided' = Voided
    BY DEF Voided, RemoveType, CancelType
  <2>3. ASSUME NEW r \in Voided
        PROVE  /\ Quelled(r)'
               /\ \A l \in jobs' : l.entry.run = r => l.pc \notin {"send", "stream"}
               /\ \A t \in Tasks : file'[t].kind # "none" => file'[t].run # r
    <3>1. /\ Quelled(r)
          /\ \A l \in jobs : l.entry.run = r => l.pc \notin {"send", "stream"}
          /\ \A t \in Tasks : file[t].kind # "none" => file[t].run # r
      BY DEF Inv, Silenced
    <3>2. j.entry.run = r => k.pc \notin {"send", "stream"}
      <4>1. j.entry.run = r /\ j.pc = "slot" => r \in cancel
        BY <3>1 DEF Quelled, Starts, Late
      <4> QED BY <3>1, <4>1
    <3>3. ASSUME NEW t \in Tasks, file'[t].kind # "none" PROVE file'[t].run # r
      BY <3>1, <3>3 DEF NoFile
    <3> QED BY <1>2, <1>3, <2>1, <3>1, <3>2, <3>3
  <2> QED BY <2>1, <2>2, <2>3 DEF Inv, Silenced
<1> QED BY <1>1, <1>4, <1>6, <1>7, <1>8, <1>9, <1>10

LEMMA AdvanceKeeps ==
    ASSUME Inv, NEW j \in jobs, NEW k, Advances(j, k), UNCHANGED disk, Typed'
    PROVE  Inv'
<1>1. Recorded
  BY JobParts DEF Recorded, Inv, Numbered
<1>2. /\ Down' /\ Numbered' /\ Named' /\ Apart' /\ OneId' /\ Finished' /\ Retrying'
      /\ Attended' /\ Busy' /\ Silenced'
  BY <1>1, AdvanceCore
<1>3. /\ up /\ up' = up /\ Queued' = Queued /\ Held' = Held /\ (Moving' <=> Moving)
      /\ (Taken' <=> Taken) /\ lock' = lock /\ queue' = queue
      /\ k.entry.id = j.entry.id /\ k.entry.run = j.entry.run
  BY JobParts DEF Advances, Queued, Held, Moving, Taken, MoveType, RetryType, Same
<1>4. /\ \A l \in jobs' : l = k \/ (l \in jobs /\ l # j)
      /\ j.pc # "clear" /\ (j.pc \in Late => k.pc \in Late) /\ (Requeueing(j) <=> Requeueing(k))
  <2>1. jobs' = (jobs \ {j}) \cup {k}
    BY DEF Advances
  <2> QED BY <2>1 DEF Advances
<1>5. Filed'
  BY <1>3, <1>4 DEF Inv, Filed
<1>6. Resting'
  <2>1. ASSUME NEW e \in disk, NEW l \in jobs', l.entry.run = e.run
        PROVE  Requeueing(l) \/ l.pc \in Late
    <3>1. \A m \in jobs : m.entry.run = e.run => Requeueing(m) \/ m.pc \in Late
      BY <1>3 DEF Inv, Resting
    <3> QED BY <1>3, <1>4, <2>1, <3>1
  <2>2. \A e \in disk : e.st # "queued" => /\ Moving => lock.entry.run # e.run
                                          /\ \A q \in Queued : q.st = "queued" => q.run # e.run
    BY <1>3 DEF Inv, Resting
  <2> QED BY <1>3, <2>1, <2>2 DEF Resting, Requeueing, Late
<1> QED BY <1>2, <1>5, <1>6 DEF Inv

-----------------------------------------------------------------------------
(* Steps that leave the entries where they are *)

\* The entries of S with another status: f says which.
LEMMA Relabelled ==
    ASSUME NEW S, Picture(S), NEW f \in [S -> Entries], \A e \in S : Same(f[e], e),
           \A e, g \in S : e.id = g.id => e = g
    PROVE  /\ Picture({ f[e] : e \in S })
           /\ \A x \in { f[e] : e \in S } : \E e \in S : Same(x, e)
           /\ \A x, y \in { f[e] : e \in S } : x.id = y.id => x = y
<1>1. IsFiniteSet({ f[e] : e \in S })
  BY ImageFinite DEF Picture
<1> QED BY <1>1 DEF Picture, Same

\* What the bystanders of the hand-over do: flags, snapshots and statuses.
Standing ==
    /\ up /\ up'
    /\ UNCHANGED <<queue, jobs, lock, disk, fresh>>
    /\ batches' \subseteq batches
    /\ \A e \in active' : \E f \in active : Same(e, f)
    /\ \A e, f \in active' : e.id = f.id => e = f
    /\ \A e \in Pictured' : \E f \in Present : Same(e, f)
    /\ \A t \in Tasks : file'[t] = NoFile \/ file'[t] = file[t]
    /\ cancel \subseteq cancel'
    /\ \A c \in cancels' :
         \/ c \in cancels
         \/ c.run \in cancel' /\ \E y \in Present \cup disk : c.run = y.run /\ c.task = y.task
    /\ fill \/ closing => fill' \/ closing'
    /\ hist'.void = hist.void /\ hist'.settled = hist.settled /\ hist'.parked = hist.parked

LEMMA StandingKeeps ==
    ASSUME Inv, Standing, Typed'
    PROVE  Inv'
<1> USE DEF Standing
<1>1. /\ Queued' = Queued /\ Held' = Held /\ (Moving' <=> Moving) /\ (Taken' <=> Taken)
      /\ Placed' = Placed
  BY DEF Queued, Held, Moving, Taken, MoveType, RetryType, Placed
<1>2. ASSUME NEW x \in Present' PROVE \E y \in Present : Same(x, y)
  <2>1. CASE x \in Pictured'
    BY <2>1
  <2>2. CASE x \in Placed
    BY <2>2 DEF Present, Same
  <2> QED BY <1>1, <2>1, <2>2 DEF Present
<1>3. Down' /\ Numbered' /\ Named' /\ Apart'
  <2>1. Naming({})
    <3>1. fresh \in Nat /\ fresh' = fresh /\ disk' = disk /\ lock' = lock
      BY DEF Inv, Typed, TypeOK
    <3>2. \A x \in disk : x.id \in 1 .. fresh
      BY DEF Inv, Numbered
    <3>3. lock \in RemoveType => lock.entry.run \in 1 .. fresh
      BY DEF Inv, Numbered
    <3> QED BY <1>2, <3>1, <3>2, <3>3 DEF Naming
  <2> QED BY <2>1, Names DEF Down
<1>4. OneId' /\ Filed' /\ Finished' /\ Resting'
  BY <1>1 DEF Inv, OneId, Filed, Finished, Resting, Requeueing, Distinct, Late
<1>5. Retrying'
  <2>1. ASSUME NEW l \in jobs, Requeueing(l) PROVE { e \in active' : e.id = l.entry.id } = {}
    BY <2>1 DEF Inv, Retrying, Live, Same
  <2> QED BY <1>1, <2>1 DEF Inv, Retrying, Requeueing, Live, RetryType
<1>6. Attended'
  <2>1. ASSUME NEW e \in active'
        PROVE  /\ \/ \E l \in jobs : l.entry.run = e.run
                  \/ Moving /\ lock.step = "persist" /\ lock.entry.run = e.run
               /\ \A l \in jobs : l.pc # "clear" /\ l.entry.id = e.id => l.entry.run = e.run
               /\ Moving /\ lock.step = "persist" /\ lock.entry.id = e.id => lock.entry.run = e.run
    <3>1. PICK f \in active : Same(e, f)
      OBVIOUS
    <3> QED BY <3>1 DEF Inv, Attended, Same
  <2>2. batches' \subseteq { l.entry.id : l \in jobs }
    BY DEF Inv, Attended
  <2> QED BY <1>1, <2>1, <2>2 DEF Attended
<1>7. Busy'
  BY <1>1 DEF Inv, Busy, Runnable, EntryStatus
<1>8. Silenced'
  <2>1. \A r : Starts(r)' <=> Starts(r)
    BY <1>1 DEF Starts, Late
  <2>2. \A r : Quelled(r) => Quelled(r)'
    BY <2>1 DEF Quelled
  <2>3. Voided' = Voided
    BY DEF Voided, RemoveType, CancelType
  <2>4. \A c \in cancels' : Quelled(c.run)'
    BY <2>2 DEF Inv, Silenced, Quelled
  <2>5. ASSUME NEW r \in Voided
        PROVE  /\ Quelled(r)'
               /\ \A l \in jobs' : l.entry.run = r => l.pc \notin {"send", "stream"}
               /\ \A t \in Tasks : file'[t].kind # "none" => file'[t].run # r
    BY <2>2 DEF Inv, Silenced, NoFile
  <2> QED BY <2>3, <2>4, <2>5 DEF Silenced
<1> QED BY <1>3, <1>4, <1>5, <1>6, <1>7, <1>8 DEF Inv

LEMMA StatusSet ==
    ASSUME Inv, NEW j \in jobs, NEW st \in Statuses, SetStatus(j, st)
    PROVE  /\ Picture(active')
           /\ \A e \in active' : \E f \in active : Same(e, f)
           /\ \A e, f \in active' : e.id = f.id => e = f
           /\ SnapsFrom(Contents \cup {active'})
<1> DEFINE f == [e \in active |-> IF e.task = j.entry.task THEN [e EXCEPT !.st = st] ELSE e]
           content == { f[e] : e \in active }
<1>1. Picture(active) /\ \A e, g \in active : e.id = g.id => e = g
  BY DEF Inv, Typed, TypeOK, Picture, Attended
<1>2. \A e \in active : f[e] \in Entries /\ Same(f[e], e)
  BY <1>1 DEF Picture, Entries, Same
<1>3. f \in [active -> Entries]
  BY <1>2
<1>4. active' = content
  BY DEF SetStatus
<1>5. IF j.entry.task \in TasksOf(active) THEN Capture(j.entry.run, content) ELSE UNCHANGED snaps
  BY <1>4 DEF SetStatus
<1> HIDE DEF f
<1>6. /\ Picture(content)
      /\ \A x \in content : \E e \in active : Same(x, e)
      /\ \A x, y \in content : x.id = y.id => x = y
  BY <1>1, <1>2, <1>3, Relabelled
<1> HIDE DEF content
<1>7. SnapsFrom(Contents \cup {content})
  <2>1. CASE j.entry.task \in TasksOf(active)
    <3>1. j.entry.run \in Nat /\ Typed
      BY JobParts DEF Inv
    <3> QED BY <1>5, <1>6, <2>1, <3>1, Captured
  <2>2. CASE UNCHANGED snaps
    <3>1. snaps \in Seq(SnapType)
      BY DEF Inv, Typed
    <3>2. Contents' = Contents
      BY <2>2 DEF Contents
    <3> QED BY <2>2, <3>1, <3>2 DEF SnapsFrom
  <2> QED BY <1>5, <2>1, <2>2
<1> QED BY <1>4, <1>6, <1>7

\* The pictures after a step, of active' and of what was in pictures before.
LEMMA PicturedFrom ==
    ASSUME Inv, SnapsFrom(Contents \cup {active'}), Picture(active'),
           infl' \in Contents \cup {infl},
           \A e \in active' : \E f \in active : Same(e, f)
    PROVE  /\ \A e \in Pictured' : \E f \in Present : Same(e, f)
           /\ \A n \in DOMAIN snaps' : IsFiniteSet(snaps'[n].content) /\ snaps'[n].content \in SUBSET Entries
           /\ infl' \subseteq Entries /\ IsFiniteSet(infl')
<1>1. Typed
  BY DEF Inv
<1>2. Pictured = active \cup infl \cup UNION Contents
  BY <1>1, ContentsAre
<1>3. Pictured' = active' \cup infl' \cup UNION (Contents')
  BY DEF Pictured, Contents
<1>4. Contents' \subseteq Contents \cup {active'}
  BY DEF SnapsFrom
<1>5. active \subseteq Present /\ infl' \subseteq Present /\ UNION Contents \subseteq Present
  BY <1>2 DEF Present
<1>6. \A e \in Pictured' : e \in active' \/ e \in Present
  BY <1>3, <1>4, <1>5
<1>7. \A e \in Pictured' : \E f \in Present : Same(e, f)
  BY <1>5, <1>6 DEF Same
<1>8. \A S \in Contents \cup {active'} : S \subseteq Entries /\ IsFiniteSet(S)
  BY <1>1, ContentsAre DEF Picture
<1>9. \A n \in DOMAIN snaps' : snaps'[n].content \in Contents \cup {active'}
  BY <1>4 DEF Contents
<1>10. infl \subseteq Entries /\ IsFiniteSet(infl)
  BY <1>1 DEF Typed, TypeOK
<1> QED BY <1>7, <1>8, <1>9, <1>10

-----------------------------------------------------------------------------
(* The task of an entry, until it is settled *)

FileType == [Tasks -> [kind : {"none", "part", "final"}, run : Nat]]

LEMMA DiskStays ==
    ASSUME Inv, NEW j \in jobs, UNCHANGED disk
    PROVE  Picture(disk') /\ \A e \in disk' : e.st # "active"
  BY JobParts DEF Inv, Typed, TypeOK, Picture

LEMMA AdvanceTyped ==
    ASSUME Inv, NEW j \in jobs, NEW k, Advances(j, k),
           k.pc = "terminal" => k.entry.st # "active",
           Picture(active'), Picture(infl'), snaps' \in Seq(SnapType),
           \A n \in DOMAIN snaps' : IsFiniteSet(snaps'[n].content),
           \A n \in DOMAIN snaps' : snaps'[n].content \in SUBSET Entries,
           file' \in FileType, hist' \in History,
           UNCHANGED <<pause, ops, limit>>, faults' \in Nat,
           Picture(disk'), \A e \in disk' : e.st # "active"
    PROVE  Typed'
<1>1. Typed /\ TypeOK
  BY DEF Inv, Typed
<1>2. up' = up /\ queue' = queue /\ lock' = lock /\ batches' = batches /\ cancel' = cancel
      /\ cancels' = cancels /\ closing' = closing /\ fill' = fill /\ fresh' = fresh
  BY DEF Advances
<1>3. \A l \in jobs' : l \in JobType /\ (l.pc = "terminal" => l.entry.st # "active")
  BY <1>1 DEF Advances, Typed
<1>4. TypeOK'
  BY <1>1, <1>2, <1>3 DEF TypeOK, Picture, FileType, JobType
<1> QED BY <1>1, <1>2, <1>3, <1>4
    DEF Typed, Picture, Queued, JobType, MoveType, RetryType, RemoveType, CancelType, SnapType

\* A step of a task that leaves the active entries and the snapshots alone.
LEMMA Stepped ==
    ASSUME Inv, NEW j \in jobs, NEW k, UNCHANGED <<active, snaps, infl, disk>>,
           (\A e \in active' : \E f \in active : Same(e, f))
             /\ (\A e, f \in active' : e.id = f.id => e = f)
             /\ (\A e \in Pictured' : \E f \in Present : Same(e, f)) => Advances(j, k),
           k.pc = "terminal" => k.entry.st # "active",
           file' \in FileType, hist' \in History,
           UNCHANGED <<pause, ops, limit>>, faults' \in Nat
    PROVE  Inv'
<1>1. Typed /\ TypeOK
  BY DEF Inv, Typed
<1>2. Pictured' = Pictured
  BY DEF Pictured
<1>3. \A e \in Pictured : e \in Present
  BY DEF Present
<1>4. \A e \in active' : \E f \in active : Same(e, f)
  BY DEF Same
<1>5. \A e, f \in active' : e.id = f.id => e = f
  BY DEF Inv, Attended
<1>6. \A e \in Pictured' : \E f \in Present : Same(e, f)
  BY <1>2, <1>3 DEF Same
<1>7. Advances(j, k)
  BY <1>4, <1>5, <1>6
<1>8. Picture(active') /\ Picture(infl') /\ snaps' \in Seq(SnapType)
  BY <1>1 DEF Typed, TypeOK, Picture
<1>9. \A n \in DOMAIN snaps' : IsFiniteSet(snaps'[n].content) /\ snaps'[n].content \in SUBSET Entries
  BY <1>1 DEF Typed, TypeOK
<1>10. Typed'
  BY <1>7, <1>8, <1>9, DiskStays, AdvanceTyped
<1> QED BY <1>7, <1>10, AdvanceKeeps

LEMMA BecomeIs ==
    ASSUME Inv, NEW j \in jobs, NEW pc \in Steps, NEW res \in Outcomes
    PROVE  LET k == [j EXCEPT !.pc = pc, !.res = res] IN
           /\ k \in JobType /\ k.entry = j.entry /\ Same(k.entry, j.entry)
           /\ k.pc = pc /\ k.res = res
<1>1. j \in JobType
  BY JobParts
<1> QED BY <1>1 DEF JobType, Same

\* What a task does to its file, before it has ended.
Fresh(j) ==
    \A t \in Tasks : \/ file'[t] = NoFile
                     \/ file'[t] = file[t]
                     \/ j.pc \in {"send", "stream"} /\ file'[t].run = j.entry.run /\ t = j.entry.task

LEMMA FileEnding ==
    ASSUME Inv, NEW j \in jobs, NEW st \in Statuses, NEW res \in Outcomes,
           j.pc \in {"slot", "send", "stream"}, FileEnds(j, st, res),
           file' \in FileType, Fresh(j)
    PROVE  Inv'
<1> DEFINE k == [j EXCEPT !.pc = "snapshot", !.res = res]
<1>1. k \in JobType /\ Same(k.entry, j.entry) /\ k.pc = "snapshot"
  BY BecomeIs DEF Steps
<1>2. jobs' = (jobs \ {j}) \cup {k}
  BY DEF FileEnds, Become
<1> HIDE DEF k
<1>3. /\ Picture(active') /\ SnapsFrom(Contents \cup {active'})
      /\ \A e \in active' : \E f \in active : Same(e, f)
      /\ \A e, f \in active' : e.id = f.id => e = f
  BY StatusSet DEF FileEnds
<1>4. UNCHANGED <<up, queue, batches, lock, fill, cancel, pause, cancels, closing, disk,
                  infl, fresh, ops, faults, limit, hist>>
  BY DEF FileEnds, bounds
<1>5. /\ \A e \in Pictured' : \E f \in Present : Same(e, f)
      /\ \A n \in DOMAIN snaps' : IsFiniteSet(snaps'[n].content)
      /\ \A n \in DOMAIN snaps' : snaps'[n].content \in SUBSET Entries
      /\ Picture(infl')
  BY <1>3, <1>4, PicturedFrom DEF Picture
<1>6. Advances(j, k)
  BY <1>1, <1>2, <1>3, <1>4, <1>5 DEF Advances, Fresh, Requeueing, Late
<1>7. hist' \in History /\ faults' \in Nat
  BY <1>4 DEF Inv, Typed, TypeOK
<1>8. Picture(disk') /\ \A e \in disk' : e.st # "active"
  BY <1>4, DiskStays
<1>9. Typed'
  BY <1>1, <1>3, <1>4, <1>5, <1>6, <1>7, <1>8, AdvanceTyped DEF SnapsFrom
<1> QED BY <1>4, <1>6, <1>9, AdvanceKeeps

LEMMA Files ==
    ASSUME Inv
    PROVE  /\ file \in FileType
           /\ \A t \in Tasks : PartRemoved(t) \in FileType
           /\ \A t, u \in Tasks : PartRemoved(t)[u] = NoFile \/ PartRemoved(t)[u] = file[u]
           /\ \A t \in Tasks, r \in Nat, kind \in {"part", "final"} :
                /\ [file EXCEPT ![t] = [kind |-> kind, run |-> r]] \in FileType
                /\ \A u \in Tasks :
                     \/ [file EXCEPT ![t] = [kind |-> kind, run |-> r]][u] = file[u]
                     \/ u = t /\ [file EXCEPT ![t] = [kind |-> kind, run |-> r]][u].run = r
<1>1. file \in FileType
  BY DEF Inv, Typed, TypeOK, FileType
<1>2. NoFile \in [kind : {"none", "part", "final"}, run : Nat]
  BY DEF NoFile
<1>3. ASSUME NEW t \in Tasks
      PROVE  /\ PartRemoved(t) \in FileType
             /\ \A u \in Tasks : PartRemoved(t)[u] = NoFile \/ PartRemoved(t)[u] = file[u]
  BY <1>1, <1>2 DEF PartRemoved, FileType
<1>4. ASSUME NEW t \in Tasks, NEW r \in Nat, NEW kind \in {"part", "final"}
      PROVE  /\ [file EXCEPT ![t] = [kind |-> kind, run |-> r]] \in FileType
             /\ \A u \in Tasks :
                  \/ [file EXCEPT ![t] = [kind |-> kind, run |-> r]][u] = file[u]
                  \/ u = t /\ [file EXCEPT ![t] = [kind |-> kind, run |-> r]][u].run = r
  <2>1. [kind |-> kind, run |-> r] \in [kind : {"none", "part", "final"}, run : Nat]
    BY <1>4
  <2> QED BY <1>1, <2>1 DEF FileType
<1> QED BY <1>1, <1>3, <1>4

LEMMA AbandonKeeps ==
    ASSUME Inv, NEW j \in jobs, j.pc \in {"slot", "stream"}, Abandons(j)
    PROVE  Inv'
<1>1. j.entry.task \in Tasks
  BY JobParts
<1>2. CASE FileEnds(j, "paused", "ok") /\ UNCHANGED file
  <2>1. file' \in FileType /\ Fresh(j)
    BY <1>2, Files DEF Fresh
  <2> QED BY <1>2, <2>1, FileEnding DEF Statuses, Outcomes
<1>3. CASE FileEnds(j, "cancelled", "ok") /\ file' = PartRemoved(j.entry.task)
  <2>1. file' \in FileType /\ Fresh(j)
    BY <1>1, <1>3, Files DEF Fresh
  <2> QED BY <1>3, <2>1, FileEnding DEF Statuses, Outcomes
<1> QED BY <1>2, <1>3 DEF Abandons

LEMMA ClaimsKeeps ==
    ASSUME Inv, NEW j \in jobs, JobClaims(j)
    PROVE  Inv'
<1> DEFINE k == [j EXCEPT !.pc = "send", !.res = "none"]
<1>1. CASE Abandons(j)
  BY <1>1, AbandonKeeps DEF JobClaims
<1>2. CASE /\ ~Cancelled(j) /\ Become(j, "send", "none")
           /\ UNCHANGED <<up, queue, active, batches, lock, fill, cancel, pause, cancels,
                          closing, snaps, disk, infl, file, fresh, bounds, hist>>
  <2>1. k \in JobType /\ Same(k.entry, j.entry) /\ k.pc = "send"
    <3>1. "send" \in Steps /\ "none" \in Outcomes
      BY DEF Steps, Outcomes
    <3> QED BY <3>1, BecomeIs
  <2>2. jobs' = (jobs \ {j}) \cup {k}
    BY <1>2 DEF Become
  <2>3. UNCHANGED <<up, queue, active, batches, lock, fill, cancel, pause, cancels,
                    closing, snaps, disk, infl, file, fresh, ops, faults, limit, hist>>
    BY <1>2 DEF bounds
  <2> HIDE DEF k
  <2>4. (\A e \in active' : \E f \in active : Same(e, f))
          /\ (\A e, f \in active' : e.id = f.id => e = f)
          /\ (\A e \in Pictured' : \E f \in Present : Same(e, f)) => Advances(j, k)
    BY <1>2, <2>1, <2>2, <2>3 DEF JobClaims, Advances, Cancelled, Requeueing, Late
  <2>5. file' \in FileType /\ hist' \in History /\ faults' \in Nat
    BY <2>3, Files DEF Inv, Typed, TypeOK
  <2> QED BY <2>1, <2>3, <2>4, <2>5, Stepped
<1> QED BY <1>1, <1>2 DEF JobClaims

LEMMA ConnectsKeeps ==
    ASSUME Inv, NEW j \in jobs, JobConnects(j)
    PROVE  Inv'
<1> DEFINE k == [j EXCEPT !.pc = "stream", !.res = "none"]
<1>1. k \in JobType /\ Same(k.entry, j.entry) /\ k.pc = "stream"
  <2>1. "stream" \in Steps /\ "none" \in Outcomes
    BY DEF Steps, Outcomes
  <2> QED BY <2>1, BecomeIs
<1>2. jobs' = (jobs \ {j}) \cup {k}
  BY DEF JobConnects, Become
<1>3. UNCHANGED <<up, queue, active, batches, lock, fill, cancel, pause, cancels,
                  closing, snaps, disk, infl, fresh, ops, faults, limit, hist>>
  BY DEF JobConnects, bounds
<1> HIDE DEF k
<1>4. file' \in FileType /\ Fresh(j)
  <2>1. j.entry.task \in Tasks /\ j.entry.run \in Nat
    BY JobParts
  <2>2. j.pc = "send" /\ file' = [file EXCEPT ![j.entry.task] = [kind |-> "part", run |-> j.entry.run]]
    BY DEF JobConnects
  <2>3. /\ file' \in FileType
        /\ \A u \in Tasks : file'[u] = file[u] \/ (u = j.entry.task /\ file'[u].run = j.entry.run)
    BY <2>1, <2>2, Files
  <2> QED BY <2>2, <2>3 DEF Fresh
<1>5. (\A e \in active' : \E f \in active : Same(e, f))
        /\ (\A e, f \in active' : e.id = f.id => e = f)
        /\ (\A e \in Pictured' : \E f \in Present : Same(e, f)) => Advances(j, k)
  BY <1>1, <1>2, <1>3, <1>4 DEF JobConnects, Advances, Requeueing, Late, Fresh
<1>6. hist' \in History /\ faults' \in Nat
  BY <1>3 DEF Inv, Typed, TypeOK
<1> QED BY <1>1, <1>3, <1>4, <1>5, <1>6, Stepped

LEMMA EndsKeeps ==
    ASSUME Inv, NEW j \in jobs,
           \/ JobCancelled(j) \/ JobCompletes(j) \/ JobUnanswered(j) \/ JobRefused(j)
           \/ JobPartUseless(j) \/ JobBreaks(j)
    PROVE  Inv'
<1>1. j.entry.task \in Tasks /\ j.entry.run \in Nat
  BY JobParts
<1>2. CASE JobCancelled(j)
  BY <1>2, AbandonKeeps DEF JobCancelled
<1>3. CASE JobCompletes(j)
  <2>1. j.pc \in {"send", "stream"}
        /\ file' = [file EXCEPT ![j.entry.task] = [kind |-> "final", run |-> j.entry.run]]
    BY <1>3 DEF JobCompletes
  <2>2. /\ file' \in FileType
        /\ \A u \in Tasks : file'[u] = file[u] \/ (u = j.entry.task /\ file'[u].run = j.entry.run)
    BY <1>1, <2>1, Files
  <2>3. file' \in FileType /\ Fresh(j)
    BY <2>1, <2>2 DEF Fresh
  <2> QED BY <1>3, <2>3, FileEnding DEF JobCompletes, Statuses, Outcomes
<1>4. CASE JobUnanswered(j) \/ JobRefused(j) \/ JobBreaks(j)
  <2>1. file' \in FileType /\ Fresh(j)
    BY <1>4, Files DEF JobUnanswered, JobRefused, JobBreaks, Fresh
  <2>2. PICK res \in {"retry", "fatal"} : FileEnds(j, "error", res)
    BY <1>4 DEF JobUnanswered, JobRefused, JobBreaks
  <2>3. j.pc \in {"slot", "send", "stream"}
    BY <1>4 DEF JobUnanswered, JobRefused, JobBreaks
  <2> QED BY <2>1, <2>2, <2>3, FileEnding DEF Statuses, Outcomes
<1>5. CASE JobPartUseless(j)
  <2>1. file' \in FileType /\ Fresh(j)
    BY <1>1, <1>5, Files DEF JobPartUseless, Fresh
  <2> QED BY <1>5, <2>1, FileEnding DEF JobPartUseless, Statuses, Outcomes
<1> QED BY <1>2, <1>3, <1>4, <1>5

LEMMA SnapshotKeeps ==
    ASSUME Inv, NEW j \in jobs, JobSnapshot(j)
    PROVE  Inv'
<1>1. PICK pc \in {"sleep", "settle"} : Become(j, pc, j.res)
  BY DEF JobSnapshot
<1> DEFINE k == [j EXCEPT !.pc = pc, !.res = j.res]
<1>2. k \in JobType /\ Same(k.entry, j.entry) /\ k.pc = pc
  <2>1. pc \in Steps /\ j \in JobType
    BY JobParts DEF Steps
  <2> QED BY <2>1 DEF JobType, Same
<1>3. jobs' = (jobs \ {j}) \cup {k}
  BY <1>1 DEF Become
<1> HIDE DEF k
<1>4. /\ j.pc = "snapshot"
      /\ UNCHANGED <<up, queue, active, batches, lock, fill, cancel, pause, cancels, closing,
                     disk, file, fresh, ops, faults, limit>>
  BY DEF JobSnapshot, bounds
<1>5. /\ SnapsFrom(Contents \cup {active'}) /\ infl' \in Contents \cup {infl}
      /\ hist' \in History /\ hist'.settled = hist.settled /\ hist'.void = hist.void
      /\ hist'.parked = hist.parked
  <2>1. Typed
    BY DEF Inv
  <2>2. CASE UNCHANGED <<infl, snaps, hist>>
    <3>1. Contents' = Contents
      BY <2>2 DEF Contents
    <3> QED BY <2>1, <2>2, <3>1 DEF SnapsFrom, Typed, TypeOK
  <2>3. CASE \E n \in DOMAIN snaps : SnapshotWritten(n)
    BY <2>1, <2>3, OneWritten DEF SnapsFrom
  <2> QED BY <2>2, <2>3 DEF JobSnapshot
<1>6. /\ Picture(active')
      /\ \A e \in active' : \E f \in active : Same(e, f)
      /\ \A e, f \in active' : e.id = f.id => e = f
  BY <1>4 DEF Inv, Typed, TypeOK, Picture, Attended, Same
<1>7. /\ \A e \in Pictured' : \E f \in Present : Same(e, f)
      /\ \A n \in DOMAIN snaps' : IsFiniteSet(snaps'[n].content)
      /\ \A n \in DOMAIN snaps' : snaps'[n].content \in SUBSET Entries
      /\ Picture(infl')
  BY <1>5, <1>6, PicturedFrom DEF Picture
<1>8. Advances(j, k)
  BY <1>2, <1>3, <1>4, <1>5, <1>6, <1>7 DEF Advances, Requeueing, Late
<1>9. file' \in FileType /\ faults' \in Nat
  BY <1>4, Files DEF Inv, Typed, TypeOK
<1>10. Picture(disk') /\ \A e \in disk' : e.st # "active"
  BY <1>4, DiskStays
<1>11. Typed'
  BY <1>2, <1>4, <1>5, <1>6, <1>7, <1>8, <1>9, <1>10, AdvanceTyped DEF SnapsFrom
<1> QED BY <1>4, <1>8, <1>11, AdvanceKeeps

\* The run of what a task finds active is its own.
LEMMA LiveRun ==
    ASSUME Inv, NEW j \in jobs, j.pc # "clear", NEW e \in Live(j)
    PROVE  e \in active /\ e \in Entries /\ Same(e, j.entry)
<1>1. e \in active /\ e.id = j.entry.id /\ e \in Entries
  BY DEF Live, Inv, Typed, TypeOK
<1>2. e.run = j.entry.run
  BY <1>1 DEF Inv, Attended
<1>3. e \in Present
  BY <1>1 DEF Present, Pictured
<1>4. e.task = j.entry.task
  BY <1>2, <1>3, JobParts DEF Inv, Named
<1> QED BY <1>1, <1>2, <1>4 DEF Same

LEMMA SettlesKeeps ==
    ASSUME Inv, NEW j \in jobs, JobSettles(j)
    PROVE  Inv'
<1>1. /\ j.pc = "settle" /\ j \in JobType
      /\ UNCHANGED <<up, queue, active, batches, lock, fill, cancel, pause, cancels, closing,
                     snaps, disk, infl, file, fresh, ops, faults, limit, hist>>
  BY JobParts DEF JobSettles, bounds
<1>2. PICK k \in JobType : /\ jobs' = (jobs \ {j}) \cup {k} /\ Same(k.entry, j.entry)
                           /\ k.pc \in {"clear", "terminal"}
                           /\ k.pc = "terminal" => k.entry.st # "active"
  <2>1. CASE Live(j) = {} /\ Become(j, "clear", "lost")
    <3>1. "clear" \in Steps /\ "lost" \in Outcomes
      BY DEF Steps, Outcomes
    <3>2. /\ [j EXCEPT !.pc = "clear", !.res = "lost"] \in JobType
          /\ Same([j EXCEPT !.pc = "clear", !.res = "lost"].entry, j.entry)
          /\ [j EXCEPT !.pc = "clear", !.res = "lost"].pc = "clear"
      BY <3>1, BecomeIs
    <3> QED BY <2>1, <3>2 DEF Become
  <2>2. ASSUME NEW e \in Live(j),
               LET last == [e EXCEPT !.st = IF @ \in {"active", "queued"} THEN "error" ELSE @]
                   gone == last.run \in cancel /\ last.run \notin pause
               IN jobs' = (jobs \ {j}) \cup
                    {[j EXCEPT !.pc = IF last.st = "completed" /\ file[e.task].kind # "final"
                                      THEN "clear" ELSE "terminal",
                               !.res = IF last.st = "completed" /\ file[e.task].kind # "final"
                                       THEN "lost"
                                       ELSE IF last.st = "cancelled" \/ gone THEN "gone" ELSE "kept",
                               !.entry = last]}
        PROVE  \E k \in JobType : /\ jobs' = (jobs \ {j}) \cup {k} /\ Same(k.entry, j.entry)
                                  /\ k.pc \in {"clear", "terminal"}
                                  /\ k.pc = "terminal" => k.entry.st # "active"
    <3> DEFINE st == IF e.st \in {"active", "queued"} THEN "error" ELSE e.st
               last == [e EXCEPT !.st = IF @ \in {"active", "queued"} THEN "error" ELSE @]
    <3>1. e \in Entries /\ Same(e, j.entry)
      BY <1>1, LiveRun
    <3>2. last \in Entries /\ Same(last, j.entry) /\ last.st # "active"
      BY <3>1 DEF Entries, Statuses, Same
    <3>3. PICK pc \in {"clear", "terminal"}, res \in {"lost", "gone", "kept"} :
            jobs' = (jobs \ {j}) \cup {[j EXCEPT !.pc = pc, !.res = res, !.entry = last]}
      <4> DEFINE p == IF last.st = "completed" /\ file[e.task].kind # "final"
                      THEN "clear" ELSE "terminal"
                 r == IF last.st = "completed" /\ file[e.task].kind # "final" THEN "lost"
                      ELSE IF last.st = "cancelled" \/ (last.run \in cancel /\ last.run \notin pause)
                           THEN "gone" ELSE "kept"
      <4>1. jobs' = (jobs \ {j}) \cup {[j EXCEPT !.pc = p, !.res = r, !.entry = last]}
        BY <2>2
      <4>2. p \in {"clear", "terminal"} /\ r \in {"lost", "gone", "kept"}
        OBVIOUS
      <4> HIDE DEF p, r, last
      <4> QED BY <4>1, <4>2
    <3> HIDE DEF last
    <3> DEFINE k == [j EXCEPT !.pc = pc, !.res = res, !.entry = last]
    <3>4. k \in JobType /\ k.entry = last /\ k.pc = pc
      BY <1>1, <3>2 DEF JobType, Steps, Outcomes
    <3>5. jobs' = (jobs \ {j}) \cup {k}
      BY <3>3
    <3> HIDE DEF k
    <3> QED BY <3>2, <3>4, <3>5
  <2> QED BY <2>1, <2>2 DEF JobSettles
<1>3. (\A e \in active' : \E f \in active : Same(e, f))
        /\ (\A e, f \in active' : e.id = f.id => e = f)
        /\ (\A e \in Pictured' : \E f \in Present : Same(e, f)) => Advances(j, k)
  BY <1>1, <1>2 DEF Advances, Requeueing, Late
<1>4. file' \in FileType /\ hist' \in History /\ faults' \in Nat
  BY <1>1, Files DEF Inv, Typed, TypeOK
<1> QED BY <1>1, <1>2, <1>3, <1>4, Stepped

LEMMA TerminalFailsKeeps ==
    ASSUME Inv, NEW j \in jobs, JobTerminalFails(j)
    PROVE  Inv'
<1> DEFINE k == [j EXCEPT !.pc = "clear", !.res = "lost"]
<1>1. k \in JobType /\ Same(k.entry, j.entry) /\ k.pc = "clear"
  <2>1. "clear" \in Steps /\ "lost" \in Outcomes
    BY DEF Steps, Outcomes
  <2> QED BY <2>1, BecomeIs
<1>2. jobs' = (jobs \ {j}) \cup {k} /\ j.pc = "terminal"
  BY DEF JobTerminalFails, Become
<1> HIDE DEF k
<1>3. /\ UNCHANGED <<up, queue, active, batches, lock, fill, cancel, pause, cancels, closing,
                     snaps, disk, infl, file, fresh, ops, limit>>
      /\ faults' = faults + 1
      /\ hist' = [hist EXCEPT !.unsaved = @ \cup {j.entry.task}]
  BY DEF JobTerminalFails
<1>4. /\ hist' \in History /\ hist'.void = hist.void /\ hist'.settled = hist.settled
      /\ hist'.parked = hist.parked
  BY <1>3, JobParts DEF Inv, Typed, TypeOK, History
<1>5. (\A e \in active' : \E f \in active : Same(e, f))
        /\ (\A e, f \in active' : e.id = f.id => e = f)
        /\ (\A e \in Pictured' : \E f \in Present : Same(e, f)) => Advances(j, k)
  BY <1>1, <1>2, <1>3, <1>4 DEF Advances, Requeueing, Late
<1>6. file' \in FileType /\ faults' \in Nat
  BY <1>3, Files DEF Inv, Typed, TypeOK
<1> QED BY <1>1, <1>3, <1>4, <1>5, <1>6, Stepped

\* A step of a bystander keeps the types of what it writes.
LEMMA StandingTyped ==
    ASSUME Inv, Standing,
           Picture(active'), Picture(infl'), snaps' \in Seq(SnapType),
           \A n \in DOMAIN snaps' : IsFiniteSet(snaps'[n].content),
           \A n \in DOMAIN snaps' : snaps'[n].content \in SUBSET Entries,
           file' \in FileType, hist' \in History, limit' \in Limits,
           ops' \in Nat, faults' \in Nat, cancel' \in SUBSET Nat, pause' \in SUBSET Nat,
           cancels' \subseteq CancelType, fill' \in BOOLEAN, closing' \in BOOLEAN
    PROVE  Typed'
<1>1. Typed /\ TypeOK
  BY DEF Inv, Typed
<1>2. /\ up' = up /\ queue' = queue /\ lock' = lock /\ batches' \subseteq batches /\ jobs' = jobs
      /\ disk' = disk /\ fresh' = fresh
  BY DEF Standing
<1>3. TypeOK'
  BY <1>1, <1>2 DEF TypeOK, Picture, FileType, CancelType
<1> QED BY <1>1, <1>2, <1>3
    DEF Typed, Picture, Queued, JobType, MoveType, RetryType, RemoveType, CancelType, SnapType

LEMMA ProgressKeeps ==
    ASSUME Inv, NEW j \in jobs, JobProgress(j)
    PROVE  Inv'
<1> DEFINE f == [e \in active |-> IF e.task = j.entry.task THEN [e EXCEPT !.st = "active"] ELSE e]
           content == { f[e] : e \in active }
<1>1. Picture(active) /\ \A e, g \in active : e.id = g.id => e = g
  BY DEF Inv, Typed, TypeOK, Picture, Attended
<1>2. \A e \in active : f[e] \in Entries /\ Same(f[e], e)
  BY <1>1 DEF Picture, Entries, Same, Statuses
<1>3. f \in [active -> Entries]
  BY <1>2
<1>4. active' = content /\ Capture(0, content)
  BY DEF JobProgress
<1> HIDE DEF f
<1>5. /\ Picture(content)
      /\ \A x \in content : \E e \in active : Same(x, e)
      /\ \A x, y \in content : x.id = y.id => x = y
  BY <1>1, <1>2, <1>3, Relabelled
<1> HIDE DEF content
<1>6. SnapsFrom(Contents \cup {active'})
  BY <1>4, <1>5, Captured DEF Inv
<1>7. UNCHANGED <<up, queue, batches, jobs, lock, fill, cancel, pause, cancels, closing,
                  disk, infl, file, fresh, ops, faults, limit, hist>>
  BY DEF JobProgress, bounds
<1>8. /\ \A e \in Pictured' : \E g \in Present : Same(e, g)
      /\ \A n \in DOMAIN snaps' : IsFiniteSet(snaps'[n].content)
      /\ \A n \in DOMAIN snaps' : snaps'[n].content \in SUBSET Entries
      /\ Picture(infl')
  BY <1>4, <1>5, <1>6, <1>7, PicturedFrom DEF Picture
<1>9. Standing
  BY <1>4, <1>5, <1>7, <1>8, JobParts DEF Standing
<1>10. Typed'
  <2>1. Typed /\ TypeOK /\ file \in FileType
    BY Files DEF Inv, Typed
  <2> QED BY <1>4, <1>5, <1>6, <1>7, <1>8, <1>9, <2>1, StandingTyped DEF Typed, TypeOK, SnapsFrom
<1> QED BY <1>9, <1>10, StandingKeeps

LEMMA WriterKeeps ==
    ASSUME Inv, WriterWrites
    PROVE  Inv'
<1>1. up /\ UNCHANGED <<up, queue, active, batches, jobs, lock, fill, cancel, pause, cancels,
                        closing, disk, file, fresh, ops, faults, limit>>
  BY DEF WriterWrites, bounds
<1>2. Typed /\ TypeOK /\ file \in FileType
  BY Files DEF Inv, Typed
<1>3. PICK n \in DOMAIN snaps : SnapshotWritten(n)
  BY DEF WriterWrites
<1>4. /\ infl' \in Contents /\ SnapsFrom(Contents)
      /\ hist' \in History /\ hist'.settled = hist.settled /\ hist'.void = hist.void
      /\ hist'.parked = hist.parked
  BY <1>2, <1>3, OneWritten
<1>5. /\ Picture(active')
      /\ \A e \in active' : \E f \in active : Same(e, f)
      /\ \A e, f \in active' : e.id = f.id => e = f
  BY <1>1 DEF Inv, Typed, TypeOK, Picture, Attended, Same
<1>6. SnapsFrom(Contents \cup {active'})
  BY <1>4 DEF SnapsFrom
<1>7. /\ \A e \in Pictured' : \E g \in Present : Same(e, g)
      /\ \A m \in DOMAIN snaps' : IsFiniteSet(snaps'[m].content)
      /\ \A m \in DOMAIN snaps' : snaps'[m].content \in SUBSET Entries
      /\ Picture(infl')
  BY <1>4, <1>5, <1>6, PicturedFrom DEF Picture
<1>8. Standing
  BY <1>1, <1>4, <1>5, <1>7 DEF Standing
<1>9. Typed'
  BY <1>1, <1>2, <1>4, <1>5, <1>7, <1>8, StandingTyped DEF Typed, TypeOK, SnapsFrom
<1> QED BY <1>8, <1>9, StandingKeeps

-----------------------------------------------------------------------------
(* downloads.json is written *)

\* Nobody gives e back or is about to write it, after a step; and if it is not queued in
\* the file, it is nowhere else.
RestsNext(e) ==
    /\ \A l \in jobs' : l.entry.run = e.run => Requeueing(l) \/ l.pc \in Late
    /\ e.st # "queued" =>
         /\ \A l \in jobs' : l.pc # "clear" => l.entry.id # e.id
         /\ Taken' => lock'.entry.id # e.id
         /\ Moving' => lock'.entry.run # e.run
         /\ \A q \in Queued' : q.st = "queued" => q.run # e.run

\* The queue, and of the file what is not in the queue.
LEMMA Written ==
    ASSUME Inv, up', Typed', Named', OneId', Retrying',
           NEW D, disk' = D \cup Queued',
           \A e, f \in D : e.id = f.id => e = f,
           \A e \in D : \A q \in Queued' : q.id # e.id,
           \A e \in D : RestsNext(e)
    PROVE  Filed' /\ Resting'
<1>1. /\ \A i, n \in DOMAIN queue' : queue'[i].id = queue'[n].id => i = n
      /\ \A e \in Queued' : \E i \in DOMAIN queue' : e = queue'[i]
  <2>1. queue' \in Seq(Entries)
    BY DEF Typed, TypeOK
  <2> QED BY <2>1, SeqRange DEF OneId, Distinct, Queued
<1>2. \A e, f \in Queued' : e.id = f.id => e = f
  BY <1>1
<1>3. Queued' \subseteq Present'
  BY DEF Present, Placed
<1>4. \A e, f \in Queued' : e.run = f.run => e = f
  BY <1>2, <1>3 DEF Named
<1>5. ASSUME NEW l \in jobs', Requeueing(l), NEW e \in Queued', e.id = l.entry.id
      PROVE  e.st = "queued"
  <2>1. lock' \in RetryType /\ lock'.entry \in Queued' /\ lock'.entry.id = e.id
    BY <1>5 DEF Retrying, Requeueing, RetryType
  <2>2. lock'.entry.st = "queued"
    BY <2>1 DEF Typed, RetryType
  <2> QED BY <1>2, <2>1, <2>2
<1>6. ASSUME NEW e \in Queued', e.st # "queued"
      PROVE  /\ \A l \in jobs' : l.pc # "clear" => l.entry.id # e.id
             /\ Taken' => lock'.entry.id # e.id
  <2>1. ASSUME NEW l \in jobs', l.pc # "clear" PROVE l.entry.id # e.id
    <3>1. CASE Requeueing(l)
      BY <1>5, <1>6, <3>1
    <3>2. CASE ~Requeueing(l)
      BY <2>1, <3>2 DEF OneId, Requeueing
    <3> QED BY <3>1, <3>2
  <2>2. ASSUME Taken' PROVE lock'.entry.id # e.id
    <3>1. CASE Moving'
      BY <3>1 DEF OneId
    <3>2. CASE lock' \in RetryType
      <4>1. lock'.entry \in Queued' /\ lock'.entry.st = "queued"
        BY <3>2 DEF Retrying, Typed, RetryType
      <4> QED BY <1>2, <1>6, <4>1
    <3> QED BY <2>2, <3>1, <3>2 DEF Taken, Moving, MoveType, RetryType
  <2> QED BY <2>1, <2>2
<1>7. Filed'
  <2>1. \A e, f \in disk' : e.id = f.id => e = f
    BY <1>2
  <2>2. ASSUME NEW e \in disk', e.st # "queued"
        PROVE  /\ \A l \in jobs' : l.pc # "clear" => l.entry.id # e.id
               /\ Taken' => lock'.entry.id # e.id
               /\ \A q \in Queued' : q.st = "queued" => q.id # e.id
    <3>1. CASE e \in D
      BY <2>2, <3>1 DEF RestsNext
    <3>2. CASE e \in Queued'
      BY <1>2, <1>6, <2>2, <3>2
    <3> QED BY <3>1, <3>2
  <2> QED BY <2>1, <2>2 DEF Filed
<1>8. Resting'
  <2>1. ASSUME NEW e \in Queued'
        PROVE  /\ \A l \in jobs' : l.entry.run = e.run => Requeueing(l) \/ l.pc \in Late
               /\ e.st # "queued" => /\ Moving' => lock'.entry.run # e.run
                                     /\ \A q \in Queued' : q.st = "queued" => q.run # e.run
    <3>1. ASSUME NEW l \in jobs', l.entry.run = e.run PROVE Requeueing(l) \/ l.pc \in Late
      <4>1. l.entry \in Present' /\ e \in Present'
        BY <1>3 DEF Present, Placed
      <4>2. l.entry.id = e.id
        BY <3>1, <4>1 DEF Named
      <4> QED BY <4>2 DEF OneId, Requeueing, Late
    <3>2. ASSUME Moving' PROVE lock'.entry.run # e.run
      <4>1. lock'.entry \in Present'
        BY <3>2 DEF Present, Placed, Held, Taken, Moving, MoveType, RetryType
      <4>2. lock'.entry.id # e.id
        BY <3>2 DEF OneId
      <4> QED BY <1>3, <4>1, <4>2 DEF Named
    <3>3. e.st # "queued" => \A q \in Queued' : q.st = "queued" => q.run # e.run
      BY <1>4
    <3> QED BY <3>1, <3>2, <3>3
  <2>2. ASSUME NEW e \in disk'
        PROVE  /\ \A l \in jobs' : l.entry.run = e.run => Requeueing(l) \/ l.pc \in Late
               /\ e.st # "queued" => /\ Moving' => lock'.entry.run # e.run
                                     /\ \A q \in Queued' : q.st = "queued" => q.run # e.run
    <3>1. CASE e \in D
      BY <3>1 DEF RestsNext
    <3> QED BY <2>1, <3>1
  <2> QED BY <2>2 DEF Resting, Requeueing, Late
<1> QED BY <1>7, <1>8

\* persist_manager_queue does so.
LEMMA Persisted ==
    ASSUME Inv, up, up', Typed', Named', OneId', Retrying',
           NEW S, S \subseteq disk, disk' = PersistQueue(S, queue'),
           \A e \in S : e \in disk' => RestsNext(e) \/ e \in Queued'
    PROVE  Filed' /\ Resting'
<1> DEFINE D == { e \in S : e.st # "queued" /\ e.id \notin Ids(Queued') /\ e.task \notin TasksOf(Queued') }
<1>1. disk' = D \cup Queued'
  BY DEF PersistQueue, Queued
<1>2. \A e \in D : /\ e \in S /\ e \in disk' /\ e \notin Queued'
                   /\ \A q \in Queued' : q.id # e.id
  BY <1>1 DEF Ids
<1>3. \A e, f \in D : e.id = f.id => e = f
  BY <1>2 DEF Inv, Filed
<1>4. \A e \in D : RestsNext(e)
  BY <1>2
<1> HIDE DEF D
<1> QED BY <1>1, <1>2, <1>3, <1>4, Written

LEMMA TerminalKeeps ==
    ASSUME Inv, NEW j \in jobs, JobTerminal(j)
    PROVE  Inv'
<1> DEFINE k == [j EXCEPT !.pc = "clear", !.res = "durable"]
           last == IF j.res = "kept" THEN {j.entry} ELSE {}
           D == { e \in disk : e.id # j.entry.id /\ e.id \notin Ids(Queued) } \cup last
<1>1. k \in JobType /\ k.entry = j.entry /\ Same(k.entry, j.entry) /\ k.pc = "clear"
  <2>1. "clear" \in Steps /\ "durable" \in Outcomes
    BY DEF Steps, Outcomes
  <2> QED BY <2>1, JobParts DEF JobType, Same
<1>2. jobs' = (jobs \ {j}) \cup {k} /\ j.pc = "terminal"
  BY DEF JobTerminal, Become
<1>3. UNCHANGED <<up, queue, active, batches, lock, fill, cancel, pause, cancels, closing,
                  snaps, infl, file, fresh, ops, faults, limit>>
  BY DEF JobTerminal, bounds
<1>4. disk' = D \cup Queued
  BY DEF JobTerminal
<1> HIDE DEF k
<1>5. /\ hist' \in History /\ hist'.void = hist.void /\ hist'.settled = hist.settled
      /\ hist'.parked = hist.parked
  BY JobParts DEF JobTerminal, Inv, Typed, TypeOK, History
<1>6. /\ up /\ up' /\ Typed /\ TypeOK /\ j.entry \in Entries /\ j.entry.st # "active"
      /\ j.entry \in Present /\ j.entry.id \in 1 .. fresh
  BY <1>2, <1>3, JobParts DEF Inv, Typed
<1>7. last \subseteq {j.entry}
  OBVIOUS
<1> HIDE DEF last
<1>8. /\ Queued' = Queued /\ Held' = Held /\ (Moving' <=> Moving) /\ (Taken' <=> Taken)
      /\ k.entry.id = j.entry.id /\ k.entry.run = j.entry.run
  BY <1>1, <1>3 DEF Queued, Held, Moving, Taken, MoveType, RetryType
<1>9. Recorded
  <2>1. ASSUME NEW x \in disk' PROVE x \in Present \cup disk
    BY <1>4, <1>6, <1>7 DEF Present, Placed
  <2>2. \A x \in Present \cup disk : x.id \in 1 .. fresh
    BY <1>6 DEF Inv, Numbered
  <2> QED BY <2>1, <2>2 DEF Recorded
<1>10. /\ Picture(active) /\ Picture(infl)
       /\ \A e \in active' : \E f \in active : Same(e, f)
       /\ \A e, f \in active' : e.id = f.id => e = f
       /\ \A e \in Pictured' : \E f \in Present : Same(e, f)
  BY <1>3, <1>6 DEF Inv, Typed, TypeOK, Attended, Picture, Pictured, Present, Same
<1>11. Advances(j, k)
  BY <1>1, <1>2, <1>3, <1>5, <1>10 DEF Advances, Requeueing, Late
<1>12. Picture(disk') /\ \A e \in disk' : e.st # "active"
  <2>1. Queued \subseteq Entries /\ IsFiniteSet(Queued)
    BY <1>6, SeqRange DEF TypeOK, Queued
  <2>2. IsFiniteSet(D)
    <3>1. IsFiniteSet(disk \cup {j.entry})
      BY <1>6, FS_AddElement DEF Typed
    <3>2. D \subseteq disk \cup {j.entry}
      BY <1>7
    <3> QED BY <3>1, <3>2, FS_Subset
  <2>3. IsFiniteSet(disk')
    BY <1>4, <2>1, <2>2, FS_Union
  <2>4. \A e \in Queued : e.st # "active"
    BY <1>6 DEF Typed, Pausable
  <2> QED BY <1>4, <1>6, <1>7, <2>1, <2>3, <2>4 DEF Picture, Typed, TypeOK
<1>13. Typed'
  <2>1. file' \in FileType /\ faults' \in Nat
    BY <1>3, Files, <1>6 DEF TypeOK
  <2>2. /\ snaps' \in Seq(SnapType)
        /\ \A n \in DOMAIN snaps' : IsFiniteSet(snaps'[n].content)
        /\ \A n \in DOMAIN snaps' : snaps'[n].content \in SUBSET Entries
    BY <1>3, <1>6 DEF Typed, TypeOK
  <2>3. Picture(active') /\ Picture(infl')
    BY <1>3, <1>10
  <2>4. k.pc = "terminal" => k.entry.st # "active"
    BY <1>1
  <2> QED BY <1>3, <1>5, <1>11, <1>12, <2>1, <2>2, <2>3, <2>4, AdvanceTyped
<1>14. /\ Down' /\ Numbered' /\ Named' /\ Apart' /\ OneId' /\ Finished' /\ Retrying'
       /\ Attended' /\ Busy' /\ Silenced'
  BY <1>9, <1>11, AdvanceCore
<1>15. \A l \in jobs' : l = k \/ (l \in jobs /\ l # j)
  BY <1>2
<1>16. \A q \in Queued : q.id # j.entry.id /\ q.run # j.entry.run
  <2>1. j.pc # "clear" /\ ~Requeueing(j)
    BY <1>2 DEF Requeueing
  <2> QED BY <2>1, OneRun DEF Inv, OneId
<1>17. /\ \A e, f \in D : e.id = f.id => e = f
       /\ \A e \in D : \A q \in Queued' : q.id # e.id
  BY <1>6, <1>7, <1>8, <1>16 DEF Inv, Filed, Ids
<1>18. ASSUME NEW e \in D PROVE RestsNext(e)
  <2>1. CASE e \in disk
    <3>1. \A l \in jobs : l.entry.run = e.run => Requeueing(l) \/ l.pc \in Late
      BY <1>6, <2>1 DEF Inv, Resting
    <3>2. k.pc \in Late
      BY <1>1 DEF Late
    <3>3. e.st # "queued" => /\ \A l \in jobs : l.pc # "clear" => l.entry.id # e.id
                             /\ Taken => lock.entry.id # e.id
                             /\ Moving => lock.entry.run # e.run
                             /\ \A q \in Queued : q.st = "queued" => q.run # e.run
      BY <1>6, <2>1 DEF Inv, Resting, Filed
    <3> QED BY <1>1, <1>3, <1>8, <1>15, <3>1, <3>2, <3>3 DEF RestsNext
  <2>2. CASE e = j.entry
    <3>1. j.pc # "clear" /\ ~Requeueing(j)
      BY <1>2 DEF Requeueing
    <3>2. \A l \in jobs : l.entry.run = j.entry.run => l = j
      BY OneRun
    <3>3. \A l \in jobs : l.pc # "clear" /\ l.entry.id = j.entry.id => l = j
      BY <3>1 DEF Inv, OneId
    <3>4. Moving => lock.entry.id # j.entry.id /\ lock.entry.run # j.entry.run
      <4>1. Moving => lock.entry \in Held
        BY DEF Held, Taken, Moving
      <4> QED BY <3>1, <4>1, OneRun DEF Inv, OneId
    <3>5. lock \in RetryType => lock.entry.id # j.entry.id
      BY <1>16 DEF Inv, Retrying
    <3>6. Taken => lock.entry.id # j.entry.id
      BY <3>4, <3>5 DEF Taken, Moving
    <3> QED BY <1>1, <1>3, <1>8, <1>15, <1>16, <2>2, <3>2, <3>3, <3>4, <3>6 DEF RestsNext, Late
  <2> QED BY <1>7, <2>1, <2>2
<1> HIDE DEF D
<1>19. Filed' /\ Resting'
  BY <1>4, <1>6, <1>8, <1>13, <1>14, <1>17, <1>18, Written
<1> QED BY <1>13, <1>14, <1>19 DEF Inv

-----------------------------------------------------------------------------
(* A task ends, or gives its entry back *)

\* A task ends.  Its entry is no longer active; what it was known by is out of the
\* pictures too, if its last state has become durable.
Leaves(j) ==
    /\ jobs' = jobs \ {j}
    /\ batches' = batches \ {j.entry.id}
    /\ active' = WithoutId(active, j.entry.id)
    /\ UNCHANGED <<up, queue, cancel, cancels, disk, file, fresh>>
    /\ fill'
    /\ IF Requeueing(j) THEN lock' = Free ELSE UNCHANGED lock
    /\ Pictured' \subseteq Pictured
    /\ hist'.void = hist.void
    /\ \/ hist'.settled = hist.settled
       \/ /\ j.pc = "clear"
          /\ hist'.settled = hist.settled \cup {j.entry.run}
          /\ \A x \in Pictured' : x.id # j.entry.id

LEMMA LeaveKeeps ==
    ASSUME Inv, NEW j \in jobs, Leaves(j), Typed'
    PROVE  Inv'
<1> USE DEF Leaves
<1>1. /\ up /\ up' /\ j.entry \in Present /\ j.entry.run \in 1 .. fresh
      /\ Queued' = Queued /\ queue' = queue /\ Held' \subseteq Held
      /\ lock' = lock \/ (lock' = Free /\ lock \in RetryType)
  <2>1. Requeueing(j) => lock \in RetryType
    BY DEF Inv, Retrying
  <2>2. Held' \subseteq Held
    BY <2>1, LockKinds DEF Inv, Typed, Held, Taken, Free, Moving, MoveType, RetryType
  <2> QED BY <2>1, <2>2, JobParts DEF Queued
<1>2. /\ Moving' <=> Moving
      /\ Taken' => Taken /\ lock' = lock
      /\ lock' \in RetryType => lock \in RetryType /\ lock' = lock
      /\ lock' \in RemoveType <=> lock \in RemoveType
      /\ lock' \in RemoveType => lock' = lock
  <2>1. Typed
    BY DEF Inv
  <2>2. CASE lock' = lock
    BY <2>2 DEF Moving, Taken, MoveType, RetryType
  <2>3. CASE lock' = Free /\ lock \in RetryType
    <3>1. Free \notin MoveType /\ Free \notin RetryType /\ Free \notin RemoveType
      BY DEF Free, MoveType, RetryType, RemoveType
    <3>2. lock \notin MoveType /\ lock \notin RemoveType
      BY <2>1, <2>3, LockKinds DEF Typed, Moving
    <3> QED BY <2>3, <3>1, <3>2 DEF Moving, Taken, MoveType, RetryType
  <2> QED BY <1>1, <2>2, <2>3
<1>3. Present' \subseteq Present
  BY <1>1 DEF Present, Placed
<1>4. Down' /\ Numbered' /\ Named'
  <2>1. Naming({})
    <3>1. fresh \in Nat /\ fresh' = fresh /\ disk' = disk /\ cancels' = cancels /\ file' = file
      BY DEF Inv, Typed, TypeOK
    <3>2. \A x \in disk : x.id \in 1 .. fresh
      BY <1>1 DEF Inv, Numbered
    <3>3. lock' \in RemoveType => lock'.entry.run \in 1 .. fresh
      BY <1>2 DEF Inv, Numbered
    <3>4. hist'.void \cup hist'.settled \subseteq hist.void \cup hist.settled \cup 1 .. fresh
      BY <1>1
    <3> QED BY <1>1, <1>3, <3>1, <3>2, <3>3, <3>4 DEF Naming, Same
  <2> QED BY <1>1, <2>1, Names DEF Down
<1>5. Apart'
  <2>1. \A x \in Present' : x.run \notin hist.settled
    BY <1>3 DEF Inv, Apart
  <2>2. CASE hist'.settled = hist.settled
    BY <2>1, <2>2 DEF Apart
  <2>3. CASE j.pc = "clear" /\ \A x \in Pictured' : x.id # j.entry.id
    <3>1. ASSUME NEW x \in Pictured' PROVE x.run # j.entry.run
      <4>1. x \in Present
        BY <1>3 DEF Present
      <4> QED BY <1>1, <2>3, <4>1 DEF Inv, Named
    <3>2. ASSUME NEW x \in Placed' PROVE x.run # j.entry.run
      <4>1. \A e \in Queued \cup Held : e.run # j.entry.run
        BY <2>3 DEF Inv, Finished
      <4>2. \A l \in jobs \ {j} : l.entry.run # j.entry.run
        BY <2>3 DEF Inv, Finished
      <4> QED BY <1>1, <4>1, <4>2 DEF Placed
    <3> QED BY <2>1, <2>3, <3>1, <3>2 DEF Apart, Present
  <2> QED BY <2>2, <2>3
<1>6. OneId' /\ Filed' /\ Finished' /\ Resting'
  <2>1. OneId'
    BY <1>1, <1>2, LockKinds DEF Inv, Typed, OneId, Distinct, Requeueing, Moving, Taken
  <2>2. Filed'
    BY <1>1, <1>2 DEF Inv, Filed
  <2>3. Finished'
    BY <1>1 DEF Inv, Finished
  <2>4. Resting'
    BY <1>1, <1>2, LockKinds DEF Inv, Typed, Resting, Requeueing, Late, Moving, Taken
  <2> QED BY <2>1, <2>2, <2>3, <2>4
<1>7. Retrying'
  <2>1. ASSUME NEW l \in jobs', Requeueing(l)
        PROVE  /\ lock' \in RetryType
               /\ lock'.entry.id = l.entry.id /\ lock'.entry.run = l.entry.run
               /\ l.entry.id \notin batches'
               /\ { e \in active' : e.id = l.entry.id } = {}
    <3>1. ~Requeueing(j) /\ lock' = lock
      BY <2>1, OneRequeueing
    <3> QED BY <2>1, <3>1 DEF Inv, Retrying, Live, WithoutId
  <2>2. ASSUME lock' \in RetryType
        PROVE  lock'.entry \in Queued /\ \E l \in jobs' : Requeueing(l)
    <3>1. lock' = lock /\ lock \in RetryType
      BY <1>2, <2>2
    <3>2. ~Requeueing(j)
      <4>1. Free \notin RetryType
        BY DEF Free, RetryType
      <4> QED BY <2>2, <4>1
    <3> QED BY <3>1, <3>2 DEF Inv, Retrying
  <2> QED BY <1>1, <2>1, <2>2 DEF Retrying, Requeueing, Live, RetryType
<1>8. Attended'
  <2>1. ASSUME NEW e \in active'
        PROVE  \/ \E l \in jobs' : l.entry.run = e.run
               \/ Moving' /\ lock'.step = "persist" /\ lock'.entry.run = e.run
    <3>1. e \in active /\ e.id # j.entry.id /\ e \in Present
      BY <2>1 DEF WithoutId, Present, Pictured
    <3>2. e.run # j.entry.run
      BY <1>1, <3>1 DEF Inv, Named
    <3>3. \/ \E l \in jobs : l.entry.run = e.run
          \/ Moving /\ lock.step = "persist" /\ lock.entry.run = e.run
      BY <3>1 DEF Inv, Attended
    <3>4. Moving => Moving' /\ lock' = lock
      BY <1>1, <1>2, LockKinds DEF Inv, Typed
    <3> QED BY <3>2, <3>3, <3>4
  <2>2. ASSUME NEW e \in active'
        PROVE  /\ \A l \in jobs' : l.pc # "clear" /\ l.entry.id = e.id => l.entry.run = e.run
               /\ Moving' /\ lock'.step = "persist" /\ lock'.entry.id = e.id => lock'.entry.run = e.run
    <3>1. e \in active
      BY <2>2 DEF WithoutId
    <3>2. Moving' => Moving /\ lock' = lock
      BY <1>1, <1>2, LockKinds DEF Inv, Typed
    <3> QED BY <3>1, <3>2 DEF Inv, Attended
  <2>3. batches' \subseteq { l.entry.id : l \in jobs' }
    BY DEF Inv, Attended
  <2>4. \A e, f \in active' : e.id = f.id => e = f
    BY DEF Inv, Attended, WithoutId
  <2> QED BY <2>1, <2>2, <2>3, <2>4 DEF Attended
<1>9. Busy'
  BY DEF Busy
<1>10. Silenced'
  <2>1. \A r : Starts(r)' => Starts(r)
    BY <1>1 DEF Starts, Late
  <2>2. \A r : Quelled(r) => Quelled(r)'
    BY <2>1 DEF Quelled
  <2>3. Voided' = Voided
    BY <1>2 DEF Voided, RemoveType, CancelType
  <2> QED BY <2>2, <2>3 DEF Inv, Silenced
<1> QED BY <1>4, <1>5, <1>6, <1>7, <1>8, <1>9, <1>10 DEF Inv

LEMMA LeaveTyped ==
    ASSUME Inv, NEW j \in jobs, Leaves(j), fill' = TRUE,
           Picture(infl'), snaps' \in Seq(SnapType),
           \A n \in DOMAIN snaps' : IsFiniteSet(snaps'[n].content),
           \A n \in DOMAIN snaps' : snaps'[n].content \in SUBSET Entries,
           hist' \in History, UNCHANGED <<pause, closing, ops, faults, limit>>
    PROVE  Typed'
<1>1. Typed /\ TypeOK
  BY DEF Inv, Typed
<1>2. /\ up' = up /\ queue' = queue /\ batches' \subseteq batches /\ jobs' \subseteq jobs
      /\ active' \subseteq active /\ disk' = disk /\ fresh' = fresh /\ cancel' = cancel
      /\ cancels' = cancels /\ file' = file
      /\ lock' = lock \/ lock' = Free
  BY DEF Leaves, WithoutId
<1>3. TypeOK'
  <2>1. lock'.op \in {"free", "fill", "retry", "remove"}
    BY <1>1, <1>2 DEF TypeOK, Free
  <2> QED BY <1>1, <1>2, <2>1 DEF TypeOK, Picture
<1>4. /\ lock' \in {Free, FillNext} \cup MoveType \cup RetryType \cup RemoveType
      /\ lock' \in RetryType => lock'.entry.st = "queued"
  <2>1. Free \notin RetryType
    BY DEF Free, RetryType
  <2> QED BY <1>1, <1>2, <2>1 DEF Typed
<1>5. IsFiniteSet(active')
  BY <1>1, <1>2, FS_Subset DEF Typed
<1> QED BY <1>1, <1>2, <1>3, <1>4, <1>5
    DEF Typed, Picture, Queued, JobType, MoveType, RetryType, RemoveType, CancelType, SnapType, FillNext, Free

\* Removal from infl, with a generation of its own.
LEMMA Removed ==
    ASSUME Inv, NEW S, S \subseteq infl, InflightWritten(S), active' \subseteq active
    PROVE  /\ infl' = S /\ Picture(infl') /\ snaps' = <<>> /\ snaps' \in Seq(SnapType)
           /\ DOMAIN snaps' = {}
           /\ Pictured' \subseteq Pictured /\ Pictured' \subseteq active' \cup S
<1>1. infl' = S /\ snaps' = <<>> /\ snaps' \in Seq(SnapType)
  BY AllDropped DEF Inv, SnapsFrom
<1>2. DOMAIN snaps' = {}
  BY <1>1
<1>3. Picture(infl')
  BY <1>1, FS_Subset DEF Inv, Typed, TypeOK, Picture
<1> QED BY <1>1, <1>2, <1>3 DEF Pictured

LEMMA ClearsKeeps ==
    ASSUME Inv, NEW j \in jobs, JobClears(j)
    PROVE  Inv'
<1>1. /\ j.pc = "clear" /\ jobs' = jobs \ {j} /\ fill' = TRUE
      /\ batches' = batches \ {j.entry.id} /\ active' = WithoutId(active, j.entry.id)
      /\ UNCHANGED <<up, queue, lock, cancel, pause, cancels, closing, disk, file, fresh,
                     ops, faults, limit>>
  BY DEF JobClears, bounds
<1>2. ~Requeueing(j) /\ active' \subseteq active
  BY <1>1 DEF Requeueing, WithoutId
<1>3. Typed /\ TypeOK
  BY DEF Inv, Typed
<1>4. CASE UNCHANGED <<infl, snaps, hist>>
  <2>1. Pictured' \subseteq Pictured
    BY <1>2, <1>4 DEF Pictured
  <2>2. Leaves(j)
    BY <1>1, <1>2, <1>4, <2>1 DEF Leaves
  <2>3. Typed'
    BY <1>1, <1>3, <1>4, <2>2, LeaveTyped DEF Typed, TypeOK, Picture
  <2> QED BY <2>2, <2>3, LeaveKeeps
<1>5. CASE /\ InflightWritten(WithoutId(infl, j.entry.id))
           /\ hist' = [hist EXCEPT !.settled = @ \cup {j.entry.run},
                                   !.unsaved = @ \cup Again(j)]
  <2>1. WithoutId(infl, j.entry.id) \subseteq infl
    BY DEF WithoutId
  <2>2. /\ infl' = WithoutId(infl, j.entry.id) /\ Picture(infl') /\ snaps' \in Seq(SnapType)
        /\ DOMAIN snaps' = {}
        /\ Pictured' \subseteq Pictured
        /\ Pictured' \subseteq active' \cup WithoutId(infl, j.entry.id)
    BY <1>2, <1>5, <2>1, Removed
  <2>3. Again(j) \subseteq Tasks
    <3>1. lock.op = "fill" /\ lock.step # "next" => lock.entry.task \in Tasks
      BY <1>3, LockKinds DEF Typed, Entries
    <3>2. \A l \in jobs : l.entry.task \in Tasks
      BY JobParts
    <3> QED BY <3>1, <3>2 DEF Again
  <2>4. /\ hist' \in History /\ hist'.void = hist.void
        /\ hist'.settled = hist.settled \cup {j.entry.run}
    <3>1. hist \in History /\ j.entry.run \in Nat
      BY <1>3, JobParts DEF TypeOK
    <3> QED BY <1>5, <2>3, <3>1 DEF History
  <2>5. \A x \in Pictured' : x.id # j.entry.id
    BY <1>1, <2>2 DEF WithoutId
  <2>6. Leaves(j)
    BY <1>1, <1>2, <2>2, <2>4, <2>5 DEF Leaves
  <2>7. Typed'
    BY <1>1, <2>2, <2>4, <2>6, LeaveTyped
  <2> QED BY <2>6, <2>7, LeaveKeeps
<1> QED BY <1>4, <1>5 DEF JobClears

LEMMA RequeuedKeeps ==
    ASSUME Inv, NEW j \in jobs, JobRequeued(j)
    PROVE  Inv'
<1>1. /\ j.pc = "confirm" /\ jobs' = jobs \ {j} /\ fill' = TRUE /\ lock' = Free
      /\ InflightWritten(WithoutId(infl, j.entry.id))
      /\ UNCHANGED <<up, queue, active, batches, cancel, pause, cancels, closing, disk, file,
                     fresh, ops, faults, limit, hist>>
  BY DEF JobRequeued, bounds
<1>2. Requeueing(j) /\ j.entry.id \notin batches /\ Live(j) = {}
  BY <1>1 DEF Inv, Retrying, Requeueing
<1>3. batches' = batches \ {j.entry.id} /\ active' = WithoutId(active, j.entry.id)
  BY <1>1, <1>2 DEF Live, WithoutId
<1>4. WithoutId(infl, j.entry.id) \subseteq infl /\ active' \subseteq active
  BY <1>1 DEF WithoutId
<1>5. /\ Picture(infl') /\ snaps' \in Seq(SnapType) /\ DOMAIN snaps' = {}
      /\ Pictured' \subseteq Pictured
  BY <1>1, <1>4, Removed
<1>6. Leaves(j)
  BY <1>1, <1>2, <1>3, <1>5 DEF Leaves
<1>7. hist' \in History
  BY <1>1 DEF Inv, Typed, TypeOK
<1>8. Typed'
  BY <1>1, <1>5, <1>6, <1>7, LeaveTyped
<1> QED BY <1>6, <1>8, LeaveKeeps

LEMMA WakesGone ==
    ASSUME Inv, NEW j \in jobs, j.pc = "sleep", Live(j) = {},
           jobs' = jobs \ {j}, batches' = batches \ {j.entry.id}, fill' = TRUE,
           UNCHANGED <<up, queue, active, lock, cancel, pause, cancels, closing, snaps, disk,
                       infl, file, fresh, ops, faults, limit, hist>>
    PROVE  Inv'
<1>1. ~Requeueing(j) /\ active' = WithoutId(active, j.entry.id) /\ Pictured' \subseteq Pictured
  BY DEF Requeueing, Live, WithoutId, Pictured
<1>2. Leaves(j)
  BY <1>1 DEF Leaves
<1>3. Typed'
  BY <1>2, LeaveTyped DEF Inv, Typed, TypeOK, Picture
<1> QED BY <1>2, <1>3, LeaveKeeps

LEMMA WakesSettled ==
    ASSUME Inv, NEW j \in jobs, j.pc = "sleep", Become(j, "settle", j.res),
           UNCHANGED <<up, queue, active, batches, lock, fill, cancel, pause, cancels, closing,
                       snaps, disk, infl, file, fresh, ops, faults, limit, hist>>
    PROVE  Inv'
<1> DEFINE k == [j EXCEPT !.pc = "settle", !.res = j.res]
<1>1. k \in JobType /\ Same(k.entry, j.entry) /\ k.pc = "settle"
  <2>1. "settle" \in Steps
    BY DEF Steps
  <2> QED BY <2>1, JobParts DEF JobType, Same
<1>2. jobs' = (jobs \ {j}) \cup {k}
  BY DEF Become
<1> HIDE DEF k
<1>3. (\A e \in active' : \E f \in active : Same(e, f))
        /\ (\A e, f \in active' : e.id = f.id => e = f)
        /\ (\A e \in Pictured' : \E f \in Present : Same(e, f)) => Advances(j, k)
  BY <1>1, <1>2 DEF Advances, Requeueing, Late
<1>4. file' \in FileType /\ hist' \in History /\ faults' \in Nat
  BY Files DEF Inv, Typed, TypeOK
<1> QED BY <1>1, <1>3, <1>4, Stepped

\* A task gives its entry back to the queue.
LEMMA WakesRequeues ==
    ASSUME Inv, NEW j \in jobs, j.pc = "sleep", lock = Free, NEW e \in Live(j), NEW again,
           again = [e EXCEPT !.retries = @ + 1, !.st = "queued"],
           Become(j, "requeue", j.res),
           batches' = batches \ {e.id}, active' = active \ {e},
           queue' = <<again>> \o queue,
           lock' = [op |-> "retry", step |-> "persist", entry |-> again],
           hist' = [hist EXCEPT !.spent = @ \cup Spent({again})],
           UNCHANGED <<up, fill, cancel, pause, cancels, closing, snaps, disk, infl, file,
                       fresh, ops, faults, limit>>
    PROVE  Inv'
<1> DEFINE k == [j EXCEPT !.pc = "requeue", !.res = j.res]
           one == <<again>>
<1>1. /\ k \in JobType /\ k.entry.id = j.entry.id /\ k.entry.run = j.entry.run
      /\ Same(k.entry, j.entry) /\ k.pc = "requeue"
  <2>1. "requeue" \in Steps
    BY DEF Steps
  <2> QED BY <2>1, JobParts DEF JobType, Same
<1>2. jobs' = (jobs \ {j}) \cup {k}
  BY DEF Become
<1>3. \A l \in jobs' : l = k \/ (l \in jobs /\ l # j)
  BY <1>2
<1>4. k \in jobs' /\ \A l \in jobs : l = j \/ l \in jobs'
  BY <1>2
<1> HIDE DEF k
<1>5. /\ e \in active /\ e \in Entries /\ Same(e, j.entry)
      /\ again \in Entries /\ again.st = "queued" /\ Same(again, j.entry)
  <2>1. e \in active /\ e \in Entries /\ Same(e, j.entry)
    BY LiveRun
  <2>2. again \in Entries /\ again.st = "queued" /\ again.id = e.id /\ again.run = e.run
        /\ again.task = e.task
    <3>1. PICK n \in Nat : n = e.retries + 1
      BY <2>1 DEF Entries
    <3>2. PICK st \in Statuses : st = "queued"
      BY DEF Statuses
    <3>3. again = [e EXCEPT !.retries = n, !.st = st]
      BY <3>1, <3>2
    <3> QED BY <2>1, <3>2, <3>3 DEF Entries
  <2> QED BY <2>1, <2>2 DEF Same
<1>6. /\ Typed /\ TypeOK /\ up /\ up' /\ j.entry \in Present
      /\ ~Requeueing(j) /\ j.pc \notin Late /\ j.pc # "clear"
  BY JobParts DEF Inv, Typed, Requeueing, Late
<1>7. /\ lock' \in RetryType /\ lock'.entry = again
      /\ ~(lock' \in MoveType) /\ ~(lock' \in RemoveType)
      /\ lock \notin MoveType /\ lock \notin RetryType /\ lock \notin RemoveType
  <2>1. lock' \in RetryType /\ lock'.entry = again /\ lock'.op = "retry"
    BY <1>5 DEF RetryType
  <2>2. lock' \notin MoveType /\ lock' \notin RemoveType
    BY <2>1 DEF MoveType, RemoveType
  <2> QED BY <2>1, <2>2 DEF Free, MoveType, RetryType, RemoveType
<1>8. /\ queue' \in Seq(Entries) /\ Queued' = {again} \cup Queued
      /\ one \in Seq(Entries) /\ ToSet(one) = {again} /\ Distinct(one)
  <2>1. one \in Seq(Entries) /\ ToSet(one) = {again} /\ Distinct(one)
    BY <1>5, Single
  <2>2. queue \in Seq(Entries)
    BY <1>6 DEF TypeOK
  <2>3. queue' = one \o queue
    OBVIOUS
  <2> HIDE DEF one
  <2> QED BY <2>1, <2>2, <2>3, Joined DEF Queued
<1> HIDE DEF one
<1>9. Held' = {again} /\ Held = {}
  BY <1>7 DEF Held, Taken, Moving, RetryType, MoveType
<1>10. Pictured' \subseteq Pictured
  BY DEF Pictured
<1>11. ASSUME NEW x \in Present' PROVE \E y \in Present : Same(x, y)
  <2>1. CASE x \in Present
    BY <2>1 DEF Same
  <2>2. CASE x = again \/ x = k.entry
    BY <2>2, <1>1, <1>5, <1>6
  <2>3. x \in Present \/ x = again \/ x = k.entry
    <3>1. x \in Queued' \cup Held' => x = again \/ x \in Present
      BY <1>8, <1>9 DEF Present, Placed
    <3>2. x \in { l.entry : l \in jobs' } => x = k.entry \/ x \in Present
      BY <1>3 DEF Present, Placed
    <3>3. x \in Pictured' => x \in Present
      BY <1>10 DEF Present
    <3> QED BY <3>1, <3>2, <3>3 DEF Present, Placed
  <2> QED BY <2>1, <2>2, <2>3
<1>12. hist' \in History /\ hist'.void = hist.void /\ hist'.settled = hist.settled
       /\ hist'.parked = hist.parked
  <2>1. Spent({again}) \subseteq Tasks
    BY <1>5 DEF Spent, TasksOf, Entries
  <2> QED BY <1>6, <2>1 DEF TypeOK, History
<1>13. Down' /\ Numbered' /\ Named' /\ Apart'
  <2>1. Naming({})
    <3>1. fresh \in Nat /\ \A x \in disk : x.id \in 1 .. fresh
      BY <1>6 DEF TypeOK, Inv, Numbered
    <3> QED BY <1>6, <1>7, <1>11, <1>12, <3>1 DEF Naming
  <2> QED BY <1>6, <1>12, <2>1, Names DEF Down
<1>14. Typed'
  <2>1. \A l \in jobs' : l \in JobType /\ (l.pc = "terminal" => l.entry.st # "active")
    BY <1>1, <1>3, <1>6 DEF Typed
  <2>2. IsFiniteSet(active') /\ active' \subseteq Entries
    BY <1>6, FS_Subset DEF Typed, TypeOK
  <2>3. \A x \in Queued' : x.st \in Pausable
    BY <1>5, <1>6, <1>8 DEF Typed, Pausable
  <2>4. TypeOK'
    <3>1. lock'.op \in {"free", "fill", "retry", "remove"}
      OBVIOUS
    <3> QED BY <1>6, <1>8, <1>12, <2>1, <2>2, <3>1 DEF TypeOK, JobType
  <2>5. lock' \in {Free, FillNext} \cup MoveType \cup RetryType \cup RemoveType
        /\ (lock' \in RetryType => lock'.entry.st = "queued")
    BY <1>5, <1>7
  <2> QED BY <1>6, <2>1, <2>2, <2>3, <2>4, <2>5
      DEF Typed, JobType, MoveType, RetryType, RemoveType, CancelType, SnapType, FillNext, Free
<1>15. \A q \in Queued : q.id # again.id /\ q.run # again.run
  BY <1>5, <1>6, OneRun DEF Inv, OneId, Same
<1>16. OneId'
  <2>1. Distinct(queue')
    <3>1. queue \in Seq(Entries) /\ Distinct(queue)
      BY <1>6 DEF TypeOK, Inv, OneId
    <3>2. queue' = one \o queue
      BY DEF one
    <3>3. \A x \in ToSet(one), y \in ToSet(queue) : x.id # y.id
      BY <1>8, <1>15 DEF Queued
    <3>4. Distinct(one \o queue)
      BY <1>8, <3>1, <3>3, JoinedDistinct
    <3> QED BY <3>2, <3>4
  <2>2. \A l, m \in jobs' : l.pc # "clear" /\ m.pc # "clear" /\ l.entry.id = m.entry.id => l = m
    BY <1>1, <1>3, <1>6 DEF Inv, OneId
  <2>3. \A l \in jobs' : l.pc # "clear" /\ ~Requeueing(l) => \A x \in Queued' : x.id # l.entry.id
    <3>1. Requeueing(k)
      BY <1>1 DEF Requeueing
    <3>2. \A l \in jobs : l.pc # "clear" /\ l.entry.id = j.entry.id => l = j
      BY <1>6 DEF Inv, OneId
    <3>3. ASSUME NEW l \in jobs, l # j, l.pc # "clear", ~Requeueing(l)
          PROVE  \A x \in Queued' : x.id # l.entry.id
      <4>1. again.id # l.entry.id
        BY <1>5, <3>2, <3>3 DEF Same
      <4>2. \A x \in Queued : x.id # l.entry.id
        BY <3>3 DEF Inv, OneId
      <4> QED BY <1>8, <4>1, <4>2
    <3> QED BY <1>3, <3>1, <3>3
  <2> QED BY <1>7, <2>1, <2>2, <2>3 DEF OneId, Distinct, Requeueing, Moving, MoveType
<1>17. Filed'
  <2>1. \A x \in disk : x.st # "queued" => x.id # again.id
    BY <1>5, <1>6 DEF Inv, Filed, Same
  <2>2. \A x \in disk : x.st # "queued" => \A l \in jobs' : l.pc # "clear" => l.entry.id # x.id
    BY <1>1, <1>3, <1>6 DEF Inv, Filed
  <2>3. \A x \in disk : x.st # "queued" => \A q \in Queued' : q.st = "queued" => q.id # x.id
    BY <1>6, <1>8, <2>1 DEF Inv, Filed
  <2> QED BY <1>6, <1>7, <2>1, <2>2, <2>3 DEF Inv, Filed
<1>18. Finished'
  <2>1. \A l \in jobs : l.pc = "clear" => /\ \A x \in Queued : x.run # l.entry.run
                                          /\ \A m \in jobs \ {l} : m.entry.run # l.entry.run
    BY DEF Inv, Finished
  <2>2. ASSUME NEW l \in jobs', l.pc = "clear"
        PROVE  /\ \A x \in Queued' \cup Held' : x.run # l.entry.run
               /\ \A m \in jobs' \ {l} : m.entry.run # l.entry.run
    <3>1. l \in jobs /\ l # j
      BY <1>1, <1>3, <2>2
    <3>2. l.entry.run # j.entry.run /\ again.run = j.entry.run
      BY <1>5, <2>1, <2>2, <3>1 DEF Same
    <3> QED BY <1>1, <1>3, <1>8, <1>9, <2>1, <2>2, <3>1, <3>2
  <2> QED BY <2>2 DEF Finished
<1>19. Retrying'
  <2>1. \A l \in jobs' : Requeueing(l) => l = k
    BY <1>3, <1>7 DEF Inv, Retrying
  <2>2. Requeueing(k)
    BY <1>1 DEF Requeueing
  <2>3. { x \in active' : x.id = k.entry.id } = {}
    BY <1>1, <1>5 DEF Inv, Attended, Same
  <2>4. k.entry.id \notin batches' /\ lock'.entry.id = k.entry.id /\ lock'.entry.run = k.entry.run
    BY <1>1, <1>5, <1>7 DEF Same
  <2> QED BY <1>4, <1>7, <1>8, <2>1, <2>2, <2>3, <2>4 DEF Retrying, Requeueing, Live, RetryType
<1>20. Attended'
  <2>1. ASSUME NEW x \in active'
        PROVE  /\ \E l \in jobs' : l.entry.run = x.run
               /\ \A l \in jobs' : l.pc # "clear" /\ l.entry.id = x.id => l.entry.run = x.run
    <3>1. \E l \in jobs : l.entry.run = x.run
      BY <1>7, <2>1 DEF Inv, Attended, Moving
    <3>2. \A l \in jobs : l.pc # "clear" /\ l.entry.id = x.id => l.entry.run = x.run
      BY <2>1 DEF Inv, Attended
    <3> QED BY <1>1, <1>3, <1>4, <1>6, <3>1, <3>2
  <2>2. batches' \subseteq { l.entry.id : l \in jobs' }
    BY <1>1, <1>4 DEF Inv, Attended
  <2>3. \A x, y \in active' : x.id = y.id => x = y
    BY DEF Inv, Attended
  <2> QED BY <1>7, <2>1, <2>2, <2>3 DEF Attended, Moving, MoveType
<1>21. Busy'
  BY <1>4 DEF Busy
<1>22. Silenced'
  <2>1. \A r : Starts(r)' => Starts(r)
    <3>1. ASSUME NEW r, Starts(r)' PROVE Starts(r)
      <4>1. CASE \E x \in Queued' \cup Held' : x.run = r
        BY <1>5, <1>6, <1>8, <1>9, <4>1 DEF Starts, Same
      <4>2. CASE \E l \in jobs' : l.pc \notin Late /\ l.entry.run = r
        BY <1>1, <1>3, <1>6, <4>2 DEF Starts
      <4> QED BY <3>1, <4>1, <4>2 DEF Starts, Late
    <3> QED BY <3>1
  <2>2. \A r : Quelled(r) => Quelled(r)'
    BY <2>1 DEF Quelled
  <2>3. Voided' = hist.void /\ Voided = hist.void
    BY <1>7, <1>12 DEF Voided, RemoveType, CancelType
  <2>4. \A r \in hist.void : \A l \in jobs' : l.entry.run = r => l.pc \notin {"send", "stream"}
    BY <1>1, <1>3, <2>3 DEF Inv, Silenced
  <2> QED BY <2>2, <2>3, <2>4 DEF Inv, Silenced
<1>23. Resting'
  <2>1. ASSUME NEW x \in disk
        PROVE  /\ \A l \in jobs' : l.entry.run = x.run => Requeueing(l) \/ l.pc \in Late
               /\ \A q \in Queued' : x.st # "queued" /\ q.st = "queued" => q.run # x.run
    <3>1. /\ \A l \in jobs : l.entry.run = x.run => Requeueing(l) \/ l.pc \in Late
          /\ \A q \in Queued : x.st # "queued" /\ q.st = "queued" => q.run # x.run
      BY <1>6 DEF Inv, Resting
    <3>2. Requeueing(k)
      BY <1>1 DEF Requeueing
    <3>3. x.run # again.run
      BY <1>5, <1>6, <3>1 DEF Same
    <3> QED BY <1>3, <1>8, <3>1, <3>2, <3>3
  <2> QED BY <1>7, <2>1 DEF Resting, Requeueing, Late, Moving, MoveType
<1> QED BY <1>13, <1>14, <1>16, <1>17, <1>18, <1>19, <1>20, <1>21, <1>22, <1>23 DEF Inv

LEMMA WakesKeeps ==
    ASSUME Inv, NEW j \in jobs, JobWakes(j)
    PROVE  Inv'
<1>1. /\ j.pc = "sleep"
      /\ UNCHANGED <<up, cancel, pause, cancels, closing, snaps, disk, infl, file, fresh,
                     ops, faults, limit>>
  BY DEF JobWakes, bounds
<1>2. CASE Become(j, "settle", j.res) /\ UNCHANGED <<queue, active, batches, lock, fill, hist>>
  BY <1>1, <1>2, WakesSettled
<1>3. CASE /\ Live(j) = {} /\ jobs' = jobs \ {j} /\ batches' = batches \ {j.entry.id}
           /\ fill' = TRUE /\ UNCHANGED <<queue, active, lock, hist>>
  BY <1>1, <1>3, WakesGone
<1>4. ASSUME lock = Free, UNCHANGED fill, NEW e \in Live(j), ~Terminal(e),
             LET again == [e EXCEPT !.retries = @ + 1, !.st = "queued"] IN
             /\ Become(j, "requeue", j.res)
             /\ batches' = batches \ {e.id}
             /\ active' = active \ {e}
             /\ queue' = <<again>> \o queue
             /\ lock' = [op |-> "retry", step |-> "persist", entry |-> again]
             /\ hist' = [hist EXCEPT !.spent = @ \cup Spent({again})]
      PROVE  Inv'
  <2> DEFINE again == [e EXCEPT !.retries = @ + 1, !.st = "queued"]
  <2>1. /\ Become(j, "requeue", j.res) /\ batches' = batches \ {e.id}
        /\ active' = active \ {e} /\ queue' = <<again>> \o queue
        /\ lock' = [op |-> "retry", step |-> "persist", entry |-> again]
        /\ hist' = [hist EXCEPT !.spent = @ \cup Spent({again})]
    BY <1>4
  <2>2. again = [e EXCEPT !.retries = @ + 1, !.st = "queued"]
    OBVIOUS
  <2> HIDE DEF again
  <2> QED BY <1>1, <1>4, <2>1, <2>2, WakesRequeues
<1> QED BY <1>2, <1>3, <1>4 DEF JobWakes

LEMMA PersistTyped ==
    ASSUME Inv, up, NEW S, S \subseteq disk, NEW q \in Seq(Entries), \A e \in ToSet(q) : e.st \in Pausable
    PROVE  /\ Picture(PersistQueue(S, q))
           /\ \A e \in PersistQueue(S, q) : e.st # "active"
           /\ \A e \in PersistQueue(S, q) : e \in S \/ e \in ToSet(q)
<1>1. Typed /\ TypeOK
  BY DEF Inv, Typed
<1>2. ToSet(q) \subseteq Entries /\ IsFiniteSet(ToSet(q))
  BY SeqRange
<1>3. IsFiniteSet(disk \cup ToSet(q))
  BY <1>1, <1>2, FS_Union DEF Typed
<1>4. PersistQueue(S, q) \subseteq disk \cup ToSet(q)
  BY DEF PersistQueue
<1>5. IsFiniteSet(PersistQueue(S, q))
  BY <1>3, <1>4, FS_Subset
<1>6. \A e \in PersistQueue(S, q) : e \in S \/ e \in ToSet(q)
  BY DEF PersistQueue
<1> QED BY <1>1, <1>2, <1>5, <1>6 DEF Picture, Typed, TypeOK, Pausable

LEMMA AdvanceRests ==
    ASSUME Inv, NEW j \in jobs, NEW k, Advances(j, k), NEW e \in disk
    PROVE  RestsNext(e)
<1>1. /\ up /\ Queued' = Queued /\ (Moving' <=> Moving) /\ (Taken' <=> Taken) /\ lock' = lock
      /\ k.entry.id = j.entry.id /\ k.entry.run = j.entry.run
  BY JobParts DEF Advances, Queued, Moving, Taken, MoveType, RetryType, Same
<1>2. /\ \A l \in jobs' : l = k \/ (l \in jobs /\ l # j)
      /\ j.pc # "clear" /\ (j.pc \in Late => k.pc \in Late) /\ (Requeueing(j) <=> Requeueing(k))
  <2>1. jobs' = (jobs \ {j}) \cup {k}
    BY DEF Advances
  <2> QED BY <2>1 DEF Advances
<1>3. \A l \in jobs : l.entry.run = e.run => Requeueing(l) \/ l.pc \in Late
  BY <1>1 DEF Inv, Resting
<1>4. e.st # "queued" => /\ \A l \in jobs : l.pc # "clear" => l.entry.id # e.id
                         /\ Taken => lock.entry.id # e.id
                         /\ Moving => lock.entry.run # e.run
                         /\ \A q \in Queued : q.st = "queued" => q.run # e.run
  BY <1>1 DEF Inv, Resting, Filed
<1> QED BY <1>1, <1>2, <1>3, <1>4 DEF RestsNext

LEMMA RequeuesKeeps ==
    ASSUME Inv, NEW j \in jobs, JobRequeues(j)
    PROVE  Inv'
<1> DEFINE k == [j EXCEPT !.pc = "confirm", !.res = j.res]
<1>1. k \in JobType /\ Same(k.entry, j.entry) /\ k.pc = "confirm"
  <2>1. "confirm" \in Steps
    BY DEF Steps
  <2> QED BY <2>1, JobParts DEF JobType, Same
<1>2. jobs' = (jobs \ {j}) \cup {k} /\ j.pc = "requeue"
  BY DEF JobRequeues, Become
<1> HIDE DEF k
<1>3. /\ UNCHANGED <<up, queue, active, batches, lock, fill, cancel, pause, cancels, closing,
                     snaps, infl, file, fresh, ops, faults, limit, hist>>
      /\ disk' = PersistQueue(disk, queue)
  BY DEF JobRequeues, bounds
<1>4. Typed /\ TypeOK /\ up
  BY JobParts DEF Inv, Typed
<1>5. Advances(j, k)
  <2>1. /\ \A e \in active' : \E f \in active : Same(e, f)
        /\ \A e, f \in active' : e.id = f.id => e = f
        /\ \A e \in Pictured' : \E f \in Present : Same(e, f)
    BY <1>3, <1>4 DEF Inv, Attended, Pictured, Present, Same
  <2> QED BY <1>1, <1>2, <1>3, <2>1 DEF Advances, Requeueing, Late
<1>6. /\ Picture(disk') /\ \A e \in disk' : e.st # "active"
      /\ \A e \in disk' : e \in disk \/ e \in Queued
  <2>1. queue \in Seq(Entries) /\ \A e \in ToSet(queue) : e.st \in Pausable
    BY <1>4 DEF TypeOK, Typed, Queued
  <2> QED BY <1>3, <1>4, <2>1, PersistTyped DEF Queued
<1>7. Recorded
  <2>1. \A x \in Present \cup disk : x.id \in 1 .. fresh
    BY <1>4 DEF Inv, Numbered
  <2>2. Queued \subseteq Present
    BY DEF Present, Placed
  <2> QED BY <1>6, <2>1, <2>2 DEF Recorded
<1>8. /\ Down' /\ Numbered' /\ Named' /\ Apart' /\ OneId' /\ Finished' /\ Retrying'
      /\ Attended' /\ Busy' /\ Silenced'
  BY <1>5, <1>7, AdvanceCore
<1>9. Typed'
  <2>1. file' \in FileType /\ faults' \in Nat /\ hist' \in History
    BY <1>3, <1>4, Files DEF TypeOK
  <2>2. /\ snaps' \in Seq(SnapType)
        /\ \A n \in DOMAIN snaps' : IsFiniteSet(snaps'[n].content)
        /\ \A n \in DOMAIN snaps' : snaps'[n].content \in SUBSET Entries
        /\ Picture(active') /\ Picture(infl')
    BY <1>3, <1>4 DEF Typed, TypeOK, Picture
  <2> QED BY <1>1, <1>3, <1>5, <1>6, <2>1, <2>2, AdvanceTyped
<1>10. Filed' /\ Resting'
  <2>1. \A e \in disk : RestsNext(e)
    BY <1>5, AdvanceRests
  <2>2. up' /\ disk' = PersistQueue(disk, queue')
    BY <1>3, <1>4
  <2> QED BY <1>4, <1>8, <1>9, <2>1, <2>2, Persisted
<1> QED BY <1>8, <1>9, <1>10 DEF Inv

LEMMA RequeueFailsKeeps ==
    ASSUME Inv, NEW j \in jobs, JobRequeueFails(j)
    PROVE  Inv'
<1> DEFINE k == [j EXCEPT !.pc = "settle", !.res = j.res]
<1>1. /\ k \in JobType /\ Same(k.entry, j.entry) /\ k.pc = "settle"
      /\ k.entry.id = j.entry.id /\ k.entry.run = j.entry.run
  <2>1. "settle" \in Steps
    BY DEF Steps
  <2> QED BY <2>1, JobParts DEF JobType, Same
<1>2. jobs' = (jobs \ {j}) \cup {k} /\ j.pc = "requeue" /\ Requeueing(j)
  BY DEF JobRequeueFails, Become, Requeueing
<1>3. \A l \in jobs' : l = k \/ (l \in jobs /\ l # j)
  BY <1>2
<1>4. k \in jobs' /\ \A l \in jobs : l = j \/ l \in jobs'
  BY <1>2
<1> HIDE DEF k
<1>5. /\ UNCHANGED <<up, active, batches, fill, cancel, pause, cancels, closing, snaps, disk,
                     infl, file, fresh, ops, limit>>
      /\ faults' = faults + 1
      /\ queue' = Keep(queue, WithoutId(Queued, j.entry.id))
      /\ lock' = Free
      /\ hist' = [hist EXCEPT !.unsaved = @ \cup {j.entry.task}]
  BY DEF JobRequeueFails
<1>6. Typed /\ TypeOK /\ up /\ up' /\ j.entry \in Present
  BY <1>5, JobParts DEF Inv, Typed
<1>7. /\ queue' \in Seq(Entries) /\ Distinct(queue') /\ Queued' \subseteq Queued
      /\ \A q \in Queued' : q.id # j.entry.id
  <2>1. queue \in Seq(Entries) /\ Distinct(queue)
    BY <1>6 DEF TypeOK, Inv, OneId
  <2>2. queue' \in Seq(Entries) /\ ToSet(queue') = ToSet(queue) \cap WithoutId(Queued, j.entry.id)
    BY <1>5, <2>1, KeepRange
  <2>3. Distinct(queue')
    BY <1>5, <2>1, KeepDistinct
  <2> QED BY <2>2, <2>3 DEF Queued, WithoutId
<1>8. /\ ~Taken' /\ ~Moving' /\ lock' \notin RetryType /\ lock' \notin RemoveType
      /\ lock' \notin MoveType /\ Held' = {}
      /\ lock \in RetryType /\ ~Moving /\ lock \notin RemoveType
  <2>1. lock' \notin RetryType /\ lock' \notin RemoveType /\ lock' \notin MoveType
    BY <1>5 DEF Free, MoveType, RetryType, RemoveType
  <2>2. lock \in RetryType
    BY <1>2 DEF Inv, Retrying
  <2> QED BY <1>6, <2>1, <2>2, LockKinds DEF Typed, Taken, Moving, Held, MoveType, RetryType
<1>9. ASSUME NEW x \in Present' PROVE \E y \in Present : Same(x, y)
  <2>1. Pictured' = Pictured
    BY <1>5 DEF Pictured
  <2>2. x \in Present \/ x = k.entry
    BY <1>3, <1>7, <1>8, <2>1 DEF Present, Placed
  <2> QED BY <1>1, <1>6, <2>2 DEF Same
<1>10. /\ hist' \in History /\ hist'.void = hist.void /\ hist'.settled = hist.settled
       /\ hist'.parked = hist.parked
  BY <1>5, <1>6, JobParts DEF TypeOK, History
<1>11. Down' /\ Numbered' /\ Named' /\ Apart'
  <2>1. Naming({})
    <3>1. fresh \in Nat /\ \A x \in disk : x.id \in 1 .. fresh
      BY <1>6 DEF TypeOK, Inv, Numbered
    <3> QED BY <1>5, <1>6, <1>8, <1>9, <1>10, <3>1 DEF Naming
  <2> QED BY <1>6, <1>10, <2>1, Names DEF Down
<1>12. Typed'
  <2>1. \A l \in jobs' : l \in JobType /\ (l.pc = "terminal" => l.entry.st # "active")
    BY <1>1, <1>3, <1>6 DEF Typed
  <2>2. TypeOK'
    <3>1. lock'.op \in {"free", "fill", "retry", "remove"}
      BY <1>5 DEF Free
    <3> QED BY <1>5, <1>6, <1>7, <1>10, <2>1, <3>1 DEF TypeOK, JobType
  <2>3. lock' \in {Free, FillNext} \cup MoveType \cup RetryType \cup RemoveType
    BY <1>5
  <2> QED BY <1>5, <1>6, <1>7, <1>8, <2>1, <2>2, <2>3
      DEF Typed, JobType, MoveType, RetryType, RemoveType, CancelType, SnapType, FillNext, Free
<1>13. OneId'
  <2>1. \A l, m \in jobs' : l.pc # "clear" /\ m.pc # "clear" /\ l.entry.id = m.entry.id => l = m
    BY <1>1, <1>2, <1>3 DEF Inv, OneId
  <2>2. ASSUME NEW l \in jobs', l.pc # "clear", ~Requeueing(l), NEW x \in Queued'
        PROVE  x.id # l.entry.id
    <3>1. CASE l = k
      BY <1>1, <1>7, <2>2, <3>1
    <3>2. CASE l \in jobs
      BY <1>7, <2>2, <3>2 DEF Inv, OneId
    <3> QED BY <1>3, <3>1, <3>2
  <2> QED BY <1>7, <1>8, <2>1, <2>2 DEF OneId, Distinct, Requeueing
<1>14. Filed'
  <2>1. \A x \in disk : x.st # "queued" => \A l \in jobs' : l.pc # "clear" => l.entry.id # x.id
    BY <1>1, <1>2, <1>3, <1>6 DEF Inv, Filed
  <2> QED BY <1>5, <1>6, <1>7, <1>8, <2>1 DEF Inv, Filed
<1>15. Finished'
  <2>1. \A l \in jobs : l.pc = "clear" => /\ \A x \in Queued : x.run # l.entry.run
                                          /\ \A m \in jobs \ {l} : m.entry.run # l.entry.run
    BY DEF Inv, Finished
  <2>2. ASSUME NEW l \in jobs', l.pc = "clear"
        PROVE  /\ \A x \in Queued' : x.run # l.entry.run
               /\ \A m \in jobs' \ {l} : m.entry.run # l.entry.run
    <3>1. l \in jobs /\ l # j
      BY <1>1, <1>3, <2>2
    <3> QED BY <1>1, <1>2, <1>3, <1>7, <2>1, <2>2, <3>1
  <2> QED BY <1>8, <2>2 DEF Finished
<1>16. Retrying'
  <2>1. \A l \in jobs' : ~Requeueing(l)
    BY <1>1, <1>2, <1>3, OneRequeueing DEF Requeueing
  <2> QED BY <1>8, <2>1 DEF Retrying, Requeueing
<1>17. Attended'
  <2>1. ASSUME NEW x \in active
        PROVE  /\ \E l \in jobs' : l.entry.run = x.run
               /\ \A l \in jobs' : l.pc # "clear" /\ l.entry.id = x.id => l.entry.run = x.run
    <3>1. \E l \in jobs : l.entry.run = x.run
      BY <1>8, <2>1 DEF Inv, Attended
    <3>2. \A l \in jobs : l.pc # "clear" /\ l.entry.id = x.id => l.entry.run = x.run
      BY <2>1 DEF Inv, Attended
    <3> QED BY <1>1, <1>2, <1>3, <1>4, <3>1, <3>2
  <2>2. batches \subseteq { l.entry.id : l \in jobs' }
    BY <1>1, <1>4 DEF Inv, Attended
  <2>3. \A x, y \in active : x.id = y.id => x = y
    BY DEF Inv, Attended
  <2> QED BY <1>5, <1>8, <2>1, <2>2, <2>3 DEF Attended
<1>18. Busy'
  BY <1>4 DEF Busy
<1>19. Silenced'
  <2>1. \A r : Starts(r)' => Starts(r)
    BY <1>1, <1>3, <1>7, <1>8 DEF Starts, Late
  <2>2. \A r : Quelled(r) => Quelled(r)'
    BY <1>5, <2>1 DEF Quelled
  <2>3. Voided' = hist.void /\ Voided = hist.void
    BY <1>8, <1>10 DEF Voided, RemoveType, CancelType
  <2>4. \A r \in hist.void : \A l \in jobs' : l.entry.run = r => l.pc \notin {"send", "stream"}
    BY <1>1, <1>3, <2>3 DEF Inv, Silenced
  <2> QED BY <1>5, <2>2, <2>3, <2>4 DEF Inv, Silenced
<1>20. Resting'
  <2>1. \A x \in disk : \A l \in jobs' : l.entry.run = x.run => Requeueing(l) \/ l.pc \in Late
    BY <1>1, <1>3, <1>6 DEF Inv, Resting, Late
  <2>2. \A x \in disk : x.st # "queued" => \A q \in Queued' : q.st = "queued" => q.run # x.run
    BY <1>6, <1>7 DEF Inv, Resting
  <2> QED BY <1>5, <1>8, <2>1, <2>2 DEF Resting, Requeueing, Late
<1> QED BY <1>11, <1>12, <1>13, <1>14, <1>15, <1>16, <1>17, <1>18, <1>19, <1>20 DEF Inv

LEMMA JobKeeps ==
    ASSUME Inv, NEW j \in jobs, Job(j)
    PROVE  Inv'
<1>1. CASE JobClaims(j) \/ JobConnects(j) \/ JobProgress(j) \/ JobSnapshot(j)
  BY <1>1, ClaimsKeeps, ConnectsKeeps, ProgressKeeps, SnapshotKeeps
<1>2. CASE \/ JobCancelled(j) \/ JobCompletes(j) \/ JobUnanswered(j) \/ JobRefused(j)
           \/ JobPartUseless(j) \/ JobBreaks(j)
  BY <1>2, EndsKeeps
<1>3. CASE JobWakes(j) \/ JobRequeues(j) \/ JobRequeueFails(j) \/ JobRequeued(j)
  BY <1>3, WakesKeeps, RequeuesKeeps, RequeueFailsKeeps, RequeuedKeeps
<1>4. CASE JobSettles(j) \/ JobTerminal(j) \/ JobTerminalFails(j) \/ JobClears(j)
  BY <1>4, SettlesKeeps, TerminalKeeps, TerminalFailsKeeps, ClearsKeeps
<1> QED BY <1>1, <1>2, <1>3, <1>4 DEF Job

-----------------------------------------------------------------------------
(* Steps while nobody takes an entry from the queue *)

\* The tasks go on as they were; the queue has entries of before, paused or not, and new
\* runs.  A cancellation that may be confirmed is not undone.
Quiet(N) ==
    /\ up /\ up' /\ UNCHANGED jobs /\ ~Taken /\ ~Taken'
    /\ batches' \subseteq batches
    /\ fresh' \in Nat /\ fresh <= fresh' /\ N \subseteq Entries
    /\ \A x \in N : /\ x.id \in 1 .. fresh' /\ x.run \in fresh + 1 .. fresh'
                    /\ \A l \in jobs : l.pc # "clear" => l.entry.id # x.id
    /\ \A x, y \in N : x.run = y.run => x = y
    /\ Distinct(queue')
    /\ \A q \in Queued' : \/ q \in Queued
                          \/ q.st = "paused" /\ \E p \in Queued : Same(q, p)
                          \/ q \in N
    /\ \A e \in active' : \E f \in active : Same(e, f)
    /\ \A e, f \in active' : e.id = f.id => e = f
    /\ \A e \in Pictured' : \E f \in Present : Same(e, f)
    /\ \A x \in disk' : /\ x.id \in 1 .. fresh'
                        /\ \/ x \in N
                           \/ \E y \in Present \cup disk : x.run = y.run /\ x.task = y.task
    /\ \A t \in Tasks : file'[t] = NoFile \/ file'[t] = file[t]
    /\ \A c \in cancels' :
         \/ c \in cancels
         \/ c.run \in cancel' /\ \E y \in Present \cup disk : c.run = y.run /\ c.task = y.task
    /\ \A r \in cancel : r \in cancel' \/ ~Starts(r)'
    /\ lock' \in RemoveType => lock'.entry.run \in 1 .. fresh
    /\ \A r \in Voided' :
         \/ r \in Voided
         \/ /\ Quelled(r) /\ r \in 1 .. fresh
            /\ \A l \in jobs : l.entry.run = r => l.pc \notin {"send", "stream"}
            /\ \A t \in Tasks : file'[t].kind # "none" => file'[t].run # r
    /\ hist'.settled = hist.settled
    /\ hist'.void \subseteq Voided

LEMMA QuietCore ==
    ASSUME Inv, NEW N, Quiet(N), Typed'
    PROVE  /\ Down' /\ Numbered' /\ Named' /\ Apart' /\ OneId' /\ Finished' /\ Retrying'
           /\ Attended' /\ Silenced'
           /\ \A e \in disk : RestsNext(e)
<1>1. up /\ up' /\ jobs' = jobs /\ ~Taken /\ ~Taken' /\ ~Moving /\ ~Moving'
  BY DEF Quiet, Taken, Moving, MoveType, RetryType
<1>2. lock \notin RetryType /\ lock' \notin RetryType /\ Held = {} /\ Held' = {}
  BY <1>1 DEF Taken, Held, MoveType, RetryType
<1>3. fresh \in Nat /\ fresh' \in Nat /\ \A e \in Present \cup disk : e.run \in 1 .. fresh /\ e.id \in 1 .. fresh
  BY <1>1 DEF Inv, Typed, TypeOK, Numbered
<1>4. \A q \in Queued' : \/ \E p \in Queued : Same(q, p)
                         \/ q \in N
  BY DEF Quiet, Same
<1>5. \A q \in Queued : q \in Present
  BY DEF Present, Placed
<1>6. Voided \subseteq 1 .. fresh
  <2>1. hist.void \subseteq 1 .. fresh
    BY <1>1 DEF Inv, Numbered
  <2>2. lock \in RemoveType => lock.entry.run \in 1 .. fresh
    BY DEF Inv, Numbered
  <2> QED BY <2>1, <2>2 DEF Voided
<1>7. Down' /\ Numbered' /\ Named' /\ Apart'
  <2>1. ASSUME NEW x \in Present' PROVE x \in N \/ \E y \in Present : Same(x, y)
    <3>1. CASE x \in Pictured'
      BY <3>1 DEF Quiet
    <3>2. CASE x \in Queued'
      BY <1>4, <1>5, <3>2
    <3>3. CASE x \in { l.entry : l \in jobs }
      <4>1. x \in Present
        BY <3>3 DEF Present, Placed
      <4> QED BY <4>1 DEF Same
    <3> QED BY <1>1, <1>2, <3>1, <3>2, <3>3 DEF Present, Placed
  <2>2. hist'.void \cup hist'.settled \subseteq hist.void \cup hist.settled \cup 1 .. fresh
    BY <1>6 DEF Quiet
  <2>3. \A x \in cancels' : \E y \in Present \cup disk \cup cancels : x.run = y.run /\ x.task = y.task
    BY DEF Quiet
  <2>4. \A x \in N : x.id \in 1 .. fresh' /\ x.run \in fresh + 1 .. fresh'
    BY DEF Quiet
  <2>5. Naming(N)
    BY <2>1, <2>2, <2>3, <2>4 DEF Naming, Quiet
  <2> QED BY <1>1, <2>5, Names DEF Down, Quiet
<1>8. \A l \in jobs : ~Requeueing(l)
  BY <1>2 DEF Inv, Retrying
<1>9. ASSUME NEW l \in jobs, l.pc # "clear", NEW q \in Queued' PROVE q.id # l.entry.id
  <2>1. CASE q \in N
    BY <1>9, <2>1 DEF Quiet
  <2>2. ASSUME NEW p \in Queued, Same(q, p) PROVE q.id # l.entry.id
    BY <1>8, <1>9, <2>2 DEF Inv, OneId, Same
  <2> QED BY <1>4, <2>1, <2>2
<1>10. OneId'
  <2>1. \A j, k \in jobs : j.pc # "clear" /\ k.pc # "clear" /\ j.entry.id = k.entry.id => j = k
    BY DEF Inv, OneId
  <2>2. Distinct(queue')
    BY DEF Quiet
  <2> QED BY <1>1, <1>9, <2>1, <2>2 DEF OneId, Distinct, Requeueing
<1>11. Finished'
  <2>1. ASSUME NEW l \in jobs, l.pc = "clear"
        PROVE  /\ \A q \in Queued' : q.run # l.entry.run
               /\ \A k \in jobs \ {l} : k.entry.run # l.entry.run
    <3>1. l.entry.run \in 1 .. fresh
      BY JobParts
    <3>2. \A q \in N : q.run # l.entry.run
      BY <1>3, <3>1 DEF Quiet
    <3>3. \A p \in Queued : p.run # l.entry.run
      BY <2>1 DEF Inv, Finished
    <3> QED BY <1>4, <2>1, <3>2, <3>3 DEF Inv, Finished, Same
  <2> QED BY <1>1, <1>2, <2>1 DEF Finished
<1>12. Retrying'
  BY <1>1, <1>2, <1>8 DEF Retrying, Requeueing, RetryType
<1>13. Attended'
  <2>1. ASSUME NEW e \in active'
        PROVE  /\ \E l \in jobs : l.entry.run = e.run
               /\ \A l \in jobs : l.pc # "clear" /\ l.entry.id = e.id => l.entry.run = e.run
    <3>1. PICK f \in active : Same(e, f)
      BY DEF Quiet
    <3> QED BY <1>1, <3>1 DEF Inv, Attended, Same
  <2>2. batches' \subseteq { l.entry.id : l \in jobs }
    BY DEF Inv, Attended, Quiet
  <2>3. \A e, f \in active' : e.id = f.id => e = f
    BY DEF Quiet
  <2> QED BY <1>1, <2>1, <2>2, <2>3 DEF Attended
<1>14. Silenced'
  <2>1. ASSUME NEW r \in 1 .. fresh, Starts(r)' PROVE Starts(r)
    <3>1. CASE \E q \in Queued' : q.run = r
      <4>1. PICK q \in Queued' : q.run = r
        BY <3>1
      <4>2. q \notin N
        BY <1>3, <2>1, <4>1 DEF Quiet
      <4>3. PICK p \in Queued : Same(q, p)
        BY <1>4, <4>2
      <4> QED BY <4>1, <4>3 DEF Starts, Same
    <3>2. CASE \E l \in jobs : l.pc \notin Late /\ l.entry.run = r
      BY <3>2 DEF Starts
    <3> QED BY <1>1, <1>2, <2>1, <3>1, <3>2 DEF Starts, Late
  <2>2. \A r \in 1 .. fresh : Quelled(r) => Quelled(r)'
    BY <2>1 DEF Quelled, Quiet
  <2>3. \A c \in cancels' : Quelled(c.run)'
    <3>1. \A c \in cancels : c.run \in 1 .. fresh /\ Quelled(c.run)
      BY DEF Inv, Numbered, Silenced
    <3> QED BY <2>2, <3>1 DEF Quiet, Quelled
  <2>4. ASSUME NEW r \in Voided'
        PROVE  /\ Quelled(r)'
               /\ \A l \in jobs : l.entry.run = r => l.pc \notin {"send", "stream"}
               /\ \A t \in Tasks : file'[t].kind # "none" => file'[t].run # r
    <3>1. CASE r \in Voided
      <4>1. /\ Quelled(r)
            /\ \A l \in jobs : l.entry.run = r => l.pc \notin {"send", "stream"}
            /\ \A t \in Tasks : file[t].kind # "none" => file[t].run # r
        BY <3>1 DEF Inv, Silenced
      <4>2. \A t \in Tasks : file'[t].kind # "none" => file'[t].run # r
        BY <4>1 DEF Quiet, NoFile
      <4> QED BY <1>6, <2>2, <3>1, <4>1, <4>2
    <3> QED BY <2>2, <3>1 DEF Quiet
  <2> QED BY <1>1, <2>3, <2>4 DEF Silenced
<1>15. ASSUME NEW e \in disk PROVE RestsNext(e)
  <2>1. ASSUME e.st # "queued", NEW q \in Queued', q.st = "queued" PROVE q.run # e.run
    <3>1. CASE q \in Queued
      BY <1>1, <2>1, <3>1 DEF Inv, Resting
    <3>2. CASE q \in N
      BY <1>3, <3>2 DEF Quiet
    <3> QED BY <2>1, <3>1, <3>2 DEF Quiet
  <2>2. \A l \in jobs : l.entry.run = e.run => Requeueing(l) \/ l.pc \in Late
    BY <1>1 DEF Inv, Resting
  <2>3. e.st # "queued" => \A l \in jobs : l.pc # "clear" => l.entry.id # e.id
    BY <1>1 DEF Inv, Filed
  <2> QED BY <1>1, <2>1, <2>2, <2>3 DEF RestsNext
<1> QED BY <1>7, <1>10, <1>11, <1>12, <1>13, <1>14, <1>15

\* What is written has no name that a queued entry has.
LEMMA Rested ==
    ASSUME Typed', \A e, f \in disk' : e.id = f.id => e = f,
           \A e \in disk' : RestsNext(e),
           \A e \in disk' : e.st # "queued" => \A q \in Queued' : q.st = "queued" => q.id # e.id
    PROVE  Filed' /\ Resting'
  BY DEF Filed, Resting, RestsNext, Requeueing, Late

LEMMA QuietTyped ==
    ASSUME Inv, NEW N, Quiet(N),
           queue' \in Seq(Entries), \A q \in Queued' : q.st \in Pausable,
           Picture(active'), Picture(infl'), snaps' \in Seq(SnapType),
           \A n \in DOMAIN snaps' : IsFiniteSet(snaps'[n].content),
           \A n \in DOMAIN snaps' : snaps'[n].content \in SUBSET Entries,
           Picture(disk'), \A e \in disk' : e.st # "active",
           lock' \in {Free} \cup RemoveType,
           file' \in FileType, hist' \in History, limit' \in Limits, closing' \in BOOLEAN,
           ops' \in Nat, faults' \in Nat, cancel' \in SUBSET Nat, pause' \in SUBSET Nat,
           cancels' \subseteq CancelType, fill' \in BOOLEAN
    PROVE  Typed'
<1>1. Typed /\ TypeOK
  BY DEF Inv, Typed
<1>2. up' /\ up /\ jobs' = jobs /\ batches' \subseteq batches /\ fresh' \in Nat
  BY DEF Quiet
<1>3. lock'.op \in {"free", "fill", "retry", "remove"} /\ lock' \notin RetryType
  <2>1. Free.op = "free" /\ Free \notin RetryType
    BY DEF Free, RetryType
  <2> QED BY <2>1 DEF RemoveType, RetryType
<1>4. up' = TRUE
  BY <1>1, <1>2 DEF TypeOK, Inv, Quiet
<1>5. TypeOK'
  BY <1>1, <1>2, <1>3, <1>4 DEF TypeOK, Picture, FileType, CancelType
<1> QED BY <1>1, <1>2, <1>3, <1>5
    DEF Typed, Picture, Queued, JobType, MoveType, RetryType, RemoveType, CancelType, SnapType, Free

-----------------------------------------------------------------------------
(* The scheduler *)

LEMMA FillingIs ==
    ASSUME Inv, Filling
    PROVE  /\ up /\ Typed /\ TypeOK
           /\ ~Taken /\ ~Moving /\ lock \notin RetryType /\ lock \notin RemoveType /\ Held = {}
           /\ Voided = hist.void
           /\ \A j \in jobs : ~Requeueing(j)
           /\ queue \in Seq(Entries) /\ Distinct(queue)
           /\ fill' \in BOOLEAN
<1>1. Typed /\ TypeOK
  BY DEF Inv, Typed
<1>2. lock = Free \/ lock = FillNext
  <2>1. lock.op = "fill" /\ lock.step = "next" => lock = FillNext
    BY <1>1, LockKinds DEF Typed
  <2> QED BY <2>1 DEF Filling, Holds
<1>3. ~Taken /\ ~Moving /\ lock \notin RetryType /\ lock \notin RemoveType
  BY <1>1, <1>2, LockKinds DEF Typed
<1>4. Held = {} /\ Voided = hist.void
  BY <1>3 DEF Held, Voided
<1>5. \A j \in jobs : ~Requeueing(j)
  BY <1>3 DEF Inv, Retrying
<1>6. up /\ fill' \in BOOLEAN
  BY <1>1 DEF Filling, Holds, TypeOK
<1> QED BY <1>1, <1>3, <1>4, <1>5, <1>6 DEF Inv, OneId, TypeOK

LEMMA QueuedAre ==
    ASSUME Inv
    PROVE  Queued \subseteq Entries /\ IsFiniteSet(Queued) /\ TasksOf(Queued) \subseteq Tasks
<1>1. queue \in Seq(Entries)
  BY DEF Inv, Typed, TypeOK
<1>2. Queued \subseteq Entries /\ IsFiniteSet(Queued)
  BY <1>1, SeqRange DEF Queued
<1>3. \A e \in Entries : e.task \in Tasks
  BY DEF Entries
<1> QED BY <1>2, <1>3 DEF TasksOf

LEMMA FreeIs ==
    ASSUME lock' = Free
    PROVE  /\ ~Taken' /\ ~Moving' /\ lock' \notin RetryType /\ lock' \notin RemoveType
           /\ lock' \notin MoveType /\ lock'.op = "free" /\ Held' = {}
<1>1. lock' \notin MoveType /\ lock' \notin RetryType /\ lock' \notin RemoveType /\ lock'.op = "free"
  BY DEF Free, MoveType, RetryType, RemoveType
<1> QED BY <1>1 DEF Taken, Moving, Held, MoveType, RetryType

\* The entries that may run, of those in the queue.
LEMMA RunnableAre ==
    ASSUME Inv, NEW runnable, runnable = Keep(queue, { e \in Queued : Runnable(e) })
    PROVE  /\ runnable \in Seq(Entries) /\ Distinct(runnable)
           /\ ToSet(runnable) = { e \in Queued : Runnable(e) }
<1>1. queue \in Seq(Entries) /\ Distinct(queue)
  BY DEF Inv, Typed, TypeOK, OneId
<1>2. runnable \in Seq(Entries) /\ ToSet(runnable) = ToSet(queue) \cap { e \in Queued : Runnable(e) }
  BY <1>1, KeepRange
<1>3. Distinct(runnable)
  BY <1>1, KeepDistinct
<1> QED BY <1>2, <1>3 DEF Queued

\* What the scheduler leaves alone when it takes nothing.
LEMMA QuietStep ==
    ASSUME Inv, Filling, lock' = Free, Distinct(queue'), Queued' \subseteq Queued,
           \A x \in disk' : x \in disk \/ x \in Queued,
           UNCHANGED <<up, active, batches, jobs, cancel, cancels, snaps, infl, file, fresh>>,
           hist'.settled = hist.settled, hist'.void = hist.void
    PROVE  Quiet({})
<1>1. /\ up /\ Typed /\ TypeOK /\ ~Taken /\ Voided = hist.void /\ ~Taken' /\ lock' \notin RemoveType
  BY FillingIs, FreeIs
<1>2. \A x \in Present \cup disk : x.id \in 1 .. fresh
  BY <1>1 DEF Inv, Numbered
<1>3. Queued \subseteq Present
  BY DEF Present, Placed
<1>4. \A r \in cancel : r \in cancel'
  OBVIOUS
<1>5. Voided' = hist.void
  BY <1>1 DEF Voided, RemoveType, CancelType
<1>6. /\ \A e \in active' : \E f \in active : Same(e, f)
      /\ \A e, f \in active' : e.id = f.id => e = f
      /\ \A e \in Pictured' : \E f \in Present : Same(e, f)
  BY DEF Inv, Attended, Pictured, Present, Same
<1>7. fresh \in Nat
  BY <1>1 DEF TypeOK
<1> QED BY <1>1, <1>2, <1>3, <1>4, <1>5, <1>6, <1>7 DEF Quiet

LEMMA FillEndsKeeps ==
    ASSUME Inv, FillEnds
    PROVE  Inv'
<1> DEFINE runnable == Keep(queue, { e \in Queued : Runnable(e) })
<1>1. /\ Filling /\ lock' = Free
      /\ UNCHANGED <<up, active, batches, jobs, cancel, pause, cancels, closing,
                     snaps, infl, file, fresh, ops, faults, limit>>
  BY DEF FillEnds, bounds
<1>2. /\ up /\ up' /\ Typed /\ TypeOK /\ ~Taken /\ ~Moving /\ queue \in Seq(Entries)
      /\ Distinct(queue) /\ fill' \in BOOLEAN
  BY <1>1, FillingIs
<1>3. hist \in History
  BY <1>2 DEF TypeOK
<1>5. /\ hist' \in History /\ hist'.settled = hist.settled /\ hist'.void = hist.void
      /\ queue' \in Seq(Entries) /\ Distinct(queue') /\ Queued' \subseteq Queued
      /\ \/ UNCHANGED <<queue, disk>>
         \/ queue' = <<>> /\ disk' = PersistQueue(disk, <<>>)
      /\ \/ closing \/ SlotsInUse >= limit
         \/ queue' = <<>>
  <2>1. CASE /\ closing \/ SlotsInUse >= limit
             /\ UNCHANGED <<queue, disk>>
             /\ hist' = [hist EXCEPT !.parked = FALSE]
    BY <1>2, <1>3, <2>1 DEF History, Queued
  <2>2. CASE /\ queue' = <<>>
             /\ disk' = IF queue = <<>> THEN disk ELSE PersistQueue(disk, <<>>)
             /\ hist' = [hist EXCEPT !.spent = @ \cup TasksOf(Queued), !.parked = FALSE]
    <3>1. TasksOf(Queued) \subseteq Tasks
      BY QueuedAre
    <3>2. hist' \in History /\ hist'.settled = hist.settled /\ hist'.void = hist.void
      BY <1>3, <2>2, <3>1 DEF History
    <3>3. queue' \in Seq(Entries) /\ Distinct(queue') /\ Queued' = {}
      BY <2>2 DEF Distinct, Queued, ToSet
    <3> QED BY <2>2, <3>2, <3>3
  <2> QED BY <2>1, <2>2 DEF FillEnds
<1>6. /\ Picture(disk') /\ \A e \in disk' : e.st # "active"
      /\ disk' \subseteq disk
  <2>1. CASE UNCHANGED <<queue, disk>>
    BY <1>2, <2>1 DEF Typed, TypeOK, Picture
  <2>2. CASE queue' = <<>> /\ disk' = PersistQueue(disk, <<>>)
    <3>1. <<>> \in Seq(Entries) /\ ToSet(<<>>) = {}
      BY DEF ToSet
    <3> QED BY <1>2, <2>2, <3>1, PersistTyped
  <2> QED BY <1>5, <2>1, <2>2
<1>7. Quiet({})
  BY <1>1, <1>5, <1>6, QuietStep
<1>8. Typed'
  <2>1. /\ Picture(active') /\ Picture(infl') /\ snaps' \in Seq(SnapType)
        /\ \A n \in DOMAIN snaps' : IsFiniteSet(snaps'[n].content)
        /\ \A n \in DOMAIN snaps' : snaps'[n].content \in SUBSET Entries
        /\ file' \in FileType
    BY <1>1, <1>2, Files DEF Typed, TypeOK, Picture
  <2>2. \A q \in Queued' : q.st \in Pausable
    BY <1>2, <1>5 DEF Typed
  <2> QED BY <1>1, <1>2, <1>5, <1>6, <1>7, <2>1, <2>2, QuietTyped DEF Typed, TypeOK
<1>9. /\ Down' /\ Numbered' /\ Named' /\ Apart' /\ OneId' /\ Finished' /\ Retrying'
      /\ Attended' /\ Silenced'
      /\ \A e \in disk : RestsNext(e)
  BY <1>7, <1>8, QuietCore
<1>10. Filed' /\ Resting'
  <2>1. \A e, f \in disk' : e.id = f.id => e = f
    BY <1>2, <1>6 DEF Inv, Filed
  <2>2. \A e \in disk' : e.st # "queued" => \A q \in Queued' : q.st = "queued" => q.id # e.id
    BY <1>2, <1>5, <1>6 DEF Inv, Filed
  <2> QED BY <1>6, <1>8, <1>9, <2>1, <2>2, Rested
<1>11. Busy'
  <2>1. ASSUME SlotsInUse >= limit PROVE jobs # {}
    <3>1. limit \in Nat \ {0}
      BY <1>2, DownloadAssumption DEF TypeOK
    <3>2. CASE active # {}
      BY <1>2, <3>2 DEF Inv, Attended
    <3>3. CASE active = {} /\ batches = {}
      <4>1. SlotsInUse = 0
        BY <3>3, FS_EmptySet DEF SlotsInUse
      <4> QED BY <2>1, <3>1, <4>1
    <3>4. CASE batches # {}
      BY <3>4 DEF Inv, Attended
    <3> QED BY <3>2, <3>3, <3>4
  <2>2. queue' = <<>> => Queued' = {}
    BY DEF Queued, ToSet
  <2> QED BY <1>1, <1>5, <2>1, <2>2 DEF Busy
<1> QED BY <1>8, <1>9, <1>10, <1>11 DEF Inv

LEMMA RefusedKeeps ==
    ASSUME Inv, DequeueRefused
    PROVE  Inv'
<1> DEFINE runnable == Keep(queue, { e \in Queued : Runnable(e) })
<1>1. /\ Filling /\ lock' = Free /\ faults' = faults + 1 /\ queue' = runnable
      /\ hist' = [hist EXCEPT !.spent = @ \cup (TasksOf(Queued) \ TasksOf(ToSet(runnable))),
                              !.parked = TRUE]
      /\ UNCHANGED <<up, active, batches, jobs, cancel, pause, cancels, closing,
                     snaps, disk, infl, file, fresh, ops, limit>>
  BY DEF DequeueRefused
<1>2. /\ up /\ up' /\ Typed /\ TypeOK /\ ~Taken /\ ~Moving /\ queue \in Seq(Entries)
      /\ Distinct(queue) /\ fill' \in BOOLEAN
  BY <1>1, FillingIs
<1>3. queue' \in Seq(Entries) /\ Distinct(queue') /\ Queued' \subseteq Queued
  BY <1>1, RunnableAre DEF Queued
<1> HIDE DEF runnable
<1>4. /\ hist' \in History /\ hist'.settled = hist.settled /\ hist'.void = hist.void
      /\ hist'.parked = TRUE
  <2>1. TasksOf(Queued) \subseteq Tasks
    BY QueuedAre
  <2> QED BY <1>1, <1>2, <2>1 DEF History, TypeOK
<1>5. Quiet({})
  BY <1>1, <1>3, <1>4, QuietStep
<1>6. Typed'
  <2>1. /\ Picture(active') /\ Picture(infl') /\ snaps' \in Seq(SnapType)
        /\ \A n \in DOMAIN snaps' : IsFiniteSet(snaps'[n].content)
        /\ \A n \in DOMAIN snaps' : snaps'[n].content \in SUBSET Entries
        /\ file' \in FileType /\ Picture(disk') /\ \A e \in disk' : e.st # "active"
    BY <1>1, <1>2, Files DEF Typed, TypeOK, Picture
  <2>2. \A q \in Queued' : q.st \in Pausable
    BY <1>2, <1>3 DEF Typed
  <2>3. faults' \in Nat
    BY <1>1, <1>2 DEF TypeOK
  <2> QED BY <1>1, <1>2, <1>3, <1>4, <1>5, <2>1, <2>2, <2>3, QuietTyped DEF Typed, TypeOK
<1>7. /\ Down' /\ Numbered' /\ Named' /\ Apart' /\ OneId' /\ Finished' /\ Retrying'
      /\ Attended' /\ Silenced'
      /\ \A e \in disk : RestsNext(e)
  BY <1>5, <1>6, QuietCore
<1>8. Filed' /\ Resting'
  <2>1. \A e, f \in disk' : e.id = f.id => e = f
    BY <1>1, <1>2 DEF Inv, Filed
  <2>2. \A e \in disk' : e.st # "queued" => \A q \in Queued' : q.st = "queued" => q.id # e.id
    BY <1>1, <1>2, <1>3 DEF Inv, Filed
  <2> QED BY <1>1, <1>6, <1>7, <2>1, <2>2, Rested
<1>9. Busy'
  BY <1>4 DEF Busy
<1> QED BY <1>6, <1>7, <1>8, <1>9 DEF Inv

\* No name is new.
LEMMA SameNames ==
    ASSUME Inv, up, UNCHANGED <<up, fresh, cancels, file>>, Recorded, lock' \notin RemoveType,
           \A x \in Present' : \E y \in Present : Same(x, y),
           hist'.void = hist.void, hist'.settled = hist.settled
    PROVE  Down' /\ Numbered' /\ Named' /\ Apart'
<1>1. fresh \in Nat
  BY DEF Inv, Typed, TypeOK
<1>2. Naming({})
  BY <1>1 DEF Naming, Recorded
<1> QED BY <1>2, Names DEF Down

LEMMA KnownOnDisk ==
    ASSUME Inv, up, \A x \in disk' : x \in disk \/ x \in Queued
    PROVE  Recorded
<1>1. \A x \in Present \cup disk : x.id \in 1 .. fresh
  BY DEF Inv, Numbered
<1>2. Queued \subseteq Present
  BY DEF Present, Placed
<1> QED BY <1>1, <1>2 DEF Recorded

LEMMA MovingNext ==
    ASSUME lock' \in MoveType
    PROVE  /\ Taken' /\ Moving' /\ lock' \notin RetryType /\ lock' \notin RemoveType
           /\ lock'.op = "fill" /\ Held' = {lock'.entry} /\ lock'.entry \in Entries
<1>1. lock'.op = "fill" /\ lock'.entry \in Entries
  BY DEF MoveType
<1>2. lock' \notin RetryType /\ lock' \notin RemoveType
  BY <1>1 DEF RetryType, RemoveType
<1> QED BY <1>1, <1>2 DEF Taken, Moving, Held, MoveType, RetryType

LEMMA InflightKeeps ==
    ASSUME Inv, DequeueInflight
    PROVE  Inv'
<1> DEFINE runnable == Keep(queue, { e \in Queued : Runnable(e) })
           h == Head(runnable)
           e == [h EXCEPT !.st = "active"]
<1>1. /\ Filling /\ runnable # <<>> /\ queue' = Tail(runnable)
      /\ InflightWritten(WithoutId(infl, e.id) \cup {e})
      /\ lock' = [op |-> "fill", step |-> "insert", entry |-> e]
      /\ hist' = [hist EXCEPT !.spent = @ \cup (TasksOf(Queued) \ TasksOf(ToSet(runnable))),
                              !.parked = FALSE]
      /\ UNCHANGED <<up, active, batches, jobs, cancel, pause, cancels, closing,
                     disk, file, fresh, ops, faults, limit>>
  BY DEF DequeueInflight, bounds
<1>2. /\ up /\ up' /\ Typed /\ TypeOK /\ ~Taken /\ ~Moving /\ queue \in Seq(Entries)
      /\ Distinct(queue) /\ fill' \in BOOLEAN /\ Held = {} /\ Voided = hist.void
      /\ \A j \in jobs : ~Requeueing(j)
  BY <1>1, FillingIs
<1>3. /\ runnable \in Seq(Entries) /\ Distinct(runnable)
      /\ ToSet(runnable) = { x \in Queued : Runnable(x) }
  BY RunnableAre
<1> HIDE DEF runnable
<1>4. /\ h \in Queued /\ h \in Entries /\ Runnable(h)
      /\ queue' \in Seq(Entries) /\ Distinct(queue') /\ Queued' \subseteq Queued
      /\ \A q \in Queued' : q.id # h.id
  BY <1>1, <1>3, HeadAndTail DEF Queued
<1>5. h.st = "queued" /\ h \in Present
  <2>1. h.st \in Pausable
    BY <1>2, <1>4 DEF Typed
  <2>2. h.st # "paused"
    BY <1>4 DEF Runnable, EntryStatus
  <2> QED BY <1>4, <2>1, <2>2 DEF Pausable, Present, Placed
<1> HIDE DEF h
<1>6. e \in Entries /\ e.st = "active" /\ Same(e, h) /\ e.id = h.id /\ e.run = h.run
  BY <1>4 DEF Entries, Statuses, Same
<1> HIDE DEF e
<1>7. lock' \in MoveType /\ lock'.entry = e /\ lock'.step = "insert"
  BY <1>1, <1>6 DEF MoveType
<1>8. /\ Taken' /\ Moving' /\ lock' \notin RetryType /\ lock' \notin RemoveType
      /\ lock'.op = "fill" /\ Held' = {e}
  BY <1>7, MovingNext
<1>9. /\ infl' = WithoutId(infl, e.id) \cup {e} /\ snaps' = <<>> /\ snaps' \in Seq(SnapType)
      /\ DOMAIN snaps' = {}
  BY <1>1, <1>2, AllDropped DEF SnapsFrom
<1>10. ASSUME NEW x \in Present' PROVE \E y \in Present : Same(x, y)
  <2>1. CASE x \in Pictured'
    <3>1. x \in active \/ x \in infl \/ x = e
      BY <1>1, <1>9, <2>1 DEF Pictured, WithoutId
    <3> QED BY <1>5, <1>6, <3>1 DEF Present, Pictured, Same
  <2>2. CASE x \in Placed'
    <3>1. x \in Placed \/ x = e
      BY <1>1, <1>4, <1>8, <2>2 DEF Placed
    <3> QED BY <1>5, <1>6, <3>1 DEF Present, Same
  <2> QED BY <2>1, <2>2 DEF Present
<1>11. /\ hist' \in History /\ hist'.settled = hist.settled /\ hist'.void = hist.void
  <2>1. TasksOf(Queued) \subseteq Tasks
    BY QueuedAre
  <2> QED BY <1>1, <1>2, <2>1 DEF History, TypeOK
<1>12. Down' /\ Numbered' /\ Named' /\ Apart'
  <2>1. Recorded
    BY <1>1, <1>2, KnownOnDisk
  <2> QED BY <1>1, <1>2, <1>8, <1>10, <1>11, <2>1, SameNames
<1>13. Typed'
  <2>1. IsFiniteSet(infl') /\ infl' \subseteq Entries
    <3>1. IsFiniteSet(WithoutId(infl, e.id))
      BY <1>2, FS_Subset DEF Typed, WithoutId
    <3> QED BY <1>2, <1>6, <1>9, <3>1, FS_AddElement DEF TypeOK, WithoutId
  <2>2. TypeOK'
    BY <1>1, <1>2, <1>4, <1>8, <1>9, <1>11, <2>1 DEF TypeOK
  <2>3. lock' \in {Free, FillNext} \cup MoveType \cup RetryType \cup RemoveType
    BY <1>7
  <2> QED BY <1>1, <1>2, <1>4, <1>8, <1>9, <2>1, <2>2, <2>3
      DEF Typed, JobType, MoveType, RetryType, RemoveType, CancelType, SnapType, FillNext, Free
<1>14. OneId'
  <2>1. \A j \in jobs : j.pc # "clear" => (\A q \in Queued' : q.id # j.entry.id) /\ e.id # j.entry.id
    BY <1>2, <1>4, <1>6 DEF Inv, OneId
  <2>2. \A j, k \in jobs : j.pc # "clear" /\ k.pc # "clear" /\ j.entry.id = k.entry.id => j = k
    BY DEF Inv, OneId
  <2> QED BY <1>1, <1>4, <1>6, <1>7, <2>1, <2>2 DEF OneId, Distinct, Requeueing
<1>15. Filed'
  BY <1>1, <1>2, <1>4, <1>5, <1>6, <1>7 DEF Inv, Filed
<1>16. Finished'
  BY <1>1, <1>4, <1>6, <1>8 DEF Inv, Finished
<1>17. Retrying'
  BY <1>1, <1>2, <1>8 DEF Retrying, Requeueing, RetryType
<1>18. Attended'
  BY <1>1, <1>2, <1>7 DEF Inv, Attended
<1>19. Busy'
  BY <1>8 DEF Busy
<1>20. Silenced'
  <2>1. \A r : Starts(r)' => Starts(r)
    BY <1>1, <1>4, <1>6, <1>8 DEF Starts, Late
  <2>2. \A r : Quelled(r) => Quelled(r)'
    BY <1>1, <2>1 DEF Quelled
  <2>3. Voided' = Voided
    BY <1>2, <1>8, <1>11 DEF Voided, RemoveType, CancelType
  <2> QED BY <1>1, <2>2, <2>3 DEF Inv, Silenced
<1>21. Resting'
  <2>1. \A x \in disk : \A j \in jobs : j.entry.run = x.run => Requeueing(j) \/ j.pc \in Late
    BY <1>2 DEF Inv, Resting
  <2>2. \A x \in disk : x.st # "queued" => /\ e.run # x.run
                                          /\ \A q \in Queued' : q.st = "queued" => q.run # x.run
    BY <1>2, <1>4, <1>5, <1>6 DEF Inv, Resting
  <2> QED BY <1>1, <1>7, <2>1, <2>2 DEF Resting, Requeueing, Late
<1> QED BY <1>12, <1>13, <1>14, <1>15, <1>16, <1>17, <1>18, <1>19, <1>20, <1>21 DEF Inv

\* The holder of the lock has an entry that no task has.
LEMMA HoldsIs ==
    ASSUME Inv, NEW step \in {"insert", "persist"}, Holds("fill", step)
    PROVE  /\ up /\ Typed /\ TypeOK /\ Moving /\ Taken /\ lock \in MoveType
           /\ lock.step = step /\ lock.op = "fill"
           /\ lock \notin RetryType /\ lock \notin RemoveType /\ Held = {lock.entry}
           /\ Voided = hist.void
           /\ lock.entry \in Entries /\ lock.entry \in Present
           /\ \A j \in jobs : ~Requeueing(j)
           /\ \A j \in jobs : j.pc # "clear" => j.entry.id # lock.entry.id
           /\ \A j \in jobs : j.entry.run # lock.entry.run
           /\ \A q \in Queued : q.id # lock.entry.id /\ q.run # lock.entry.run
<1>1. Typed /\ TypeOK /\ up
  BY DEF Inv, Typed, Holds
<1>2. /\ Moving /\ Taken /\ lock \in MoveType /\ lock \notin RetryType /\ lock \notin RemoveType
      /\ lock.entry \in Entries
  BY <1>1, LockKinds DEF Typed, Holds, Moving
<1>3. Held = {lock.entry} /\ Voided = hist.void
  BY <1>2 DEF Held, Voided
<1>4. lock.entry \in Present
  BY <1>3 DEF Present, Placed
<1>5. \A j \in jobs : ~Requeueing(j)
  BY <1>2 DEF Inv, Retrying
<1>6. \A j \in jobs : j.pc # "clear" => j.entry.id # lock.entry.id
  BY <1>2, <1>5 DEF Inv, OneId
<1>7. \A j \in jobs : j.entry.run # lock.entry.run
  BY <1>3, <1>5, OneRun
<1>8. \A q \in Queued : q.id # lock.entry.id
  BY <1>2 DEF Inv, OneId
<1>9. \A q \in Queued : q.run # lock.entry.run
  <2>1. \A q \in Queued : q \in Present
    BY DEF Present, Placed
  <2> QED BY <1>1, <1>4, <1>8, <2>1 DEF Inv, Named
<1> QED BY <1>1, <1>2, <1>3, <1>4, <1>5, <1>6, <1>7, <1>8, <1>9 DEF Holds

LEMMA ActiveKeeps ==
    ASSUME Inv, DequeueActive
    PROVE  Inv'
<1> DEFINE e == lock.entry
<1>1. /\ active' = WithoutId(active, e.id) \cup {e}
      /\ lock' = [lock EXCEPT !.step = "persist"]
      /\ UNCHANGED <<up, queue, batches, jobs, fill, cancel, pause, cancels, closing,
                     snaps, disk, infl, file, fresh, ops, faults, limit, hist>>
  BY DEF DequeueActive, bounds
<1>2. /\ up /\ Typed /\ TypeOK /\ Moving /\ Taken /\ lock \in MoveType /\ lock.step = "insert"
      /\ lock \notin RetryType /\ lock \notin RemoveType /\ Held = {e} /\ Voided = hist.void
      /\ e \in Entries /\ e \in Present
      /\ \A j \in jobs : ~Requeueing(j)
      /\ \A j \in jobs : j.pc # "clear" => j.entry.id # e.id
  BY HoldsIs DEF DequeueActive
<1>3. lock' \in MoveType /\ lock'.step = "persist" /\ lock'.entry = e
  BY <1>1, <1>2 DEF MoveType
<1>4. /\ Taken' /\ Moving' /\ lock' \notin RetryType /\ lock' \notin RemoveType
      /\ lock'.op = "fill" /\ Held' = {e}
  BY <1>3, MovingNext
<1> HIDE DEF e
<1>5. Queued' = Queued /\ Placed' = Placed
  BY <1>1, <1>2, <1>4 DEF Queued, Placed
<1>6. \A x \in Present' : \E y \in Present : Same(x, y)
  <2>1. \A x \in Pictured' : x \in Pictured \/ x = e
    BY <1>1 DEF Pictured, WithoutId
  <2> QED BY <1>2, <1>5, <2>1 DEF Present, Same
<1>7. Down' /\ Numbered' /\ Named' /\ Apart'
  <2>1. Recorded
    BY <1>1, <1>2, KnownOnDisk
  <2> QED BY <1>1, <1>2, <1>4, <1>6, <2>1, SameNames
<1>8. Typed'
  <2>1. IsFiniteSet(active') /\ active' \subseteq Entries
    <3>1. IsFiniteSet(WithoutId(active, e.id))
      BY <1>2, FS_Subset DEF Typed, WithoutId
    <3> QED BY <1>1, <1>2, <3>1, FS_AddElement DEF TypeOK, WithoutId
  <2>2. TypeOK'
    BY <1>1, <1>2, <1>4, <2>1 DEF TypeOK
  <2>3. lock' \in {Free, FillNext} \cup MoveType \cup RetryType \cup RemoveType
    BY <1>3
  <2> QED BY <1>1, <1>2, <1>4, <1>5, <2>1, <2>2, <2>3
      DEF Typed, JobType, MoveType, RetryType, RemoveType, CancelType, SnapType, FillNext, Free
<1>9. OneId' /\ Filed' /\ Finished' /\ Resting'
  <2>1. lock'.entry = lock.entry
    BY <1>3 DEF e
  <2>2. OneId'
    BY <1>1, <1>2, <1>4, <1>5, <2>1 DEF Inv, OneId, Distinct, Requeueing
  <2>3. Filed'
    BY <1>1, <1>2, <1>4, <1>5, <2>1 DEF Inv, Filed
  <2>4. Finished'
    BY <1>1, <1>2, <1>4, <1>5 DEF Inv, Finished
  <2>5. Resting'
    BY <1>1, <1>2, <1>4, <1>5, <2>1 DEF Inv, Resting, Requeueing, Late
  <2> QED BY <2>2, <2>3, <2>4, <2>5
<1>10. Retrying'
  BY <1>1, <1>2, <1>4 DEF Retrying, Requeueing, RetryType
<1>11. Attended'
  <2>1. ASSUME NEW x \in active'
        PROVE  /\ \/ \E j \in jobs : j.entry.run = x.run
                  \/ e.run = x.run
               /\ \A j \in jobs : j.pc # "clear" /\ j.entry.id = x.id => j.entry.run = x.run
               /\ e.id = x.id => e.run = x.run
    <3>1. CASE x \in active /\ x.id # e.id
      BY <1>2, <3>1 DEF Inv, Attended
    <3>2. CASE x = e
      BY <1>2, <3>2
    <3> QED BY <1>1, <3>1, <3>2 DEF WithoutId
  <2>2. \A x, y \in active' : x.id = y.id => x = y
    BY <1>1 DEF Inv, Attended, WithoutId
  <2>3. batches \subseteq { j.entry.id : j \in jobs }
    BY DEF Inv, Attended
  <2> QED BY <1>1, <1>3, <1>4, <2>1, <2>2, <2>3 DEF Attended
<1>12. Busy'
  BY <1>4 DEF Busy
<1>13. Silenced'
  <2>1. \A r : Starts(r)' => Starts(r)
    BY <1>1, <1>2, <1>4, <1>5 DEF Starts, Late
  <2>2. \A r : Quelled(r) => Quelled(r)'
    BY <1>1, <2>1 DEF Quelled
  <2>3. Voided' = Voided
    BY <1>1, <1>2, <1>4 DEF Voided, RemoveType, CancelType
  <2> QED BY <1>1, <2>2, <2>3 DEF Inv, Silenced
<1> QED BY <1>7, <1>8, <1>9, <1>10, <1>11, <1>12, <1>13 DEF Inv

LEMMA PersistKeeps ==
    ASSUME Inv, DequeuePersist
    PROVE  Inv'
<1> DEFINE e == lock.entry
           k == [entry |-> e, pc |-> "slot", res |-> "none"]
<1>1. /\ disk' = PersistQueue(disk, queue) /\ batches' = batches \cup {e.id}
      /\ jobs' = jobs \cup {k}
      /\ lock' = FillNext
      /\ UNCHANGED <<up, queue, active, fill, cancel, pause, cancels, closing, snaps,
                     infl, file, fresh, ops, faults, limit, hist>>
  BY DEF DequeuePersist, bounds, FillNext
<1>2. /\ up /\ Typed /\ TypeOK /\ Moving /\ Taken /\ lock \in MoveType /\ lock.step = "persist"
      /\ lock \notin RetryType /\ lock \notin RemoveType /\ Held = {e} /\ Voided = hist.void
      /\ e \in Entries /\ e \in Present
      /\ \A j \in jobs : ~Requeueing(j)
      /\ \A j \in jobs : j.pc # "clear" => j.entry.id # e.id
      /\ \A j \in jobs : j.entry.run # e.run
      /\ \A q \in Queued : q.id # e.id /\ q.run # e.run
  BY HoldsIs DEF DequeuePersist
<1>3. /\ k \in JobType /\ k.entry = e /\ k.pc = "slot"
  BY <1>2 DEF JobType, Steps, Outcomes
<1>4. /\ lock' \notin MoveType /\ lock' \notin RetryType /\ lock' \notin RemoveType
      /\ ~Taken' /\ ~Moving' /\ Held' = {} /\ lock'.op = "fill"
  <2>1. FillNext.op = "fill" /\ FillNext.step = "next"
    BY DEF FillNext
  <2>2. lock' \notin MoveType /\ lock' \notin RetryType /\ lock' \notin RemoveType
    BY <1>1, <2>1 DEF MoveType, RetryType, RemoveType
  <2> QED BY <1>1, <2>1, <2>2 DEF Taken, Moving, Held, MoveType, RetryType
<1>5. lock.entry = e
  BY DEF e
<1> HIDE DEF e, k
<1>6. \A l \in jobs' : l = k \/ l \in jobs
  BY <1>1
<1>7. Queued' = Queued /\ Pictured' = Pictured
  BY <1>1 DEF Queued, Pictured
<1>8. \A x \in Present' : \E y \in Present : Same(x, y)
  <2>1. \A x \in Placed' : x \in Placed \/ x = e
    BY <1>3, <1>4, <1>6, <1>7 DEF Placed
  <2> QED BY <1>2, <1>7, <2>1 DEF Present, Same
<1>9. /\ Picture(disk') /\ \A x \in disk' : x.st # "active"
      /\ \A x \in disk' : x \in disk \/ x \in Queued
  <2>1. queue \in Seq(Entries) /\ \A x \in ToSet(queue) : x.st \in Pausable
    BY <1>2 DEF TypeOK, Typed, Queued
  <2> QED BY <1>1, <1>2, <2>1, PersistTyped DEF Queued
<1>10. Down' /\ Numbered' /\ Named' /\ Apart'
  <2>1. Recorded
    BY <1>2, <1>9, KnownOnDisk
  <2> QED BY <1>1, <1>2, <1>4, <1>8, <2>1, SameNames
<1>11. Typed'
  <2>1. \A l \in jobs' : l \in JobType /\ (l.pc = "terminal" => l.entry.st # "active")
    BY <1>2, <1>3, <1>6 DEF Typed
  <2>2. batches' \in SUBSET Nat
    BY <1>1, <1>2 DEF TypeOK, Entries
  <2>3. TypeOK'
    BY <1>1, <1>2, <1>4, <1>9, <2>1, <2>2 DEF TypeOK, JobType, Picture
  <2> QED BY <1>1, <1>2, <1>4, <1>7, <1>9, <2>1, <2>3
      DEF Typed, JobType, MoveType, RetryType, RemoveType, CancelType, SnapType, FillNext, Free, Picture
<1>12. OneId'
  <2>1. \A j \in jobs' : j.pc # "clear" => \A q \in Queued : q.id # j.entry.id
    BY <1>2, <1>3, <1>6 DEF Inv, OneId
  <2>2. \A j, l \in jobs' : j.pc # "clear" /\ l.pc # "clear" /\ j.entry.id = l.entry.id => j = l
    BY <1>2, <1>3, <1>6 DEF Inv, OneId
  <2>3. Distinct(queue)
    BY DEF Inv, OneId
  <2> QED BY <1>1, <1>4, <1>7, <2>1, <2>2, <2>3 DEF OneId, Distinct, Requeueing
<1>13. Finished'
  <2>1. ASSUME NEW l \in jobs', l.pc = "clear"
        PROVE  /\ \A q \in Queued : q.run # l.entry.run
               /\ \A m \in jobs' \ {l} : m.entry.run # l.entry.run
    <3>1. l \in jobs
      BY <1>3, <1>6, <2>1
    <3> QED BY <1>2, <1>3, <1>6, <2>1, <3>1 DEF Inv, Finished
  <2> QED BY <1>4, <1>7, <2>1 DEF Finished
<1>14. Retrying'
  <2>1. \A l \in jobs' : ~Requeueing(l)
    BY <1>2, <1>3, <1>6 DEF Requeueing
  <2> QED BY <1>4, <2>1 DEF Retrying, Requeueing, RetryType
<1>15. Attended'
  <2>1. ASSUME NEW x \in active
        PROVE  /\ \E j \in jobs' : j.entry.run = x.run
               /\ \A j \in jobs' : j.pc # "clear" /\ j.entry.id = x.id => j.entry.run = x.run
    <3>1. /\ (\E j \in jobs : j.entry.run = x.run) \/ e.run = x.run
          /\ \A j \in jobs : j.pc # "clear" /\ j.entry.id = x.id => j.entry.run = x.run
          /\ e.id = x.id => e.run = x.run
      BY <1>2, <1>5 DEF Inv, Attended
    <3>2. k \in jobs' /\ jobs \subseteq jobs'
      BY <1>1
    <3> QED BY <1>3, <1>6, <3>1, <3>2
  <2>2. batches' \subseteq { j.entry.id : j \in jobs' }
    <3>1. k \in jobs' /\ jobs \subseteq jobs'
      BY <1>1
    <3> QED BY <1>1, <1>3, <3>1 DEF Inv, Attended
  <2>3. \A x, y \in active : x.id = y.id => x = y
    BY DEF Inv, Attended
  <2> QED BY <1>1, <1>4, <2>1, <2>2, <2>3 DEF Attended
<1>16. Busy'
  BY <1>4 DEF Busy
<1>17. Silenced'
  <2>1. \A r : Starts(r)' => Starts(r)
    <3>1. e \in Held
      BY <1>2
    <3> QED BY <1>3, <1>4, <1>6, <1>7, <3>1 DEF Starts, Late
  <2>2. \A r : Quelled(r) => Quelled(r)'
    BY <1>1, <2>1 DEF Quelled
  <2>3. Voided' = Voided
    BY <1>1, <1>2, <1>4 DEF Voided, RemoveType, CancelType
  <2>4. \A r \in Voided : \A l \in jobs' : l.entry.run = r => l.pc \notin {"send", "stream"}
    BY <1>3, <1>6 DEF Inv, Silenced
  <2> QED BY <1>1, <2>2, <2>3, <2>4 DEF Inv, Silenced
<1>18. Filed' /\ Resting'
  <2>1. ASSUME NEW x \in disk, x \in disk', x \notin Queued PROVE RestsNext(x)
    <3>1. x.st # "queued"
      BY <1>1, <2>1 DEF PersistQueue, Queued
    <3>2. /\ \A l \in jobs : l.pc # "clear" => l.entry.id # x.id
          /\ e.id # x.id
      BY <1>2, <1>5, <3>1 DEF Inv, Filed
    <3>3. /\ \A l \in jobs : l.entry.run = x.run => Requeueing(l) \/ l.pc \in Late
          /\ e.run # x.run
          /\ \A q \in Queued : q.st = "queued" => q.run # x.run
      BY <1>2, <1>5, <3>1 DEF Inv, Resting
    <3> QED BY <1>3, <1>4, <1>6, <1>7, <3>2, <3>3 DEF RestsNext
  <2>2. up' /\ disk' = PersistQueue(disk, queue')
    BY <1>1, <1>2
  <2> QED BY <1>2, <1>7, <1>10, <1>11, <1>12, <1>14, <2>1, <2>2, Persisted
<1> QED BY <1>10, <1>11, <1>12, <1>13, <1>14, <1>15, <1>16, <1>17, <1>18 DEF Inv

LEMMA FailsKeeps ==
    ASSUME Inv, DequeueFails
    PROVE  Inv'
<1> DEFINE e == lock.entry
           h == [e EXCEPT !.st = "queued"]
           one == <<h>>
<1>1. /\ active' = WithoutId(active, e.id) /\ queue' = one \o queue
      /\ InflightWritten(WithoutId(infl, e.id))
      /\ lock' = Free /\ faults' = faults + 1
      /\ hist' = [hist EXCEPT !.parked = TRUE]
      /\ UNCHANGED <<up, batches, jobs, fill, cancel, pause, cancels, closing, disk,
                     file, fresh, ops, limit>>
  BY DEF DequeueFails
<1>2. /\ up /\ Typed /\ TypeOK /\ Moving /\ Taken /\ lock \in MoveType /\ lock.step = "persist"
      /\ lock \notin RetryType /\ lock \notin RemoveType /\ Held = {e} /\ Voided = hist.void
      /\ e \in Entries /\ e \in Present
      /\ \A j \in jobs : ~Requeueing(j)
      /\ \A j \in jobs : j.pc # "clear" => j.entry.id # e.id
      /\ \A j \in jobs : j.entry.run # e.run
      /\ \A q \in Queued : q.id # e.id /\ q.run # e.run
  BY HoldsIs DEF DequeueFails
<1>3. h \in Entries /\ h.id = e.id /\ h.run = e.run /\ Same(h, e) /\ h.st = "queued"
  BY <1>2 DEF Entries, Statuses, Same
<1>4. /\ ~Taken' /\ ~Moving' /\ lock' \notin RetryType /\ lock' \notin RemoveType
      /\ lock' \notin MoveType /\ lock'.op = "free" /\ Held' = {}
  BY <1>1, FreeIs
<1>5. lock.entry = e
  BY DEF e
<1> HIDE DEF e, h
<1>6. /\ queue' \in Seq(Entries) /\ Queued' = {h} \cup Queued /\ Distinct(queue')
  <2>1. one \in Seq(Entries) /\ ToSet(one) = {h} /\ Distinct(one)
    BY <1>3, Single
  <2>2. queue \in Seq(Entries) /\ Distinct(queue)
    BY <1>2 DEF TypeOK, Inv, OneId
  <2> HIDE DEF one
  <2>3. one \o queue \in Seq(Entries) /\ ToSet(one \o queue) = {h} \cup ToSet(queue)
    BY <2>1, <2>2, Joined
  <2>4. \A x \in ToSet(one), y \in ToSet(queue) : x.id # y.id
    BY <1>2, <1>3, <2>1 DEF Queued
  <2>5. Distinct(one \o queue)
    BY <2>1, <2>2, <2>4, JoinedDistinct
  <2> QED BY <1>1, <2>3, <2>5 DEF Queued
<1>7. /\ infl' = WithoutId(infl, e.id) /\ Picture(infl') /\ snaps' = <<>>
      /\ snaps' \in Seq(SnapType) /\ DOMAIN snaps' = {} /\ Pictured' \subseteq Pictured
  <2>1. WithoutId(infl, e.id) \subseteq infl /\ active' \subseteq active
    BY <1>1 DEF WithoutId
  <2> QED BY <1>1, <2>1, Removed
<1>8. \A x \in Present' : \E y \in Present : Same(x, y)
  <2>1. \A x \in Placed' : x \in Placed \/ x = h
    BY <1>1, <1>4, <1>6 DEF Placed
  <2> QED BY <1>2, <1>3, <1>7, <2>1 DEF Present, Same
<1>9. hist' \in History /\ hist'.void = hist.void /\ hist'.settled = hist.settled
      /\ hist'.parked = TRUE
  BY <1>1, <1>2 DEF History, TypeOK
<1>10. Down' /\ Numbered' /\ Named' /\ Apart'
  <2>1. Recorded
    BY <1>1, <1>2, KnownOnDisk
  <2> QED BY <1>1, <1>2, <1>4, <1>8, <1>9, <2>1, SameNames
<1>11. Typed'
  <2>1. IsFiniteSet(active') /\ active' \subseteq Entries
    BY <1>1, <1>2, FS_Subset DEF Typed, TypeOK, WithoutId
  <2>2. \A x \in Queued' : x.st \in Pausable
    BY <1>2, <1>3, <1>6 DEF Typed, Pausable
  <2>3. TypeOK'
    <3>1. faults' \in Nat
      BY <1>1, <1>2 DEF TypeOK
    <3> QED BY <1>1, <1>2, <1>4, <1>6, <1>7, <1>9, <2>1, <3>1 DEF TypeOK, Picture
  <2> QED BY <1>1, <1>2, <1>4, <1>7, <2>1, <2>2, <2>3
      DEF Typed, JobType, MoveType, RetryType, RemoveType, CancelType, SnapType, FillNext, Free, Picture
<1>12. OneId'
  <2>1. \A j \in jobs : j.pc # "clear" => \A q \in Queued' : q.id # j.entry.id
    BY <1>2, <1>3, <1>6 DEF Inv, OneId
  <2>2. \A j, l \in jobs : j.pc # "clear" /\ l.pc # "clear" /\ j.entry.id = l.entry.id => j = l
    BY DEF Inv, OneId
  <2> QED BY <1>1, <1>4, <1>6, <2>1, <2>2 DEF OneId, Distinct, Requeueing
<1>13. Filed'
  BY <1>1, <1>2, <1>3, <1>4, <1>5, <1>6 DEF Inv, Filed
<1>14. Finished'
  BY <1>1, <1>2, <1>3, <1>4, <1>6 DEF Inv, Finished
<1>15. Retrying'
  BY <1>1, <1>2, <1>4 DEF Retrying, Requeueing, RetryType
<1>16. Attended'
  <2>1. ASSUME NEW x \in active'
        PROVE  /\ \E j \in jobs : j.entry.run = x.run
               /\ \A j \in jobs : j.pc # "clear" /\ j.entry.id = x.id => j.entry.run = x.run
    <3>1. x \in active /\ x.id # e.id /\ x \in Present
      BY <1>1, <2>1 DEF WithoutId, Present, Pictured
    <3>2. x.run # e.run
      BY <1>2, <3>1 DEF Inv, Named
    <3> QED BY <1>5, <3>1, <3>2 DEF Inv, Attended
  <2>2. \A x, y \in active' : x.id = y.id => x = y
    BY <1>1 DEF Inv, Attended, WithoutId
  <2>3. batches \subseteq { j.entry.id : j \in jobs }
    BY DEF Inv, Attended
  <2> QED BY <1>1, <1>4, <2>1, <2>2, <2>3 DEF Attended
<1>17. Busy'
  BY <1>9 DEF Busy
<1>18. Silenced'
  <2>1. \A r : Starts(r)' => Starts(r)
    BY <1>1, <1>2, <1>3, <1>4, <1>6 DEF Starts, Late
  <2>2. \A r : Quelled(r) => Quelled(r)'
    BY <1>1, <2>1 DEF Quelled
  <2>3. Voided' = Voided
    BY <1>1, <1>2, <1>4, <1>9 DEF Voided, RemoveType, CancelType
  <2> QED BY <1>1, <2>2, <2>3 DEF Inv, Silenced
<1>19. Resting'
  <2>1. \A x \in disk : \A j \in jobs : j.entry.run = x.run => Requeueing(j) \/ j.pc \in Late
    BY <1>2 DEF Inv, Resting
  <2>2. \A x \in disk : x.st # "queued" => \A q \in Queued' : q.st = "queued" => q.run # x.run
    BY <1>2, <1>3, <1>5, <1>6 DEF Inv, Resting
  <2> QED BY <1>1, <1>4, <2>1, <2>2 DEF Resting, Requeueing, Late
<1> QED BY <1>10, <1>11, <1>12, <1>13, <1>14, <1>15, <1>16, <1>17, <1>18, <1>19 DEF Inv

LEMMA FillKeeps ==
    ASSUME Inv, Fill
    PROVE  Inv'
  BY FillEndsKeeps, InflightKeeps, RefusedKeeps, ActiveKeeps, PersistKeeps, FailsKeeps DEF Fill

-----------------------------------------------------------------------------
(* Commands that set flags *)

LEMMA PicturesStay ==
    ASSUME Inv, UNCHANGED <<active, infl, snaps>>
    PROVE  /\ \A e \in active' : \E f \in active : Same(e, f)
           /\ \A e, f \in active' : e.id = f.id => e = f
           /\ \A e \in Pictured' : \E f \in Present : Same(e, f)
           /\ Picture(active') /\ Picture(infl') /\ snaps' \in Seq(SnapType)
           /\ \A n \in DOMAIN snaps' : IsFiniteSet(snaps'[n].content)
           /\ \A n \in DOMAIN snaps' : snaps'[n].content \in SUBSET Entries
<1>1. Pictured' = Pictured
  BY DEF Pictured
<1>2. \A e \in Pictured : e \in Present
  BY DEF Present
<1> QED BY <1>1, <1>2 DEF Inv, Attended, Typed, TypeOK, Picture, Same

LEMMA FlagsKeep ==
    ASSUME Inv, up,
           UNCHANGED <<up, queue, active, batches, jobs, lock, snaps, disk, infl, file, fresh,
                       faults, hist>>,
           cancel \subseteq cancel', cancel' \in SUBSET Nat, pause' \in SUBSET Nat,
           cancels' \subseteq CancelType,
           \A c \in cancels' :
             \/ c \in cancels
             \/ c.run \in cancel' /\ \E y \in Present \cup disk : c.run = y.run /\ c.task = y.task,
           fill \/ closing => fill' \/ closing',
           fill' \in BOOLEAN, closing' \in BOOLEAN, limit' \in Limits, ops' \in Nat
    PROVE  Inv'
<1>1. Typed /\ TypeOK
  BY DEF Inv, Typed
<1>2. /\ \A e \in active' : \E f \in active : Same(e, f)
      /\ \A e, f \in active' : e.id = f.id => e = f
      /\ \A e \in Pictured' : \E f \in Present : Same(e, f)
      /\ Picture(active') /\ Picture(infl') /\ snaps' \in Seq(SnapType)
      /\ \A n \in DOMAIN snaps' : IsFiniteSet(snaps'[n].content)
      /\ \A n \in DOMAIN snaps' : snaps'[n].content \in SUBSET Entries
  BY PicturesStay
<1>3. Standing
  BY <1>2 DEF Standing
<1>4. file' \in FileType /\ hist' \in History /\ faults' \in Nat
  BY <1>1, Files DEF TypeOK
<1>5. Typed'
  BY <1>2, <1>3, <1>4, StandingTyped
<1> QED BY <1>3, <1>5, StandingKeeps

LEMMA Types ==
    ASSUME Inv
    PROVE  /\ Typed /\ TypeOK /\ ops \in Nat /\ faults \in Nat /\ limit \in Limits
           /\ cancel \in SUBSET Nat /\ pause \in SUBSET Nat /\ cancels \subseteq CancelType
           /\ fill \in BOOLEAN /\ closing \in BOOLEAN /\ hist \in History /\ fresh \in Nat
           /\ active \subseteq Entries /\ disk \subseteq Entries /\ infl \subseteq Entries
           /\ Queued \subseteq Entries
           /\ \A e \in Entries : e.run \in Nat /\ e.id \in Nat /\ e.task \in Tasks
           /\ \A j \in jobs : j.entry.run \in Nat
  BY QueuedAre, JobParts DEF Inv, Typed, TypeOK, Entries

LEMMA PauseRunningKeeps ==
    ASSUME Inv, NEW t \in Tasks, PauseRunning(t)
    PROVE  Inv'
<1>1. PICK e \in active : pause' = pause \cup {e.run} /\ cancel' = cancel \cup {e.run}
  BY DEF PauseRunning
<1>2. /\ up /\ ops' = ops + 1
      /\ UNCHANGED <<up, queue, active, batches, jobs, lock, fill, cancels, closing, snaps,
                     disk, infl, file, fresh, faults, limit, hist>>
  BY DEF PauseRunning, Locked, Command
<1>3. ops' \in Nat
  BY <1>2, Types
<1>4. cancel' \in SUBSET Nat /\ pause' \in SUBSET Nat
  BY <1>1, Types
<1> QED BY <1>1, <1>2, <1>3, <1>4, Types, FlagsKeep

LEMMA CancelBeginsKeeps ==
    ASSUME Inv, NEW t \in Tasks, CancelBegins(t)
    PROVE  Inv'
<1>1. PICK e \in Known : /\ e.task = t
                         /\ cancel' = cancel \cup {e.run} /\ pause' = pause \ {e.run}
                         /\ cancels' = cancels \cup {[task |-> t, run |-> e.run]}
  BY DEF CancelBegins
<1>2. /\ up /\ ops' = ops + 1
      /\ UNCHANGED <<up, queue, active, batches, jobs, lock, fill, closing, snaps, disk, infl,
                     file, fresh, faults, limit, hist>>
  BY DEF CancelBegins, Locked, Command
<1>3. ops' \in Nat
  BY <1>2, Types
<1>4. e \in Present \cup disk /\ e.run \in Nat
  BY <1>1, Types DEF Known, Present, Placed, Pictured
<1>5. cancel' \in SUBSET Nat /\ pause' \in SUBSET Nat
  BY <1>1, <1>4, Types
<1>6. cancels' \subseteq CancelType
  BY <1>1, <1>4, Types DEF CancelType
<1>7. \A c \in cancels' :
        \/ c \in cancels
        \/ c.run \in cancel' /\ \E y \in Present \cup disk : c.run = y.run /\ c.task = y.task
  BY <1>1, <1>4
<1> QED BY <1>1, <1>2, <1>3, <1>5, <1>6, <1>7, Types, FlagsKeep

LEMMA TimesOutKeeps ==
    ASSUME Inv, NEW c \in cancels, CancelTimesOut(c)
    PROVE  Inv'
<1>1. /\ up /\ cancels' = cancels \ {c}
      /\ UNCHANGED <<up, queue, active, batches, jobs, lock, fill, cancel, pause, closing,
                     snaps, disk, infl, file, fresh, ops, faults, limit, hist>>
  BY DEF CancelTimesOut, bounds
<1> QED BY <1>1, Types, FlagsKeep

LEMMA ProcessKeeps ==
    ASSUME Inv, Process
    PROVE  Inv'
<1>1. /\ up /\ fill' = TRUE
      /\ UNCHANGED <<up, queue, active, batches, jobs, lock, cancel, pause, cancels, closing,
                     snaps, disk, infl, file, fresh, ops, faults, limit, hist>>
  BY DEF Process, bounds
<1> QED BY <1>1, Types, FlagsKeep

LEMMA SetConcurrencyKeeps ==
    ASSUME Inv, NEW n \in Limits, SetConcurrency(n)
    PROVE  Inv'
<1>1. /\ up /\ ops' = ops + 1 /\ limit' = n /\ fill' = TRUE
      /\ UNCHANGED <<up, queue, active, batches, jobs, lock, cancel, pause, cancels, closing,
                     snaps, disk, infl, file, fresh, faults, hist>>
  BY DEF SetConcurrency, Command
<1>2. ops' \in Nat
  BY <1>1, Types
<1> QED BY <1>1, <1>2, Types, FlagsKeep

LEMMA FlushBeginsKeeps ==
    ASSUME Inv, FlushBegins
    PROVE  Inv'
<1> DEFINE runs == { j.entry.run : j \in Writing }
<1>1. /\ up /\ ops' = ops + 1 /\ closing' = TRUE
      /\ cancel' = cancel \cup runs /\ pause' = pause \cup runs
      /\ UNCHANGED <<up, queue, active, batches, jobs, lock, fill, cancels, snaps, disk, infl,
                     file, fresh, faults, limit, hist>>
  BY DEF FlushBegins, Locked, Command
<1>2. ops' \in Nat
  BY <1>1, Types
<1>3. runs \subseteq Nat
  BY Types DEF Writing
<1> HIDE DEF runs
<1>4. cancel' \in SUBSET Nat /\ pause' \in SUBSET Nat
  BY <1>1, <1>3, Types
<1> QED BY <1>1, <1>2, <1>4, Types, FlagsKeep

-----------------------------------------------------------------------------
(* Commands that move entries *)

LEMMA FreeLock ==
    ASSUME Inv, up, lock = Free
    PROVE  /\ ~Taken /\ ~Moving /\ lock \notin RetryType /\ lock \notin RemoveType /\ Held = {}
           /\ Voided = hist.void
           /\ \A j \in jobs : ~Requeueing(j)
           /\ queue \in Seq(Entries) /\ Distinct(queue)
           /\ \A e \in Queued : e \in Present
           /\ \A e \in Present \cup disk : e.id \in 1 .. fresh /\ e.run \in 1 .. fresh
           /\ Picture(disk) /\ (\A e \in disk : e.st # "active")
           /\ \A e \in Queued : e.st \in Pausable
           /\ \A e, f \in disk : e.id = f.id => e = f
<1>1. Typed /\ TypeOK
  BY DEF Inv, Typed
<1>2. ~Taken /\ ~Moving /\ lock \notin RetryType /\ lock \notin RemoveType
  BY <1>1, LockKinds DEF Typed
<1>3. Held = {} /\ Voided = hist.void
  BY <1>2 DEF Held, Voided
<1>4. \A j \in jobs : ~Requeueing(j)
  BY <1>2 DEF Inv, Retrying
<1>5. \A e \in Present \cup disk : e.id \in 1 .. fresh /\ e.run \in 1 .. fresh
  BY DEF Inv, Numbered
<1>6. \A e \in Queued : e \in Present
  BY DEF Present, Placed
<1>7. \A e, f \in disk : e.id = f.id => e = f
  BY DEF Inv, Filed
<1> QED BY <1>1, <1>2, <1>3, <1>4, <1>5, <1>6, <1>7 DEF Typed, TypeOK, Picture, Inv, OneId

\* The history of the commands' effects on the tasks.
LEMMA HistoryGrows ==
    ASSUME Inv, NEW A \in SUBSET Tasks, NEW D \in SUBSET Tasks, NEW S \in SUBSET Tasks,
           \/ hist' = [hist EXCEPT !.accepted = @ \cup A, !.spent = @ \cup S]
           \/ hist' = [hist EXCEPT !.dropped = @ \cup D]
           \/ hist' = [hist EXCEPT !.spent = @ \cup S]
    PROVE  /\ hist' \in History /\ hist'.void = hist.void /\ hist'.settled = hist.settled
           /\ hist'.parked = hist.parked
<1>1. hist \in History
  BY Types
<1> QED BY <1>1 DEF History

\* The queue and new entries behind it, written down.
LEMMA QueueGrows ==
    ASSUME Inv, up, lock = Free, UNCHANGED <<up, lock, jobs, active, batches, cancels, snaps,
                                             infl, file, closing>>,
           fill' = TRUE, fresh' \in Nat, fresh <= fresh',
           NEW new \in Seq(Entries), queue' = queue \o new, Distinct(new),
           \A x \in ToSet(new) : /\ x.st = "queued"
                                 /\ x.id \in 1 .. fresh' /\ x.run \in fresh + 1 .. fresh'
                                 /\ \A l \in jobs : l.pc # "clear" => l.entry.id # x.id
                                 /\ \A q \in Queued : q.id # x.id,
           \A x, y \in ToSet(new) : x.run = y.run => x = y,
           NEW S, S \subseteq disk, disk' = PersistQueue(S, queue'),
           cancel' \subseteq cancel, pause' \subseteq pause,
           \A r \in cancel \ cancel' : r \in 1 .. fresh /\ ~Starts(r),
           hist' \in History, hist'.settled = hist.settled, hist'.void = hist.void,
           ops' \in Nat, faults' \in Nat, limit' = limit
    PROVE  Inv'
<1> DEFINE N == ToSet(new)
<1>1. /\ Typed /\ TypeOK /\ ~Taken /\ ~Moving /\ Held = {} /\ Voided = hist.void
      /\ queue \in Seq(Entries) /\ Distinct(queue)
      /\ (\A j \in jobs : ~Requeueing(j))
      /\ (\A e \in Queued : e \in Present)
      /\ \A e \in Present \cup disk : e.id \in 1 .. fresh /\ e.run \in 1 .. fresh
  BY FreeLock, Types
<1>2. /\ ~Taken' /\ ~Moving' /\ Held' = {} /\ lock' \notin RemoveType
      /\ lock' = Free
  BY FreeIs
<1>3. /\ queue' \in Seq(Entries) /\ Queued' = Queued \cup N /\ N \subseteq Entries
  BY <1>1, Joined, SeqRange DEF Queued
<1>4. Distinct(queue')
  <2>1. \A e \in ToSet(queue), f \in ToSet(new) : e.id # f.id
    BY DEF Queued
  <2>2. Distinct(queue \o new)
    BY <1>1, <2>1, JoinedDistinct
  <2> QED BY <2>2
<1>5. \A x \in N : x.st = "queued" /\ x.id \in 1 .. fresh' /\ x.run \in fresh + 1 .. fresh'
  OBVIOUS
<1>6. \A q \in Queued' : q.st \in Pausable
  BY <1>1, <1>3, <1>5 DEF Typed, Pausable
<1>7. /\ Picture(disk') /\ (\A e \in disk' : e.st # "active")
      /\ \A x \in disk' : x \in disk \/ x \in Queued'
  BY <1>3, <1>6, PersistTyped DEF Queued
<1>8. \A x \in disk' : /\ x.id \in 1 .. fresh'
                       /\ \/ x \in N
                          \/ \E y \in Present \cup disk : x.run = y.run /\ x.task = y.task
  <2>1. ASSUME NEW x \in disk' PROVE x \in N \/ x \in Present \cup disk
    BY <1>1, <1>3, <1>7
  <2>2. fresh \in Nat
    BY Types
  <2>3. \A x \in Present \cup disk : x.id \in 1 .. fresh'
    BY <1>1, <2>2
  <2> QED BY <1>5, <2>1, <2>3
<1>9. \A r \in cancel : r \in cancel' \/ ~Starts(r)'
  <2>1. ASSUME NEW r \in cancel, r \notin cancel', Starts(r)' PROVE FALSE
    <3>1. r \in 1 .. fresh /\ ~Starts(r)
      BY <2>1
    <3>2. \A x \in N : x.run # r
      BY <1>5, <3>1, Types
    <3> QED BY <1>2, <1>3, <2>1, <3>1, <3>2 DEF Starts, Late
  <2> QED BY <2>1
<1>10. /\ \A e \in active' : \E f \in active : Same(e, f)
       /\ \A e, f \in active' : e.id = f.id => e = f
       /\ \A e \in Pictured' : \E f \in Present : Same(e, f)
       /\ Picture(active') /\ Picture(infl') /\ snaps' \in Seq(SnapType)
       /\ \A n \in DOMAIN snaps' : IsFiniteSet(snaps'[n].content)
       /\ \A n \in DOMAIN snaps' : snaps'[n].content \in SUBSET Entries
  BY PicturesStay
<1>11. Voided' = Voided
  BY <1>1, <1>2 DEF Voided, RemoveType, CancelType
<1>12. Quiet(N)
  <2>1. \A x \in N : \A l \in jobs : l.pc # "clear" => l.entry.id # x.id
    OBVIOUS
  <2>2. \A x, y \in N : x.run = y.run => x = y
    OBVIOUS
  <2> HIDE DEF N
  <2> QED BY <1>1, <1>2, <1>3, <1>4, <1>5, <1>8, <1>9, <1>10, <1>11, <2>1, <2>2 DEF Quiet
<1> HIDE DEF N
<1>13. Typed'
  <2>1. cancel' \in SUBSET Nat /\ pause' \in SUBSET Nat /\ cancels' \subseteq CancelType
        /\ file' \in FileType /\ closing' \in BOOLEAN /\ fill' \in BOOLEAN
        /\ limit' \in Limits
    BY Types, Files
  <2> QED BY <1>2, <1>3, <1>6, <1>7, <1>10, <1>12, <2>1, QuietTyped
<1>14. /\ Down' /\ Numbered' /\ Named' /\ Apart' /\ OneId' /\ Finished' /\ Retrying'
       /\ Attended' /\ Silenced'
       /\ \A e \in disk : RestsNext(e)
  BY <1>12, <1>13, QuietCore
<1>15. Filed' /\ Resting'
  BY <1>13, <1>14, Persisted
<1>16. Busy'
  BY DEF Busy
<1> QED BY <1>13, <1>14, <1>15, <1>16 DEF Inv

LEMMA EnqueueKeeps ==
    ASSUME Inv, NEW t \in Tasks, Enqueue(t)
    PROVE  Inv'
<1> DEFINE e == [id |-> fresh + 1, task |-> t, run |-> fresh + 1, st |-> "queued", retries |-> 0]
           new == <<e>>
<1>1. /\ up /\ lock = Free /\ ops' = ops + 1 /\ fresh' = fresh + 1
      /\ UNCHANGED <<up, active, batches, jobs, lock, cancel, pause, cancels, closing, snaps,
                     infl, file, limit>>
  BY DEF Enqueue, Locked, Command
<1>2. fresh \in Nat /\ fresh' \in Nat /\ fresh <= fresh' /\ ops' \in Nat
  BY <1>1, Types
<1>3. e \in Entries /\ e.st = "queued" /\ e.id = fresh' /\ e.run = fresh' /\ e.id = fresh + 1
  BY <1>1, <1>2 DEF Entries, Statuses
<1>4. \A x \in Present \cup disk : x.id \in 1 .. fresh /\ x.run \in 1 .. fresh
  BY <1>1, FreeLock
<1>5. CASE /\ queue' = Append(queue, e) /\ disk' = PersistQueue(disk, Append(queue, e))
           /\ fill' = TRUE /\ UNCHANGED faults
           /\ hist' = [hist EXCEPT !.accepted = @ \cup {t}, !.spent = @ \cup Spent({e})]
  <2> HIDE DEF e
  <2>1. queue \in Seq(Entries)
    BY <1>1, FreeLock
  <2>2. new \in Seq(Entries) /\ ToSet(new) = {e} /\ Distinct(new) /\ queue' = queue \o new
    BY <1>3, <1>5, <2>1, Single, Appended
  <2> HIDE DEF new
  <2>3. /\ hist' \in History /\ hist'.void = hist.void /\ hist'.settled = hist.settled
    <3>1. {t} \in SUBSET Tasks /\ Spent({e}) \in SUBSET Tasks
      BY <1>3 DEF Spent, TasksOf, Entries
    <3> QED BY <1>5, <3>1, HistoryGrows
  <2>4. \A l \in jobs : l.entry.id # e.id
    BY <1>2, <1>3, JobParts
  <2>5. \A q \in Queued : q.id # e.id
    BY <1>1, <1>2, <1>3, <1>4, FreeLock
  <2>6. \A x \in ToSet(new) : /\ x.st = "queued"
                              /\ x.id \in 1 .. fresh' /\ x.run \in fresh + 1 .. fresh'
                              /\ \A l \in jobs : l.pc # "clear" => l.entry.id # x.id
                              /\ \A q \in Queued : q.id # x.id
    BY <1>1, <1>2, <1>3, <2>2, <2>4, <2>5
  <2>7. \A x, y \in ToSet(new) : x.run = y.run => x = y
    BY <2>2
  <2>8. disk' = PersistQueue(disk, queue') /\ faults' \in Nat
    BY <1>5, Types
  <2> QED BY <1>1, <1>2, <1>5, <2>2, <2>3, <2>6, <2>7, <2>8, QueueGrows
<1>6. CASE faults' = faults + 1 /\ UNCHANGED <<queue, disk, fill, hist>>
  <2> HIDE DEF e
  <2>1. /\ ~Taken /\ Voided = hist.void /\ queue \in Seq(Entries) /\ Distinct(queue)
    BY <1>1, FreeLock
  <2>2. /\ ~Taken' /\ ~Moving' /\ lock' \notin RemoveType
    BY <1>1, FreeIs
  <2>3. /\ \A x \in active' : \E f \in active : Same(x, f)
        /\ \A x, f \in active' : x.id = f.id => x = f
        /\ \A x \in Pictured' : \E f \in Present : Same(x, f)
        /\ Picture(active') /\ Picture(infl') /\ snaps' \in Seq(SnapType)
        /\ \A n \in DOMAIN snaps' : IsFiniteSet(snaps'[n].content)
        /\ \A n \in DOMAIN snaps' : snaps'[n].content \in SUBSET Entries
    BY <1>1, PicturesStay
  <2>4. Queued' = Queued /\ queue' = queue /\ disk' = disk /\ Voided' = Voided
    BY <1>1, <1>6, <2>1, <2>2 DEF Queued, Voided, RemoveType, CancelType
  <2>5. \A x \in disk : x.id \in 1 .. fresh'
    BY <1>1, <1>2, <1>4
  <2>6. Quiet({})
    BY <1>1, <1>2, <1>6, <2>1, <2>2, <2>3, <2>4, <2>5 DEF Quiet
  <2>7. Typed'
    <3>1. faults' \in Nat /\ file' \in FileType
      BY <1>1, <1>6, Types, Files
    <3>2. (\A q \in Queued' : q.st \in Pausable) /\ Picture(disk') /\ (\A x \in disk' : x.st # "active")
      BY <1>1, <2>4, FreeLock
    <3> QED BY <1>1, <1>2, <1>6, <2>1, <2>3, <2>4, <2>6, <3>1, <3>2, Types, QuietTyped
  <2>8. /\ Down' /\ Numbered' /\ Named' /\ Apart' /\ OneId' /\ Finished' /\ Retrying'
        /\ Attended' /\ Silenced'
        /\ \A x \in disk : RestsNext(x)
    BY <2>6, <2>7, QuietCore
  <2>9. Filed' /\ Resting'
    BY <1>1, <2>4, <2>7, <2>8, Rested, FreeLock DEF Inv, Filed
  <2>10. Busy'
    BY <1>1, <1>6, <2>4 DEF Inv, Busy, Runnable, EntryStatus
  <2> QED BY <2>7, <2>8, <2>9, <2>10 DEF Inv
<1> QED BY <1>5, <1>6 DEF Enqueue

LEMMA QueuedOnce ==
    ASSUME Inv, up
    PROVE  /\ \A p, q \in Queued : p.id = q.id => p = q
           /\ \A p, q \in Queued : p.run = q.run => p = q
<1>1. queue \in Seq(Entries) /\ Distinct(queue)
  BY DEF Inv, Typed, TypeOK, OneId
<1>2. \A p \in Queued : \E i \in DOMAIN queue : p = queue[i]
  BY <1>1, SeqRange DEF Queued
<1>3. \A p, q \in Queued : p.id = q.id => p = q
  BY <1>1, <1>2 DEF Distinct
<1>4. Queued \subseteq Present
  BY DEF Present, Placed
<1>5. \A p, q \in Queued : p.run = q.run => p.id = q.id
  BY <1>4 DEF Inv, Named
<1> QED BY <1>3, <1>5

LEMMA Restated ==
    ASSUME NEW e \in Entries, NEW st \in Statuses
    PROVE  /\ [e EXCEPT !.st = st] \in Entries
           /\ [e EXCEPT !.st = st].st = st /\ Same([e EXCEPT !.st = st], e)
  BY DEF Entries, Same

LEMMA PauseQueuedKeeps ==
    ASSUME Inv, NEW t \in Tasks, PauseQueued(t)
    PROVE  Inv'
<1>1. PICK e \in Queued : /\ e.task = t
                          /\ disk' = WithoutTask(disk, t) \cup {[e EXCEPT !.id = fresh + 1, !.st = "paused"]}
                          /\ queue' = Keep(queue, Queued \ {e})
  BY DEF PauseQueued
<1>2. /\ up /\ lock = Free /\ ops' = ops + 1 /\ fresh' = fresh + 1
      /\ UNCHANGED <<up, active, batches, jobs, lock, fill, cancel, pause, cancels, closing,
                     snaps, infl, file, faults, limit, hist>>
  BY DEF PauseQueued, Locked, Command
<1> DEFINE x == [e EXCEPT !.id = fresh + 1, !.st = "paused"]
<1>3. fresh \in Nat /\ fresh' \in Nat /\ fresh <= fresh' /\ ops' \in Nat
  BY <1>2, Types
<1>4. e \in Entries /\ e \in Present /\ e \notin {} /\ e.run \in 1 .. fresh
  BY <1>2, Types, FreeLock
<1> HIDE DEF x
<1>5. x \in Entries /\ x.st = "paused" /\ x.id = fresh + 1 /\ x.run = e.run /\ x.task = e.task
  <2>1. PICK n \in Nat : n = fresh + 1
    BY <1>3
  <2>2. "paused" \in Statuses /\ e.run \in Nat
    BY <1>4, Types DEF Statuses
  <2>3. x = [e EXCEPT !.id = n, !.st = "paused"]
    BY <2>1 DEF x
  <2>4. n \in Nat /\ "paused" \in Statuses /\ e \in Entries
    BY <1>4, <2>2
  <2> HIDE DEF x
  <2>5. x \in Entries /\ x.st = "paused" /\ x.id = n /\ x.run = e.run /\ x.task = e.task
    BY <2>3, <2>4 DEF Entries
  <2> QED BY <2>1, <2>5
<1>6. disk' = WithoutTask(disk, t) \cup {x}
  BY <1>1 DEF x
<1>7. WithoutTask(disk, t) \subseteq disk
  BY DEF WithoutTask
<1>8. /\ ~Taken /\ Voided = hist.void /\ queue \in Seq(Entries) /\ Distinct(queue)
      /\ \A y \in Present \cup disk : y.id \in 1 .. fresh /\ y.run \in 1 .. fresh
      /\ \A j \in jobs : ~Requeueing(j)
  BY <1>2, FreeLock
<1>9. /\ ~Taken' /\ ~Moving' /\ lock' \notin RemoveType
  BY <1>2, FreeIs
<1>10. /\ \A y \in active' : \E f \in active : Same(y, f)
       /\ \A y, f \in active' : y.id = f.id => y = f
       /\ \A y \in Pictured' : \E f \in Present : Same(y, f)
       /\ Picture(active') /\ Picture(infl') /\ snaps' \in Seq(SnapType)
       /\ \A n \in DOMAIN snaps' : IsFiniteSet(snaps'[n].content)
       /\ \A n \in DOMAIN snaps' : snaps'[n].content \in SUBSET Entries
  BY <1>2, PicturesStay
<1>11. queue' \in Seq(Entries) /\ Distinct(queue') /\ Queued' = Queued \ {e}
  <2>1. ToSet(queue') = ToSet(queue) \cap (Queued \ {e})
    BY <1>1, <1>8, KeepRange
  <2> QED BY <1>1, <1>8, <2>1, KeepRange, KeepDistinct DEF Queued
<1>12. Voided' = Voided
  BY <1>2, <1>8, <1>9 DEF Voided
<1>13. \A y \in disk' : /\ y.id \in 1 .. fresh'
                        /\ \E z \in Present \cup disk : y.run = z.run /\ y.task = z.task
  <2>1. ASSUME NEW y \in disk'
        PROVE  y.id \in 1 .. fresh' /\ \E z \in Present \cup disk : y.run = z.run /\ y.task = z.task
    <3>1. CASE y = x
      BY <1>2, <1>3, <1>4, <1>5, <3>1
    <3>2. CASE y \in disk
      BY <1>2, <1>3, <1>8, <3>2
    <3> QED BY <1>6, <1>7, <2>1, <3>1, <3>2
  <2> QED BY <2>1
<1>14. Quiet({})
  <2>1. \A r \in cancel : r \in cancel'
    BY <1>2
  <2> QED BY <1>2, <1>3, <1>8, <1>9, <1>10, <1>11, <1>12, <1>13, <2>1 DEF Quiet
<1>15. Picture(disk') /\ (\A y \in disk' : y.st # "active")
  <2>1. Picture(disk) /\ (\A y \in disk : y.st # "active")
    BY <1>2, FreeLock
  <2>2. IsFiniteSet(disk \cup {x}) /\ disk' \subseteq disk \cup {x}
    BY <1>6, <1>7, <2>1, FS_AddElement DEF Picture
  <2>3. IsFiniteSet(disk')
    BY <2>2, FS_Subset
  <2> QED BY <1>5, <2>1, <2>2, <2>3 DEF Picture
<1>16. Typed'
  <2>1. file' \in FileType
    BY <1>2, Types, Files
  <2>2. \A q \in Queued' : q.st \in Pausable
    BY <1>2, <1>11, FreeLock
  <2> QED BY <1>2, <1>3, <1>10, <1>11, <1>14, <1>15, <2>1, <2>2, Types, QuietTyped
<1>17. /\ Down' /\ Numbered' /\ Named' /\ Apart' /\ OneId' /\ Finished' /\ Retrying'
       /\ Attended' /\ Silenced'
       /\ \A y \in disk : RestsNext(y)
  BY <1>14, <1>16, QuietCore
<1>18. RestsNext(x)
  <2>1. \A l \in jobs : l.entry.run # e.run
    BY <1>8, OneRun
  <2>2. \A l \in jobs : l.entry.id # x.id
    BY <1>3, <1>5, JobParts
  <2>3. \A q \in Queued' : q.run # e.run
    BY <1>2, <1>11, QueuedOnce
  <2> QED BY <1>2, <1>5, <1>9, <2>1, <2>2, <2>3 DEF RestsNext
<1>19. Filed' /\ Resting'
  <2>1. \A y \in disk : y.id # x.id
    BY <1>3, <1>5, <1>8
  <2>2. \A q \in Queued' : q.id # x.id /\ q \in Queued
    BY <1>3, <1>5, <1>8, <1>11 DEF Present, Placed
  <2>3. \A y, f \in disk' : y.id = f.id => y = f
    BY <1>2, <1>6, <1>7, <2>1, FreeLock
  <2>4. \A y \in disk' : RestsNext(y)
    BY <1>6, <1>7, <1>17, <1>18
  <2>5. \A y \in disk' : y.st # "queued" => \A q \in Queued' : q.st = "queued" => q.id # y.id
    BY <1>2, <1>6, <1>7, <2>2 DEF Inv, Filed
  <2> QED BY <1>16, <2>3, <2>4, <2>5, Rested
<1>20. Busy'
  BY <1>2, <1>11 DEF Inv, Busy, Runnable, EntryStatus
<1> QED BY <1>16, <1>17, <1>19, <1>20 DEF Inv

LEMMA PausedQueue ==
    ASSUME Inv, up, NEW paused, paused = [i \in DOMAIN queue |-> [queue[i] EXCEPT !.st = "paused"]]
    PROVE  /\ paused \in Seq(Entries) /\ Distinct(paused)
           /\ \A p \in ToSet(paused) : p.st = "paused" /\ \E q \in Queued : Same(p, q)
           /\ \A p, r \in ToSet(paused) : p.id = r.id => p = r
<1>1. queue \in Seq(Entries) /\ Distinct(queue)
  BY DEF Inv, Typed, TypeOK, OneId
<1>2. DOMAIN queue = 1 .. Len(queue) /\ Len(queue) \in Nat
      /\ \A i \in DOMAIN queue : queue[i] \in Entries
  BY <1>1, LenProperties, ElementOfSeq
<1>3. "paused" \in Statuses
  BY DEF Statuses
<1>4. DOMAIN paused = DOMAIN queue
      /\ \A i \in DOMAIN queue : /\ paused[i] \in Entries /\ paused[i].st = "paused"
                                 /\ Same(paused[i], queue[i])
  BY <1>2, <1>3, Restated
<1>5. paused = [i \in DOMAIN queue |-> paused[i]]
  OBVIOUS
<1> HIDE DEF Distinct
<1>6. paused \in [1 .. Len(queue) -> Entries]
  BY <1>2, <1>4, <1>5
<1>7. paused \in Seq(Entries)
  BY <1>2, <1>6, SeqDef
<1>8. Distinct(paused)
  BY <1>1, <1>4 DEF Distinct, Same
<1>9. \A p \in ToSet(paused) : \E i \in DOMAIN queue : p = paused[i]
  BY <1>4 DEF ToSet
<1>10. \A i \in DOMAIN queue : queue[i] \in Queued
  BY DEF Queued, ToSet
<1>11. ASSUME NEW p \in ToSet(paused), NEW r \in ToSet(paused), p.id = r.id PROVE p = r
  <2>1. PICK i, k \in DOMAIN paused : p = paused[i] /\ r = paused[k]
    BY <1>4, <1>9
  <2> QED BY <1>8, <1>11, <2>1 DEF Distinct
<1>12. ASSUME NEW p \in ToSet(paused) PROVE p.st = "paused" /\ \E q \in Queued : Same(p, q)
  <2>1. PICK i \in DOMAIN queue : p = paused[i]
    BY <1>9
  <2>2. queue[i] \in Queued
    BY <1>10
  <2> QED BY <1>4, <2>1, <2>2
<1> QED BY <1>7, <1>8, <1>11, <1>12

LEMMA PauseAllKeeps ==
    ASSUME Inv, PauseAll
    PROVE  Inv'
<1> DEFINE runs == { j.entry.run : j \in Writing }
           f == [e \in active |-> IF e.run \in runs THEN [e EXCEPT !.st = "pausing"] ELSE e]
           content == { f[e] : e \in active }
           paused == [i \in DOMAIN queue |-> [queue[i] EXCEPT !.st = "paused"]]
<1>1. /\ up /\ lock = Free /\ ops' = ops + 1
      /\ cancel' = cancel \cup runs /\ pause' = pause \cup runs
      /\ active' = content /\ InflightWritten(content)
      /\ UNCHANGED <<up, batches, jobs, lock, fill, cancels, closing, file, fresh, limit, hist>>
  BY DEF PauseAll, Locked, Command
<1>2. \/ disk' = PersistQueue(disk, paused) /\ queue' = <<>> /\ UNCHANGED faults
      \/ faults' = faults + 1 /\ queue' = paused /\ UNCHANGED disk
  BY DEF PauseAll
<1>3. runs \subseteq Nat
  BY Types DEF Writing
<1>4. Picture(content) /\ (\A x \in content : \E e \in active : Same(x, e))
      /\ (\A x, y \in content : x.id = y.id => x = y)
  <2>1. Picture(active) /\ \A e, g \in active : e.id = g.id => e = g
    BY DEF Inv, Typed, TypeOK, Picture, Attended
  <2>2. "pausing" \in Statuses
    BY DEF Statuses
  <2>3. f \in [active -> Entries] /\ \A e \in active : Same(f[e], e)
    BY <2>1, <2>2, Restated DEF Picture, Same
  <2> HIDE DEF f
  <2> QED BY <2>1, <2>3, Relabelled
<1>5. paused \in Seq(Entries) /\ Distinct(paused)
      /\ (\A p \in ToSet(paused) : p.st = "paused" /\ \E q \in Queued : Same(p, q))
      /\ (\A p, r \in ToSet(paused) : p.id = r.id => p = r)
  BY <1>1, PausedQueue
<1> HIDE DEF runs, f, paused, content
<1>6. /\ ~Taken /\ Voided = hist.void
      /\ Picture(disk) /\ (\A e \in disk : e.st # "active")
      /\ (\A j \in jobs : ~Requeueing(j))
      /\ \A e, g \in disk : e.id = g.id => e = g
      /\ \A y \in Present \cup disk : y.id \in 1 .. fresh /\ y.run \in 1 .. fresh
  BY <1>1, FreeLock
<1>7. /\ ~Taken' /\ ~Moving' /\ lock' \notin RemoveType
  BY <1>1, FreeIs
<1>8. infl' = content /\ snaps' = <<>> /\ snaps' \in Seq(SnapType) /\ DOMAIN snaps' = {}
  BY <1>1, Types, AllDropped DEF SnapsFrom
<1>9. \A x \in Pictured' : \E y \in Present : Same(x, y)
  <2>1. Pictured' = content
    BY <1>1, <1>8 DEF Pictured
  <2>2. active \subseteq Present
    BY DEF Present, Pictured
  <2> QED BY <1>4, <2>1, <2>2
<1>10. /\ queue' \in Seq(Entries) /\ Distinct(queue')
       /\ \A q \in Queued' : q.st = "paused" /\ \E p \in Queued : Same(q, p)
  <2>1. CASE queue' = <<>>
    <3>1. Queued' = {} /\ <<>> \in Seq(Entries) /\ Distinct(<<>>)
      BY <2>1 DEF Queued, ToSet, Distinct
    <3> QED BY <2>1, <3>1
  <2>2. CASE queue' = paused
    BY <1>5, <2>2 DEF Queued
  <2> QED BY <1>2, <2>1, <2>2
<1>11. /\ \A x \in disk' : x \in disk \/ x \in ToSet(paused)
       /\ Picture(disk') /\ \A x \in disk' : x.st # "active"
  <2>1. \A p \in ToSet(paused) : p.st \in Pausable
    BY <1>5 DEF Pausable
  <2> QED BY <1>1, <1>2, <1>5, <1>6, <2>1, PersistTyped
<1>12. \A x \in disk' : /\ x.id \in 1 .. fresh'
                        /\ \E y \in Present \cup disk : x.run = y.run /\ x.task = y.task
  <2>1. Queued \subseteq Present
    BY DEF Present, Placed
  <2> QED BY <1>1, <1>5, <1>6, <1>11, <2>1 DEF Same
<1>13. Voided' = Voided
  BY <1>1, <1>6, <1>7 DEF Voided
<1>14. Quiet({})
  BY <1>1, <1>4, <1>6, <1>7, <1>9, <1>10, <1>12, <1>13, Types DEF Quiet
<1>15. Typed'
  <2>1. file' \in FileType /\ cancel' \in SUBSET Nat /\ pause' \in SUBSET Nat
    BY <1>1, <1>3, Types, Files
  <2>2. \A q \in Queued' : q.st \in Pausable
    BY <1>10 DEF Pausable
  <2>3. ops' \in Nat
    BY <1>1, Types
  <2>4. faults' \in Nat
    BY <1>2, Types
  <2> QED BY <1>1, <1>4, <1>8, <1>10, <1>11, <1>14, <2>1, <2>2, <2>3, <2>4, Types, QuietTyped
<1>16. /\ Down' /\ Numbered' /\ Named' /\ Apart' /\ OneId' /\ Finished' /\ Retrying'
       /\ Attended' /\ Silenced'
       /\ \A y \in disk : RestsNext(y)
  BY <1>14, <1>15, QuietCore
<1>17. ASSUME NEW p \in ToSet(paused) PROVE RestsNext(p)
  <2>1. PICK q \in Queued : Same(p, q)
    BY <1>5
  <2>2. \A l \in jobs : l.entry.run # p.run
    BY <1>6, <2>1, OneRun DEF Same
  <2>3. \A l \in jobs : l.pc # "clear" => l.entry.id # p.id
    BY <1>6, <2>1 DEF Inv, OneId, Same
  <2>4. \A n \in Queued' : n.st # "queued"
    BY <1>10
  <2> QED BY <1>1, <1>7, <2>2, <2>3, <2>4 DEF RestsNext
<1>18. Filed' /\ Resting'
  <2>1. \A x, y \in disk' : x.id = y.id => x = y
    <3>1. CASE disk' = PersistQueue(disk, paused)
      BY <1>5, <1>6, <3>1 DEF PersistQueue, Ids
    <3>2. CASE disk' = disk
      BY <1>6, <3>2
    <3> QED BY <1>2, <3>1, <3>2
  <2>2. \A x \in disk' : RestsNext(x)
    BY <1>11, <1>16, <1>17
  <2>3. \A q \in Queued' : q.st # "queued"
    BY <1>10
  <2> QED BY <1>15, <2>1, <2>2, <2>3, Rested
<1>19. Busy'
  BY <1>10 DEF Busy, Runnable, EntryStatus
<1> QED BY <1>15, <1>16, <1>18, <1>19 DEF Inv

LEMMA ResumeKeeps ==
    ASSUME Inv, NEW t \in Tasks, Resume(t)
    PROVE  Inv'
<1>1. PICK e \in disk :
        /\ e.task = t
        /\ fresh' = fresh + 1
        /\ cancel' = cancel \ {e.run} /\ pause' = pause \ {e.run}
        /\ queue' = Append(queue, [e EXCEPT !.id = fresh + 1, !.run = fresh + 1, !.st = "queued"])
        /\ disk' = PersistQueue(disk \ {e},
             Append(queue, [e EXCEPT !.id = fresh + 1, !.run = fresh + 1, !.st = "queued"]))
        /\ hist' = [hist EXCEPT !.spent = @ \cup Spent({e})]
  BY DEF Resume
<1> DEFINE x == [e EXCEPT !.id = fresh + 1, !.run = fresh + 1, !.st = "queued"]
           new == <<x>>
<1>2. queue' = Append(queue, x) /\ disk' = PersistQueue(disk \ {e}, Append(queue, x))
  BY <1>1
<1>3. /\ up /\ lock = Free /\ ops' = ops + 1 /\ fill' = TRUE
      /\ t \notin TasksOf(active) \cup TasksOf(Queued)
      /\ UNCHANGED <<up, active, batches, jobs, lock, cancels, closing, snaps, infl, file,
                     faults, limit>>
  BY DEF Resume, Locked, Command
<1>4. fresh \in Nat /\ fresh' \in Nat /\ fresh <= fresh' /\ ops' \in Nat
  BY <1>1, <1>3, Types
<1>5. e \in Entries /\ e.run \in 1 .. fresh
  BY <1>3, Types, FreeLock
<1>6. x \in Entries /\ x.st = "queued" /\ x.id = fresh' /\ x.run = fresh'
  <2>1. PICK n \in Nat : n = fresh + 1
    BY <1>4
  <2>2. x = [e EXCEPT !.id = n, !.run = n, !.st = "queued"]
    BY <2>1
  <2>3. fresh' = n
    BY <1>1, <2>1
  <2> HIDE DEF x
  <2>4. "queued" \in Statuses
    BY DEF Statuses
  <2> QED BY <1>5, <2>2, <2>3, <2>4 DEF Entries
<1> HIDE DEF x
<1>7. \A y \in Present \cup disk : y.id \in 1 .. fresh /\ y.run \in 1 .. fresh
  BY <1>3, FreeLock
<1>8. new \in Seq(Entries) /\ ToSet(new) = {x} /\ Distinct(new) /\ queue' = queue \o new
  <2>1. queue \in Seq(Entries)
    BY <1>3, FreeLock
  <2> QED BY <1>2, <1>6, <2>1, Single, Appended
<1> HIDE DEF new
<1>9. /\ hist' \in History /\ hist'.void = hist.void /\ hist'.settled = hist.settled
  <2>1. Spent({e}) \in SUBSET Tasks
    BY <1>5 DEF Spent, TasksOf, Entries
  <2> QED BY <1>1, <2>1, HistoryGrows
<1>10. \A l \in jobs : l.entry.id # x.id
  BY <1>1, <1>4, <1>6, JobParts
<1>11. \A q \in Queued : q.id # x.id
  <2>1. \A q \in Queued : q.id \in 1 .. fresh
    BY <1>3, FreeLock
  <2> QED BY <1>1, <1>4, <1>6, <2>1
<1>12. \A y \in ToSet(new) : /\ y.st = "queued"
                             /\ y.id \in 1 .. fresh' /\ y.run \in fresh + 1 .. fresh'
                             /\ \A l \in jobs : l.pc # "clear" => l.entry.id # y.id
                             /\ \A q \in Queued : q.id # y.id
  BY <1>1, <1>4, <1>6, <1>8, <1>10, <1>11
<1>13. \A y, z \in ToSet(new) : y.run = z.run => y = z
  BY <1>8
<1>14. \A r \in cancel \ cancel' : r \in 1 .. fresh /\ ~Starts(r)
  <2>1. ASSUME NEW r \in cancel \ cancel' PROVE r = e.run
    BY <1>1
  <2>2. \A q \in Queued : q.run # e.run
    <3>1. \A q \in Queued : q.task # e.task
      BY <1>1, <1>3 DEF TasksOf
    <3>2. \A q \in Queued : q \in Present
      BY <1>3, FreeLock
    <3>3. \A q \in Present : q.run = e.run => q.task = e.task
      BY <1>3 DEF Inv, Named
    <3> QED BY <3>1, <3>2, <3>3
  <2>3. \A l \in jobs : l.entry.run = e.run => l.pc \in Late
    <3>1. \A l \in jobs : ~Requeueing(l)
      BY <1>3, FreeLock
    <3> QED BY <1>3, <3>1 DEF Inv, Resting
  <2>4. Held = {}
    BY <1>3, FreeLock
  <2> QED BY <1>5, <2>1, <2>2, <2>3, <2>4 DEF Starts
<1>15. disk' = PersistQueue(disk \ {e}, queue') /\ faults' \in Nat
  BY <1>2, <1>3, Types
<1>16. disk \ {e} \subseteq disk /\ cancel' \subseteq cancel /\ pause' \subseteq pause
  BY <1>1
<1> QED BY <1>3, <1>4, <1>8, <1>9, <1>12, <1>13, <1>14, <1>15, <1>16, QueueGrows

LEMMA ResumeAllKeeps ==
    ASSUME Inv, ResumeAll
    PROVE  Inv'
<1> DEFINE idle == { e \in disk : e.st = "paused" /\ e.id \notin Ids(Queued) }
           order == SetToSeq(idle)
           again == [i \in DOMAIN order |-> [order[i] EXCEPT !.run = fresh + i, !.st = "queued"]]
<1>1. /\ up /\ lock = Free /\ ops' = ops + 1 /\ fill' = TRUE
      /\ fresh' = fresh + Len(order)
      /\ queue' = queue \o again /\ disk' = PersistQueue(disk, queue \o again)
      /\ hist' = [hist EXCEPT !.spent = @ \cup Spent(idle)]
      /\ UNCHANGED <<up, active, batches, jobs, lock, cancel, pause, cancels, closing, snaps,
                     infl, file, faults, limit>>
  BY DEF ResumeAll, Locked, Command
<1>2. /\ idle \subseteq disk /\ IsFiniteSet(idle) /\ idle \subseteq Entries
      /\ \A e, f \in disk : e.id = f.id => e = f
      /\ \A e \in idle : e.st = "paused" /\ e.id \in 1 .. fresh
      /\ \A e \in idle : \A q \in Queued : q.id # e.id
  <2>1. Picture(disk) /\ \A e \in disk : e.id \in 1 .. fresh
    BY <1>1, FreeLock
  <2>2. \A e, f \in disk : e.id = f.id => e = f
    BY <1>1, FreeLock
  <2> QED BY <2>1, <2>2, FS_Subset DEF Picture, Ids
<1> HIDE DEF idle
<1>3. /\ Len(order) \in Nat /\ DOMAIN order = 1 .. Len(order)
      /\ \A i, k \in DOMAIN order : order[i] = order[k] => i = k
      /\ \A i \in DOMAIN order : order[i] \in idle
  BY <1>2, SetToSeqOrders
<1> HIDE DEF order
<1>4. fresh \in Nat /\ fresh' \in Nat /\ fresh <= fresh' /\ ops' \in Nat /\ faults' \in Nat
  <2>1. fresh \in Nat /\ ops \in Nat /\ faults \in Nat
    BY Types
  <2>2. fresh' = fresh + Len(order)
    BY <1>1
  <2>3. fresh' \in Nat /\ fresh <= fresh'
    BY <1>3, <2>1, <2>2
  <2>4. ops' = ops + 1 /\ faults' = faults
    BY <1>1
  <2>5. ops' \in Nat /\ faults' \in Nat
    BY <2>1, <2>4
  <2> QED BY <2>1, <2>3, <2>5
<1>5. ASSUME NEW i \in DOMAIN order
      PROVE  /\ again[i] \in Entries /\ again[i].st = "queued" /\ again[i].id = order[i].id
             /\ again[i].run = fresh + i
  <2>1. PICK n \in Nat : n = fresh + i
    BY <1>3, <1>4
  <2>2. again[i] = [order[i] EXCEPT !.run = n, !.st = "queued"]
    BY <2>1
  <2>3. order[i] \in Entries /\ "queued" \in Statuses
    BY <1>2, <1>3 DEF Statuses
  <2> HIDE DEF again
  <2>4. again[i] \in Entries /\ again[i].st = "queued" /\ again[i].id = order[i].id /\ again[i].run = n
    BY <2>2, <2>3 DEF Entries
  <2> QED BY <2>1, <2>4
<1>6. DOMAIN again = DOMAIN order /\ again = [i \in DOMAIN order |-> again[i]]
  OBVIOUS
<1> HIDE DEF again
<1>7. again \in Seq(Entries)
  <2>1. again \in [1 .. Len(order) -> Entries]
    BY <1>3, <1>5, <1>6
  <2> QED BY <1>3, <2>1, SeqDef
<1>8. \A x \in ToSet(again) : \E i \in DOMAIN order : x = again[i]
  BY <1>6 DEF ToSet
<1>9. ASSUME NEW i \in DOMAIN order, NEW k \in DOMAIN order, again[i].id = again[k].id PROVE i = k
  <2>1. order[i].id = order[k].id /\ order[i] \in disk /\ order[k] \in disk
    BY <1>2, <1>3, <1>5, <1>9
  <2> QED BY <1>2, <1>3, <2>1
<1>10. Distinct(again)
  BY <1>6, <1>9 DEF Distinct
<1>11. ASSUME NEW x \in ToSet(again)
       PROVE  /\ x.st = "queued"
              /\ x.id \in 1 .. fresh' /\ x.run \in fresh + 1 .. fresh'
              /\ \A l \in jobs : l.pc # "clear" => l.entry.id # x.id
              /\ \A q \in Queued : q.id # x.id
  <2>1. PICK i \in DOMAIN order : x = again[i]
    BY <1>8
  <2>2. order[i] \in idle /\ order[i].st = "paused" /\ order[i] \in disk
    BY <1>2, <1>3
  <2>3. x.st = "queued" /\ x.id = order[i].id /\ x.run = fresh + i
    BY <1>5, <2>1
  <2>4. x.run \in fresh + 1 .. fresh'
    BY <1>1, <1>3, <1>4, <2>3
  <2>5. x.id \in 1 .. fresh'
    BY <1>2, <1>4, <2>2, <2>3
  <2>6. \A l \in jobs : l.pc # "clear" => l.entry.id # x.id
    BY <1>1, <2>2, <2>3 DEF Inv, Filed
  <2>7. \A q \in Queued : q.id # x.id
    BY <1>2, <2>2, <2>3
  <2> QED BY <2>3, <2>4, <2>5, <2>6, <2>7
<1>12. ASSUME NEW x \in ToSet(again), NEW y \in ToSet(again), x.run = y.run PROVE x = y
  <2>1. PICK i \in DOMAIN order : x = again[i]
    BY <1>8
  <2>2. PICK k \in DOMAIN order : y = again[k]
    BY <1>8
  <2>3. fresh + i = fresh + k /\ i \in Nat /\ k \in Nat
    BY <1>3, <1>5, <1>12, <2>1, <2>2
  <2>4. i = k
    BY <1>4, <2>3
  <2> QED BY <2>1, <2>2, <2>4
<1>13. /\ hist' \in History /\ hist'.void = hist.void /\ hist'.settled = hist.settled
  <2>1. Spent(idle) \in SUBSET Tasks
    BY <1>2 DEF Spent, TasksOf, Entries
  <2> QED BY <1>1, <2>1, HistoryGrows
<1>14. disk' = PersistQueue(disk, queue') /\ disk \subseteq disk /\ cancel' \subseteq cancel
       /\ pause' \subseteq pause /\ cancel \ cancel' = {}
  BY <1>1
<1> QED BY <1>1, <1>4, <1>7, <1>10, <1>11, <1>12, <1>13, <1>14, QueueGrows

LEMMA ClearStatusKeeps ==
    ASSUME Inv, NEW st, ClearStatus(st)
    PROVE  Inv'
<1> DEFINE stay(S) == { e \in S : e.st # st }
           gone == { e \in Known \cup infl : e.st = st }
           D == { e \in stay(disk) : e.id \notin Ids(Queued) }
<1>1. /\ up /\ lock = Free /\ ops' = ops + 1
      /\ file' = [t \in Tasks |-> IF t \in TasksOf(gone) /\ file[t].kind = "part"
                                  THEN NoFile ELSE file[t]]
      /\ disk' = D \cup Queued
      /\ InflightWritten(stay(infl)) /\ active' = stay(active)
      /\ batches' \subseteq batches
      /\ hist' = [hist EXCEPT !.dropped = @ \cup TasksOf(gone)]
      /\ UNCHANGED <<up, queue, jobs, lock, fill, cancel, pause, cancels, closing, fresh,
                     faults, limit>>
  BY DEF ClearStatus, Locked, Command
<1>2. stay(infl) \subseteq infl /\ active' \subseteq active
  BY <1>1
<1>3. gone \subseteq Entries
  BY Types DEF Known
<1>4. D \subseteq disk /\ \A e \in D : \A q \in Queued : q.id # e.id
  BY DEF Ids
<1> HIDE DEF D
<1>5. /\ infl' = stay(infl) /\ Picture(infl') /\ snaps' = <<>> /\ snaps' \in Seq(SnapType)
      /\ DOMAIN snaps' = {} /\ Pictured' \subseteq Pictured
  BY <1>1, <1>2, Removed
<1> HIDE DEF stay, gone
<1>6. /\ ~Taken /\ Voided = hist.void /\ queue \in Seq(Entries) /\ Distinct(queue)
      /\ Picture(disk) /\ (\A e \in disk : e.st # "active")
      /\ (\A e \in Queued : e.st \in Pausable) /\ (\A e \in Queued : e \in Present)
      /\ \A e, g \in disk : e.id = g.id => e = g
      /\ \A y \in Present \cup disk : y.id \in 1 .. fresh /\ y.run \in 1 .. fresh
  BY <1>1, FreeLock
<1>7. /\ ~Taken' /\ ~Moving' /\ lock' \notin RemoveType
  BY <1>1, FreeIs
<1>8. Queued' = Queued /\ queue' = queue
  BY <1>1 DEF Queued
<1>9. /\ hist' \in History /\ hist'.void = hist.void /\ hist'.settled = hist.settled
      /\ hist'.parked = hist.parked
  <2>1. TasksOf(gone) \in SUBSET Tasks
    BY <1>3 DEF TasksOf, Entries
  <2> QED BY <1>1, <2>1, HistoryGrows
<1>10. file' \in FileType /\ \A t \in Tasks : file'[t] = NoFile \/ file'[t] = file[t]
  <2>1. file \in FileType /\ NoFile \in [kind : {"none", "part", "final"}, run : Nat]
    BY Files DEF NoFile
  <2> QED BY <1>1, <2>1 DEF FileType
<1>11. /\ \A e \in active' : \E f \in active : Same(e, f)
       /\ \A e, f \in active' : e.id = f.id => e = f
       /\ \A e \in Pictured' : \E f \in Present : Same(e, f)
       /\ Picture(active')
  <2>1. Picture(active) /\ \A e, f \in active : e.id = f.id => e = f
    BY DEF Inv, Attended, Typed, TypeOK, Picture
  <2>2. Picture(active')
    BY <1>2, <2>1, FS_Subset DEF Picture
  <2> QED BY <1>2, <1>5, <2>1, <2>2 DEF Present, Same
<1>12. \A x \in disk' : x \in disk \/ x \in Queued
  BY <1>1, <1>4
<1>13. Picture(disk') /\ \A x \in disk' : x.st # "active"
  <2>1. Queued \subseteq Entries /\ IsFiniteSet(disk \cup Queued)
    BY <1>6, QueuedAre, FS_Union DEF Picture
  <2>2. IsFiniteSet(disk')
    BY <1>12, <2>1, FS_Subset
  <2> QED BY <1>6, <1>12, <2>1, <2>2 DEF Picture, Pausable
<1>14. Voided' = Voided
  BY <1>6, <1>7, <1>9 DEF Voided
<1>15. Quiet({})
  <2>1. \A x \in disk' : /\ x.id \in 1 .. fresh'
                         /\ \E y \in Present \cup disk : x.run = y.run /\ x.task = y.task
    BY <1>1, <1>6, <1>12
  <2>2. fresh \in Nat
    BY Types
  <2> QED BY <1>1, <1>6, <1>7, <1>8, <1>9, <1>10, <1>11, <1>14, <2>1, <2>2 DEF Quiet
<1>16. Typed'
  <2>1. ops' \in Nat
    BY <1>1, Types
  <2> QED BY <1>1, <1>5, <1>6, <1>8, <1>9, <1>10, <1>11, <1>13, <1>15, <2>1, Types, QuietTyped
<1>17. /\ Down' /\ Numbered' /\ Named' /\ Apart' /\ OneId' /\ Finished' /\ Retrying'
       /\ Attended' /\ Silenced'
       /\ \A y \in disk : RestsNext(y)
  BY <1>15, <1>16, QuietCore
<1>18. Filed' /\ Resting'
  <2>1. up' /\ disk' = D \cup Queued'
    BY <1>1, <1>8
  <2>2. \A e, f \in D : e.id = f.id => e = f
    BY <1>4, <1>6
  <2>3. \A e \in D : \A q \in Queued' : q.id # e.id
    BY <1>4, <1>8
  <2>4. \A e \in D : RestsNext(e)
    BY <1>4, <1>17
  <2> QED BY <1>16, <1>17, <2>1, <2>2, <2>3, <2>4, Written
<1>19. Busy'
  BY <1>1, <1>8, <1>9 DEF Inv, Busy, Runnable, EntryStatus
<1> QED BY <1>16, <1>17, <1>18, <1>19 DEF Inv

LEMMA CancelRemovesKeeps ==
    ASSUME Inv, NEW c \in cancels, CancelRemoves(c)
    PROVE  Inv'
<1>1. /\ up /\ lock = Free /\ Stopped(c.run)
      /\ file' = [file EXCEPT ![c.task] = NoFile]
      /\ disk' = WithoutTask(disk, c.task)
      /\ InflightWritten(WithoutTask(infl, c.task))
      /\ cancels' = cancels \ {c}
      /\ lock' = [op |-> "remove", step |-> "memory", entry |-> c]
      /\ hist' = [hist EXCEPT !.dropped = @ \cup {c.task}]
      /\ UNCHANGED <<up, queue, active, batches, jobs, fill, cancel, pause, closing, fresh,
                     ops, faults, limit>>
  BY DEF CancelRemoves, bounds
<1>2. c \in CancelType /\ c.task \in Tasks /\ c.run \in Nat
  BY Types DEF CancelType
<1>3. lock' \in RemoveType /\ ~Taken' /\ ~Moving' /\ lock'.entry = c /\ lock'.op = "remove"
  BY <1>1, <1>2 DEF RemoveType, Taken, Moving, MoveType, RetryType
<1>4. WithoutTask(infl, c.task) \subseteq infl /\ active' \subseteq active /\ disk' \subseteq disk
  BY <1>1 DEF WithoutTask
<1>5. /\ Picture(infl') /\ snaps' = <<>> /\ snaps' \in Seq(SnapType)
      /\ DOMAIN snaps' = {} /\ Pictured' \subseteq Pictured
  BY <1>1, <1>4, Removed
<1>6. /\ ~Taken /\ Voided = hist.void /\ queue \in Seq(Entries) /\ Distinct(queue)
      /\ Picture(disk) /\ (\A e \in disk : e.st # "active")
      /\ (\A e \in Queued : e.st \in Pausable)
      /\ \A e, g \in disk : e.id = g.id => e = g
      /\ \A y \in Present \cup disk : y.id \in 1 .. fresh /\ y.run \in 1 .. fresh
  BY <1>1, FreeLock
<1>7. Queued' = Queued /\ queue' = queue
  BY <1>1 DEF Queued
<1>8. /\ hist' \in History /\ hist'.void = hist.void /\ hist'.settled = hist.settled
      /\ hist'.parked = hist.parked
  <2>1. {c.task} \in SUBSET Tasks
    BY <1>2
  <2> QED BY <1>1, <2>1, HistoryGrows
<1>9. /\ file' \in FileType /\ file'[c.task] = NoFile
      /\ \A t \in Tasks : file'[t] = NoFile \/ (file'[t] = file[t] /\ t # c.task)
  <2>1. file \in FileType /\ NoFile \in [kind : {"none", "part", "final"}, run : Nat]
    BY Files DEF NoFile
  <2> QED BY <1>1, <1>2, <2>1 DEF FileType
<1>10. /\ \A e \in active' : \E f \in active : Same(e, f)
       /\ \A e, f \in active' : e.id = f.id => e = f
       /\ \A e \in Pictured' : \E f \in Present : Same(e, f)
       /\ Picture(active')
  <2>1. Picture(active) /\ \A e, f \in active : e.id = f.id => e = f
    BY DEF Inv, Attended, Typed, TypeOK, Picture
  <2> QED BY <1>1, <1>5, <2>1 DEF Present, Same
<1>11. Picture(disk') /\ \A x \in disk' : x.st # "active"
  BY <1>4, <1>6, FS_Subset DEF Picture
<1>12. Voided' = Voided \cup {c.run}
  BY <1>3, <1>6, <1>8 DEF Voided
<1>13. /\ Quelled(c.run) /\ c.run \in 1 .. fresh
       /\ \A l \in jobs : l.entry.run = c.run => l.pc \notin {"send", "stream"}
       /\ \A t \in Tasks : file'[t].kind # "none" => file'[t].run # c.run
  <2>1. Quelled(c.run) /\ c.run \in 1 .. fresh
    BY DEF Inv, Silenced, Numbered
  <2>2. \A l \in jobs : l.entry.run = c.run => l.pc \notin {"send", "stream"}
    BY <1>1 DEF Stopped, Writing
  <2>3. \A t \in Tasks : file[t].kind # "none" /\ file[t].run = c.run => t = c.task
    BY <1>1 DEF Inv, Named
  <2>4. NoFile.kind = "none"
    BY DEF NoFile
  <2> QED BY <1>9, <2>1, <2>2, <2>3, <2>4
<1>14. Quiet({})
  <2>1. \A x \in disk' : /\ x.id \in 1 .. fresh'
                         /\ \E y \in Present \cup disk : x.run = y.run /\ x.task = y.task
    BY <1>1, <1>4, <1>6
  <2>2. fresh \in Nat
    BY Types
  <2> QED BY <1>1, <1>3, <1>6, <1>7, <1>8, <1>9, <1>10, <1>12, <1>13, <2>1, <2>2 DEF Quiet
<1>15. Typed'
  <2>1. cancels' \subseteq CancelType /\ faults' \in Nat /\ ops' \in Nat
    BY <1>1, Types
  <2> QED BY <1>1, <1>3, <1>5, <1>6, <1>7, <1>8, <1>9, <1>10, <1>11, <1>14, <2>1, Types, QuietTyped
<1>16. /\ Down' /\ Numbered' /\ Named' /\ Apart' /\ OneId' /\ Finished' /\ Retrying'
       /\ Attended' /\ Silenced'
       /\ \A y \in disk : RestsNext(y)
  BY <1>14, <1>15, QuietCore
<1>17. Filed' /\ Resting'
  <2>1. \A y \in disk' : y.st # "queued" => \A q \in Queued' : q.st = "queued" => q.id # y.id
    BY <1>1, <1>4, <1>7 DEF Inv, Filed
  <2>2. \A y, z \in disk' : y.id = z.id => y = z
    BY <1>4, <1>6
  <2>3. \A y \in disk' : RestsNext(y)
    BY <1>4, <1>16
  <2> QED BY <1>15, <2>1, <2>2, <2>3, Rested
<1>18. Busy'
  <2>1. lock.op # "fill"
    BY <1>1 DEF Free
  <2> QED BY <1>1, <1>7, <1>8, <2>1 DEF Inv, Busy, Runnable, EntryStatus
<1> QED BY <1>15, <1>16, <1>17, <1>18 DEF Inv

LEMMA CancelForgetsKeeps ==
    ASSUME Inv, CancelForgets
    PROVE  Inv'
<1>1. /\ up /\ lock.op = "remove"
      /\ active' = WithoutTask(active, lock.entry.task)
      /\ queue' = Keep(queue, WithoutTask(Queued, lock.entry.task))
      /\ lock' = Free
      /\ hist' = [hist EXCEPT !.void = @ \cup {lock.entry.run}]
      /\ UNCHANGED <<up, batches, jobs, fill, cancel, pause, cancels, closing, snaps, disk,
                     infl, file, fresh, ops, faults, limit>>
  BY DEF CancelForgets, Holds, bounds
<1>2. /\ lock \in RemoveType /\ ~Taken /\ ~Moving /\ lock \notin RetryType
      /\ lock.entry \in CancelType
  BY <1>1, Types, LockKinds DEF Typed
<1>3. /\ ~Taken' /\ ~Moving' /\ lock' \notin RemoveType
  BY <1>1, FreeIs
<1>4. lock.entry.run \in Nat
  BY <1>2 DEF CancelType
<1>5. /\ hist' \in History /\ hist'.void = hist.void \cup {lock.entry.run}
      /\ hist'.settled = hist.settled /\ hist'.parked = hist.parked
  <2>1. hist \in History
    BY Types
  <2> QED BY <1>1, <1>4, <2>1 DEF History
<1>6. Voided' = Voided
  BY <1>2, <1>3, <1>5 DEF Voided
<1>7. queue' \in Seq(Entries) /\ Distinct(queue') /\ Queued' \subseteq Queued
  <2>1. queue \in Seq(Entries) /\ Distinct(queue)
    BY Types DEF Inv, OneId, TypeOK
  <2> QED BY <1>1, <2>1, KeepRange, KeepDistinct DEF Queued
<1>8. active' \subseteq active
  BY <1>1 DEF WithoutTask
<1>9. /\ \A e \in active' : \E f \in active : Same(e, f)
      /\ \A e, f \in active' : e.id = f.id => e = f
      /\ \A e \in Pictured' : \E f \in Present : Same(e, f)
      /\ Picture(active') /\ Picture(infl')
  <2>1. Picture(active) /\ Picture(infl) /\ \A e, f \in active : e.id = f.id => e = f
    BY DEF Inv, Attended, Typed, TypeOK, Picture
  <2>2. Picture(active')
    BY <1>8, <2>1, FS_Subset DEF Picture
  <2>3. Pictured' \subseteq Pictured
    BY <1>1, <1>8 DEF Pictured
  <2> QED BY <1>1, <1>8, <2>1, <2>2, <2>3 DEF Present, Same
<1>10. /\ Picture(disk') /\ (\A e \in disk' : e.st # "active")
       /\ \A x \in disk' : x \in disk /\ x.id \in 1 .. fresh
       /\ \A q \in Queued' : q.st \in Pausable
  <2>1. Picture(disk) /\ (\A e \in disk : e.st # "active") /\ \A q \in Queued : q.st \in Pausable
    BY <1>1, Types DEF Typed, Picture
  <2>2. \A x \in disk : x.id \in 1 .. fresh
    BY <1>1 DEF Inv, Numbered
  <2> QED BY <1>1, <1>7, <2>1, <2>2
<1>11. Quiet({})
  <2>1. fresh \in Nat
    BY Types
  <2> QED BY <1>1, <1>2, <1>3, <1>5, <1>6, <1>7, <1>9, <1>10, <2>1 DEF Quiet, Voided
<1>12. Typed'
  <2>1. /\ snaps' \in Seq(SnapType)
        /\ \A n \in DOMAIN snaps' : IsFiniteSet(snaps'[n].content)
        /\ \A n \in DOMAIN snaps' : snaps'[n].content \in SUBSET Entries
    BY <1>1, Types DEF Typed, TypeOK
  <2>2. file' \in FileType /\ ops' \in Nat /\ faults' \in Nat
    BY <1>1, Types, Files
  <2> QED BY <1>1, <1>5, <1>7, <1>9, <1>10, <1>11, <2>1, <2>2, Types, QuietTyped
<1>13. /\ Down' /\ Numbered' /\ Named' /\ Apart' /\ OneId' /\ Finished' /\ Retrying'
       /\ Attended' /\ Silenced'
       /\ \A y \in disk : RestsNext(y)
  BY <1>11, <1>12, QuietCore
<1>14. Filed' /\ Resting'
  <2>1. \A y \in disk' : y.st # "queued" => \A q \in Queued' : q.st = "queued" => q.id # y.id
    BY <1>1, <1>7, <1>10 DEF Inv, Filed
  <2>2. \A y, z \in disk' : y.id = z.id => y = z
    BY <1>1, <1>10 DEF Inv, Filed
  <2>3. \A y \in disk' : RestsNext(y)
    BY <1>10, <1>13
  <2> QED BY <1>12, <2>1, <2>2, <2>3, Rested
<1>15. Busy'
  BY <1>1, <1>5, <1>7 DEF Inv, Busy, Runnable, EntryStatus
<1> QED BY <1>12, <1>13, <1>14, <1>15 DEF Inv

-----------------------------------------------------------------------------
(* The end of the process, and the next one *)

LEMMA ForgottenKeeps ==
    ASSUME Inv, up, Forgotten, Picture(disk'), infl' \subseteq infl,
           UNCHANGED <<file, fresh, limit, hist>>, ops' \in Nat, faults' \in Nat
    PROVE  Inv'
<1>1. /\ up' = FALSE /\ queue' = <<>> /\ active' = {} /\ batches' = {} /\ jobs' = {}
      /\ lock' = Free /\ fill' = FALSE /\ closing' = FALSE
      /\ cancel' = {} /\ pause' = {} /\ cancels' = {} /\ snaps' = <<>>
  BY DEF Forgotten
<1>2. /\ ~Taken' /\ ~Moving' /\ lock' \notin RetryType /\ lock' \notin RemoveType
      /\ Held' = {} /\ lock'.op = "free"
  BY <1>1, FreeIs
<1>3. /\ <<>> \in Seq(Entries) /\ <<>> \in Seq(SnapType) /\ DOMAIN <<>> = {}
      /\ Queued' = {} /\ DOMAIN queue' = {} /\ DOMAIN snaps' = {}
  BY <1>1 DEF Queued, ToSet
<1>4. Present' \subseteq infl
  BY <1>1, <1>2, <1>3 DEF Present, Placed, Pictured
<1>5. Picture(infl')
  BY Types, FS_Subset DEF Typed, Picture
<1>6. Typed'
  <2>1. TypeOK'
    BY <1>1, <1>2, <1>3, <1>5, Types DEF TypeOK, Picture
  <2>2. IsFiniteSet(active')
    BY <1>1, FS_EmptySet
  <2> QED BY <1>1, <1>2, <1>3, <1>5, <2>1, <2>2 DEF Typed, Picture
<1>7. Down'
  BY <1>1 DEF Down
<1>8. Numbered' /\ Named' /\ Filed' /\ Busy' /\ Resting'
  <2>1. Numbered'
    BY <1>1, <1>2 DEF Numbered
  <2> QED BY <1>1, <2>1 DEF Named, Filed, Busy, Resting
<1>9. OneId' /\ Finished' /\ Retrying' /\ Attended'
  BY <1>1, <1>2, <1>3 DEF OneId, Distinct, Finished, Retrying, Attended
<1>10. Apart'
  BY <1>4 DEF Inv, Apart, Present, Pictured
<1>11. Silenced'
  <2>1. \A r : ~Starts(r)'
    BY <1>1, <1>2, <1>3 DEF Starts
  <2>2. Voided' \subseteq Voided
    BY <1>2 DEF Voided
  <2> QED BY <1>1, <2>1, <2>2 DEF Inv, Silenced, Quelled
<1> QED BY <1>6, <1>7, <1>8, <1>9, <1>10, <1>11 DEF Inv

LEMMA FlushEndsKeeps ==
    ASSUME Inv, FlushEnds
    PROVE  Inv'
<1> DEFINE f == [e \in active |-> IF Terminal(e) THEN e ELSE [e EXCEPT !.st = "paused"]]
           kept == Queued \cup { f[e] : e \in active }
<1>1. /\ up /\ Forgotten /\ infl' = {}
      /\ disk' = { e \in disk : e.id \notin Ids(kept) } \cup kept
      /\ UNCHANGED <<file, fresh, ops, faults, limit, hist>>
  BY DEF FlushEnds, bounds
<1>2. Picture(active) /\ Picture(disk) /\ Queued \subseteq Entries /\ IsFiniteSet(Queued)
  BY Types, QueuedAre DEF Typed, Picture
<1>3. f \in [active -> Entries]
  <2>1. "paused" \in Statuses
    BY DEF Statuses
  <2> QED BY <1>2, <2>1, Restated DEF Picture
<1> HIDE DEF f
<1>4. IsFiniteSet({ f[e] : e \in active }) /\ { f[e] : e \in active } \subseteq Entries
  BY <1>2, <1>3, ImageFinite DEF Picture
<1>5. IsFiniteSet(kept) /\ kept \subseteq Entries
  BY <1>2, <1>4, FS_Union
<1> HIDE DEF kept
<1>6. disk' \subseteq disk \cup kept /\ IsFiniteSet(disk \cup kept)
  BY <1>1, <1>2, <1>5, FS_Union DEF Picture
<1>7. Picture(disk')
  BY <1>2, <1>5, <1>6, FS_Subset DEF Picture
<1> QED BY <1>1, <1>7, Types, ForgottenKeeps

LEMMA CrashKeepsInv ==
    ASSUME Inv, Crash
    PROVE  Inv'
<1>1. /\ up /\ Forgotten /\ faults' = faults + 1
      /\ UNCHANGED <<disk, infl, file, fresh, ops, limit, hist>>
  BY DEF Crash
<1>2. Picture(disk') /\ faults' \in Nat /\ ops' \in Nat
  BY <1>1, Types DEF Typed, Picture
<1> QED BY <1>1, <1>2, ForgottenKeeps

\* Nothing is left running in what is recovered.
LEMMA RecoveredAre ==
    ASSUME Inv
    PROVE  /\ Picture(Recovered)
           /\ \A e \in Recovered : e.st \notin {"active", "pausing"}
<1> DEFINE S == { d \in disk : d.id \notin Ids(infl) } \cup infl
           f == [e \in S |-> Normalize(e)]
<1>1. Picture(disk) /\ Picture(infl)
  BY Types DEF Typed, Picture
<1>2. Picture(S)
  <2>1. S \subseteq disk \cup infl /\ IsFiniteSet(disk \cup infl)
    BY <1>1, FS_Union DEF Picture
  <2> QED BY <1>1, <2>1, FS_Subset DEF Picture
<1> HIDE DEF S
<1>3. ASSUME NEW e \in Entries
      PROVE  Normalize(e) \in Entries /\ Normalize(e).st \notin {"active", "pausing"}
  BY DEF Normalize, Entries, Statuses
<1>4. Recovered = { f[e] : e \in S }
  BY DEF Recovered, S
<1>5. f = [e \in S |-> f[e]] /\ DOMAIN f = S
      /\ \A e \in S : f[e] \in Entries /\ f[e].st \notin {"active", "pausing"}
  BY <1>2, <1>3 DEF Picture
<1> HIDE DEF f
<1>6. IsFiniteSet({ f[e] : e \in S })
  BY <1>2, <1>5, ImageFinite DEF Picture
<1> QED BY <1>4, <1>5, <1>6 DEF Picture

LEMMA RestoreKeeps ==
    ASSUME Inv, NEW auto \in BOOLEAN, Restore(auto)
    PROVE  Inv'
<1> DEFINE again(e) == auto /\ e.st = "paused" /\ e.retries < MaxRetries
           order == SetToSeq(Recovered)
           all == [i \in DOMAIN order |->
                     [order[i] EXCEPT !.id = i, !.run = i,
                                      !.st = IF again(order[i]) THEN "queued" ELSE @]]
<1>1. /\ ~up /\ up' = TRUE
      /\ fresh' = Len(order) /\ disk' = ToSet(all)
      /\ queue' = Keep(all, { e \in ToSet(all) : Runnable(e) })
      /\ file' = [t \in Tasks |-> [file[t] EXCEPT !.run = 0]]
      /\ infl' = {} /\ fill' = auto
      /\ hist' = [hist EXCEPT !.atRisk = @ \ TasksOf(Recovered),
                              !.unsaved = @ \ TasksOf(Recovered),
                              !.void = {}, !.settled = {}, !.parked = ~auto]
      /\ UNCHANGED <<active, batches, jobs, lock, cancel, pause, cancels, closing, snaps,
                     ops, faults, limit>>
  BY DEF Restore, bounds
<1>2. /\ active' = {} /\ jobs' = {} /\ batches' = {} /\ cancels' = {}
      /\ lock' = Free /\ snaps' = <<>> /\ closing' = FALSE
  <2>1. closing \in BOOLEAN
    BY Types
  <2> QED BY <1>1, <2>1 DEF Inv, Down
<1>3. /\ ~Taken' /\ ~Moving' /\ lock' \notin RetryType /\ lock' \notin RemoveType
      /\ Held' = {} /\ lock'.op = "free"
  BY <1>2, FreeIs
<1>4. Picture(Recovered) /\ \A e \in Recovered : e.st \notin {"active", "pausing"}
  BY RecoveredAre
<1>5. /\ Len(order) \in Nat /\ DOMAIN order = 1 .. Len(order)
      /\ \A i \in DOMAIN order : order[i] \in Recovered
  BY <1>4, SetToSeqOrders DEF Picture
<1> HIDE DEF order
<1>6. ASSUME NEW i \in DOMAIN order
      PROVE  /\ all[i] \in Entries /\ all[i].id = i /\ all[i].run = i
             /\ all[i].st \notin {"active", "pausing"}
  <2>1. order[i] \in Entries /\ order[i].st \notin {"active", "pausing"} /\ i \in Nat
    BY <1>4, <1>5 DEF Picture
  <2>2. PICK st : st = IF again(order[i]) THEN "queued" ELSE order[i].st
    OBVIOUS
  <2>3. st \in Statuses /\ st \notin {"active", "pausing"}
    BY <2>1, <2>2 DEF Entries, Statuses
  <2> HIDE DEF again
  <2>4. all[i] = [order[i] EXCEPT !.id = i, !.run = i, !.st = st]
    BY <2>2
  <2> HIDE DEF all
  <2> QED BY <2>1, <2>3, <2>4 DEF Entries
<1>7. DOMAIN all = DOMAIN order /\ all = [i \in DOMAIN order |-> all[i]]
  OBVIOUS
<1> HIDE DEF all, again
<1>8. all \in Seq(Entries) /\ Distinct(all)
  <2>1. all \in [1 .. Len(order) -> Entries]
    BY <1>5, <1>6, <1>7
  <2>2. all \in Seq(Entries)
    BY <1>5, <2>1, SeqDef
  <2>3. Distinct(all)
    BY <1>6, <1>7 DEF Distinct
  <2> QED BY <2>2, <2>3
<1>9. \A x \in disk' : \E i \in 1 .. fresh' : x = all[i] /\ i \in DOMAIN order
  BY <1>1, <1>5, <1>7 DEF ToSet
<1>10. \A x \in disk' : /\ x \in Entries /\ x.id \in 1 .. fresh' /\ x.run \in 1 .. fresh'
                        /\ x.st \notin {"active", "pausing"}
  BY <1>6, <1>9
<1>11. ASSUME NEW x \in disk', NEW y \in disk', x.id = y.id \/ x.run = y.run PROVE x = y
  <2>1. PICK i \in DOMAIN order : x = all[i]
    BY <1>9
  <2>2. PICK k \in DOMAIN order : y = all[k]
    BY <1>9
  <2>3. i = k
    BY <1>6, <1>11, <2>1, <2>2
  <2> QED BY <2>1, <2>2, <2>3
<1>12. /\ queue' \in Seq(Entries) /\ Distinct(queue')
       /\ Queued' = { e \in disk' : Runnable(e) }
  BY <1>1, <1>8, KeepRange, KeepDistinct DEF Queued
<1>13. \A q \in Queued' : q \in disk' /\ q.st = "queued"
  BY <1>10, <1>12 DEF Runnable, EntryStatus
<1>14. Picture(disk')
  BY <1>1, <1>8, SeqRange DEF Picture
<1>15. fresh' \in Nat
  BY <1>1, <1>5
<1>16. /\ file' \in FileType /\ \A t \in Tasks : file'[t].run = 0
  <2>1. file \in FileType
    BY Files
  <2>2. ASSUME NEW t \in Tasks
        PROVE  /\ file'[t] \in [kind : {"none", "part", "final"}, run : Nat]
               /\ file'[t].run = 0
    <3>1. PICK r : r = file[t]
      OBVIOUS
    <3>2. r \in [kind : {"none", "part", "final"}, run : Nat]
      BY <2>1, <3>1 DEF FileType
    <3>3. file'[t] = [r EXCEPT !.run = 0]
      BY <1>1, <3>1
    <3> QED BY <3>2, <3>3
  <2> QED BY <1>1, <2>2 DEF FileType
<1>17. /\ hist' \in History /\ hist'.void = {} /\ hist'.settled = {} /\ hist'.parked = ~auto
  <2>1. hist \in History
    BY Types
  <2>2. PICK a, b : a = hist.atRisk \ TasksOf(Recovered) /\ b = hist.unsaved \ TasksOf(Recovered)
    OBVIOUS
  <2>3. a \in SUBSET Tasks /\ b \in SUBSET Tasks
    BY <2>1, <2>2 DEF History
  <2>4. hist' = [hist EXCEPT !.atRisk = a, !.unsaved = b, !.void = {}, !.settled = {}, !.parked = ~auto]
    BY <1>1, <2>2
  <2> QED BY <2>1, <2>3, <2>4 DEF History
<1>18. Present' \subseteq disk' /\ DOMAIN snaps' = {} /\ snaps' \in Seq(SnapType)
  <2>1. DOMAIN snaps' = {} /\ snaps' \in Seq(SnapType)
    BY <1>2
  <2>2. Pictured' = {}
    BY <1>1, <1>2, <2>1 DEF Pictured
  <2> QED BY <1>2, <1>3, <1>13, <2>1, <2>2 DEF Present, Placed
<1>19. Typed'
  <2>1. fill' \in BOOLEAN /\ ops' \in Nat /\ faults' \in Nat /\ limit' \in Limits
        /\ cancel' \in SUBSET Nat /\ pause' \in SUBSET Nat
    BY <1>1, Types
  <2>2. TypeOK'
    <3>1. {up', fill', closing'} \subseteq BOOLEAN /\ lock'.op \in {"free", "fill", "retry", "remove"}
      BY <1>1, <1>2, <1>3, <2>1
    <3>2. {active', disk', infl'} \subseteq SUBSET Entries
      BY <1>1, <1>2, <1>14 DEF Picture
    <3>3. {batches', cancel', pause'} \subseteq SUBSET Nat /\ {fresh', ops', faults'} \subseteq Nat
      BY <1>2, <1>15, <2>1
    <3> QED BY <1>2, <1>12, <1>16, <1>17, <1>18, <2>1, <3>1, <3>2, <3>3 DEF TypeOK, FileType
  <2>3. IsFiniteSet(active') /\ IsFiniteSet(infl')
    BY <1>1, <1>2, FS_EmptySet
  <2> QED BY <1>2, <1>3, <1>10, <1>13, <1>14, <1>18, <2>2, <2>3 DEF Typed, Picture, Pausable
<1>20. Down' /\ Finished' /\ Retrying' /\ Attended'
  BY <1>1, <1>2, <1>3 DEF Down, Finished, Retrying, Attended
<1>21. Numbered'
  BY <1>2, <1>3, <1>10, <1>15, <1>16, <1>17, <1>18 DEF Numbered
<1>22. Named'
  <2>1. \A y \in Present' \cup disk' \cup cancels' : y \in disk' /\ y.run # 0
    BY <1>2, <1>10, <1>18, <1>15
  <2> QED BY <1>11, <1>16, <2>1 DEF Named
<1>23. OneId'
  BY <1>2, <1>3, <1>12 DEF OneId, Distinct
<1>24. Filed' /\ Resting'
  <2>1. \A x \in disk' : x.st # "queued" => \A q \in Queued' : q.id # x.id /\ q.run # x.run
    BY <1>11, <1>13
  <2> QED BY <1>2, <1>3, <1>11, <2>1 DEF Filed, Resting
<1>25. Busy'
  BY <1>1, <1>17 DEF Busy
<1>26. Apart' /\ Silenced'
  <2>1. Voided' = {}
    BY <1>3, <1>17 DEF Voided
  <2> QED BY <1>2, <1>17, <2>1 DEF Apart, Silenced
<1> QED BY <1>19, <1>20, <1>21, <1>22, <1>23, <1>24, <1>25, <1>26 DEF Inv

-----------------------------------------------------------------------------
(* What a crash must find in one of the two files *)

\* The downloads that have met none of the lasting exceptions; a snapshot may overtake them.
Clean == hist.accepted \ (hist.dropped \cup hist.unsaved \cup hist.spent)

\* The tasks that are not done with their entry, and all who have one in hand.
Carrying == { j \in jobs : j.pc # "clear" }
Carriers == { j.entry : j \in Carrying } \cup (IF Moving THEN {lock.entry} ELSE {})

\* An id stands for one download, which was accepted.
Identified ==
    /\ \A x, y \in Present \cup disk : x.id = y.id => x.task = y.task
    /\ \A x \in Present \cup disk : x.task \in hist.accepted
    /\ lock \in RemoveType => lock.entry.task \in hist.dropped

\* Only the queue and its file have queued entries; without a retry left these are spent.
Fit ==
    /\ \A e \in Pictured : e.st # "queued"
    /\ \A e \in Queued \cup disk : e.st = "queued" /\ e.retries >= MaxRetries => e.task \in hist.spent
    /\ Moving => lock.entry.st = "active" /\ lock.entry.retries < MaxRetries
    /\ \A j \in jobs : j.pc = "terminal" => j.entry.st # "queued" /\ j.res \in {"kept", "gone"}

\* What the file has as queued is in the queue, or is being taken from it.
Awaited ==
    up => \A e \in disk : e.st = "queued" /\ e.task \in Clean =>
            \/ e.task \in TasksOf(Queued)
            \/ Moving /\ lock.entry.task = e.task

\* A task finds its entry among the active ones.
Shown ==
    /\ \A j \in Carrying : ~Requeueing(j) /\ j.entry.task \in Clean => j.entry.id \in Ids(active)
    /\ Moving /\ lock.step = "persist" /\ lock.entry.task \in Clean => lock.entry.id \in Ids(active)

\* An entry in hand is in infl unless a snapshot took it out, and in every snapshot that
\* is not marked as one that may.
Shots == ToSet(snaps)
CoveredBy(x) ==
    /\ x.id \in Ids(infl) \/ x.task \in hist.atRisk
    /\ \A s \in Shots : x.id \in Ids(s.content) \/ x.task \in s.late

Covered == \A x \in Carriers : x.task \in Clean => CoveredBy(x)

\* A retry leaves infl when it is in the file.
Confirmed ==
    \A j \in jobs : j.pc = "confirm" /\ j.entry.task \in Clean => j.entry.task \in TasksOf(disk)

\* An entry whose task ended with nothing written is in no other place that a task of
\* the same id could come from.
Shelved == { e \in disk : e.st # "queued" }

Ended ==
    \A j \in jobs : j.pc = "clear" /\ j.res # "durable" /\ j.entry.task \in Clean =>
        /\ \A e \in Queued \cup Held \cup Shelved : e.id # j.entry.id
        /\ \A k \in Carrying : k.entry.id # j.entry.id

\* A completed download has its file, or another task has begun it again.
Produced ==
    \A e \in active : e.st = "completed" /\ e.task \in Clean =>
        \/ file[e.task].kind = "final"
        \/ \E k \in jobs : k.pc = "stream" /\ k.entry.task = e.task

\* A download is in downloads.json or in hand; if a restart found it in neither file, it
\* is nowhere.
Safe ==
    \A t \in Clean :
        \/ t \in TasksOf(disk)
        \/ up /\ \E j \in Carrying : j.entry.task = t
        \/ ~up /\ t \in TasksOf(infl)
        \/ t \in hist.atRisk /\ (up => t \notin TasksOf(Present))

Tracked ==
    /\ Identified /\ Fit /\ Awaited /\ Shown /\ Covered /\ Confirmed /\ Ended /\ Produced /\ Safe

\* Entries of a step: new ones, and those that have the names of an old one.
Kin(N, x) == x \in N \/ \E y \in Present \cup disk : x.id = y.id /\ x.task = y.task

Sourced(N) ==
    /\ \A x \in Present' \cup disk' : Kin(N, x)
    /\ \A x \in N : x.id \notin 1 .. fresh /\ x.task \in hist'.accepted
    /\ \A x, y \in N : x.id = y.id => x.task = y.task

LEMMA KinOld ==
    ASSUME NEW N
    PROVE  \A x \in Present \cup disk : Kin(N, x)
BY DEF Kin

LEMMA SourcedBy ==
    ASSUME NEW N, \A x \in N : x.id \notin 1 .. fresh /\ x.task \in hist'.accepted,
           \A x, y \in N : x.id = y.id => x.task = y.task,
           \A x \in Queued' \cup Held' : Kin(N, x),
           \A j \in jobs' : Kin(N, j.entry),
           \A x \in active' \cup infl' : Kin(N, x),
           \A s \in Shots' : \A x \in s.content : Kin(N, x),
           \A x \in disk' : Kin(N, x)
    PROVE  Sourced(N)
<1>1. \A x \in Placed' : Kin(N, x)
  BY DEF Placed
<1>2. \A x \in Pictured' : Kin(N, x)
  BY DEF Pictured, Shots, ToSet
<1> QED BY <1>1, <1>2 DEF Sourced, Present

\* Where the entries of a state are.
LEMMA Places ==
    ASSUME TRUE
    PROVE  /\ \A x \in Queued \cup Held : x \in Present
           /\ \A j \in jobs : j.entry \in Present
           /\ \A x \in active \cup infl : x \in Present /\ x \in Pictured
           /\ \A s \in Shots : \A x \in s.content : x \in Present /\ x \in Pictured
           /\ Moving => lock.entry \in Present
           /\ \A x \in Carriers : x \in Present
<1>1. \A x \in Queued \cup Held : x \in Present
  BY DEF Present, Placed
<1>2. \A j \in jobs : j.entry \in Present
  BY DEF Present, Placed
<1>3. Moving => lock.entry \in Present
  BY <1>1 DEF Held, Taken, Moving
<1>4. \A s \in Shots : \A x \in s.content : x \in Present /\ x \in Pictured
  BY DEF Present, Pictured, Shots, ToSet
<1> QED BY <1>1, <1>2, <1>3, <1>4 DEF Present, Pictured, Carriers, Carrying

LEMMA IdentifiedNext ==
    ASSUME Inv, Identified, up, NEW N, Sourced(N), hist.accepted \subseteq hist'.accepted,
           lock' \in RemoveType => lock'.entry.task \in hist'.dropped
    PROVE  Identified'
<1>1. \A x \in Present \cup disk : x.id \in 1 .. fresh
  BY DEF Inv, Numbered
<1>2. ASSUME NEW x \in Present' \cup disk', NEW y \in Present' \cup disk', x.id = y.id
      PROVE  x.task = y.task
  <2>1. Kin(N, x) /\ Kin(N, y)
    BY DEF Sourced
  <2>2. CASE x \in N /\ y \in N
    BY <1>2, <2>2 DEF Sourced
  <2>3. CASE ~(x \in N /\ y \in N)
    BY <1>1, <1>2, <2>1, <2>3 DEF Sourced, Kin, Identified
  <2> QED BY <2>2, <2>3
<1>3. \A x \in Present' \cup disk' : x.task \in hist'.accepted
  BY DEF Sourced, Kin, Identified
<1>4. (lock \in RemoveType)' <=> lock' \in RemoveType
  BY DEF RemoveType, CancelType
<1> QED BY <1>2, <1>3, <1>4 DEF Identified

LEMMA SafeNext ==
    ASSUME Inv, Safe, up, up', NEW N, Sourced(N),
           \A t \in Clean' : t \in Clean \/ t \in TasksOf(disk'),
           \A x \in N : x.task \in TasksOf(disk'),
           \A e \in disk : e.task \in Clean' =>
              e.task \in TasksOf(disk') \/ \E k \in Carrying' : k.entry.task = e.task,
           \A j \in Carrying : j.entry.task \in Clean' =>
              j.entry.task \in TasksOf(disk') \/ \E k \in Carrying' : k.entry.task = j.entry.task,
           \A t \in hist.atRisk : t \in hist'.atRisk \/ t \in TasksOf(Present)
    PROVE  Safe'
<1> SUFFICES ASSUME NEW t \in Clean', t \notin TasksOf(disk'), ~\E j \in Carrying' : j.entry.task = t
             PROVE  t \in hist'.atRisk /\ t \notin TasksOf(Present')
  BY DEF Safe
<1>1. t \in Clean
  OBVIOUS
<1>2. t \notin TasksOf(disk) /\ ~\E j \in Carrying : j.entry.task = t
  BY DEF TasksOf
<1>3. t \in hist.atRisk /\ t \notin TasksOf(Present)
  BY <1>1, <1>2 DEF Safe
<1>4. t \in hist'.atRisk
  BY <1>3
<1>5. ASSUME NEW x \in Present', x.task = t PROVE FALSE
  <2>1. Kin(N, x)
    BY DEF Sourced
  <2> QED BY <1>2, <1>3, <1>5, <2>1 DEF Kin, TasksOf
<1> QED BY <1>4, <1>5 DEF TasksOf

LEMMA Pushed ==
    ASSUME NEW x \in Entries, NEW q \in Seq(Entries)
    PROVE  ToSet(<<x>> \o q) = {x} \cup ToSet(q)
<1> DEFINE one == <<x>>
<1>1. one \in Seq(Entries) /\ ToSet(one) = {x}
  BY Single
<1>2. one \o q = <<x>> \o q
  OBVIOUS
<1> HIDE DEF one
<1>3. ToSet(one \o q) = ToSet(one) \cup ToSet(q)
  BY <1>1, Joined
<1> QED BY <1>1, <1>2, <1>3

-----------------------------------------------------------------------------
(* Steps in which every entry stays in the hand it is in *)

\* A task goes on, with the same entry.
JobsOn ==
    \/ jobs' = jobs
    \/ \E j \in jobs, k \in JobType :
         /\ jobs' = (jobs \ {j}) \cup {k} /\ Same(k.entry, j.entry)
         /\ j.pc \notin {"clear", "requeue", "confirm"}
         /\ k.pc \notin {"clear", "requeue", "confirm", "terminal"}

LEMMA JobsOnAre ==
    ASSUME JobsOn
    PROVE  /\ \A l \in Carrying' : \E i \in Carrying : Same(l.entry, i.entry) /\ (Requeueing(l) <=> Requeueing(i))
           /\ \A i \in Carrying : \E l \in Carrying' : Same(l.entry, i.entry)
           /\ \A l \in jobs' : l.pc \in {"clear", "confirm", "terminal"} => l \in jobs
           /\ \A l \in jobs' : \E i \in jobs : Same(l.entry, i.entry)
<1>1. CASE jobs' = jobs
  BY <1>1 DEF Carrying, Same
<1>2. CASE \E j \in jobs, k \in JobType :
             /\ jobs' = (jobs \ {j}) \cup {k} /\ Same(k.entry, j.entry)
             /\ j.pc \notin {"clear", "requeue", "confirm"}
             /\ k.pc \notin {"clear", "requeue", "confirm", "terminal"}
  <2>1. PICK j \in jobs, k \in JobType :
             /\ jobs' = (jobs \ {j}) \cup {k} /\ Same(k.entry, j.entry)
             /\ j.pc \notin {"clear", "requeue", "confirm"}
             /\ k.pc \notin {"clear", "requeue", "confirm", "terminal"}
    BY <1>2
  <2>2. j \in Carrying /\ k \in Carrying' /\ ~Requeueing(j) /\ ~Requeueing(k)
    BY <2>1 DEF Carrying, Requeueing
  <2>3. \A l \in jobs' : l = k \/ l \in jobs
    BY <2>1
  <2>4. \A i \in jobs : i = j \/ i \in jobs'
    BY <2>1
  <2>5. ASSUME NEW l \in Carrying'
        PROVE  \E i \in Carrying : Same(l.entry, i.entry) /\ (Requeueing(l) <=> Requeueing(i))
    <3>1. CASE l = k
      BY <2>1, <2>2, <3>1
    <3>2. CASE l \in jobs
      BY <3>2 DEF Carrying, Same
    <3> QED BY <2>3, <3>1, <3>2 DEF Carrying
  <2>6. ASSUME NEW i \in Carrying PROVE \E l \in Carrying' : Same(l.entry, i.entry)
    <3>1. CASE i = j
      BY <2>1, <2>2, <3>1
    <3>2. CASE i \in jobs'
      BY <3>2 DEF Carrying, Same
    <3> QED BY <2>4, <3>1, <3>2 DEF Carrying
  <2>7. \A l \in jobs' : \E i \in jobs : Same(l.entry, i.entry)
    BY <2>1, <2>3 DEF Same
  <2> QED BY <2>1, <2>3, <2>5, <2>6, <2>7
<1> QED BY <1>1, <1>2 DEF JobsOn

\* The snapshots of a step: one of the active entries is taken, or one is written.
Pictures ==
    \/ /\ infl' = infl /\ hist'.atRisk = hist.atRisk
       /\ \A s \in Shots' : s \in Shots \/ (s.content = active' /\ s.late = Handover(active'))
    \/ \E n \in DOMAIN snaps : SnapshotWritten(n)

LEMMA PicturesAre ==
    ASSUME Inv, Pictures
    PROVE  /\ \A x \in infl' : x \in Pictured
           /\ \A s \in Shots' : s \in Shots \/ (s.content = active' /\ s.late = Handover(active'))
           /\ \A x \in Entries : CoveredBy(x) => x.id \in Ids(infl') \/ x.task \in hist'.atRisk
           /\ \A t \in hist.atRisk : t \in hist'.atRisk \/ t \in TasksOf(Present)
<1>1. CASE /\ infl' = infl /\ hist'.atRisk = hist.atRisk
           /\ \A s \in Shots' : s \in Shots \/ (s.content = active' /\ s.late = Handover(active'))
  BY <1>1, Places DEF CoveredBy
<1>2. ASSUME NEW n \in DOMAIN snaps, SnapshotWritten(n)
      PROVE  /\ \A x \in infl' : x \in Pictured
             /\ \A s \in Shots' : s \in Shots
             /\ \A x \in Entries : CoveredBy(x) => x.id \in Ids(infl') \/ x.task \in hist'.atRisk
             /\ \A t \in hist.atRisk : t \in hist'.atRisk \/ t \in TasksOf(Present)
  <2> DEFINE s == snaps[n]
  <2>1. s \in Shots
    BY DEF Shots, ToSet
  <2>2. hist \in History /\ infl' = s.content
    BY <1>2 DEF Inv, Typed, TypeOK, SnapshotWritten
  <2>3. hist'.atRisk = (hist.atRisk \ TasksOf(s.content)) \cup s.late
    BY <1>2, <2>2 DEF SnapshotWritten, History
  <2>4. \A x \in infl' : x \in Pictured /\ x \in Present
    BY <2>1, <2>2, Places
  <2>5. Shots' \subseteq Shots
    BY <1>2, OneWritten DEF Inv, Shots
  <2>6. \A t \in hist.atRisk : t \in hist'.atRisk \/ t \in TasksOf(Present)
    BY <2>2, <2>3, <2>4 DEF TasksOf
  <2> HIDE DEF s
  <2> QED BY <2>1, <2>2, <2>3, <2>4, <2>5, <2>6 DEF CoveredBy
<1> QED BY <1>1, <1>2 DEF Pictures

Ongoing ==
    /\ up /\ up'
    /\ UNCHANGED <<queue, lock, disk, fresh>>
    /\ JobsOn /\ Pictures
    /\ hist'.accepted = hist.accepted /\ hist'.dropped = hist.dropped
    /\ hist'.spent = hist.spent /\ hist'.unsaved = hist.unsaved
    /\ \A e \in active' : e.st # "queued" /\ \E f \in active : Same(e, f)
    /\ \A f \in active : f.id \in Ids(active')

LEMMA OngoingKeeps ==
    ASSUME Inv, Tracked, Ongoing, Produced'
    PROVE  Tracked'
<1> USE DEF Ongoing, Tracked
<1>1. /\ Clean' = Clean /\ Queued' = Queued /\ Held' = Held /\ (Moving' <=> Moving)
      /\ (Taken' <=> Taken)
  BY DEF Clean, Queued, Held, Moving, Taken, MoveType, RetryType
<1>2. /\ \A l \in Carrying' : \E i \in Carrying : Same(l.entry, i.entry) /\ (Requeueing(l) <=> Requeueing(i))
      /\ \A i \in Carrying : \E l \in Carrying' : Same(l.entry, i.entry)
      /\ \A l \in jobs' : l.pc \in {"clear", "confirm", "terminal"} => l \in jobs
      /\ \A l \in jobs' : \E i \in jobs : Same(l.entry, i.entry)
  BY JobsOnAre
<1>3. /\ \A x \in infl' : x \in Pictured
      /\ \A s \in Shots' : s \in Shots \/ (s.content = active' /\ s.late = Handover(active'))
      /\ \A x \in Entries : CoveredBy(x) => x.id \in Ids(infl') \/ x.task \in hist'.atRisk
      /\ \A t \in hist.atRisk : t \in hist'.atRisk \/ t \in TasksOf(Present)
  BY PicturesAre
<1>4. Sourced({})
  <2>1. \A x \in Present \cup disk : Kin({}, x)
    BY KinOld
  <2>2. \A j \in jobs' : Kin({}, j.entry)
    BY <1>2, Places DEF Kin, Same
  <2>3. \A x \in active' : Kin({}, x)
    BY Places DEF Kin, Same
  <2>4. \A x \in infl' : Kin({}, x)
    BY <1>3, <2>1 DEF Present
  <2>5. \A s \in Shots' : \A x \in s.content : Kin({}, x)
    BY <1>3, <2>1, <2>3, Places
  <2>6. \A x \in Queued' \cup Held' \cup disk' : Kin({}, x)
    BY <1>1, <2>1, Places
  <2> QED BY <2>2, <2>3, <2>4, <2>5, <2>6, SourcedBy
<1>5. Identified'
  <2>1. lock' \in RemoveType => lock'.entry.task \in hist'.dropped
    BY DEF Identified
  <2> QED BY <1>4, <2>1, IdentifiedNext
<1>6. Fit'
  <2>1. \A e \in Pictured' : e \in Pictured \/ e \in active'
    BY <1>3, Places DEF Pictured, Shots, ToSet
  <2>2. \A e \in Pictured' : e.st # "queued"
    BY <2>1 DEF Fit
  <2>3. \A e \in Queued' \cup disk' : e.st = "queued" /\ e.retries >= MaxRetries => e.task \in hist'.spent
    BY <1>1 DEF Fit
  <2>4. \A l \in jobs' : l.pc = "terminal" => l.entry.st # "queued" /\ l.res \in {"kept", "gone"}
    BY <1>2 DEF Fit
  <2>5. Moving' => lock'.entry.st = "active" /\ lock'.entry.retries < MaxRetries
    BY <1>1 DEF Fit
  <2> QED BY <2>2, <2>3, <2>4, <2>5 DEF Fit
<1>7. Awaited'
  BY <1>1 DEF Awaited
<1>8. Shown'
  <2>1. \A i : i \in Ids(active) => i \in Ids(active')
    BY DEF Ids
  <2> QED BY <1>1, <1>2, <2>1 DEF Shown, Same
<1>9. Covered'
  <2> SUFFICES ASSUME NEW x \in Carriers', x.task \in Clean
               PROVE  CoveredBy(x)'
    BY <1>1 DEF Covered
  <2>1. \E y \in Carriers : x.id = y.id /\ x.task = y.task
    BY <1>1, <1>2 DEF Carriers, Same
  <2>2. PICK y \in Carriers : x.id = y.id /\ x.task = y.task
    BY <2>1
  <2>3. CoveredBy(y) /\ y \in Entries
    <3>1. \A j \in jobs : j.entry \in Entries
      BY JobParts
    <3>2. Moving => lock.entry \in Entries
      BY LockKinds DEF Inv, Typed
    <3> QED BY <2>2, <3>1, <3>2 DEF Covered, Carriers, Carrying
  <2>4. y.id \in Ids(active) \/ y.task \in Handover(active')
    <3>1. CASE lock.op \in {"fill", "retry"} /\ lock.step # "next" /\ lock.entry.id \notin Ids(active') /\ lock.entry.id = y.id
      <4>1. Handover(active') = {lock.entry.task}
        BY <3>1 DEF Handover
      <4>2. Moving \/ lock \in RetryType
        BY <3>1, LockKinds DEF Inv, Typed
      <4>3. lock.entry \in Present /\ y \in Present
        BY <4>2, Places DEF Held, Taken, Moving
      <4>4. lock.entry.task = y.task
        BY <3>1, <4>3 DEF Identified
      <4> QED BY <4>1, <4>4
    <3>2. CASE y.id \in Ids(active')
      BY <3>2 DEF Ids, Same
    <3>3. CASE Moving /\ y = lock.entry /\ y.id \notin Ids(active')
      <4>1. lock.op = "fill" /\ lock.step # "next"
        BY <3>3, LockKinds DEF Inv, Typed
      <4> QED BY <3>1, <3>3, <4>1
    <3>4. ASSUME NEW j \in Carrying, y = j.entry PROVE y.id \in Ids(active) \/ y.task \in Handover(active')
      <4>1. CASE Requeueing(j)
        <5>1. lock \in RetryType /\ lock.entry.id = y.id
          BY <3>4, <4>1 DEF Inv, Retrying, Carrying
        <5>2. lock.op = "retry" /\ lock.step # "next"
          BY <5>1, LockKinds DEF Inv, Typed
        <5> QED BY <3>1, <3>2, <5>1, <5>2
      <4>2. CASE ~Requeueing(j)
        BY <2>2, <3>4, <4>2 DEF Shown
      <4> QED BY <4>1, <4>2
    <3> QED BY <3>2, <3>3, <3>4, <2>2 DEF Carriers
  <2>5. \A s \in Shots' : x.id \in Ids(s.content) \/ x.task \in s.late
    <3>1. y.id \in Ids(active') \/ y.task \in Handover(active')
      BY <2>4 DEF Ids
    <3> QED BY <1>3, <2>2, <2>3, <3>1 DEF CoveredBy
  <2>6. x.id \in Ids(infl') \/ x.task \in hist'.atRisk
    BY <1>3, <2>2, <2>3
  <2> QED BY <2>5, <2>6 DEF CoveredBy
<1>10. Confirmed' /\ Ended'
  <2>1. Confirmed'
    BY <1>1, <1>2 DEF Confirmed
  <2>2. Ended'
    BY <1>1, <1>2 DEF Ended, Same, Shelved
  <2> QED BY <2>1, <2>2
<1>11. Safe'
  <2>1. \A j \in Carrying : \E k \in Carrying' : k.entry.task = j.entry.task
    BY <1>2 DEF Same
  <2>2. \A e \in disk : e.task \in TasksOf(disk')
    BY DEF TasksOf
  <2> QED BY <1>1, <1>3, <1>4, <2>1, <2>2, SafeNext
<1> QED BY <1>5, <1>6, <1>7, <1>8, <1>9, <1>10, <1>11

-----------------------------------------------------------------------------
(* The task of an entry, until it is settled: nothing leaves its place *)

\* A download's file has a new status, and the snapshot of it is taken.
LEMMA Retitled ==
    ASSUME Inv, Tracked, NEW t, NEW st \in Statuses, st # "queued",
           active' = { IF e.task = t THEN [e EXCEPT !.st = st] ELSE e : e \in active },
           NEW owner \in Nat, Capture(owner, active') \/ UNCHANGED snaps
    PROVE  /\ \A e \in active' : e.st # "queued" /\ \E f \in active : Same(e, f)
           /\ \A f \in active : f.id \in Ids(active')
           /\ \A e \in active' : IF e.task = t THEN e.st = st ELSE e \in active
           /\ \A s \in Shots' : s \in Shots \/ (s.content = active' /\ s.late = Handover(active'))
<1> DEFINE f == [e \in active |-> IF e.task = t THEN [e EXCEPT !.st = st] ELSE e]
<1>1. Picture(active) /\ \A e, g \in active : e.id = g.id => e = g
  BY DEF Inv, Typed, TypeOK, Picture, Attended
<1>2. \A e \in active : /\ f[e] \in Entries /\ Same(f[e], e)
                        /\ IF f[e].task = t THEN f[e].st = st ELSE f[e] = e
  BY <1>1 DEF Picture, Entries, Same
<1>3. f \in [active -> Entries] /\ active' = { f[e] : e \in active }
  BY <1>2
<1> HIDE DEF f
<1>4. Picture(active')
  BY <1>1, <1>2, <1>3, Relabelled
<1>5. \A e \in active : e.st # "queued"
  BY Places DEF Tracked, Fit
<1>6. \A s \in Shots' : s \in Shots \/ (s.content = active' /\ s.late = Handover(active'))
  <2>1. CASE Capture(owner, active')
    <3> DEFINE new == [owner |-> owner, content |-> active', late |-> Handover(active')]
    <3>1. ToSet(snaps') \subseteq ToSet(snaps) \cup {new}
      <4>1. Typed
        BY DEF Inv
      <4> QED BY <1>4, <2>1, <4>1, Captured
    <3>2. new.content = active' /\ new.late = Handover(active')
      OBVIOUS
    <3> HIDE DEF new
    <3> QED BY <3>1, <3>2 DEF Shots
  <2>2. CASE UNCHANGED snaps
    BY <2>2 DEF Shots
  <2> QED BY <2>1, <2>2
<1>7. \A e \in active' : /\ e.st # "queued" /\ \E g \in active : Same(e, g)
                         /\ IF e.task = t THEN e.st = st ELSE e \in active
  BY <1>2, <1>3, <1>5
<1>8. \A g \in active : g.id \in Ids(active')
  BY <1>2, <1>3 DEF Ids, Same
<1> QED BY <1>6, <1>7, <1>8

LEMMA EndTracked ==
    ASSUME Inv, Tracked, NEW j \in jobs, NEW st \in Statuses, st # "queued", NEW res \in Outcomes,
           j.pc \in {"slot", "send", "stream"}, FileEnds(j, st, res),
           \A t \in Tasks : t # j.entry.task => file'[t] = file[t],
           st = "completed" => file'[j.entry.task].kind = "final"
    PROVE  Tracked'
<1> DEFINE k == [j EXCEPT !.pc = "snapshot", !.res = res]
           t == j.entry.task
<1>1. k \in JobType /\ Same(k.entry, j.entry) /\ k.pc = "snapshot"
  BY BecomeIs DEF Steps
<1>2. jobs' = (jobs \ {j}) \cup {k}
  BY DEF FileEnds, Become
<1>3. UNCHANGED <<up, queue, lock, disk, infl, fresh, hist>>
  BY DEF FileEnds
<1> HIDE DEF k
<1>4. /\ \A e \in active' : e.st # "queued" /\ \E f \in active : Same(e, f)
      /\ \A f \in active : f.id \in Ids(active')
      /\ \A e \in active' : IF e.task = t THEN e.st = st ELSE e \in active
      /\ \A s \in Shots' : s \in Shots \/ (s.content = active' /\ s.late = Handover(active'))
  <2>1. j.entry.run \in Nat /\ SetStatus(j, st)
    BY JobParts DEF FileEnds
  <2>2. active' = { IF e.task = t THEN [e EXCEPT !.st = st] ELSE e : e \in active }
    BY <2>1 DEF SetStatus
  <2>3. Capture(j.entry.run, active') \/ UNCHANGED snaps
    BY <2>1 DEF SetStatus
  <2> QED BY <2>1, <2>2, <2>3, Retitled
<1>5. JobsOn
  BY <1>1, <1>2 DEF JobsOn
<1>6. Ongoing
  BY <1>3, <1>4, <1>5, JobParts DEF Ongoing, Pictures
<1>7. Produced'
  <2> SUFFICES ASSUME NEW e \in active', e.st = "completed", e.task \in Clean
               PROVE  \/ file'[e.task].kind = "final"
                      \/ \E l \in jobs' : l.pc = "stream" /\ l.entry.task = e.task
    BY <1>3 DEF Produced, Clean
  <2>1. CASE e.task = t
    BY <1>4, <2>1
  <2>2. CASE e.task # t
    <3>1. e \in active
      BY <1>4, <2>2
    <3>2. e.task \in Tasks
      BY <3>1 DEF Inv, Typed, TypeOK, Entries
    <3>3. \/ file[e.task].kind = "final"
          \/ \E l \in jobs : l.pc = "stream" /\ l.entry.task = e.task
      BY <3>1 DEF Tracked, Produced
    <3> QED BY <1>2, <2>2, <3>2, <3>3
  <2> QED BY <2>1, <2>2
<1> QED BY <1>6, <1>7, OngoingKeeps

\* A step of a task, or of nobody, that leaves the active entries alone.
LEMMA AloneTracked ==
    ASSUME Inv, Tracked, up, UNCHANGED <<up, queue, lock, disk, active, fresh>>, JobsOn, Pictures,
           hist'.accepted = hist.accepted, hist'.dropped = hist.dropped,
           hist'.spent = hist.spent, hist'.unsaved = hist.unsaved,
           \A t \in Tasks : \/ file'[t] = file[t]
                            \/ \E k \in jobs' : k.pc = "stream" /\ k.entry.task = t,
           \A k \in jobs : k.pc = "stream" => k \in jobs'
    PROVE  Tracked'
<1>1. \A e \in active : e.st # "queued" /\ e.task \in Tasks
  BY Places DEF Tracked, Fit, Inv, Typed, TypeOK, Entries
<1>2. Ongoing
  BY <1>1 DEF Ongoing, Same, Ids
<1>3. Produced'
  BY <1>1 DEF Tracked, Produced, Clean
<1> QED BY <1>2, <1>3, OngoingKeeps

LEMMA AbandonTracked ==
    ASSUME Inv, Tracked, NEW j \in jobs, j.pc \in {"slot", "stream"}, Abandons(j)
    PROVE  Tracked'
<1>1. CASE FileEnds(j, "paused", "ok") /\ UNCHANGED file
  BY <1>1, EndTracked DEF Statuses, Outcomes
<1>2. CASE FileEnds(j, "cancelled", "ok") /\ file' = PartRemoved(j.entry.task)
  <2>1. \A t \in Tasks : t # j.entry.task => file'[t] = file[t]
    BY <1>2, Files DEF PartRemoved, FileType
  <2> QED BY <1>2, <2>1, EndTracked DEF Statuses, Outcomes
<1> QED BY <1>1, <1>2 DEF Abandons

LEMMA ClaimsTracked ==
    ASSUME Inv, Tracked, NEW j \in jobs, JobClaims(j)
    PROVE  Tracked'
<1> DEFINE k == [j EXCEPT !.pc = "send", !.res = "none"]
<1>1. CASE Abandons(j)
  BY <1>1, AbandonTracked DEF JobClaims
<1>2. CASE /\ ~Cancelled(j) /\ Become(j, "send", "none")
           /\ UNCHANGED <<up, queue, active, batches, lock, fill, cancel, pause, cancels,
                          closing, snaps, disk, infl, file, fresh, bounds, hist>>
  <2>1. k \in JobType /\ Same(k.entry, j.entry) /\ k.pc = "send"
    <3>1. "send" \in Steps /\ "none" \in Outcomes
      BY DEF Steps, Outcomes
    <3> QED BY <3>1, BecomeIs
  <2>2. jobs' = (jobs \ {j}) \cup {k}
    BY <1>2 DEF Become
  <2> HIDE DEF k
  <2>3. JobsOn /\ \A l \in jobs : l.pc = "stream" => l \in jobs'
    BY <2>1, <2>2 DEF JobsOn, JobClaims
  <2>4. Pictures
    BY <1>2 DEF Pictures, Shots
  <2> QED BY <1>2, <2>3, <2>4, JobParts, AloneTracked
<1> QED BY <1>1, <1>2 DEF JobClaims

LEMMA ConnectsTracked ==
    ASSUME Inv, Tracked, NEW j \in jobs, JobConnects(j)
    PROVE  Tracked'
<1> DEFINE k == [j EXCEPT !.pc = "stream", !.res = "none"]
<1>1. k \in JobType /\ Same(k.entry, j.entry) /\ k.pc = "stream"
  <2>1. "stream" \in Steps /\ "none" \in Outcomes
    BY DEF Steps, Outcomes
  <2> QED BY <2>1, BecomeIs
<1>2. jobs' = (jobs \ {j}) \cup {k}
  BY DEF JobConnects, Become
<1>3. /\ j.pc = "send"
      /\ UNCHANGED <<up, queue, active, lock, snaps, disk, infl, fresh, hist>>
      /\ file' = [file EXCEPT ![j.entry.task] = [kind |-> "part", run |-> j.entry.run]]
  BY DEF JobConnects
<1> HIDE DEF k
<1>4. JobsOn /\ \A l \in jobs : l.pc = "stream" => l \in jobs'
  BY <1>1, <1>2, <1>3 DEF JobsOn
<1>5. Pictures
  BY <1>3 DEF Pictures, Shots
<1>6. \A t \in Tasks : \/ file'[t] = file[t]
                       \/ \E l \in jobs' : l.pc = "stream" /\ l.entry.task = t
  BY <1>1, <1>2, <1>3, Files DEF FileType, Same
<1> QED BY <1>3, <1>4, <1>5, <1>6, JobParts, AloneTracked

LEMMA EndsTracked ==
    ASSUME Inv, Tracked, NEW j \in jobs,
           \/ JobCancelled(j) \/ JobCompletes(j) \/ JobUnanswered(j) \/ JobRefused(j)
           \/ JobPartUseless(j) \/ JobBreaks(j)
    PROVE  Tracked'
<1>1. j.entry.task \in Tasks /\ file \in FileType
  BY JobParts, Files
<1>2. CASE JobCancelled(j)
  BY <1>2, AbandonTracked DEF JobCancelled
<1>3. CASE JobCompletes(j)
  <2>1. file' = [file EXCEPT ![j.entry.task] = [kind |-> "final", run |-> j.entry.run]]
    BY <1>3 DEF JobCompletes
  <2>2. /\ \A t \in Tasks : t # j.entry.task => file'[t] = file[t]
        /\ file'[j.entry.task].kind = "final"
    BY <1>1, <2>1 DEF FileType
  <2> QED BY <1>3, <2>2, EndTracked DEF JobCompletes, Statuses, Outcomes
<1>4. CASE JobUnanswered(j) \/ JobRefused(j) \/ JobBreaks(j)
  <2>1. PICK res \in {"retry", "fatal"} : FileEnds(j, "error", res)
    BY <1>4 DEF JobUnanswered, JobRefused, JobBreaks
  <2>2. j.pc \in {"slot", "send", "stream"} /\ file' = file
    BY <1>4 DEF JobUnanswered, JobRefused, JobBreaks
  <2> QED BY <2>1, <2>2, EndTracked DEF Statuses, Outcomes
<1>5. CASE JobPartUseless(j)
  <2>1. \A t \in Tasks : t # j.entry.task => file'[t] = file[t]
    BY <1>1, <1>5 DEF JobPartUseless, PartRemoved, FileType
  <2> QED BY <1>5, <2>1, EndTracked DEF JobPartUseless, Statuses, Outcomes
<1> QED BY <1>2, <1>3, <1>4, <1>5

LEMMA ProgressTracked ==
    ASSUME Inv, Tracked, NEW j \in jobs, JobProgress(j)
    PROVE  Tracked'
<1> DEFINE t == j.entry.task
<1>1. /\ UNCHANGED <<up, queue, jobs, lock, disk, infl, file, fresh, hist>>
      /\ active' = { IF e.task = t THEN [e EXCEPT !.st = "active"] ELSE e : e \in active }
      /\ Capture(0, active')
  BY DEF JobProgress
<1>2. /\ \A e \in active' : e.st # "queued" /\ \E f \in active : Same(e, f)
      /\ \A f \in active : f.id \in Ids(active')
      /\ \A e \in active' : IF e.task = t THEN e.st = "active" ELSE e \in active
      /\ \A s \in Shots' : s \in Shots \/ (s.content = active' /\ s.late = Handover(active'))
  BY <1>1, Retitled DEF Statuses
<1>3. Ongoing
  BY <1>1, <1>2, JobParts DEF Ongoing, Pictures, JobsOn
<1>4. Produced'
  <2>1. \A e \in active' : e.st = "completed" => e \in active
    BY <1>2
  <2> QED BY <1>1, <2>1 DEF Tracked, Produced, Clean
<1> QED BY <1>3, <1>4, OngoingKeeps

LEMMA SnapshotTracked ==
    ASSUME Inv, Tracked, NEW j \in jobs, JobSnapshot(j)
    PROVE  Tracked'
<1>1. PICK pc \in {"sleep", "settle"} : Become(j, pc, j.res)
  BY DEF JobSnapshot
<1> DEFINE k == [j EXCEPT !.pc = pc, !.res = j.res]
<1>2. k \in JobType /\ Same(k.entry, j.entry) /\ k.pc = pc
  <2>1. pc \in Steps /\ j \in JobType
    BY JobParts DEF Steps
  <2> QED BY <2>1 DEF JobType, Same
<1>3. jobs' = (jobs \ {j}) \cup {k}
  BY <1>1 DEF Become
<1> HIDE DEF k
<1>4. /\ j.pc = "snapshot"
      /\ UNCHANGED <<up, queue, active, lock, disk, file, fresh>>
  BY DEF JobSnapshot
<1>5. JobsOn /\ \A l \in jobs : l.pc = "stream" => l \in jobs'
  BY <1>2, <1>3, <1>4 DEF JobsOn
<1>6. UNCHANGED <<infl, snaps, hist>> \/ \E n \in DOMAIN snaps : SnapshotWritten(n)
  BY DEF JobSnapshot
<1>7. Pictures
  BY <1>6 DEF Pictures, Shots
<1>8. /\ hist'.accepted = hist.accepted /\ hist'.dropped = hist.dropped
      /\ hist'.spent = hist.spent /\ hist'.unsaved = hist.unsaved
  <2>1. hist \in History
    BY DEF Inv, Typed, TypeOK
  <2> QED BY <1>6, <2>1 DEF SnapshotWritten, History
<1> QED BY <1>4, <1>5, <1>7, <1>8, JobParts, AloneTracked

LEMMA WriterTracked ==
    ASSUME Inv, Tracked, WriterWrites
    PROVE  Tracked'
<1>1. up /\ UNCHANGED <<up, queue, active, jobs, lock, disk, file, fresh>>
  BY DEF WriterWrites
<1>2. PICK n \in DOMAIN snaps : SnapshotWritten(n)
  BY DEF WriterWrites
<1>3. Pictures /\ JobsOn
  BY <1>1, <1>2 DEF Pictures, JobsOn
<1>4. /\ hist'.accepted = hist.accepted /\ hist'.dropped = hist.dropped
      /\ hist'.spent = hist.spent /\ hist'.unsaved = hist.unsaved
  <2>1. hist \in History
    BY DEF Inv, Typed, TypeOK
  <2> QED BY <1>2, <2>1 DEF SnapshotWritten, History
<1> QED BY <1>1, <1>3, <1>4, AloneTracked

-----------------------------------------------------------------------------
(* Steps on the lists, while no entry is on its way between them *)

Desk(N) ==
    /\ up /\ up' /\ UNCHANGED jobs /\ ~Taken /\ ~Taken'
    /\ Sourced(N)
    /\ hist.accepted \subseteq hist'.accepted /\ hist'.atRisk = hist.atRisk
    /\ lock' \in RemoveType => lock'.entry.task \in hist'.dropped
    /\ \A t \in Clean' : t \in Clean \/ (t \notin hist.accepted /\ t \in TasksOf(disk'))
    /\ hist.spent \subseteq hist'.spent
    /\ \A e \in Pictured' : e.st # "queued"
    /\ \A e \in Queued' \cup disk' :
         e.st = "queued" /\ e.retries >= MaxRetries => e.task \in hist'.spent
    /\ \A e \in disk' : e.st = "queued" /\ e.task \in Clean' => e.task \in TasksOf(Queued')
    /\ \A e \in Queued' \cup Shelved' : e \in N \/ e.id \in Ids(Queued \cup Shelved)
    /\ \A e \in N : e.task \in TasksOf(disk')
    /\ \A e \in disk : e.task \in Clean' => e.task \in TasksOf(disk')
    /\ \A e \in active : e.task \in Clean' => e.id \in Ids(active')
    /\ \A e \in active' : e.st = "completed" => e \in active
    /\ \A t \in Clean' : file'[t] = file[t]
    /\ \/ \A j \in Carrying : j.entry.task \in Clean' => j.entry.id \in Ids(infl')
       \/ \A e \in infl : e.task \in Clean' => e.id \in Ids(infl')
    /\ \A s \in Shots' : s \in Shots

LEMMA DeskKeeps ==
    ASSUME Inv, Tracked, NEW N, Desk(N)
    PROVE  Tracked'
<1> USE DEF Desk, Tracked
<1>1. /\ ~Moving /\ ~Moving' /\ Held = {} /\ Held' = {} /\ Carrying' = Carrying
      /\ lock \notin RetryType /\ \A j \in jobs : ~Requeueing(j)
  <2>1. ~Moving /\ lock \notin RetryType /\ Held = {}
    BY DEF Taken, Moving, Held
  <2>2. ~Moving' /\ Held' = {}
    BY DEF Taken, Moving, Held, MoveType, RetryType
  <2> QED BY <2>1, <2>2 DEF Carrying, Inv, Retrying
<1>2. /\ \A j \in jobs : j.entry \in Present
      /\ \A x \in Present \cup disk : x.task \in hist.accepted /\ x.id \in 1 .. fresh
      /\ \A x, y \in Present \cup disk : x.id = y.id => x.task = y.task
  BY Places DEF Identified, Inv, Numbered
<1>3. \A x \in Present \cup disk : x.task \in Clean' => x.task \in Clean
  BY <1>2
<1>4. Identified'
  BY IdentifiedNext
<1>5. Fit'
  BY <1>1 DEF Fit
<1>6. Awaited'
  BY DEF Awaited
<1>7. Shown'
  <2>1. ASSUME NEW j \in Carrying, j.entry.task \in Clean' PROVE j.entry.id \in Ids(active')
    <3>1. j.entry.task \in Clean /\ j.entry.id \in Ids(active) /\ j.entry \in Present
      BY <1>1, <1>2, <1>3, <2>1 DEF Shown, Carrying
    <3>2. PICK e \in active : e.id = j.entry.id
      BY <3>1 DEF Ids
    <3>3. e.task = j.entry.task
      BY <1>2, <3>1, <3>2, Places
    <3> QED BY <2>1, <3>2, <3>3
  <2> QED BY <1>1, <2>1 DEF Shown
<1>8. Covered'
  <2>1. ASSUME NEW j \in Carrying, j.entry.task \in Clean' PROVE CoveredBy(j.entry)'
    <3>1. j.entry.task \in Clean /\ j.entry \in Present
      BY <1>2, <1>3, <2>1 DEF Carrying
    <3>2. CoveredBy(j.entry)
      BY <3>1 DEF Covered, Carriers
    <3>3. ASSUME j.entry.id \in Ids(infl), \A e \in infl : e.task \in Clean' => e.id \in Ids(infl')
          PROVE  j.entry.id \in Ids(infl')
      <4>1. PICK e \in infl : e.id = j.entry.id
        BY <3>3 DEF Ids
      <4>2. e.task = j.entry.task
        BY <1>2, <3>1, <4>1, Places
      <4> QED BY <2>1, <3>3, <4>1, <4>2
    <3>4. j.entry.id \in Ids(infl') \/ j.entry.task \in hist'.atRisk
      BY <2>1, <3>2, <3>3 DEF CoveredBy
    <3>5. \A s \in Shots' : j.entry.id \in Ids(s.content) \/ j.entry.task \in s.late
      BY <3>2 DEF CoveredBy
    <3> QED BY <3>4, <3>5 DEF CoveredBy
  <2> QED BY <1>1, <2>1 DEF Covered, Carriers
<1>9. Confirmed'
  BY <1>1 DEF Confirmed, Requeueing
<1>10. Ended'
  <2> SUFFICES ASSUME NEW j \in jobs, j.pc = "clear", j.res # "durable", j.entry.task \in Clean'
               PROVE  /\ \A e \in Queued' \cup Shelved' : e.id # j.entry.id
                      /\ \A k \in Carrying : k.entry.id # j.entry.id
    BY <1>1 DEF Ended
  <2>1. j.entry.task \in Clean /\ j.entry.id \in 1 .. fresh
    BY <1>2, <1>3
  <2>2. /\ \A e \in Queued \cup Shelved : e.id # j.entry.id
        /\ \A k \in Carrying : k.entry.id # j.entry.id
    BY <2>1 DEF Ended
  <2>3. ASSUME NEW e \in Queued' \cup Shelved' PROVE e.id # j.entry.id
    <3>1. CASE e \in N
      BY <2>1, <3>1 DEF Sourced
    <3>2. CASE e.id \in Ids(Queued \cup Shelved)
      BY <2>2, <3>2 DEF Ids
    <3> QED BY <3>1, <3>2
  <2> QED BY <2>2, <2>3
<1>11. Produced'
  BY <1>2, <1>3, Places DEF Produced
<1>12. Safe'
  <2>1. \A j \in Carrying : \E k \in Carrying' : k.entry.task = j.entry.task
    BY <1>1
  <2> QED BY <2>1, SafeNext
<1> QED BY <1>4, <1>5, <1>6, <1>7, <1>8, <1>9, <1>10, <1>11, <1>12

\* Nothing is seen of the step but flags and numbers.
LEMMA IdleTracked ==
    ASSUME Inv, Tracked,
           UNCHANGED <<up, queue, active, jobs, lock, snaps, disk, infl, file, hist>>
    PROVE  Tracked'
<1>1. /\ Queued' = Queued /\ Held' = Held /\ Placed' = Placed /\ Pictured' = Pictured
      /\ Present' = Present /\ (Moving' <=> Moving) /\ Carrying' = Carrying
      /\ Clean' = Clean /\ Shots' = Shots
  BY DEF Queued, Held, Placed, Pictured, Present, Moving, Taken, MoveType, RetryType, Carrying,
         Clean, Shots
<1>2. Carriers' = Carriers
  BY <1>1 DEF Carriers
<1>3. Identified' /\ Fit' /\ Awaited' /\ Shown'
  BY <1>1, Zenon DEF Tracked, Identified, Fit, Awaited, Shown, RemoveType, CancelType, Requeueing
<1>4. Covered' /\ Confirmed' /\ Ended' /\ Produced' /\ Safe'
  BY <1>1, <1>2, Zenon DEF Tracked, Covered, CoveredBy, Confirmed, Ended, Shelved, Produced, Safe
<1> QED BY <1>3, <1>4 DEF Tracked

\* What persist_manager_queue writes.
LEMMA Rewritten ==
    ASSUME NEW S, NEW q
    PROVE  /\ \A e \in PersistQueue(S, q) : e \in ToSet(q) \/ (e \in S /\ e.st # "queued")
           /\ \A e \in ToSet(q) : e \in PersistQueue(S, q)
           /\ \A e \in S : \/ e.st = "queued" \/ e.id \in Ids(ToSet(q)) \/ e.task \in TasksOf(ToSet(q))
                           \/ e \in PersistQueue(S, q)
BY DEF PersistQueue

\* A download of the file stays in it, if what is queued is still in the queue.
LEMMA RewrittenKeeps ==
    ASSUME NEW q, NEW e \in disk, \A x \in ToSet(q) : x.id = e.id => x.task = e.task,
           e.st # "queued" \/ e.task \in TasksOf(ToSet(q))
    PROVE  e.task \in TasksOf(PersistQueue(disk, q))
<1>1. CASE e.id \in Ids(ToSet(q)) \/ e.task \in TasksOf(ToSet(q))
  <2>1. PICK x \in ToSet(q) : x.task = e.task
    BY <1>1 DEF Ids, TasksOf
  <2> QED BY <2>1, Rewritten DEF TasksOf
<1>2. CASE e \in PersistQueue(disk, q)
  BY <1>2 DEF TasksOf
<1> QED BY <1>1, <1>2, Rewritten

-----------------------------------------------------------------------------
(* The scheduler *)

\* Entries leave the queue without a retry left, and the file if that empties the queue.
LEMMA DroppedTracked ==
    ASSUME Inv, Tracked, Filling, lock' = Free,
           UNCHANGED <<up, active, jobs, snaps, infl, file, fresh>>,
           Queued' \subseteq Queued,
           disk' = disk \/ (Queued' = {} /\ disk' = PersistQueue(disk, <<>>)),
           hist'.accepted = hist.accepted, hist'.dropped = hist.dropped,
           hist'.unsaved = hist.unsaved, hist'.atRisk = hist.atRisk,
           hist'.spent = hist.spent \cup (TasksOf(Queued) \ TasksOf(Queued'))
    PROVE  Tracked'
<1>1. up /\ up' /\ ~Taken /\ ~Taken' /\ ~Moving /\ Held = {} /\ Held' = {}
      /\ lock' \notin RemoveType
  BY FillingIs, FreeIs
<1>2. Pictured' = Pictured /\ Shots' = Shots
  BY DEF Pictured, Shots
<1>3. \A t \in Clean' : t \in Clean /\ t \notin TasksOf(Queued) \ TasksOf(Queued')
  BY DEF Clean
<1>4. \A e \in disk' : e \in disk /\ (e.st = "queued" => disk' = disk)
  <2>1. ToSet(<<>>) = {}
    BY DEF ToSet
  <2> QED BY <2>1 DEF PersistQueue
<1>5. Sourced({})
  <2>1. Placed' \subseteq Placed
    BY <1>1 DEF Placed
  <2>2. \A x \in Present' \cup disk' : x \in Present \cup disk
    BY <1>2, <1>4, <2>1 DEF Present
  <2> QED BY <2>2, KinOld DEF Sourced
<1>6. \A e \in disk : e.st = "queued" /\ e.task \in Clean' => e.task \in TasksOf(Queued')
  BY <1>1, <1>3 DEF Awaited, Tracked
<1>7. \A e \in disk : e.task \in Clean' => e.task \in TasksOf(disk')
  <2>1. CASE disk' = disk
    BY <2>1 DEF TasksOf
  <2>2. CASE Queued' = {} /\ disk' = PersistQueue(disk, <<>>)
    <3>1. \A e \in disk : e.st # "queued" => e \in disk'
      <4>1. ToSet(<<>>) = {}
        BY DEF ToSet
      <4> QED BY <2>2, <4>1 DEF PersistQueue, Ids, TasksOf
    <3> QED BY <1>6, <2>2, <3>1 DEF TasksOf
  <2> QED BY <2>1, <2>2
<1>8. /\ \A e \in Queued' \cup disk' :
           e.st = "queued" /\ e.retries >= MaxRetries => e.task \in hist'.spent
      /\ \A e \in Queued' \cup Shelved' : e.id \in Ids(Queued \cup Shelved)
  BY <1>4 DEF Tracked, Fit, Ids, Shelved
<1>9. \A e \in Pictured' : e.st # "queued"
  BY <1>2 DEF Tracked, Fit
<1>10. \A e \in active : e.id \in Ids(active)
  BY DEF Ids
<1>11. \A e \in infl : e.id \in Ids(infl)
  BY DEF Ids
<1>12. Desk({})
  BY <1>1, <1>2, <1>3, <1>4, <1>5, <1>6, <1>7, <1>8, <1>9, <1>10, <1>11 DEF Desk
<1> QED BY <1>12, DeskKeeps

LEMMA FillEndsTracked ==
    ASSUME Inv, Tracked, FillEnds
    PROVE  Tracked'
<1> DEFINE runnable == Keep(queue, { e \in Queued : Runnable(e) })
<1>1. /\ Filling /\ lock' = Free
      /\ UNCHANGED <<up, active, jobs, snaps, infl, file, fresh>>
  BY DEF FillEnds
<1>2. hist \in History /\ Queued = ToSet(queue)
  BY DEF Inv, Typed, TypeOK, Queued
<1>3. CASE UNCHANGED <<queue, disk>> /\ hist' = [hist EXCEPT !.parked = FALSE]
  <2>1. Queued' = Queued
    BY <1>3 DEF Queued
  <2>2. /\ hist'.accepted = hist.accepted /\ hist'.dropped = hist.dropped
        /\ hist'.unsaved = hist.unsaved /\ hist'.atRisk = hist.atRisk /\ hist'.spent = hist.spent
    BY <1>2, <1>3 DEF History
  <2> QED BY <1>1, <1>3, <2>1, <2>2, DroppedTracked
<1>4. CASE /\ queue' = <<>>
           /\ disk' = IF queue = <<>> THEN disk ELSE PersistQueue(disk, <<>>)
           /\ hist' = [hist EXCEPT !.spent = @ \cup TasksOf(Queued), !.parked = FALSE]
  <2>1. Queued' = {} /\ TasksOf(Queued') = {}
    BY <1>4 DEF Queued, ToSet, TasksOf
  <2>2. /\ hist'.accepted = hist.accepted /\ hist'.dropped = hist.dropped
        /\ hist'.unsaved = hist.unsaved /\ hist'.atRisk = hist.atRisk
        /\ hist'.spent = hist.spent \cup (TasksOf(Queued) \ TasksOf(Queued'))
    BY <1>2, <1>4, <2>1 DEF History
  <2> QED BY <1>1, <1>4, <2>1, <2>2, DroppedTracked
<1> QED BY <1>3, <1>4 DEF FillEnds

LEMMA RefusedTracked ==
    ASSUME Inv, Tracked, DequeueRefused
    PROVE  Tracked'
<1> DEFINE runnable == Keep(queue, { e \in Queued : Runnable(e) })
<1>1. /\ Filling /\ lock' = Free /\ disk' = disk
      /\ UNCHANGED <<up, active, jobs, snaps, infl, file, fresh>>
      /\ queue' = runnable
      /\ hist' = [hist EXCEPT !.spent = @ \cup (TasksOf(Queued) \ TasksOf(ToSet(runnable))),
                              !.parked = TRUE]
  BY DEF DequeueRefused
<1>2. hist \in History
  BY DEF Inv, Typed, TypeOK
<1>3. Queued' \subseteq Queued /\ Queued' = ToSet(runnable)
  <2>1. ToSet(runnable) = { e \in Queued : Runnable(e) }
    BY RunnableAre
  <2> QED BY <1>1, <2>1 DEF Queued
<1> HIDE DEF runnable
<1>4. /\ hist'.accepted = hist.accepted /\ hist'.dropped = hist.dropped
      /\ hist'.unsaved = hist.unsaved /\ hist'.atRisk = hist.atRisk
      /\ hist'.spent = hist.spent \cup (TasksOf(Queued) \ TasksOf(Queued'))
  BY <1>1, <1>2, <1>3 DEF History
<1> QED BY <1>1, <1>3, <1>4, DroppedTracked

\* An entry is taken from the queue.
LEMMA InflightTracked ==
    ASSUME Inv, Tracked, DequeueInflight
    PROVE  Tracked'
<1> DEFINE runnable == Keep(queue, { e \in Queued : Runnable(e) })
           h == Head(runnable)
           e == [h EXCEPT !.st = "active"]
<1> USE DEF Tracked
<1>1. /\ Filling /\ runnable # <<>> /\ queue' = Tail(runnable)
      /\ InflightWritten(WithoutId(infl, e.id) \cup {e})
      /\ lock' = [op |-> "fill", step |-> "insert", entry |-> e]
      /\ hist' = [hist EXCEPT !.spent = @ \cup (TasksOf(Queued) \ TasksOf(ToSet(runnable))),
                              !.parked = FALSE]
      /\ UNCHANGED <<up, active, jobs, disk, file, fresh>>
  BY DEF DequeueInflight
<1>2. /\ up /\ Typed /\ ~Taken /\ ~Moving /\ Held = {} /\ \A j \in jobs : ~Requeueing(j)
  BY <1>1, FillingIs
<1>3. runnable \in Seq(Entries) /\ ToSet(runnable) = { x \in Queued : Runnable(x) }
  BY RunnableAre
<1> HIDE DEF runnable
<1>4. /\ h \in Queued /\ h \in Entries /\ Runnable(h)
      /\ ToSet(runnable) = {h} \cup Queued' /\ Queued' \subseteq Queued
  <2>1. h \in ToSet(runnable) /\ h \in Entries /\ ToSet(runnable) = {h} \cup ToSet(Tail(runnable))
    BY <1>1, <1>3, HeadAndTail
  <2> QED BY <1>1, <1>3, <2>1 DEF Queued
<1>5. /\ e \in Entries /\ Same(e, h) /\ e.st = "active" /\ e.retries < MaxRetries
  BY <1>4 DEF Entries, Same, Statuses, Runnable
<1>6. h \in Present
  BY <1>4, Places
<1> HIDE DEF h, e
<1>7. lock' \in MoveType /\ lock'.entry = e /\ lock'.step = "insert"
  BY <1>1, <1>5 DEF MoveType
<1>8. Moving' /\ Held' = {e} /\ lock' \notin RemoveType
  BY <1>7, MovingNext
<1>9. infl' = WithoutId(infl, e.id) \cup {e} /\ snaps' = <<>> /\ Shots' = {}
  BY <1>1, <1>2, AllDropped DEF Shots, ToSet
<1>10. hist \in History
  BY DEF Inv, Typed, TypeOK
<1>11. /\ hist'.accepted = hist.accepted /\ hist'.dropped = hist.dropped
       /\ hist'.unsaved = hist.unsaved /\ hist'.atRisk = hist.atRisk
       /\ hist'.spent = hist.spent \cup (TasksOf(Queued) \ TasksOf(ToSet(runnable)))
  BY <1>1, <1>10 DEF History
<1>12. \A t \in Clean' : t \in Clean /\ t \notin TasksOf(Queued) \ TasksOf(ToSet(runnable))
  BY <1>11 DEF Clean
<1>13. Carrying' = Carrying /\ Carriers' = { j.entry : j \in Carrying } \cup {e}
  BY <1>1, <1>7, <1>8 DEF Carrying, Carriers
<1>14. Sourced({})
  <2>1. \A x \in Present \cup disk : Kin({}, x)
    BY KinOld
  <2>2. Kin({}, e)
    BY <1>5, <1>6 DEF Kin, Same
  <2>3. \A x \in infl' : Kin({}, x)
    BY <1>9, <2>1, <2>2, Places DEF WithoutId
  <2>4. \A x \in Queued' \cup Held' \cup active' \cup disk' : Kin({}, x)
    BY <1>1, <1>4, <1>8, <2>1, <2>2, Places
  <2>5. \A j \in jobs' : Kin({}, j.entry)
    BY <1>1, <2>1, Places
  <2> QED BY <1>9, <2>3, <2>4, <2>5, SourcedBy
<1>15. Identified'
  BY <1>2, <1>8, <1>11, <1>14, IdentifiedNext
<1>16. Fit'
  <2>1. \A x \in Pictured' : x \in Pictured \/ x = e
    BY <1>1, <1>9 DEF Pictured, WithoutId
  <2> QED BY <1>1, <1>4, <1>5, <1>7, <1>11, <2>1 DEF Fit
<1>17. Awaited'
  <2> SUFFICES ASSUME NEW d \in disk, d.st = "queued", d.task \in Clean'
               PROVE  d.task \in TasksOf(Queued') \/ d.task = e.task
    BY <1>1, <1>7, <1>8 DEF Awaited
  <2>1. d.task \in TasksOf(ToSet(runnable))
    BY <1>2, <1>12 DEF Awaited
  <2> QED BY <1>4, <1>5, <2>1 DEF TasksOf, Same
<1>18. Shown'
  BY <1>1, <1>7, <1>12, <1>13 DEF Shown
<1>19. Covered'
  <2>1. \A i \in Ids(infl) : i \in Ids(infl')
    BY <1>9 DEF Ids, WithoutId
  <2>2. e.id \in Ids(infl')
    BY <1>9 DEF Ids
  <2>3. \A j \in Carrying : j.entry.task \in Clean' =>
            j.entry.id \in Ids(infl') \/ j.entry.task \in hist'.atRisk
    BY <1>11, <1>12, <2>1 DEF Covered, Carriers, CoveredBy
  <2> QED BY <1>9, <1>13, <2>2, <2>3 DEF Covered, CoveredBy
<1>20. Confirmed'
  BY <1>1, <1>2 DEF Confirmed, Requeueing
<1>21. Ended'
  BY <1>1, <1>4, <1>5, <1>8, <1>12, <1>13 DEF Ended, Same, Shelved
<1>22. Produced'
  BY <1>1, <1>12 DEF Produced
<1>23. Safe'
  <2>1. \A d \in disk : d.task \in TasksOf(disk')
    BY <1>1 DEF TasksOf
  <2> QED BY <1>1, <1>2, <1>11, <1>12, <1>13, <1>14, <2>1, SafeNext
<1> QED BY <1>15, <1>16, <1>17, <1>18, <1>19, <1>20, <1>21, <1>22, <1>23

\* It becomes active.
LEMMA ActiveTracked ==
    ASSUME Inv, Tracked, DequeueActive
    PROVE  Tracked'
<1> USE DEF Tracked
<1>1. /\ Holds("fill", "insert")
      /\ active' = WithoutId(active, lock.entry.id) \cup {lock.entry}
      /\ lock' = [lock EXCEPT !.step = "persist"]
      /\ UNCHANGED <<up, queue, jobs, snaps, disk, infl, file, fresh, hist>>
  BY DEF DequeueActive
<1>2. /\ up /\ Moving /\ lock \in MoveType /\ lock \notin RetryType /\ Held = {lock.entry}
      /\ lock.entry \in Present
  BY <1>1, HoldsIs
<1>3. lock' \in MoveType /\ lock'.entry = lock.entry
  BY <1>1, <1>2 DEF MoveType
<1>4. Moving' /\ Held' = Held /\ lock' \notin RemoveType
  BY <1>2, <1>3, MovingNext
<1>5. Queued' = Queued /\ Carrying' = Carrying /\ Clean' = Clean /\ Shots' = Shots
  BY <1>1 DEF Queued, Carrying, Clean, Shots
<1>6. Carriers' = Carriers
  BY <1>2, <1>3, <1>4, <1>5 DEF Carriers
<1>7. lock.entry.st = "active" /\ lock.entry.retries < MaxRetries
  BY <1>2 DEF Fit
<1>8. \A i \in Ids(active) : i \in Ids(active')
  BY <1>1 DEF Ids, WithoutId
<1>9. lock.entry.id \in Ids(active')
  BY <1>1 DEF Ids
<1>10. Sourced({})
  <2>1. \A x \in Present \cup disk : Kin({}, x)
    BY KinOld
  <2>2. \A x \in active' : Kin({}, x)
    BY <1>1, <1>2, <2>1, Places DEF WithoutId
  <2>3. \A x \in Queued' \cup Held' \cup infl' \cup disk' : Kin({}, x)
    BY <1>1, <1>4, <1>5, <2>1, Places
  <2>4. \A j \in jobs' : Kin({}, j.entry)
    BY <1>1, <2>1, Places
  <2>5. \A s \in Shots' : \A x \in s.content : Kin({}, x)
    BY <1>5, <2>1, Places
  <2> QED BY <2>2, <2>3, <2>4, <2>5, SourcedBy
<1>11. Identified'
  BY <1>1, <1>2, <1>4, <1>10, IdentifiedNext
<1>12. Fit'
  <2>1. \A x \in Pictured' : x \in Pictured \/ x = lock.entry
    BY <1>1 DEF Pictured, WithoutId
  <2> QED BY <1>1, <1>3, <1>5, <1>7, <2>1 DEF Fit
<1>13. Awaited'
  BY <1>1, <1>2, <1>3, <1>4, <1>5 DEF Awaited
<1>14. Shown'
  BY <1>1, <1>3, <1>5, <1>8, <1>9 DEF Shown
<1>15. Covered'
  BY <1>1, <1>5, <1>6 DEF Covered, CoveredBy
<1>16. Confirmed' /\ Ended'
  BY <1>1, <1>4, <1>5 DEF Confirmed, Ended, Shelved
<1>17. Produced'
  BY <1>1, <1>5, <1>7 DEF Produced, WithoutId
<1>18. Safe'
  <2>1. \A d \in disk : d.task \in TasksOf(disk')
    BY <1>1 DEF TasksOf
  <2> QED BY <1>1, <1>2, <1>5, <1>10, <2>1, SafeNext
<1> QED BY <1>11, <1>12, <1>13, <1>14, <1>15, <1>16, <1>17, <1>18

\* It leaves downloads.json, and its task is spawned.
LEMMA PersistTracked ==
    ASSUME Inv, Tracked, DequeuePersist
    PROVE  Tracked'
<1> DEFINE k == [entry |-> lock.entry, pc |-> "slot", res |-> "none"]
<1> USE DEF Tracked
<1>1. /\ Holds("fill", "persist")
      /\ disk' = PersistQueue(disk, queue)
      /\ jobs' = jobs \cup {k}
      /\ lock' = FillNext
      /\ UNCHANGED <<up, queue, active, snaps, infl, file, fresh, hist>>
  BY DEF DequeuePersist, FillNext
<1>2. /\ up /\ Moving /\ lock \notin RetryType /\ Held = {lock.entry}
      /\ lock.step = "persist" /\ lock.entry \in Present
      /\ \A j \in jobs : ~Requeueing(j)
      /\ \A j \in jobs : j.pc # "clear" => j.entry.id # lock.entry.id
  BY <1>1, HoldsIs
<1>3. k.entry = lock.entry /\ k.pc = "slot"
  OBVIOUS
<1> HIDE DEF k
<1>4. ~Taken' /\ ~Moving' /\ Held' = {} /\ lock' \notin RemoveType
  BY <1>1 DEF Taken, Moving, Held, MoveType, RetryType, RemoveType, FillNext
<1>5. Queued' = Queued /\ Carrying' = Carrying \cup {k} /\ Clean' = Clean /\ Shots' = Shots
      /\ Pictured' = Pictured
  BY <1>1, <1>3 DEF Queued, Carrying, Clean, Shots, Pictured
<1>6. Carriers' = Carriers
  BY <1>2, <1>3, <1>4, <1>5 DEF Carriers
<1>7. /\ \A e \in disk' : e \in Queued \/ (e \in disk /\ e.st # "queued")
      /\ \A e \in Queued : e \in disk'
  BY <1>1, Rewritten DEF Queued
<1>8. \A x \in Present \cup disk : Kin({}, x)
  BY KinOld
<1>9. Sourced({})
  <2>1. \A x \in Queued' \cup Held' \cup disk' : Kin({}, x)
    BY <1>4, <1>5, <1>7, <1>8, Places
  <2>2. \A j \in jobs' : Kin({}, j.entry)
    BY <1>1, <1>2, <1>3, <1>8, Places
  <2>3. \A x \in active' \cup infl' : Kin({}, x)
    BY <1>1, <1>8, Places
  <2>4. \A s \in Shots' : \A x \in s.content : Kin({}, x)
    BY <1>5, <1>8, Places
  <2> QED BY <2>1, <2>2, <2>3, <2>4, SourcedBy
<1>10. Identified'
  BY <1>1, <1>2, <1>4, <1>9, IdentifiedNext
<1>11. Fit'
  BY <1>1, <1>3, <1>4, <1>5, <1>7 DEF Fit
<1>12. Awaited'
  BY <1>5, <1>7 DEF Awaited, TasksOf
<1>13. Shown'
  BY <1>1, <1>2, <1>3, <1>4, <1>5 DEF Shown
<1>14. Covered'
  BY <1>1, <1>5, <1>6 DEF Covered, CoveredBy
<1>15. Confirmed'
  BY <1>1, <1>2, <1>3 DEF Confirmed, Requeueing
<1>16. Ended'
  <2>1. \A j \in jobs' : j.pc = "clear" => j \in jobs
    BY <1>1, <1>3
  <2> QED BY <1>2, <1>3, <1>4, <1>5, <1>7, <2>1 DEF Ended, Shelved
<1>17. Produced'
  BY <1>1, <1>5 DEF Produced
<1>18. Safe'
  <2>1. ASSUME NEW e \in disk, e.task \in Clean
        PROVE  e.task \in TasksOf(disk') \/ \E l \in Carrying' : l.entry.task = e.task
    <3>1. CASE e.st # "queued" \/ e.task \in TasksOf(Queued)
      <4>1. \A x \in Queued : x.id = e.id => x.task = e.task
        BY Places DEF Identified
      <4> QED BY <1>1, <3>1, <4>1, RewrittenKeeps DEF Queued
    <3>2. CASE lock.entry.task = e.task
      BY <1>3, <1>5, <3>2
    <3> QED BY <1>2, <2>1, <3>1, <3>2 DEF Awaited
  <2>2. \A j \in Carrying : \E l \in Carrying' : l.entry.task = j.entry.task
    BY <1>5
  <2> QED BY <1>1, <1>2, <1>5, <1>9, <2>1, <2>2, SafeNext
<1> QED BY <1>10, <1>11, <1>12, <1>13, <1>14, <1>15, <1>16, <1>17, <1>18

\* The write fails, and the entry goes back.
LEMMA FailsTracked ==
    ASSUME Inv, Tracked, DequeueFails
    PROVE  Tracked'
<1> DEFINE b == [lock.entry EXCEPT !.st = "queued"]
<1> USE DEF Tracked
<1>1. /\ Holds("fill", "persist")
      /\ active' = WithoutId(active, lock.entry.id)
      /\ queue' = <<b>> \o queue
      /\ InflightWritten(WithoutId(infl, lock.entry.id))
      /\ lock' = Free
      /\ hist' = [hist EXCEPT !.parked = TRUE]
      /\ UNCHANGED <<up, jobs, disk, file, fresh>>
  BY DEF DequeueFails
<1>2. /\ up /\ Typed /\ Moving /\ lock \notin RetryType /\ Held = {lock.entry}
      /\ lock.entry \in Entries /\ lock.entry \in Present
      /\ \A j \in jobs : ~Requeueing(j)
      /\ \A j \in jobs : j.pc # "clear" => j.entry.id # lock.entry.id
  BY <1>1, HoldsIs
<1>3. b \in Entries /\ Same(b, lock.entry) /\ ~(b.retries >= MaxRetries)
  <2>1. lock.entry.retries < MaxRetries /\ lock.entry.retries \in Nat /\ MaxRetries \in Nat
    BY <1>2, DownloadAssumption DEF Fit, Entries
  <2> QED BY <1>2, <2>1 DEF Entries, Same, Statuses
<1> HIDE DEF b
<1>4. ~Taken' /\ ~Moving' /\ Held' = {} /\ lock' \notin RemoveType
  BY <1>1, FreeIs
<1>5. hist \in History
  BY <1>2 DEF Typed, TypeOK
<1>6. /\ hist'.accepted = hist.accepted /\ hist'.dropped = hist.dropped
      /\ hist'.unsaved = hist.unsaved /\ hist'.atRisk = hist.atRisk
      /\ hist'.spent = hist.spent
  BY <1>1, <1>5 DEF History
<1>7. Queued' = Queued \cup {b}
  <2>1. queue \in Seq(Entries)
    BY <1>2 DEF Typed, TypeOK
  <2>2. ToSet(<<b>> \o queue) = {b} \cup ToSet(queue)
    BY <1>3, <2>1, Pushed
  <2>3. ToSet(queue') = ToSet(<<b>> \o queue)
    BY <1>1
  <2> QED BY <2>2, <2>3 DEF Queued
<1>8. Carrying' = Carrying /\ Clean' = Clean
  BY <1>1, <1>6 DEF Carrying, Clean
<1>9. infl' = WithoutId(infl, lock.entry.id) /\ snaps' = <<>> /\ Shots' = {}
  BY <1>1, <1>2, AllDropped DEF Shots, ToSet
<1>10. Carriers' = { j.entry : j \in Carrying }
  BY <1>4, <1>8 DEF Carriers
<1>11. \A x \in Present \cup disk : Kin({}, x)
  BY KinOld
<1>12. Sourced({})
  <2>1. Kin({}, b)
    BY <1>2, <1>3 DEF Kin, Same
  <2>2. \A x \in Queued' \cup Held' \cup disk' : Kin({}, x)
    BY <1>1, <1>4, <1>7, <1>11, <2>1, Places
  <2>3. \A j \in jobs' : Kin({}, j.entry)
    BY <1>1, <1>11, Places
  <2>4. \A x \in active' \cup infl' : Kin({}, x)
    BY <1>1, <1>9, <1>11, Places DEF WithoutId
  <2> QED BY <1>9, <2>2, <2>3, <2>4, SourcedBy
<1>13. Identified'
  BY <1>2, <1>4, <1>6, <1>12, IdentifiedNext
<1>14. Fit'
  <2>1. Pictured' \subseteq Pictured
    BY <1>1, <1>9 DEF Pictured, WithoutId
  <2> QED BY <1>1, <1>3, <1>4, <1>6, <1>7, <2>1 DEF Fit
<1>15. Awaited'
  <2>1. TasksOf(Queued') = TasksOf(Queued) \cup {lock.entry.task}
    BY <1>3, <1>7 DEF TasksOf, Same
  <2> QED BY <1>1, <1>2, <1>8, <2>1 DEF Awaited
<1>16. \A i : i \in Ids(active) /\ i # lock.entry.id => i \in Ids(active')
  BY <1>1 DEF Ids, WithoutId
<1>17. \A i : i \in Ids(infl) /\ i # lock.entry.id => i \in Ids(infl')
  BY <1>9 DEF Ids, WithoutId
<1>18. Shown'
  BY <1>2, <1>4, <1>8, <1>16 DEF Shown, Carrying, Requeueing
<1>19. Covered'
  <2> SUFFICES ASSUME NEW j \in Carrying, j.entry.task \in Clean
               PROVE  j.entry.id \in Ids(infl') \/ j.entry.task \in hist.atRisk
    BY <1>6, <1>8, <1>9, <1>10 DEF Covered, CoveredBy
  <2>1. CoveredBy(j.entry) /\ j.entry.id # lock.entry.id
    BY <1>2 DEF Covered, Carriers, Carrying
  <2> QED BY <1>17, <2>1 DEF CoveredBy
<1>20. Confirmed'
  BY <1>1, <1>2 DEF Confirmed, Requeueing
<1>21. Ended'
  BY <1>1, <1>2, <1>3, <1>4, <1>7, <1>8 DEF Ended, Same, Shelved
<1>22. Produced'
  BY <1>1, <1>8 DEF Produced, WithoutId
<1>23. Safe'
  <2>1. \A d \in disk : d.task \in TasksOf(disk')
    BY <1>1 DEF TasksOf
  <2> QED BY <1>1, <1>2, <1>6, <1>8, <1>12, <2>1, SafeNext
<1> QED BY <1>13, <1>14, <1>15, <1>18, <1>19, <1>20, <1>21, <1>22, <1>23

LEMMA FillTracked ==
    ASSUME Inv, Tracked, Fill
    PROVE  Tracked'
BY FillEndsTracked, InflightTracked, RefusedTracked, ActiveTracked, PersistTracked, FailsTracked
   DEF Fill

-----------------------------------------------------------------------------
(* The task of an entry: retry and settlement *)

\* Who leads a task: no one when the lock is free, or one that gives an entry back.
LEMMA RetryIs ==
    ASSUME Inv, NEW j \in jobs, Requeueing(j)
    PROVE  /\ lock \in RetryType /\ ~Moving /\ Held = {lock.entry} /\ lock \notin RemoveType
           /\ lock.entry \in Queued /\ lock.entry.id = j.entry.id
           /\ \A i \in jobs : Requeueing(i) => i = j
<1>1. lock \in RetryType /\ lock.entry.id = j.entry.id /\ lock.entry \in Queued
  BY DEF Inv, Retrying
<1>2. ~Moving /\ Taken /\ lock \notin RemoveType
  BY <1>1, LockKinds DEF Inv, Typed
<1> QED BY <1>1, <1>2, OneRequeueing DEF Held

\* A task ends, and its entry is elsewhere.
LEMMA GoneTracked ==
    ASSUME Inv, Tracked, up, NEW j \in jobs, jobs' = jobs \ {j},
           UNCHANGED <<up, queue, disk, file, fresh>>,
           lock' = lock \/ (lock' = Free /\ ~Moving),
           hist'.accepted = hist.accepted, hist'.dropped = hist.dropped,
           hist'.spent = hist.spent, hist'.atRisk = hist.atRisk,
           hist.unsaved \subseteq hist'.unsaved,
           active' \subseteq active, infl' \subseteq infl, Shots' \subseteq Shots,
           Pictured' \subseteq Pictured,
           \A x \in Carriers : x # j.entry /\ x.task \in Clean' =>
              /\ x.id \in Ids(infl) => x.id \in Ids(infl')
              /\ x.id \in Ids(active) => x.id \in Ids(active'),
           \A i \in Carrying \ {j} : i.entry # j.entry,
           Moving => lock.entry # j.entry,
           j.pc # "stream",
           j.pc # "clear" /\ j.entry.task \in Clean => j.entry.task \in TasksOf(disk)
    PROVE  Tracked'
<1> USE DEF Tracked
<1>1. Queued' = Queued /\ Carrying' = Carrying \ {j} /\ Shelved' = Shelved
  BY DEF Queued, Carrying, Shelved
<1>2. /\ (Moving' <=> Moving) /\ (Moving => lock' = lock) /\ Held' \subseteq Held
      /\ lock' \in RemoveType => lock' = lock
  <2>1. CASE lock' = lock
    BY <2>1 DEF Moving, Held, Taken, MoveType, RetryType
  <2>2. CASE lock' = Free /\ ~Moving
    BY <2>2, FreeIs
  <2> QED BY <2>1, <2>2
<1>3. \A t \in Clean' : t \in Clean
  BY DEF Clean
<1>4. \A x \in Carriers' : x \in Carriers /\ x # j.entry
  BY <1>1, <1>2 DEF Carriers
<1>5. Sourced({})
  <2>1. Placed' \subseteq Placed
    BY <1>1, <1>2 DEF Placed
  <2>2. \A x \in Present' \cup disk' : x \in Present \cup disk
    BY <2>1 DEF Present
  <2> QED BY <2>2, KinOld DEF Sourced
<1>6. Identified'
  <2>1. lock' \in RemoveType => lock'.entry.task \in hist'.dropped
    BY <1>2 DEF Identified
  <2> QED BY <1>5, <2>1, IdentifiedNext
<1>7. Fit'
  BY <1>1, <1>2 DEF Fit
<1>8. Awaited'
  BY <1>1, <1>2, <1>3 DEF Awaited
<1>9. Shown'
  <2>1. \A i \in Carrying' : ~Requeueing(i) /\ i.entry.task \in Clean' => i.entry.id \in Ids(active')
    BY <1>1, <1>3 DEF Shown, Carriers
  <2>2. Moving /\ lock.step = "persist" /\ lock.entry.task \in Clean' => lock.entry.id \in Ids(active')
    BY <1>3 DEF Shown, Carriers
  <2> QED BY <1>2, <2>1, <2>2 DEF Shown, Requeueing
<1>10. Covered'
  <2> SUFFICES ASSUME NEW x \in Carriers', x.task \in Clean'
               PROVE  CoveredBy(x)'
    BY DEF Covered
  <2>1. x \in Carriers /\ x # j.entry /\ CoveredBy(x)
    BY <1>3, <1>4 DEF Covered
  <2>2. x.id \in Ids(infl') \/ x.task \in hist'.atRisk
    BY <2>1 DEF CoveredBy
  <2>3. \A s \in Shots' : x.id \in Ids(s.content) \/ x.task \in s.late
    BY <2>1 DEF CoveredBy
  <2> QED BY <2>2, <2>3 DEF CoveredBy
<1>11. Confirmed'
  BY <1>3 DEF Confirmed
<1>12. Ended'
  BY <1>1, <1>2, <1>3 DEF Ended
<1>13. Produced'
  BY <1>3 DEF Produced
<1>14. Safe'
  <2>1. ASSUME NEW i \in Carrying, i.entry.task \in Clean'
        PROVE  i.entry.task \in TasksOf(disk') \/ \E k \in Carrying' : k.entry.task = i.entry.task
    BY <1>1, <1>3, <2>1 DEF Carrying
  <2>2. \A e \in disk : e.task \in TasksOf(disk')
    BY DEF TasksOf
  <2> QED BY <1>3, <1>5, <2>1, <2>2, SafeNext
<1> QED BY <1>6, <1>7, <1>8, <1>9, <1>10, <1>11, <1>12, <1>13, <1>14

\* A task ends without a last state: another one has the download, or it is not saved.
LEMMA LostTracked ==
    ASSUME Inv, Tracked, NEW j \in jobs, NEW k \in JobType, jobs' = (jobs \ {j}) \cup {k},
           k.pc = "clear", Same(k.entry, j.entry), j.pc \in {"settle", "terminal"},
           UNCHANGED <<up, queue, active, lock, snaps, disk, infl, file, fresh>>,
           hist'.accepted = hist.accepted, hist'.dropped = hist.dropped,
           hist'.spent = hist.spent, hist'.atRisk = hist.atRisk,
           hist.unsaved \subseteq hist'.unsaved,
           k.entry.task \in Clean' => \E i \in jobs : i.pc = "stream" /\ i.entry.task = k.entry.task
    PROVE  Tracked'
<1> USE DEF Tracked
<1>1. up /\ j.pc # "clear" /\ ~Requeueing(j)
  BY JobParts DEF Requeueing
<1>2. /\ Queued' = Queued /\ Carrying' = Carrying \ {j} /\ Shelved' = Shelved /\ Held' = Held
      /\ (Moving' <=> Moving) /\ Shots' = Shots /\ Pictured' = Pictured
      /\ \A l \in jobs' : l = k \/ (l \in jobs /\ l # j)
  BY DEF Queued, Carrying, Shelved, Held, Taken, Moving, MoveType, RetryType, Shots, Pictured
<1>3. \A t \in Clean' : t \in Clean
  BY DEF Clean
<1>4. Carriers' \subseteq Carriers
  BY <1>2 DEF Carriers
<1>5. Sourced({})
  <2>1. \A x \in Present \cup disk : Kin({}, x)
    BY KinOld
  <2>2. \A l \in jobs' : Kin({}, l.entry)
    BY <1>2, <2>1, Places DEF Kin, Same
  <2>3. \A x \in Queued' \cup Held' \cup active' \cup infl' \cup disk' : Kin({}, x)
    BY <1>2, <2>1, Places
  <2>4. \A s \in Shots' : \A x \in s.content : Kin({}, x)
    BY <1>2, <2>1, Places
  <2> QED BY <2>2, <2>3, <2>4, SourcedBy
<1>6. Identified'
  <2>1. lock' \in RemoveType => lock'.entry.task \in hist'.dropped
    BY DEF Identified
  <2> QED BY <1>1, <1>5, <2>1, IdentifiedNext
<1>7. Fit'
  BY <1>2 DEF Fit
<1>8. Awaited'
  BY <1>2, <1>3 DEF Awaited
<1>9. Shown'
  BY <1>2, <1>3 DEF Shown
<1>10. Covered'
  BY <1>2, <1>3, <1>4 DEF Covered, CoveredBy
<1>11. Confirmed'
  BY <1>2, <1>3 DEF Confirmed
<1>12. Ended'
  <2>1. ASSUME k.entry.task \in Clean', NEW e \in Queued \cup Held \cup Shelved
        PROVE  e.id # k.entry.id
    <3>1. \A q \in Queued : q.id # j.entry.id
      BY <1>1 DEF Inv, OneId
    <3>2. Moving => lock.entry.id # j.entry.id
      BY <1>1 DEF Inv, OneId
    <3>3. lock \in RetryType => lock.entry \in Queued
      BY DEF Inv, Retrying
    <3>4. \A h \in Held : h.id # j.entry.id
      BY <3>1, <3>2, <3>3 DEF Held, Taken, Moving
    <3>5. \A d \in Shelved : d.id # j.entry.id
      BY <1>1 DEF Inv, Filed, Shelved
    <3> QED BY <2>1, <3>1, <3>4, <3>5 DEF Same
  <2>2. \A i \in Carrying' : i.entry.id # k.entry.id
    BY <1>1, <1>2 DEF Inv, OneId, Carrying, Same
  <2>3. ASSUME NEW l \in jobs', l.pc = "clear", l.res # "durable", l.entry.task \in Clean'
        PROVE  /\ \A e \in Queued \cup Held \cup Shelved : e.id # l.entry.id
               /\ \A i \in Carrying' : i.entry.id # l.entry.id
    <3>1. CASE l = k
      BY <2>1, <2>2, <2>3, <3>1
    <3>2. CASE l \in jobs
      BY <1>2, <1>3, <2>3, <3>2 DEF Ended
    <3> QED BY <1>2, <3>1, <3>2
  <2> QED BY <1>2, <2>3 DEF Ended
<1>13. Produced'
  BY <1>3 DEF Produced
<1>14. Safe'
  <2>1. ASSUME NEW i \in Carrying, i.entry.task \in Clean'
        PROVE  \E l \in Carrying' : l.entry.task = i.entry.task
    <3>1. CASE i # j
      BY <1>2, <2>1, <3>1
    <3>2. CASE i = j
      <4>1. PICK l \in jobs : l.pc = "stream" /\ l.entry.task = k.entry.task
        BY <2>1, <3>2 DEF Same
      <4>2. l \in Carrying'
        BY <1>2, <4>1 DEF Carrying
      <4> QED BY <3>2, <4>1, <4>2 DEF Same
    <3> QED BY <3>1, <3>2
  <2>2. \A e \in disk : e.task \in TasksOf(disk')
    BY DEF TasksOf
  <2> QED BY <1>1, <1>3, <1>5, <2>1, <2>2, SafeNext
<1> QED BY <1>6, <1>7, <1>8, <1>9, <1>10, <1>11, <1>12, <1>13, <1>14

\* A task has its last state.
LEMMA TerminatesTracked ==
    ASSUME Inv, Tracked, NEW j \in jobs, NEW k \in JobType, jobs' = (jobs \ {j}) \cup {k},
           k.pc = "terminal", Same(k.entry, j.entry), j.pc = "settle",
           k.entry.st # "queued", k.res \in {"kept", "gone"},
           UNCHANGED <<up, queue, active, lock, snaps, disk, infl, file, fresh, hist>>
    PROVE  Tracked'
<1> USE DEF Tracked
<1>1. up /\ j \in Carrying /\ ~Requeueing(j) /\ ~Requeueing(k)
  BY JobParts DEF Requeueing, Carrying
<1>2. /\ Queued' = Queued /\ Carrying' = (Carrying \ {j}) \cup {k} /\ Shelved' = Shelved
      /\ Held' = Held /\ (Moving' <=> Moving) /\ Shots' = Shots /\ Pictured' = Pictured
      /\ Clean' = Clean /\ \A l \in jobs' : l = k \/ (l \in jobs /\ l # j)
  BY DEF Queued, Carrying, Shelved, Held, Taken, Moving, MoveType, RetryType, Shots, Pictured, Clean
<1>3. \A x \in Carriers' : \E y \in Carriers : Same(x, y)
  BY <1>1, <1>2 DEF Carriers, Same
<1>4. Sourced({})
  <2>1. \A x \in Present \cup disk : Kin({}, x)
    BY KinOld
  <2>2. \A l \in jobs' : Kin({}, l.entry)
    BY <1>2, <2>1, Places DEF Kin, Same
  <2>3. \A x \in Queued' \cup Held' \cup active' \cup infl' \cup disk' : Kin({}, x)
    BY <1>2, <2>1, Places
  <2>4. \A s \in Shots' : \A x \in s.content : Kin({}, x)
    BY <1>2, <2>1, Places
  <2> QED BY <2>2, <2>3, <2>4, SourcedBy
<1>5. Identified'
  <2>1. lock' \in RemoveType => lock'.entry.task \in hist'.dropped
    BY DEF Identified
  <2> QED BY <1>1, <1>4, <2>1, IdentifiedNext
<1>6. Fit' /\ Awaited'
  BY <1>2 DEF Fit, Awaited
<1>7. Shown'
  BY <1>1, <1>2 DEF Shown, Same
<1>8. Covered'
  <2> SUFFICES ASSUME NEW x \in Carriers', x.task \in Clean PROVE CoveredBy(x)'
    BY <1>2 DEF Covered
  <2>1. PICK y \in Carriers : Same(x, y)
    BY <1>3
  <2>2. CoveredBy(y)
    BY <2>1 DEF Covered, Same
  <2> QED BY <1>2, <2>1, <2>2 DEF CoveredBy, Same
<1>9. Confirmed'
  BY <1>2 DEF Confirmed
<1>10. Ended'
  BY <1>1, <1>2 DEF Ended, Same
<1>11. Produced'
  BY <1>2 DEF Produced
<1>12. Safe'
  <2>1. \A i \in Carrying : \E l \in Carrying' : l.entry.task = i.entry.task
    BY <1>2 DEF Same
  <2>2. \A e \in disk : e.task \in TasksOf(disk')
    BY DEF TasksOf
  <2> QED BY <1>1, <1>2, <1>4, <2>1, <2>2, SafeNext
<1> QED BY <1>5, <1>6, <1>7, <1>8, <1>9, <1>10, <1>11, <1>12

LEMMA SettlesTracked ==
    ASSUME Inv, Tracked, NEW j \in jobs, JobSettles(j)
    PROVE  Tracked'
<1>1. /\ j.pc = "settle" /\ j \in JobType /\ j.entry \in Entries /\ up /\ ~Requeueing(j)
      /\ UNCHANGED <<up, queue, active, lock, snaps, disk, infl, file, fresh, hist>>
  BY JobParts DEF JobSettles, Requeueing
<1>2. /\ hist'.accepted = hist.accepted /\ hist'.dropped = hist.dropped
      /\ hist'.spent = hist.spent /\ hist'.atRisk = hist.atRisk /\ hist'.unsaved = hist.unsaved
      /\ Clean' = Clean
  BY <1>1 DEF Clean
<1>3. CASE Live(j) = {} /\ Become(j, "clear", "lost")
  <2> DEFINE k == [j EXCEPT !.pc = "clear", !.res = "lost"]
  <2>1. k \in JobType /\ Same(k.entry, j.entry) /\ k.pc = "clear"
    <3>1. "clear" \in Steps /\ "lost" \in Outcomes
      BY DEF Steps, Outcomes
    <3> QED BY <3>1, BecomeIs
  <2>2. jobs' = (jobs \ {j}) \cup {k}
    BY <1>3 DEF Become
  <2>3. j.entry.task \notin Clean
    <3>1. j.entry.id \notin Ids(active)
      BY <1>3 DEF Live, Ids
    <3> QED BY <1>1, <3>1 DEF Tracked, Shown, Carrying
  <2> HIDE DEF k
  <2> QED BY <1>1, <1>2, <2>1, <2>2, <2>3, LostTracked DEF Same
<1>4. ASSUME NEW e \in Live(j), NEW last,
             last = [e EXCEPT !.st = IF @ \in {"active", "queued"} THEN "error" ELSE @],
             NEW p, NEW r, jobs' = (jobs \ {j}) \cup {[j EXCEPT !.pc = p, !.res = r, !.entry = last]},
             \/ p = "clear" /\ r = "lost" /\ last.st = "completed" /\ file[e.task].kind # "final"
             \/ p = "terminal" /\ r \in {"gone", "kept"}
      PROVE  Tracked'
  <2>1. e \in active /\ e \in Entries /\ Same(e, j.entry)
    BY <1>1, LiveRun
  <2>2. /\ last \in Entries /\ Same(last, j.entry) /\ last.st \notin {"active", "queued"}
        /\ last.st = "completed" => e.st = "completed"
    BY <1>4, <2>1 DEF Entries, Statuses, Same
  <2> DEFINE k == [j EXCEPT !.pc = p, !.res = r, !.entry = last]
  <2>3. k \in JobType /\ Same(k.entry, j.entry) /\ k.pc = p /\ k.res = r /\ k.entry = last
    <3>1. p \in Steps /\ r \in Outcomes
      BY <1>4 DEF Steps, Outcomes
    <3> QED BY <1>1, <2>2, <3>1 DEF JobType
  <2>4. jobs' = (jobs \ {j}) \cup {k}
    BY <1>4
  <2> HIDE DEF k
  <2>5. CASE p = "clear" /\ r = "lost" /\ last.st = "completed" /\ file[e.task].kind # "final"
    <3>1. e.task \in Clean => \E i \in jobs : i.pc = "stream" /\ i.entry.task = e.task
      BY <2>1, <2>2, <2>5 DEF Tracked, Produced
    <3> QED BY <1>1, <1>2, <2>1, <2>3, <2>4, <2>5, <3>1, LostTracked DEF Same
  <2>6. CASE p = "terminal" /\ r \in {"gone", "kept"}
    BY <1>1, <1>2, <2>2, <2>3, <2>4, <2>6, TerminatesTracked
  <2> QED BY <1>4, <2>5, <2>6
<1>5. ASSUME NEW e \in Live(j),
             LET last == [e EXCEPT !.st = IF @ \in {"active", "queued"} THEN "error" ELSE @]
                 gone == last.run \in cancel /\ last.run \notin pause
             IN jobs' = (jobs \ {j}) \cup
                  {[j EXCEPT !.pc = IF last.st = "completed" /\ file[e.task].kind # "final"
                                    THEN "clear" ELSE "terminal",
                             !.res = IF last.st = "completed" /\ file[e.task].kind # "final"
                                     THEN "lost"
                                     ELSE IF last.st = "cancelled" \/ gone THEN "gone" ELSE "kept",
                             !.entry = last]}
      PROVE  Tracked'
  <2> DEFINE last == [e EXCEPT !.st = IF @ \in {"active", "queued"} THEN "error" ELSE @]
             p == IF last.st = "completed" /\ file[e.task].kind # "final"
                  THEN "clear" ELSE "terminal"
             r == IF last.st = "completed" /\ file[e.task].kind # "final" THEN "lost"
                  ELSE IF last.st = "cancelled" \/ (last.run \in cancel /\ last.run \notin pause)
                       THEN "gone" ELSE "kept"
  <2>1. jobs' = (jobs \ {j}) \cup {[j EXCEPT !.pc = p, !.res = r, !.entry = last]}
    BY <1>5
  <2>2. \/ p = "clear" /\ r = "lost" /\ last.st = "completed" /\ file[e.task].kind # "final"
        \/ p = "terminal" /\ r \in {"gone", "kept"}
    OBVIOUS
  <2>3. last = [e EXCEPT !.st = IF @ \in {"active", "queued"} THEN "error" ELSE @]
    OBVIOUS
  <2> HIDE DEF p, r, last
  <2> QED BY <1>4, <2>1, <2>2, <2>3
<1> QED BY <1>3, <1>5 DEF JobSettles

LEMMA TerminalFailsTracked ==
    ASSUME Inv, Tracked, NEW j \in jobs, JobTerminalFails(j)
    PROVE  Tracked'
<1> DEFINE k == [j EXCEPT !.pc = "clear", !.res = "lost"]
<1>1. k \in JobType /\ Same(k.entry, j.entry) /\ k.pc = "clear"
  <2>1. "clear" \in Steps /\ "lost" \in Outcomes
    BY DEF Steps, Outcomes
  <2> QED BY <2>1, BecomeIs
<1>2. /\ jobs' = (jobs \ {j}) \cup {k} /\ j.pc = "terminal"
      /\ UNCHANGED <<up, queue, active, lock, snaps, disk, infl, file, fresh>>
      /\ hist' = [hist EXCEPT !.unsaved = @ \cup {j.entry.task}]
  BY DEF JobTerminalFails, Become
<1> HIDE DEF k
<1>3. hist \in History
  BY DEF Inv, Typed, TypeOK
<1>4. /\ hist'.accepted = hist.accepted /\ hist'.dropped = hist.dropped
      /\ hist'.spent = hist.spent /\ hist'.atRisk = hist.atRisk
      /\ hist'.unsaved = hist.unsaved \cup {j.entry.task}
  BY <1>2, <1>3 DEF History
<1>5. k.entry.task \notin Clean'
  BY <1>1, <1>4 DEF Clean, Same
<1> QED BY <1>1, <1>2, <1>4, <1>5, LostTracked

LEMMA ClearsTracked ==
    ASSUME Inv, Tracked, NEW j \in jobs, JobClears(j)
    PROVE  Tracked'
<1>1. /\ j.pc = "clear" /\ up /\ Typed
      /\ active' = WithoutId(active, j.entry.id)
      /\ jobs' = jobs \ {j}
      /\ UNCHANGED <<up, queue, lock, disk, file, fresh>>
  BY JobParts DEF JobClears, Inv
<1>2. hist \in History
  BY DEF Inv, Typed, TypeOK
<1>3. active' \subseteq active /\ \A i : i \in Ids(active) /\ i # j.entry.id => i \in Ids(active')
  BY <1>1 DEF WithoutId, Ids
<1>4. \A i \in Carrying : i.entry.run # j.entry.run
  BY <1>1 DEF Inv, Finished, Carrying
<1>5. /\ \A i \in Carrying \ {j} : i.entry # j.entry
      /\ Moving => lock.entry # j.entry
  <2>1. Moving => lock.entry \in Held
    BY DEF Held, Taken, Moving
  <2> QED BY <1>1, <1>4, <2>1 DEF Inv, Finished
<1>6. CASE j.res = "durable"
  <2>1. /\ InflightWritten(WithoutId(infl, j.entry.id))
        /\ hist' = [hist EXCEPT !.settled = @ \cup {j.entry.run}, !.unsaved = @ \cup Again(j)]
    BY <1>6 DEF JobClears
  <2>2. infl' = WithoutId(infl, j.entry.id) /\ snaps' = <<>> /\ Shots' = {}
    BY <1>1, <2>1, AllDropped DEF Shots, ToSet
  <2>3. infl' \subseteq infl /\ \A i : i \in Ids(infl) /\ i # j.entry.id => i \in Ids(infl')
    BY <2>2 DEF WithoutId, Ids
  <2>4. Pictured' \subseteq Pictured
    BY <1>3, <2>2, <2>3 DEF Pictured
  <2>5. /\ hist'.accepted = hist.accepted /\ hist'.dropped = hist.dropped
        /\ hist'.spent = hist.spent /\ hist'.atRisk = hist.atRisk
        /\ hist'.unsaved = hist.unsaved \cup Again(j)
    BY <1>2, <2>1 DEF History
  <2>6. \A x \in Carriers : x.id = j.entry.id => x.task \in Again(j)
    <3>1. \A i \in Carrying : i.entry.id = j.entry.id => i.entry.task \in Again(j)
      BY <1>1 DEF Again, Carrying
    <3>2. Moving /\ lock.entry.id = j.entry.id => lock.entry.task \in Again(j)
      BY <1>1, LockKinds DEF Again, Typed
    <3> QED BY <3>1, <3>2 DEF Carriers
  <2>7. \A x \in Carriers : x.task \in Clean' => x.id # j.entry.id
    BY <2>5, <2>6 DEF Clean
  <2> QED BY <1>1, <1>3, <1>5, <2>2, <2>3, <2>4, <2>5, <2>7, GoneTracked
<1>7. CASE j.res # "durable"
  <2>1. UNCHANGED <<infl, snaps, hist>>
    BY <1>7 DEF JobClears
  <2>2. Pictured' \subseteq Pictured /\ Shots' \subseteq Shots
    BY <1>3, <2>1 DEF Pictured, Shots
  <2>3. ASSUME NEW x \in Carriers, x.task \in Clean PROVE x.id # j.entry.id
    <3>1. x.id = j.entry.id => x.task = j.entry.task
      BY <2>3, Places DEF Tracked, Identified
    <3>2. x \in Held \/ \E i \in Carrying : x = i.entry
      BY <2>3 DEF Carriers, Held, Taken, Moving
    <3> QED BY <1>1, <1>7, <2>3, <3>1, <3>2 DEF Tracked, Ended
  <2>4. Clean' = Clean
    BY <2>1 DEF Clean
  <2> QED BY <1>1, <1>3, <1>5, <2>1, <2>2, <2>3, <2>4, GoneTracked
<1> QED BY <1>6, <1>7

\* The last state goes to downloads.json.
LEMMA TerminalTracked ==
    ASSUME Inv, Tracked, NEW j \in jobs, JobTerminal(j)
    PROVE  Tracked'
<1> DEFINE k == [j EXCEPT !.pc = "clear", !.res = "durable"]
<1>1. k \in JobType /\ Same(k.entry, j.entry) /\ k.pc = "clear" /\ k.res = "durable"
  <2>1. "clear" \in Steps /\ "durable" \in Outcomes
    BY DEF Steps, Outcomes
  <2> QED BY <2>1, JobParts DEF JobType, Same
<1> USE DEF Tracked
<1>2. /\ jobs' = (jobs \ {j}) \cup {k} /\ j.pc = "terminal"
      /\ UNCHANGED <<up, queue, active, lock, snaps, infl, file, fresh>>
  BY DEF JobTerminal, Become
<1> HIDE DEF k
<1>3. up /\ ~Requeueing(j) /\ hist \in History /\ j.entry \in Present
  BY <1>2, JobParts DEF Requeueing, Inv, Typed, TypeOK
<1>4. /\ hist'.accepted = hist.accepted /\ hist.dropped \subseteq hist'.dropped
      /\ hist'.spent = hist.spent /\ hist'.atRisk = hist.atRisk /\ hist'.unsaved = hist.unsaved
      /\ j.res = "gone" => j.entry.task \in hist'.dropped
  BY <1>3 DEF JobTerminal, History
<1>5. /\ Queued' = Queued /\ Carrying' = Carrying \ {j} /\ Held' = Held
      /\ (Moving' <=> Moving) /\ Shots' = Shots /\ Pictured' = Pictured
      /\ \A l \in jobs' : l = k \/ (l \in jobs /\ l # j)
  BY <1>1, <1>2 DEF Queued, Carrying, Held, Taken, Moving, MoveType, RetryType, Shots, Pictured
<1>6. Carriers' \subseteq Carriers
  BY <1>2, <1>5 DEF Carriers
<1>7. \A t \in Clean' : t \in Clean
  BY <1>4 DEF Clean
<1>8. /\ \A e \in disk' : e \in disk \/ e \in Queued \/ e = j.entry
      /\ \A e \in disk : e.id = j.entry.id \/ e.id \in Ids(Queued) \/ e \in disk'
      /\ \A e \in Queued : e \in disk'
      /\ j.res = "kept" => j.entry \in disk'
  BY DEF JobTerminal
<1>9. j.entry.st # "queued" /\ j.res \in {"kept", "gone"}
  BY <1>2 DEF Fit
<1>10. j.entry.task \in Clean' => j.entry.task \in TasksOf(disk')
  BY <1>4, <1>8, <1>9 DEF TasksOf, Clean
<1>11. ASSUME NEW e \in disk, e.task \in Clean' PROVE e.task \in TasksOf(disk')
  <2>1. CASE e.id = j.entry.id
    <3>1. e.task = j.entry.task
      BY <1>3, <2>1 DEF Identified
    <3> QED BY <1>10, <1>11, <3>1
  <2>2. CASE e.id \in Ids(Queued)
    <3>1. PICK q \in Queued : q.id = e.id
      BY <2>2 DEF Ids
    <3>2. q.task = e.task
      BY <3>1, Places DEF Identified
    <3> QED BY <1>8, <3>2 DEF TasksOf
  <2> QED BY <1>8, <2>1, <2>2 DEF TasksOf
<1>12. Sourced({})
  <2>1. \A x \in Present \cup disk : Kin({}, x)
    BY KinOld
  <2>2. \A l \in jobs' : Kin({}, l.entry)
    BY <1>1, <1>3, <1>5, <2>1, Places DEF Kin, Same
  <2>3. \A x \in Queued' \cup Held' \cup active' \cup infl' \cup disk' : Kin({}, x)
    BY <1>2, <1>3, <1>5, <1>8, <2>1, Places
  <2>4. \A s \in Shots' : \A x \in s.content : Kin({}, x)
    BY <1>5, <2>1, Places
  <2> QED BY <2>2, <2>3, <2>4, SourcedBy
<1>13. Identified'
  <2>1. lock' \in RemoveType => lock'.entry.task \in hist'.dropped
    BY <1>2, <1>4 DEF Identified
  <2> QED BY <1>2, <1>3, <1>4, <1>12, <2>1, IdentifiedNext
<1>14. Fit'
  BY <1>1, <1>2, <1>4, <1>5, <1>8, <1>9 DEF Fit
<1>15. Awaited'
  BY <1>2, <1>3, <1>5, <1>7, <1>8, <1>9 DEF Awaited, TasksOf
<1>16. Shown'
  BY <1>2, <1>5, <1>7 DEF Shown
<1>17. Covered'
  BY <1>2, <1>4, <1>5, <1>6, <1>7 DEF Covered, CoveredBy
<1>18. Confirmed'
  <2> SUFFICES ASSUME NEW l \in jobs', l.pc = "confirm", l.entry.task \in Clean'
               PROVE  l.entry.task \in TasksOf(disk')
    BY DEF Confirmed
  <2>1. l.entry.task \in TasksOf(disk)
    BY <1>1, <1>5, <1>7 DEF Confirmed
  <2> QED BY <1>11, <2>1 DEF TasksOf
<1>19. Ended'
  <2> SUFFICES ASSUME NEW l \in jobs', l.pc = "clear", l.res # "durable", l.entry.task \in Clean'
               PROVE  /\ \A e \in Queued \cup Held \cup Shelved' : e.id # l.entry.id
                      /\ \A i \in Carrying' : i.entry.id # l.entry.id
    BY <1>5 DEF Ended
  <2>1. l \in jobs /\ l # j /\ j \in Carrying
    BY <1>1, <1>2, <1>5 DEF Carrying
  <2>2. /\ \A e \in Queued \cup Held \cup Shelved : e.id # l.entry.id
        /\ \A i \in Carrying : i.entry.id # l.entry.id
    BY <1>7, <2>1 DEF Ended
  <2>3. \A e \in Shelved' : e \in Shelved \/ e \in Queued \/ e = j.entry
    BY <1>8 DEF Shelved
  <2> QED BY <1>5, <2>1, <2>2, <2>3
<1>20. Produced'
  BY <1>2, <1>7 DEF Produced
<1>21. Safe'
  <2>1. ASSUME NEW i \in Carrying, i.entry.task \in Clean'
        PROVE  i.entry.task \in TasksOf(disk') \/ \E l \in Carrying' : l.entry.task = i.entry.task
    BY <1>5, <1>10, <2>1
  <2> QED BY <1>2, <1>3, <1>4, <1>7, <1>11, <1>12, <2>1, SafeNext
<1> QED BY <1>13, <1>14, <1>15, <1>16, <1>17, <1>18, <1>19, <1>20, <1>21

\* A retry is in the file, and leaves the other one.
LEMMA RequeuedTracked ==
    ASSUME Inv, Tracked, NEW j \in jobs, JobRequeued(j)
    PROVE  Tracked'
<1>1. /\ j.pc = "confirm" /\ up /\ Typed /\ lock' = Free /\ jobs' = jobs \ {j}
      /\ InflightWritten(WithoutId(infl, j.entry.id))
      /\ UNCHANGED <<up, queue, active, disk, file, fresh, hist>>
  BY JobParts DEF JobRequeued, Inv
<1>2. infl' = WithoutId(infl, j.entry.id) /\ snaps' = <<>> /\ Shots' = {}
  BY <1>1, AllDropped DEF Shots, ToSet
<1>3. infl' \subseteq infl /\ \A i : i \in Ids(infl) /\ i # j.entry.id => i \in Ids(infl')
  BY <1>2 DEF WithoutId, Ids
<1>4. Pictured' \subseteq Pictured
  BY <1>1, <1>2, <1>3 DEF Pictured
<1>5. ~Moving
  BY <1>1, RetryIs DEF Requeueing
<1>6. \A i \in Carrying \ {j} : i.entry.id # j.entry.id
  BY <1>1 DEF Inv, OneId, Carrying
<1>7. \A x \in Carriers : x # j.entry => x.id # j.entry.id
  BY <1>5, <1>6 DEF Carriers
<1>8. j.entry.task \in Clean => j.entry.task \in TasksOf(disk)
  BY <1>1 DEF Tracked, Confirmed
<1> QED BY <1>1, <1>2, <1>3, <1>4, <1>5, <1>6, <1>7, <1>8, GoneTracked

LEMMA RequeuesTracked ==
    ASSUME Inv, Tracked, NEW j \in jobs, JobRequeues(j)
    PROVE  Tracked'
<1> DEFINE k == [j EXCEPT !.pc = "confirm", !.res = j.res]
<1> USE DEF Tracked
<1>1. k \in JobType /\ k.entry = j.entry /\ k.pc = "confirm"
  <2>1. "confirm" \in Steps
    BY DEF Steps
  <2> QED BY <2>1, JobParts DEF JobType
<1>2. /\ jobs' = (jobs \ {j}) \cup {k} /\ j.pc = "requeue" /\ Requeueing(j)
      /\ disk' = PersistQueue(disk, queue)
      /\ UNCHANGED <<up, queue, active, lock, snaps, infl, file, fresh, hist>>
  BY DEF JobRequeues, Become, Requeueing
<1> HIDE DEF k
<1>3. /\ up /\ j.entry \in Present /\ ~Moving /\ lock \notin RemoveType
      /\ lock.entry \in Queued /\ lock.entry.id = j.entry.id
      /\ \A i \in jobs : Requeueing(i) => i = j
  BY <1>2, JobParts, RetryIs
<1>4. /\ Queued' = Queued /\ Carrying' = (Carrying \ {j}) \cup {k} /\ Held' = Held /\ j \in Carrying
      /\ (Moving' <=> Moving) /\ Shots' = Shots /\ Pictured' = Pictured /\ Clean' = Clean
      /\ \A l \in jobs' : l = k \/ (l \in jobs /\ l # j)
  BY <1>1, <1>2 DEF Queued, Carrying, Held, Taken, Moving, MoveType, RetryType, Shots, Pictured,
                    Clean
<1>5. Carriers' \subseteq Carriers
  BY <1>1, <1>3, <1>4 DEF Carriers
<1>6. /\ \A e \in disk' : e \in Queued \/ (e \in disk /\ e.st # "queued")
      /\ \A e \in Queued : e \in disk'
  BY <1>2, Rewritten DEF Queued
<1>7. Sourced({})
  <2>1. \A x \in Present \cup disk : Kin({}, x)
    BY KinOld
  <2>2. \A l \in jobs' : Kin({}, l.entry)
    BY <1>1, <1>3, <1>4, <2>1, Places
  <2>3. \A x \in Queued' \cup Held' \cup active' \cup infl' \cup disk' : Kin({}, x)
    BY <1>2, <1>4, <1>6, <2>1, Places
  <2>4. \A s \in Shots' : \A x \in s.content : Kin({}, x)
    BY <1>4, <2>1, Places
  <2> QED BY <2>2, <2>3, <2>4, SourcedBy
<1>8. Identified'
  BY <1>2, <1>3, <1>7, IdentifiedNext
<1>9. Fit'
  BY <1>1, <1>2, <1>4, <1>6 DEF Fit
<1>10. Awaited'
  BY <1>4, <1>6 DEF Awaited, TasksOf
<1>11. Shown'
  BY <1>1, <1>2, <1>4 DEF Shown, Requeueing
<1>12. Covered'
  BY <1>2, <1>4, <1>5 DEF Covered, CoveredBy
<1>13. Confirmed'
  <2>1. lock.entry.task = j.entry.task
    BY <1>3, Places DEF Identified
  <2>2. j.entry.task \in TasksOf(disk')
    BY <1>3, <1>6, <2>1 DEF TasksOf
  <2> QED BY <1>1, <1>3, <1>4, <2>2 DEF Confirmed, Requeueing
<1>14. Ended'
  BY <1>1, <1>4, <1>6 DEF Ended, Shelved
<1>15. Produced'
  BY <1>2, <1>4 DEF Produced
<1>16. Safe'
  <2>1. ASSUME NEW e \in disk, e.task \in Clean
        PROVE  e.task \in TasksOf(disk')
    <3>1. \A x \in Queued : x.id = e.id => x.task = e.task
      BY Places DEF Identified
    <3>2. e.st # "queued" \/ e.task \in TasksOf(Queued)
      BY <1>3, <2>1 DEF Awaited
    <3> QED BY <1>2, <3>1, <3>2, RewrittenKeeps DEF Queued
  <2>2. \A i \in Carrying : \E l \in Carrying' : l.entry.task = i.entry.task
    BY <1>1, <1>4
  <2> QED BY <1>2, <1>3, <1>4, <1>7, <2>1, <2>2, SafeNext
<1> QED BY <1>8, <1>9, <1>10, <1>11, <1>12, <1>13, <1>14, <1>15, <1>16

LEMMA RequeueFailsTracked ==
    ASSUME Inv, Tracked, NEW j \in jobs, JobRequeueFails(j)
    PROVE  Tracked'
<1> DEFINE k == [j EXCEPT !.pc = "settle", !.res = j.res]
<1> USE DEF Tracked
<1>1. k \in JobType /\ k.entry = j.entry /\ k.pc = "settle"
  <2>1. "settle" \in Steps
    BY DEF Steps
  <2> QED BY <2>1, JobParts DEF JobType
<1>2. /\ jobs' = (jobs \ {j}) \cup {k} /\ j.pc = "requeue" /\ Requeueing(j)
      /\ queue' = Keep(queue, WithoutId(Queued, j.entry.id)) /\ lock' = Free
      /\ hist' = [hist EXCEPT !.unsaved = @ \cup {j.entry.task}]
      /\ UNCHANGED <<up, active, snaps, disk, infl, file, fresh>>
  BY DEF JobRequeueFails, Become, Requeueing
<1> HIDE DEF k
<1>3. /\ up /\ Typed /\ TypeOK /\ j.entry \in Present /\ ~Moving
      /\ \A i \in jobs : Requeueing(i) => i = j
  BY <1>2, JobParts, RetryIs DEF Inv, Typed
<1>4. Queued' = WithoutId(Queued, j.entry.id)
  <2>1. ToSet(queue') = ToSet(queue) \cap WithoutId(Queued, j.entry.id)
    BY <1>2, <1>3, KeepRange DEF TypeOK
  <2> QED BY <2>1 DEF Queued, WithoutId
<1>5. ~Moving' /\ Held' = {} /\ lock' \notin RemoveType
  BY <1>2, FreeIs
<1>6. /\ hist'.accepted = hist.accepted /\ hist'.dropped = hist.dropped
      /\ hist'.spent = hist.spent /\ hist'.atRisk = hist.atRisk
      /\ hist'.unsaved = hist.unsaved \cup {j.entry.task}
  BY <1>2, <1>3 DEF TypeOK, History
<1>7. \A t \in Clean' : t \in Clean /\ t # j.entry.task
  BY <1>6 DEF Clean
<1>8. /\ Carrying' = (Carrying \ {j}) \cup {k} /\ j \in Carrying
      /\ Shots' = Shots /\ Pictured' = Pictured /\ Shelved' = Shelved
      /\ \A l \in jobs' : l = k \/ (l \in jobs /\ l # j)
  BY <1>1, <1>2 DEF Carrying, Shots, Pictured, Shelved
<1>9. Carriers' \subseteq Carriers
  BY <1>1, <1>3, <1>5, <1>8 DEF Carriers
<1>10. Sourced({})
  <2>1. \A x \in Present \cup disk : Kin({}, x)
    BY KinOld
  <2>2. \A l \in jobs' : Kin({}, l.entry)
    BY <1>1, <1>3, <1>8, <2>1, Places
  <2>3. \A x \in Queued' \cup Held' \cup active' \cup infl' \cup disk' : Kin({}, x)
    BY <1>2, <1>4, <1>5, <2>1, Places DEF WithoutId
  <2>4. \A s \in Shots' : \A x \in s.content : Kin({}, x)
    BY <1>8, <2>1, Places
  <2> QED BY <2>2, <2>3, <2>4, SourcedBy
<1>11. Identified'
  BY <1>2, <1>3, <1>5, <1>6, <1>10, IdentifiedNext
<1>12. Fit'
  BY <1>1, <1>2, <1>4, <1>5, <1>6, <1>8 DEF Fit, WithoutId
<1>13. Awaited'
  <2> SUFFICES ASSUME NEW e \in disk, e.st = "queued", e.task \in Clean'
               PROVE  e.task \in TasksOf(Queued')
    BY <1>2 DEF Awaited
  <2>1. PICK q \in Queued : q.task = e.task
    BY <1>3, <1>7 DEF Awaited, TasksOf
  <2>2. q.id # j.entry.id
    BY <1>3, <1>7, <2>1, Places DEF Identified
  <2> QED BY <1>4, <2>1, <2>2 DEF WithoutId, TasksOf
<1>14. Shown'
  BY <1>1, <1>2, <1>5, <1>7, <1>8 DEF Shown
<1>15. Covered'
  BY <1>2, <1>6, <1>7, <1>8, <1>9 DEF Covered, CoveredBy
<1>16. Confirmed'
  BY <1>1, <1>3, <1>8 DEF Confirmed, Requeueing
<1>17. Ended'
  BY <1>1, <1>4, <1>5, <1>7, <1>8 DEF Ended, WithoutId
<1>18. Produced'
  BY <1>2, <1>7 DEF Produced
<1>19. Safe'
  <2>1. \A e \in disk : e.task \in TasksOf(disk')
    BY <1>2 DEF TasksOf
  <2>2. \A i \in Carrying : \E l \in Carrying' : l.entry.task = i.entry.task
    BY <1>1, <1>8
  <2> QED BY <1>2, <1>3, <1>6, <1>7, <1>10, <2>1, <2>2, SafeNext
<1> QED BY <1>11, <1>12, <1>13, <1>14, <1>15, <1>16, <1>17, <1>18, <1>19

\* A task gives its entry back to the queue.
LEMMA BackTracked ==
    ASSUME Inv, Tracked, NEW j \in jobs, j.pc = "sleep", lock = Free, NEW e \in Live(j), NEW again,
           again = [e EXCEPT !.retries = @ + 1, !.st = "queued"],
           Become(j, "requeue", j.res),
           active' = active \ {e},
           queue' = <<again>> \o queue,
           lock' = [op |-> "retry", step |-> "persist", entry |-> again],
           hist' = [hist EXCEPT !.spent = @ \cup Spent({again})],
           UNCHANGED <<up, snaps, disk, infl, file, fresh>>
    PROVE  Tracked'
<1> DEFINE k == [j EXCEPT !.pc = "requeue", !.res = j.res]
<1>1. k \in JobType /\ k.entry = j.entry /\ k.pc = "requeue"
  <2>1. "requeue" \in Steps
    BY DEF Steps
  <2> QED BY <2>1, JobParts DEF JobType
<1>2. jobs' = (jobs \ {j}) \cup {k}
  BY DEF Become
<1> HIDE DEF k
<1> USE DEF Tracked
<1>3. up /\ Typed /\ TypeOK /\ j.entry \in Present /\ j \in Carrying /\ ~Requeueing(j)
  BY JobParts DEF Inv, Typed, Carrying, Requeueing
<1>4. /\ e \in active /\ e \in Entries /\ Same(e, j.entry)
      /\ again \in Entries /\ again.st = "queued" /\ Same(again, j.entry)
  <2>1. e \in active /\ e \in Entries /\ Same(e, j.entry)
    BY LiveRun
  <2>2. again \in Entries /\ again.st = "queued" /\ Same(again, e)
    <3>1. PICK n \in Nat : n = e.retries + 1
      BY <2>1 DEF Entries
    <3>2. PICK st \in Statuses : st = "queued"
      BY DEF Statuses
    <3>3. again = [e EXCEPT !.retries = n, !.st = st]
      BY <3>1, <3>2
    <3> QED BY <2>1, <3>2, <3>3 DEF Entries, Same
  <2> QED BY <2>1, <2>2 DEF Same
<1>5. /\ ~Moving /\ ~Moving' /\ lock' \notin RemoveType /\ Held' = {again}
      /\ lock \notin RetryType
  <2>1. lock' \in RetryType /\ lock'.entry = again /\ lock'.op = "retry"
    BY <1>4 DEF RetryType
  <2>2. lock' \notin MoveType /\ lock' \notin RemoveType
    BY <2>1 DEF MoveType, RemoveType
  <2> QED BY <2>1, <2>2 DEF Moving, Held, Taken, Free, MoveType, RetryType, RemoveType
<1>6. \A i \in jobs : ~Requeueing(i)
  BY <1>5 DEF Inv, Retrying
<1>7. Queued' = Queued \cup {again}
  <2>1. queue \in Seq(Entries)
    BY <1>3 DEF TypeOK
  <2> QED BY <1>4, <2>1, Pushed DEF Queued
<1>8. /\ hist'.accepted = hist.accepted /\ hist'.dropped = hist.dropped
      /\ hist'.unsaved = hist.unsaved /\ hist'.atRisk = hist.atRisk
      /\ hist'.spent = hist.spent \cup Spent({again})
  BY <1>3 DEF TypeOK, History
<1>9. \A t \in Clean' : t \in Clean
  BY <1>8 DEF Clean
<1>10. /\ Carrying' = (Carrying \ {j}) \cup {k} /\ Shots' = Shots /\ Shelved' = Shelved
       /\ Pictured' \subseteq Pictured
       /\ \A l \in jobs' : l = k \/ (l \in jobs /\ l # j)
  BY <1>1, <1>2 DEF Carrying, Shots, Shelved, Pictured
<1>11. Carriers' \subseteq Carriers
  BY <1>1, <1>3, <1>5, <1>10 DEF Carriers
<1>12. Sourced({})
  <2>1. \A x \in Present \cup disk : Kin({}, x)
    BY KinOld
  <2>2. Kin({}, again)
    BY <1>3, <1>4 DEF Kin, Same
  <2>3. \A l \in jobs' : Kin({}, l.entry)
    BY <1>1, <1>3, <1>10, <2>1, Places
  <2>4. \A x \in Queued' \cup Held' \cup active' \cup infl' \cup disk' : Kin({}, x)
    BY <1>5, <1>7, <2>1, <2>2, Places
  <2>5. \A s \in Shots' : \A x \in s.content : Kin({}, x)
    BY <1>10, <2>1, Places
  <2> QED BY <2>3, <2>4, <2>5, SourcedBy
<1>13. Identified'
  BY <1>3, <1>5, <1>8, <1>12, IdentifiedNext
<1>14. Fit'
  <2>1. again.retries >= MaxRetries => again.task \in hist'.spent
    BY <1>8 DEF Spent, TasksOf
  <2> QED BY <1>1, <1>5, <1>7, <1>8, <1>10, <2>1 DEF Fit
<1>15. Awaited'
  BY <1>5, <1>7, <1>9 DEF Awaited, TasksOf
<1>16. Shown'
  <2>1. Requeueing(k)
    BY <1>1 DEF Requeueing
  <2>2. ASSUME NEW i \in Carrying, i # j, i.entry.task \in Clean'
        PROVE  i.entry.id \in Ids(active')
    <3>1. i.entry.id \in Ids(active)
      BY <1>6, <1>9, <2>2 DEF Shown, Carrying
    <3>2. i.entry.id # e.id
      BY <1>3, <1>4, <2>2 DEF Inv, OneId, Carrying, Same
    <3> QED BY <3>1, <3>2 DEF Ids
  <2> QED BY <1>5, <1>10, <2>1, <2>2 DEF Shown, Requeueing
<1>17. Covered'
  BY <1>8, <1>9, <1>10, <1>11 DEF Covered, CoveredBy
<1>18. Confirmed'
  BY <1>1, <1>6, <1>10 DEF Confirmed, Requeueing
<1>19. Ended'
  <2> SUFFICES ASSUME NEW l \in jobs', l.pc = "clear", l.res # "durable", l.entry.task \in Clean'
               PROVE  /\ \A x \in Queued' \cup Held' \cup Shelved : x.id # l.entry.id
                      /\ \A i \in Carrying' : i.entry.id # l.entry.id
    BY <1>10 DEF Ended
  <2>1. l \in jobs
    BY <1>1, <1>10
  <2>2. /\ \A x \in Queued \cup Shelved : x.id # l.entry.id
        /\ \A i \in Carrying : i.entry.id # l.entry.id
    BY <1>9, <2>1 DEF Ended
  <2>3. again.id # l.entry.id
    BY <1>3, <1>4, <2>2 DEF Same
  <2> QED BY <1>1, <1>3, <1>5, <1>7, <1>10, <2>2, <2>3
<1>20. Produced'
  BY <1>2, <1>9 DEF Produced
<1>21. Safe'
  <2>1. \A d \in disk : d.task \in TasksOf(disk')
    BY DEF TasksOf
  <2>2. \A i \in Carrying : \E l \in Carrying' : l.entry.task = i.entry.task
    BY <1>1, <1>10
  <2> QED BY <1>3, <1>8, <1>9, <1>12, <2>1, <2>2, SafeNext
<1> QED BY <1>13, <1>14, <1>15, <1>16, <1>17, <1>18, <1>19, <1>20, <1>21

LEMMA WakesTracked ==
    ASSUME Inv, Tracked, NEW j \in jobs, JobWakes(j)
    PROVE  Tracked'
<1>1. /\ j.pc = "sleep" /\ up /\ j \in JobType
      /\ UNCHANGED <<up, snaps, disk, infl, file, fresh>>
  BY JobParts DEF JobWakes
<1>2. CASE Become(j, "settle", j.res) /\ UNCHANGED <<queue, active, lock, hist>>
  <2> DEFINE k == [j EXCEPT !.pc = "settle", !.res = j.res]
  <2>1. k \in JobType /\ Same(k.entry, j.entry) /\ k.pc = "settle"
    <3>1. "settle" \in Steps
      BY DEF Steps
    <3> QED BY <1>1, <3>1 DEF JobType, Same
  <2>2. jobs' = (jobs \ {j}) \cup {k}
    BY <1>2 DEF Become
  <2> HIDE DEF k
  <2>3. JobsOn /\ \A l \in jobs : l.pc = "stream" => l \in jobs'
    BY <1>1, <2>1, <2>2 DEF JobsOn
  <2>4. Pictures
    BY <1>1, <1>2 DEF Pictures, Shots
  <2> QED BY <1>1, <1>2, <2>3, <2>4, AloneTracked
<1>3. CASE /\ Live(j) = {} /\ jobs' = jobs \ {j} /\ lock = Free
           /\ UNCHANGED <<queue, active, lock, hist>>
  <2>1. ~Moving
    BY <1>3 DEF Moving, MoveType, Free
  <2>2. j.entry.task \notin Clean
    <3>1. j.entry.id \notin Ids(active)
      BY <1>3 DEF Live, Ids
    <3> QED BY <1>1, <3>1 DEF Tracked, Shown, Carrying, Requeueing
  <2>3. Pictured' \subseteq Pictured /\ Shots' \subseteq Shots
    BY <1>1, <1>3 DEF Pictured, Shots
  <2>4. \A i \in Carrying \ {j} : i.entry # j.entry
    BY <1>1 DEF Inv, OneId, Carrying
  <2> QED BY <1>1, <1>3, <2>1, <2>2, <2>3, <2>4, GoneTracked
<1>4. ASSUME lock = Free, NEW e \in Live(j), ~Terminal(e),
             LET again == [e EXCEPT !.retries = @ + 1, !.st = "queued"] IN
             /\ Become(j, "requeue", j.res)
             /\ active' = active \ {e}
             /\ queue' = <<again>> \o queue
             /\ lock' = [op |-> "retry", step |-> "persist", entry |-> again]
             /\ hist' = [hist EXCEPT !.spent = @ \cup Spent({again})]
      PROVE  Tracked'
  <2> DEFINE again == [e EXCEPT !.retries = @ + 1, !.st = "queued"]
  <2>1. /\ Become(j, "requeue", j.res)
        /\ active' = active \ {e} /\ queue' = <<again>> \o queue
        /\ lock' = [op |-> "retry", step |-> "persist", entry |-> again]
        /\ hist' = [hist EXCEPT !.spent = @ \cup Spent({again})]
    BY <1>4
  <2>2. again = [e EXCEPT !.retries = @ + 1, !.st = "queued"]
    OBVIOUS
  <2> HIDE DEF again
  <2> QED BY <1>1, <1>4, <2>1, <2>2, BackTracked
<1> QED BY <1>2, <1>3, <1>4 DEF JobWakes

LEMMA JobTracked ==
    ASSUME Inv, Tracked, NEW j \in jobs, Job(j)
    PROVE  Tracked'
<1>1. CASE JobClaims(j) \/ JobConnects(j) \/ JobProgress(j) \/ JobSnapshot(j)
  BY <1>1, ClaimsTracked, ConnectsTracked, ProgressTracked, SnapshotTracked
<1>2. CASE \/ JobCancelled(j) \/ JobCompletes(j) \/ JobUnanswered(j) \/ JobRefused(j)
           \/ JobPartUseless(j) \/ JobBreaks(j)
  BY <1>2, EndsTracked
<1>3. CASE JobWakes(j) \/ JobRequeues(j) \/ JobRequeueFails(j) \/ JobRequeued(j)
  BY <1>3, WakesTracked, RequeuesTracked, RequeueFailsTracked, RequeuedTracked
<1>4. CASE JobSettles(j) \/ JobTerminal(j) \/ JobTerminalFails(j) \/ JobClears(j)
  BY <1>4, SettlesTracked, TerminalTracked, TerminalFailsTracked, ClearsTracked
<1> QED BY <1>1, <1>2, <1>3, <1>4 DEF Job

-----------------------------------------------------------------------------
(* The commands of the user *)

\* What holds of the lists while no entry is on its way.
LEMMA AtRest ==
    ASSUME Inv, Tracked, up, ~Taken
    PROVE  /\ \A x, y \in Present \cup disk : x.id = y.id => x.task = y.task
           /\ \A x \in Present \cup disk : /\ x.task \in hist.accepted
                                           /\ x.id \in 1 .. fresh /\ x.run \in 1 .. fresh
           /\ \A e \in Queued \cup disk : e.st = "queued" /\ e.retries >= MaxRetries => e.task \in hist.spent
           /\ \A e \in disk : e.st = "queued" /\ e.task \in Clean => e.task \in TasksOf(Queued)
           /\ \A e \in Pictured : e.st # "queued"
           /\ Held = {} /\ Queued \subseteq Present /\ active \subseteq Present /\ infl \subseteq Present
           /\ active \subseteq Pictured /\ infl \subseteq Pictured
<1>1. ~Moving /\ Held = {}
  BY DEF Moving, Taken, Held
<1>2. \A e \in disk : e.st = "queued" /\ e.task \in Clean => e.task \in TasksOf(Queued)
  BY <1>1 DEF Tracked, Awaited
<1>3. \A x \in Present \cup disk : x.id \in 1 .. fresh /\ x.run \in 1 .. fresh
  BY DEF Inv, Numbered
<1>4. /\ \A x, y \in Present \cup disk : x.id = y.id => x.task = y.task
      /\ \A x \in Present \cup disk : x.task \in hist.accepted
  BY DEF Tracked, Identified
<1>5. /\ \A e \in Queued \cup disk : e.st = "queued" /\ e.retries >= MaxRetries => e.task \in hist.spent
      /\ \A e \in Pictured : e.st # "queued"
  BY DEF Tracked, Fit
<1>6. /\ Queued \subseteq Present /\ active \subseteq Present /\ infl \subseteq Present
      /\ active \subseteq Pictured /\ infl \subseteq Pictured
  BY Places
<1> QED BY <1>1, <1>2, <1>3, <1>4, <1>5, <1>6

\* The queue and what is put behind it are written down; what leaves the file for it has
\* an entry of the same download there.
LEMMA GrowsTracked ==
    ASSUME Inv, Tracked, up, lock = Free,
           UNCHANGED <<up, lock, jobs, active, snaps, infl, file>>,
           NEW new \in Seq(Entries), queue' = queue \o new,
           NEW N, N \subseteq ToSet(new),
           \A x \in N : x.id \notin 1 .. fresh /\ x.task \in hist'.accepted,
           \A x, y \in N : x.id = y.id => x.task = y.task,
           \A x \in ToSet(new) : /\ x.retries >= MaxRetries => x.task \in hist'.spent
                                 /\ \/ x \in N
                                    \/ \E y \in Shelved : x.id = y.id /\ x.task = y.task,
           NEW S, S \subseteq disk, disk' = PersistQueue(S, queue'),
           \A e \in disk \ S : e.task \in TasksOf(ToSet(new)),
           hist.accepted \subseteq hist'.accepted, hist'.atRisk = hist.atRisk,
           hist.spent \subseteq hist'.spent,
           \A t \in Clean' : t \in Clean \/ (t \notin hist.accepted /\ t \in TasksOf(N))
    PROVE  Tracked'
<1> DEFINE Q == ToSet(new)
<1>1. /\ \A x, y \in Present \cup disk : x.id = y.id => x.task = y.task
      /\ \A x \in Present \cup disk : x.task \in hist.accepted /\ x.id \in 1 .. fresh
      /\ \A e \in Queued \cup disk : e.st = "queued" /\ e.retries >= MaxRetries => e.task \in hist.spent
      /\ \A e \in disk : e.st = "queued" /\ e.task \in Clean => e.task \in TasksOf(Queued)
      /\ \A e \in Pictured : e.st # "queued"
      /\ ~Taken /\ Queued \subseteq Present
  BY FreeLock, AtRest
<1>2. queue \in Seq(Entries) /\ Queued' = Queued \cup Q /\ ToSet(queue') = Queued \cup Q
  <2>1. queue \in Seq(Entries)
    BY FreeLock
  <2> QED BY <2>1, Joined DEF Queued
<1>3. /\ ~Taken' /\ lock' \notin RemoveType /\ Held' = {}
  BY FreeIs
<1>4. /\ \A e \in disk' : e \in Queued \cup Q \/ (e \in S /\ e.st # "queued")
      /\ \A e \in Queued \cup Q : e \in disk'
      /\ \A e \in S : \/ e.st = "queued" \/ e.id \in Ids(Queued \cup Q)
                      \/ e.task \in TasksOf(Queued \cup Q) \/ e \in disk'
  BY <1>2, Rewritten
<1> HIDE DEF Q
<1>5. \A x \in Q : x \in N \/ \E y \in Shelved : x.id = y.id /\ x.task = y.task
  BY DEF Q
<1>6. \A x \in Q : Kin(N, x)
  BY <1>5 DEF Kin, Shelved
<1>7. Pictured' = Pictured /\ Shots' = Shots
  BY DEF Pictured, Shots
<1>8. Sourced(N)
  <2>1. \A x \in Present \cup disk : Kin(N, x)
    BY KinOld
  <2>2. \A x \in Queued' \cup Held' : Kin(N, x)
    BY <1>1, <1>2, <1>3, <1>6, <2>1
  <2>3. \A x \in disk' : Kin(N, x)
    BY <1>1, <1>4, <1>6, <2>1
  <2> QED BY <1>7, <2>1, <2>2, <2>3, Places, SourcedBy
<1>9. \A e \in disk : e.task \in Clean' => e.task \in TasksOf(disk')
  <2> SUFFICES ASSUME NEW e \in disk, e.task \in Clean' PROVE \E x \in disk' : x.task = e.task
    BY DEF TasksOf
  <2>1. e.task \in Clean /\ e.id \in 1 .. fresh
    BY <1>1
  <2>2. CASE e.task \in TasksOf(Queued \cup Q)
    BY <1>4, <2>2 DEF TasksOf
  <2>3. CASE e \notin S
    BY <1>4, <2>3 DEF TasksOf, Q
  <2>4. CASE e.id \in Ids(Queued \cup Q)
    <3>1. PICK x \in Queued \cup Q : x.id = e.id
      BY <2>4 DEF Ids
    <3>2. x.task = e.task
      BY <1>1, <1>5, <2>1, <3>1 DEF Shelved
    <3> QED BY <1>4, <3>1, <3>2
  <2>5. CASE e.st = "queued"
    BY <1>1, <1>4, <2>1, <2>5 DEF TasksOf
  <2> QED BY <1>4, <2>2, <2>3, <2>4, <2>5
<1>10. \A e \in N : e.task \in TasksOf(disk')
  BY <1>4 DEF TasksOf, Q
<1>11. Desk(N)
  <2>1. \A t \in Clean' : t \in Clean \/ (t \notin hist.accepted /\ t \in TasksOf(disk'))
    BY <1>10 DEF TasksOf
  <2>2. \A e \in Queued' \cup disk' : e.st = "queued" /\ e.retries >= MaxRetries => e.task \in hist'.spent
    BY <1>1, <1>2, <1>4 DEF Q
  <2>3. \A e \in disk' : e.st = "queued" /\ e.task \in Clean' => e.task \in TasksOf(Queued')
    BY <1>2, <1>4 DEF TasksOf
  <2>4. \A e \in Queued' \cup Shelved' : e \in N \/ e.id \in Ids(Queued \cup Shelved)
    BY <1>2, <1>4, <1>5 DEF Shelved, Ids
  <2>5. /\ \A e \in active : e.task \in Clean' => e.id \in Ids(active')
        /\ \A e \in active' : e.st = "completed" => e \in active
        /\ \A t \in Clean' : file'[t] = file[t]
        /\ \A e \in infl : e.task \in Clean' => e.id \in Ids(infl')
        /\ \A s \in Shots' : s \in Shots
    BY <1>7 DEF Ids
  <2> QED BY <1>1, <1>3, <1>7, <1>8, <1>9, <1>10, <2>1, <2>2, <2>3, <2>4, <2>5 DEF Desk
<1> QED BY <1>11, DeskKeeps

LEMMA EnqueueTracked ==
    ASSUME Inv, Tracked, NEW t \in Tasks, Enqueue(t)
    PROVE  Tracked'
<1> DEFINE e == [id |-> fresh + 1, task |-> t, run |-> fresh + 1, st |-> "queued", retries |-> 0]
           new == <<e>>
<1>1. /\ up /\ lock = Free /\ t \notin hist.accepted
      /\ UNCHANGED <<up, active, jobs, lock, snaps, infl, file>>
  BY DEF Enqueue, Locked, Command
<1>2. fresh \in Nat /\ hist \in History
  BY Types
<1>3. e \in Entries /\ e.id = fresh + 1 /\ e.task = t
  BY <1>2 DEF Entries, Statuses
<1>4. CASE /\ queue' = Append(queue, e) /\ disk' = PersistQueue(disk, Append(queue, e))
           /\ hist' = [hist EXCEPT !.accepted = @ \cup {t}, !.spent = @ \cup Spent({e})]
  <2> HIDE DEF e
  <2>1. new \in Seq(Entries) /\ ToSet(new) = {e} /\ queue' = queue \o new
    <3>1. queue \in Seq(Entries)
      BY <1>1, FreeLock
    <3> QED BY <1>3, <1>4, <3>1, Single, Appended
  <2> HIDE DEF new
  <2>2. /\ hist'.accepted = hist.accepted \cup {t} /\ hist'.spent = hist.spent \cup Spent({e})
        /\ hist'.atRisk = hist.atRisk /\ hist'.dropped = hist.dropped
        /\ hist'.unsaved = hist.unsaved
    BY <1>2, <1>4 DEF History
  <2>3. \A u \in Clean' : u \in Clean \/ (u \notin hist.accepted /\ u \in TasksOf({e}))
    BY <1>1, <1>3, <2>2 DEF Clean, TasksOf
  <2>4. \A x \in ToSet(new) : /\ x.retries >= MaxRetries => x.task \in hist'.spent
                              /\ x \in {e} \/ \E y \in Shelved : x.id = y.id /\ x.task = y.task
    BY <2>1, <2>2 DEF Spent, TasksOf
  <2>5. \A x \in {e} : x.id \notin 1 .. fresh /\ x.task \in hist'.accepted
    BY <1>2, <1>3, <2>2
  <2> QED BY <1>1, <1>4, <2>1, <2>2, <2>3, <2>4, <2>5, GrowsTracked
<1>5. CASE UNCHANGED <<queue, disk, hist>>
  BY <1>1, <1>5, IdleTracked
<1> QED BY <1>4, <1>5 DEF Enqueue

LEMMA ResumeTracked ==
    ASSUME Inv, Tracked, NEW t \in Tasks, Resume(t)
    PROVE  Tracked'
<1>1. PICK e \in disk :
        /\ e.task = t
        /\ queue' = Append(queue, [e EXCEPT !.id = fresh + 1, !.run = fresh + 1, !.st = "queued"])
        /\ disk' = PersistQueue(disk \ {e},
             Append(queue, [e EXCEPT !.id = fresh + 1, !.run = fresh + 1, !.st = "queued"]))
        /\ hist' = [hist EXCEPT !.spent = @ \cup Spent({e})]
  BY DEF Resume
<1> DEFINE x == [e EXCEPT !.id = fresh + 1, !.run = fresh + 1, !.st = "queued"]
           new == <<x>>
<1>2. queue' = Append(queue, x) /\ disk' = PersistQueue(disk \ {e}, Append(queue, x))
  BY <1>1
<1>3. /\ up /\ lock = Free
      /\ UNCHANGED <<up, active, jobs, lock, snaps, infl, file>>
  BY DEF Resume, Locked, Command
<1>4. fresh \in Nat /\ hist \in History /\ e \in Entries /\ e.task \in hist.accepted
  BY <1>3, Types, FreeLock, AtRest
<1>5. x \in Entries /\ x.id = fresh + 1 /\ x.task = e.task /\ x.retries = e.retries
  <2>1. PICK n \in Nat : n = fresh + 1
    BY <1>4
  <2>2. x = [e EXCEPT !.id = n, !.run = n, !.st = "queued"] /\ "queued" \in Statuses
    BY <2>1 DEF Statuses
  <2> HIDE DEF x
  <2> QED BY <1>4, <2>1, <2>2 DEF Entries
<1> HIDE DEF x
<1>6. new \in Seq(Entries) /\ ToSet(new) = {x} /\ queue' = queue \o new
  <2>1. queue \in Seq(Entries)
    BY <1>3, FreeLock
  <2> QED BY <1>2, <1>5, <2>1, Single, Appended
<1> HIDE DEF new
<1>7. /\ hist'.accepted = hist.accepted /\ hist'.spent = hist.spent \cup Spent({e})
      /\ hist'.atRisk = hist.atRisk /\ hist'.dropped = hist.dropped
      /\ hist'.unsaved = hist.unsaved
  BY <1>1, <1>4 DEF History
<1>8. \A u \in Clean' : u \in Clean
  BY <1>7 DEF Clean
<1>9. \A y \in ToSet(new) : /\ y.retries >= MaxRetries => y.task \in hist'.spent
                            /\ y \in {x} \/ \E z \in Shelved : y.id = z.id /\ y.task = z.task
  BY <1>5, <1>6, <1>7 DEF Spent, TasksOf
<1>10. \A y \in {x} : y.id \notin 1 .. fresh /\ y.task \in hist'.accepted
  BY <1>4, <1>5, <1>7
<1>11. \A f \in disk \ (disk \ {e}) : f.task \in TasksOf(ToSet(new))
  BY <1>5, <1>6 DEF TasksOf
<1>12. disk' = PersistQueue(disk \ {e}, queue') /\ disk \ {e} \subseteq disk
  BY <1>2
<1> QED BY <1>3, <1>6, <1>7, <1>8, <1>9, <1>10, <1>11, <1>12, GrowsTracked

LEMMA ResumeAllTracked ==
    ASSUME Inv, Tracked, ResumeAll
    PROVE  Tracked'
<1> DEFINE idle == { e \in disk : e.st = "paused" /\ e.id \notin Ids(Queued) }
           order == SetToSeq(idle)
           again == [i \in DOMAIN order |-> [order[i] EXCEPT !.run = fresh + i, !.st = "queued"]]
<1>1. /\ up /\ lock = Free
      /\ queue' = queue \o again /\ disk' = PersistQueue(disk, queue \o again)
      /\ hist' = [hist EXCEPT !.spent = @ \cup Spent(idle)]
      /\ UNCHANGED <<up, active, jobs, lock, snaps, infl, file>>
  BY DEF ResumeAll, Locked, Command
<1>2. IsFiniteSet(idle) /\ idle \subseteq Shelved /\ idle \subseteq Entries
  <2>1. IsFiniteSet(disk) /\ disk \subseteq Entries /\ idle \subseteq disk
    BY Types DEF Typed
  <2>2. \A e \in idle : e \in Shelved
    BY DEF Shelved
  <2> QED BY <2>1, <2>2, FS_Subset
<1> HIDE DEF idle
<1>3. /\ Len(order) \in Nat /\ DOMAIN order = 1 .. Len(order)
      /\ \A i \in DOMAIN order : order[i] \in idle
  BY <1>2, SetToSeqOrders
<1> HIDE DEF order
<1>4. fresh \in Nat /\ hist \in History
  BY Types
<1>5. ASSUME NEW i \in DOMAIN order
      PROVE  /\ again[i] \in Entries /\ again[i].id = order[i].id /\ again[i].task = order[i].task
             /\ again[i].retries = order[i].retries
  <2>1. PICK n \in Nat : n = fresh + i
    BY <1>3, <1>4
  <2>2. again[i] = [order[i] EXCEPT !.run = n, !.st = "queued"]
    BY <2>1
  <2>3. order[i] \in Entries /\ "queued" \in Statuses
    BY <1>2, <1>3 DEF Statuses
  <2> HIDE DEF again
  <2> QED BY <2>2, <2>3 DEF Entries
<1>6. DOMAIN again = DOMAIN order /\ again = [i \in DOMAIN order |-> again[i]]
  OBVIOUS
<1> HIDE DEF again
<1>7. again \in Seq(Entries)
  <2>1. again \in [1 .. Len(order) -> Entries]
    BY <1>3, <1>5, <1>6
  <2> QED BY <1>3, <2>1, SeqDef
<1>8. \A x \in ToSet(again) : \E i \in DOMAIN order : x = again[i]
  BY <1>6 DEF ToSet
<1>9. /\ hist'.accepted = hist.accepted /\ hist'.spent = hist.spent \cup Spent(idle)
      /\ hist'.atRisk = hist.atRisk /\ hist'.dropped = hist.dropped
      /\ hist'.unsaved = hist.unsaved
  BY <1>1, <1>4 DEF History
<1>10. ASSUME NEW x \in ToSet(again)
       PROVE  /\ x.retries >= MaxRetries => x.task \in hist'.spent
              /\ x \in {} \/ \E y \in Shelved : x.id = y.id /\ x.task = y.task
  <2>1. PICK i \in DOMAIN order : x = again[i]
    BY <1>8
  <2>2. order[i] \in idle /\ order[i] \in Shelved
    BY <1>2, <1>3
  <2> QED BY <1>5, <1>9, <2>1, <2>2 DEF Spent, TasksOf
<1>11. \A u \in Clean' : u \in Clean
  BY <1>9 DEF Clean
<1>12. disk' = PersistQueue(disk, queue') /\ disk \subseteq disk
  BY <1>1
<1>13. \A e \in disk \ disk : e.task \in TasksOf(ToSet(again))
  OBVIOUS
<1>14. PICK N : N = {}
  OBVIOUS
<1>15. /\ N \subseteq ToSet(again)
       /\ \A x \in N : x.id \notin 1 .. fresh /\ x.task \in hist'.accepted
       /\ \A x, y \in N : x.id = y.id => x.task = y.task
       /\ \A x \in ToSet(again) : /\ x.retries >= MaxRetries => x.task \in hist'.spent
                                  /\ x \in N \/ \E y \in Shelved : x.id = y.id /\ x.task = y.task
       /\ \A t \in Clean' : t \in Clean \/ (t \notin hist.accepted /\ t \in TasksOf(N))
  BY <1>10, <1>11, <1>14
<1>16. hist.accepted \subseteq hist'.accepted /\ hist.spent \subseteq hist'.spent
  BY <1>9
<1> QED BY <1>1, <1>7, <1>9, <1>12, <1>13, <1>15, <1>16, GrowsTracked

LEMMA PauseQueuedTracked ==
    ASSUME Inv, Tracked, NEW t \in Tasks, PauseQueued(t)
    PROVE  Tracked'
<1>1. PICK e \in Queued : /\ e.task = t
                          /\ disk' = WithoutTask(disk, t) \cup {[e EXCEPT !.id = fresh + 1, !.st = "paused"]}
                          /\ queue' = Keep(queue, Queued \ {e})
  BY DEF PauseQueued
<1> DEFINE x == [e EXCEPT !.id = fresh + 1, !.st = "paused"]
<1>2. /\ up /\ lock = Free
      /\ UNCHANGED <<up, active, jobs, lock, snaps, infl, file, hist>>
  BY DEF PauseQueued, Locked, Command
<1>3. fresh \in Nat /\ e \in Entries /\ queue \in Seq(Entries)
  BY <1>2, Types, FreeLock
<1>4. x.st = "paused" /\ x.id = fresh + 1 /\ x.task = t
  BY <1>1, <1>3 DEF Entries
<1>5. disk' = WithoutTask(disk, t) \cup {x}
  BY <1>1
<1> HIDE DEF x
<1>6. /\ \A y \in Present \cup disk : y.task \in hist.accepted /\ y.id \in 1 .. fresh
      /\ \A y \in Queued \cup disk : y.st = "queued" /\ y.retries >= MaxRetries => y.task \in hist.spent
      /\ \A y \in disk : y.st = "queued" /\ y.task \in Clean => y.task \in TasksOf(Queued)
      /\ \A y \in Pictured : y.st # "queued"
      /\ ~Taken /\ Queued \subseteq Present
  BY <1>2, FreeLock, AtRest
<1>7. ~Taken' /\ lock' \notin RemoveType /\ Held' = {}
  BY <1>2, FreeIs
<1>8. Queued' = Queued \ {e}
  <2>1. ToSet(queue') = ToSet(queue) \cap (Queued \ {e})
    BY <1>1, <1>3, KeepRange
  <2> QED BY <2>1 DEF Queued
<1>9. \A y \in disk' : y = x \/ (y \in disk /\ y.task # t)
  BY <1>5 DEF WithoutTask
<1>10. \A y \in disk : y.task = t \/ y \in disk'
  BY <1>5 DEF WithoutTask
<1>11. x \in disk' /\ Pictured' = Pictured /\ Shots' = Shots /\ Clean' = Clean
  BY <1>2, <1>5 DEF Pictured, Shots, Clean
<1> DEFINE N == {x}
<1>12. \A y \in N : y = x
  OBVIOUS
<1>13. x \in N
  OBVIOUS
<1> HIDE DEF N
<1>14. Sourced(N)
  <2>1. \A y \in Present \cup disk : Kin(N, y)
    BY KinOld
  <2>2. \A y \in Queued' \cup Held' : Kin(N, y)
    BY <1>6, <1>7, <1>8, <2>1
  <2>3. \A y \in disk' : Kin(N, y)
    BY <1>9, <1>13, <2>1 DEF Kin
  <2>4. \A y \in N : y.id \notin 1 .. fresh /\ y.task \in hist'.accepted
    BY <1>1, <1>2, <1>3, <1>4, <1>6, <1>12
  <2> QED BY <1>2, <1>11, <1>12, <2>1, <2>2, <2>3, <2>4, Places, SourcedBy
<1>15. Desk(N)
  <2>1. \A y \in Queued' \cup disk' : y.st = "queued" /\ y.retries >= MaxRetries => y.task \in hist'.spent
    BY <1>2, <1>4, <1>6, <1>8, <1>9
  <2>2. \A y \in disk' : y.st = "queued" /\ y.task \in Clean' => y.task \in TasksOf(Queued')
    BY <1>1, <1>4, <1>6, <1>8, <1>9, <1>11 DEF TasksOf
  <2>3. \A y \in Queued' \cup Shelved' : y \in N \/ y.id \in Ids(Queued \cup Shelved)
    BY <1>8, <1>9, <1>13 DEF Shelved, Ids
  <2>4. /\ \A y \in N : y.task \in TasksOf(disk')
        /\ \A y \in disk : y.task \in TasksOf(disk')
    BY <1>4, <1>10, <1>11, <1>12 DEF TasksOf
  <2>5. /\ \A y \in active : y.id \in Ids(active')
        /\ \A y \in infl : y.id \in Ids(infl')
    BY <1>2 DEF Ids
  <2> QED BY <1>2, <1>6, <1>7, <1>11, <1>14, <2>1, <2>2, <2>3, <2>4, <2>5 DEF Desk
<1> QED BY <1>15, DeskKeeps

\* Pausing leaves every download where it is.
LEMMA PausedTasks ==
    ASSUME Inv, up, NEW paused, paused = [i \in DOMAIN queue |-> [queue[i] EXCEPT !.st = "paused"]]
    PROVE  /\ \A q \in Queued : q.task \in TasksOf(ToSet(paused))
           /\ \A p \in ToSet(paused) : p.st = "paused" /\ \E q \in Queued : Same(p, q)
<1>1. queue \in Seq(Entries)
  BY Types DEF TypeOK
<1>2. \A i \in DOMAIN queue : queue[i] \in Entries
  BY <1>1, LenProperties, ElementOfSeq
<1>3. \A i \in DOMAIN queue : paused[i] \in ToSet(paused) /\ paused[i].task = queue[i].task
  BY <1>2 DEF ToSet, Entries
<1>4. \A q \in Queued : \E i \in DOMAIN queue : q = queue[i]
  BY DEF Queued, ToSet
<1>5. \A p \in ToSet(paused) : p.st = "paused" /\ \E q \in Queued : Same(p, q)
  BY PausedQueue
<1>6. ASSUME NEW q \in Queued PROVE q.task \in TasksOf(ToSet(paused))
  <2>1. PICK i \in DOMAIN queue : q = queue[i]
    BY <1>4
  <2>2. PICK p \in ToSet(paused) : p.task = q.task
    BY <1>3, <2>1
  <2> QED BY <2>2 DEF TasksOf
<1> QED BY <1>5, <1>6

LEMMA PauseAllTracked ==
    ASSUME Inv, Tracked, PauseAll
    PROVE  Tracked'
<1> DEFINE runs == { j.entry.run : j \in Writing }
           f == [e \in active |-> IF e.run \in runs THEN [e EXCEPT !.st = "pausing"] ELSE e]
           content == { f[e] : e \in active }
           paused == [i \in DOMAIN queue |-> [queue[i] EXCEPT !.st = "paused"]]
<1>1. /\ up /\ lock = Free
      /\ active' = content /\ InflightWritten(content)
      /\ UNCHANGED <<up, jobs, lock, file, hist>>
  BY DEF PauseAll, Locked, Command
<1>2. \/ disk' = PersistQueue(disk, paused) /\ queue' = <<>>
      \/ queue' = paused /\ UNCHANGED disk
  BY DEF PauseAll
<1>3. \A e \in active : /\ Same(f[e], e) /\ f[e].st \in {"pausing", e.st}
                        /\ f[e].st = "completed" => f[e] = e
  BY Types DEF Entries, Same
<1>4. /\ \A q \in Queued : q.task \in TasksOf(ToSet(paused))
      /\ \A p \in ToSet(paused) : p.st = "paused" /\ \E q \in Queued : Same(p, q)
  BY <1>1, PausedTasks
<1> HIDE DEF runs, f, paused
<1>5. /\ \A x \in content : \E e \in active : Same(x, e) /\ x.st \in {"pausing", e.st}
      /\ \A x \in content : x.st = "completed" => x \in active
      /\ \A e \in active : e.id \in Ids(content)
  BY <1>3 DEF Ids, Same
<1> HIDE DEF content
<1>6. /\ \A x, y \in Present \cup disk : x.id = y.id => x.task = y.task
      /\ \A y \in Queued \cup disk : y.st = "queued" /\ y.retries >= MaxRetries => y.task \in hist.spent
      /\ \A y \in disk : y.st = "queued" /\ y.task \in Clean => y.task \in TasksOf(Queued)
      /\ \A y \in Pictured : y.st # "queued"
      /\ ~Taken /\ Queued \subseteq Present /\ active \subseteq Present /\ active \subseteq Pictured
  BY <1>1, FreeLock, AtRest
<1>7. ~Taken' /\ lock' \notin RemoveType /\ Held' = {}
  BY <1>1, FreeIs
<1>8. infl' = content /\ snaps' = <<>> /\ Shots' = {} /\ Clean' = Clean /\ Pictured' = content
  <2>1. infl' = content /\ snaps' = <<>>
    BY <1>1, Types, AllDropped
  <2> QED BY <1>1, <2>1 DEF Shots, ToSet, Clean, Pictured
<1>9. /\ \A x \in disk' : (x \in disk /\ (x.st = "queued" => queue' = paused)) \/ x \in ToSet(paused)
      /\ \A q \in Queued' : q \in ToSet(paused)
      /\ queue' = paused => Queued' = ToSet(paused)
  <2>1. CASE disk' = PersistQueue(disk, paused) /\ queue' = <<>>
    <3>1. Queued' = {}
      BY <2>1 DEF Queued, ToSet
    <3> QED BY <2>1, <3>1, Rewritten DEF Queued
  <2>2. CASE queue' = paused /\ disk' = disk
    BY <2>2 DEF Queued
  <2> QED BY <1>2, <2>1, <2>2
<1>10. Sourced({})
  <2>1. \A y \in Present \cup disk : Kin({}, y)
    BY KinOld
  <2>2. \A p \in ToSet(paused) : Kin({}, p)
    BY <1>4, <1>6 DEF Kin, Same
  <2>3. \A x \in active' \cup infl' : Kin({}, x)
    BY <1>1, <1>5, <1>6, <1>8 DEF Kin, Same
  <2>4. \A x \in Queued' \cup Held' \cup disk' : Kin({}, x)
    BY <1>7, <1>9, <2>1, <2>2
  <2>5. \A j \in jobs' : Kin({}, j.entry)
    BY <1>1, <2>1, Places
  <2> QED BY <1>8, <2>3, <2>4, <2>5, SourcedBy
<1>11. \A e \in disk : e.task \in Clean' => e.task \in TasksOf(disk')
  <2> SUFFICES ASSUME NEW e \in disk, e.task \in Clean PROVE e.task \in TasksOf(disk')
    BY <1>8
  <2>1. e.st # "queued" \/ e.task \in TasksOf(ToSet(paused))
    BY <1>4, <1>6 DEF TasksOf
  <2>2. \A x \in ToSet(paused) : x.id = e.id => x.task = e.task
    BY <1>4, <1>6 DEF Same
  <2>3. e.task \in TasksOf(PersistQueue(disk, paused))
    BY <2>1, <2>2, RewrittenKeeps
  <2> QED BY <1>2, <2>3 DEF TasksOf
<1>12. Desk({})
  <2>1. \A y \in Queued' \cup disk' : y.st = "queued" /\ y.retries >= MaxRetries => y.task \in hist'.spent
    BY <1>1, <1>4, <1>6, <1>9
  <2>2. \A y \in disk' : y.st = "queued" /\ y.task \in Clean' => y.task \in TasksOf(Queued')
    BY <1>4, <1>6, <1>8, <1>9 DEF TasksOf
  <2>3. \A y \in Queued' \cup Shelved' : y.id \in Ids(Queued \cup Shelved)
    <3>1. \A p \in ToSet(paused) : p.id \in Ids(Queued)
      BY <1>4 DEF Same, Ids
    <3>2. ASSUME NEW y \in Shelved' PROVE y \in Shelved \/ y \in ToSet(paused)
      BY <1>9 DEF Shelved
    <3> QED BY <1>9, <3>1, <3>2 DEF Ids
  <2>4. \A y \in Pictured' : y.st # "queued"
    BY <1>5, <1>6, <1>8
  <2>5. \A j \in Carrying : j.entry.task \in Clean' => j.entry.id \in Ids(infl')
    <3>1. \A j \in jobs : ~Requeueing(j)
      BY <1>1, FreeLock
    <3> QED BY <1>5, <1>8, <3>1 DEF Tracked, Shown, Carrying, Ids
  <2>6. /\ \A e \in active : e.id \in Ids(active')
        /\ \A e \in active' : e.st = "completed" => e \in active
    BY <1>1, <1>5
  <2> QED BY <1>1, <1>6, <1>7, <1>8, <1>10, <1>11, <2>1, <2>2, <2>3, <2>4, <2>5, <2>6 DEF Desk
<1> QED BY <1>12, DeskKeeps

LEMMA ClearStatusTracked ==
    ASSUME Inv, Tracked, NEW st, ClearStatus(st)
    PROVE  Tracked'
<1> DEFINE stay(S) == { e \in S : e.st # st }
           gone == { e \in Known \cup infl : e.st = st }
           D == { e \in stay(disk) : e.id \notin Ids(Queued) }
<1>1. /\ up /\ lock = Free
      /\ file' = [t \in Tasks |-> IF t \in TasksOf(gone) /\ file[t].kind = "part"
                                  THEN NoFile ELSE file[t]]
      /\ disk' = D \cup Queued
      /\ InflightWritten(stay(infl)) /\ active' = stay(active)
      /\ hist' = [hist EXCEPT !.dropped = @ \cup TasksOf(gone)]
      /\ UNCHANGED <<up, queue, jobs, lock>>
  BY DEF ClearStatus, Locked, Command
<1>2. /\ stay(infl) \subseteq infl /\ active' \subseteq active /\ D \subseteq disk
      /\ \A e \in D : e.id \notin Ids(Queued)
  BY <1>1
<1>3. \A e \in disk \cup active \cup infl : e.task \in TasksOf(gone) \/ e.st # st
  BY DEF Known, TasksOf
<1>4. /\ \A e \in disk : e.st # st => e \in D \/ e.id \in Ids(Queued)
      /\ \A e \in active : e.st # st => e \in active'
      /\ \A e \in infl : e.st # st => e \in stay(infl)
  BY <1>1
<1> HIDE DEF D
<1>5. infl' = stay(infl) /\ snaps' = <<>>
  BY <1>1, Types, AllDropped
<1> HIDE DEF stay, gone
<1>6. /\ \A x, y \in Present \cup disk : x.id = y.id => x.task = y.task
      /\ \A y \in Queued \cup disk : y.st = "queued" /\ y.retries >= MaxRetries => y.task \in hist.spent
      /\ \A y \in disk : y.st = "queued" /\ y.task \in Clean => y.task \in TasksOf(Queued)
      /\ \A y \in Pictured : y.st # "queued"
      /\ ~Taken /\ Queued \subseteq Present /\ active \subseteq Present /\ infl \subseteq Present
      /\ active \subseteq Pictured /\ infl \subseteq Pictured
  BY <1>1, FreeLock, AtRest
<1>7. ~Taken' /\ lock' \notin RemoveType /\ Held' = {}
  BY <1>1, FreeIs
<1>8. /\ hist'.accepted = hist.accepted /\ hist'.spent = hist.spent /\ hist'.atRisk = hist.atRisk
      /\ hist'.dropped = hist.dropped \cup TasksOf(gone) /\ hist'.unsaved = hist.unsaved
      /\ hist \in History
  BY <1>1, Types DEF History
<1>9. \A t \in Clean' : t \in Clean /\ t \notin TasksOf(gone) /\ t \in Tasks
  BY <1>8 DEF Clean, History
<1>10. /\ Queued' = Queued /\ Shots' = {} /\ Pictured' = active' \cup infl'
  BY <1>1, <1>5 DEF Queued, Shots, ToSet, Pictured
<1>11. Sourced({})
  <2>1. \A y \in Present \cup disk : Kin({}, y)
    BY KinOld
  <2> QED BY <1>1, <1>2, <1>5, <1>6, <1>7, <1>10, <2>1, Places, SourcedBy
<1>12. \A e \in disk : e.task \in Clean' => e.task \in TasksOf(disk')
  <2> SUFFICES ASSUME NEW e \in disk, e.task \in Clean' PROVE \E x \in disk' : x.task = e.task
    BY DEF TasksOf
  <2>1. e.st # st
    BY <1>3, <1>9
  <2>2. CASE e.id \in Ids(Queued)
    <3>1. PICK q \in Queued : q.id = e.id
      BY <2>2 DEF Ids
    <3> QED BY <1>1, <1>6, <3>1
  <2> QED BY <1>1, <1>4, <2>1, <2>2
<1>13. Desk({})
  <2>1. \A y \in Queued' \cup disk' : y.st = "queued" /\ y.retries >= MaxRetries => y.task \in hist'.spent
    BY <1>1, <1>2, <1>6, <1>8, <1>10
  <2>2. \A y \in disk' : y.st = "queued" /\ y.task \in Clean' => y.task \in TasksOf(Queued')
    BY <1>1, <1>2, <1>6, <1>9, <1>10 DEF TasksOf
  <2>3. \A y \in Queued' \cup Shelved' : y.id \in Ids(Queued \cup Shelved)
    BY <1>1, <1>2, <1>10 DEF Shelved, Ids
  <2>4. \A y \in Pictured' : y.st # "queued"
    BY <1>2, <1>5, <1>6, <1>10
  <2>5. /\ \A e \in active : e.task \in Clean' => e.id \in Ids(active')
        /\ \A e \in infl : e.task \in Clean' => e.id \in Ids(infl')
        /\ \A e \in active' : e.st = "completed" => e \in active
    BY <1>2, <1>3, <1>4, <1>5, <1>9 DEF Ids
  <2>6. \A t \in Clean' : file'[t] = file[t]
    BY <1>1, <1>9
  <2> QED BY <1>1, <1>6, <1>7, <1>8, <1>9, <1>10, <1>11, <1>12, <2>1, <2>2, <2>3, <2>4, <2>5, <2>6 DEF Desk
<1> QED BY <1>13, DeskKeeps

LEMMA CancelRemovesTracked ==
    ASSUME Inv, Tracked, NEW c \in cancels, CancelRemoves(c)
    PROVE  Tracked'
<1>1. /\ up /\ lock = Free
      /\ file' = [file EXCEPT ![c.task] = NoFile]
      /\ disk' = WithoutTask(disk, c.task)
      /\ InflightWritten(WithoutTask(infl, c.task))
      /\ lock' = [op |-> "remove", step |-> "memory", entry |-> c]
      /\ hist' = [hist EXCEPT !.dropped = @ \cup {c.task}]
      /\ UNCHANGED <<up, queue, active, jobs>>
  BY DEF CancelRemoves
<1>2. ~Taken' /\ ~Moving' /\ lock'.entry = c
  BY <1>1 DEF Taken, Moving, MoveType, RetryType
<1>3. /\ infl' = WithoutTask(infl, c.task) /\ snaps' = <<>>
  BY <1>1, Types, AllDropped
<1>4. /\ \A y \in Queued \cup disk : y.st = "queued" /\ y.retries >= MaxRetries => y.task \in hist.spent
      /\ \A y \in disk : y.st = "queued" /\ y.task \in Clean => y.task \in TasksOf(Queued)
      /\ \A y \in Pictured : y.st # "queued"
      /\ ~Taken /\ active \subseteq Present /\ infl \subseteq Present
      /\ active \subseteq Pictured /\ infl \subseteq Pictured /\ Queued \subseteq Present
  BY <1>1, FreeLock, AtRest
<1>5. /\ hist'.accepted = hist.accepted /\ hist'.spent = hist.spent /\ hist'.atRisk = hist.atRisk
      /\ hist'.dropped = hist.dropped \cup {c.task} /\ hist'.unsaved = hist.unsaved
      /\ hist \in History
  BY <1>1, Types DEF History
<1>6. \A t \in Clean' : t \in Clean /\ t # c.task /\ t \in Tasks
  BY <1>5 DEF Clean, History
<1>7. /\ Queued' = Queued /\ Shots' = {} /\ Pictured' = active \cup infl' /\ Held' = {}
  BY <1>1, <1>2, <1>3 DEF Queued, Shots, ToSet, Pictured, Held
<1>8. /\ disk' \subseteq disk /\ infl' \subseteq infl
      /\ \A e \in disk : e.task # c.task => e \in disk'
      /\ \A e \in infl : e.task # c.task => e \in infl'
  BY <1>1, <1>3 DEF WithoutTask
<1>9. Sourced({})
  <2>1. \A y \in Present \cup disk : Kin({}, y)
    BY KinOld
  <2> QED BY <1>1, <1>4, <1>7, <1>8, <2>1, Places, SourcedBy
<1>10. Desk({})
  <2>1. \A y \in Queued' \cup disk' : y.st = "queued" /\ y.retries >= MaxRetries => y.task \in hist'.spent
    BY <1>4, <1>5, <1>7, <1>8
  <2>2. \A y \in disk' : y.st = "queued" /\ y.task \in Clean' => y.task \in TasksOf(Queued')
    BY <1>4, <1>6, <1>7, <1>8
  <2>3. \A y \in Queued' \cup Shelved' : y.id \in Ids(Queued \cup Shelved)
    BY <1>7, <1>8 DEF Shelved, Ids
  <2>4. /\ \A e \in disk : e.task \in Clean' => e.task \in TasksOf(disk')
        /\ \A e \in active : e.id \in Ids(active')
        /\ \A e \in infl : e.task \in Clean' => e.id \in Ids(infl')
    BY <1>1, <1>6, <1>8 DEF Ids, TasksOf
  <2>5. \A t \in Clean' : file'[t] = file[t]
    BY <1>1, <1>6
  <2>6. lock' \in RemoveType => lock'.entry.task \in hist'.dropped
    BY <1>2, <1>5
  <2> QED BY <1>1, <1>2, <1>4, <1>5, <1>6, <1>7, <1>8, <1>9, <2>1, <2>2, <2>3, <2>4, <2>5, <2>6 DEF Desk
<1> QED BY <1>10, DeskKeeps

LEMMA CancelForgetsTracked ==
    ASSUME Inv, Tracked, CancelForgets
    PROVE  Tracked'
<1>1. /\ up /\ lock.op = "remove"
      /\ active' = WithoutTask(active, lock.entry.task)
      /\ queue' = Keep(queue, WithoutTask(Queued, lock.entry.task))
      /\ lock' = Free
      /\ hist' = [hist EXCEPT !.void = @ \cup {lock.entry.run}]
      /\ UNCHANGED <<up, jobs, snaps, disk, infl, file>>
  BY DEF CancelForgets, Holds
<1>2. lock \in RemoveType /\ ~Taken
  BY <1>1, Types, LockKinds DEF Typed
<1>3. lock.entry.task \in hist.dropped
  BY <1>2 DEF Tracked, Identified
<1>4. ~Taken' /\ lock' \notin RemoveType /\ Held' = {}
  BY <1>1, FreeIs
<1>5. /\ \A y \in Queued \cup disk : y.st = "queued" /\ y.retries >= MaxRetries => y.task \in hist.spent
      /\ \A y \in disk : y.st = "queued" /\ y.task \in Clean => y.task \in TasksOf(Queued)
      /\ \A y \in Pictured : y.st # "queued"
      /\ active \subseteq Present /\ infl \subseteq Present /\ Queued \subseteq Present
  BY <1>1, <1>2, AtRest
<1>6. /\ hist'.accepted = hist.accepted /\ hist'.spent = hist.spent /\ hist'.atRisk = hist.atRisk
      /\ hist'.dropped = hist.dropped /\ hist'.unsaved = hist.unsaved
  BY <1>1, Types DEF History
<1>7. Clean' = Clean /\ \A t \in Clean : t # lock.entry.task
  BY <1>3, <1>6 DEF Clean
<1>8. /\ Queued' \subseteq Queued /\ active' \subseteq active
      /\ \A e \in Queued : e.task \in Clean => e \in Queued'
      /\ \A e \in active : e.task \in Clean => e \in active'
  <2>1. queue \in Seq(Entries)
    BY Types DEF TypeOK
  <2>2. Queued' = Queued \cap WithoutTask(Queued, lock.entry.task)
    BY <1>1, <2>1, KeepRange DEF Queued
  <2> QED BY <1>1, <1>7, <2>2 DEF WithoutTask
<1>9. Shots' = Shots /\ Pictured' \subseteq Pictured
  BY <1>1, <1>8 DEF Shots, Pictured
<1>10. Sourced({})
  <2>1. \A y \in Present \cup disk : Kin({}, y)
    BY KinOld
  <2> QED BY <1>1, <1>4, <1>5, <1>8, <1>9, <2>1, Places, SourcedBy
<1>11. Desk({})
  <2>1. \A y \in Queued' \cup disk' : y.st = "queued" /\ y.retries >= MaxRetries => y.task \in hist'.spent
    BY <1>1, <1>5, <1>6, <1>8
  <2>2. \A y \in disk' : y.st = "queued" /\ y.task \in Clean' => y.task \in TasksOf(Queued')
    BY <1>1, <1>5, <1>7, <1>8 DEF TasksOf
  <2>3. \A y \in Queued' \cup Shelved' : y.id \in Ids(Queued \cup Shelved)
    BY <1>1, <1>8 DEF Shelved, Ids
  <2>4. /\ \A e \in disk : e.task \in TasksOf(disk')
        /\ \A e \in active : e.task \in Clean' => e.id \in Ids(active')
        /\ \A e \in infl : e.id \in Ids(infl')
    BY <1>1, <1>7, <1>8 DEF Ids, TasksOf
  <2> QED BY <1>1, <1>2, <1>4, <1>5, <1>6, <1>7, <1>8, <1>9, <1>10, <2>1, <2>2, <2>3, <2>4 DEF Desk
<1> QED BY <1>11, DeskKeeps

LEMMA UserTracked ==
    ASSUME Inv, Tracked, User \/ Process
    PROVE  Tracked'
<1>1. ASSUME NEW t \in Tasks, PauseRunning(t) \/ CancelBegins(t) PROVE Tracked'
  <2>1. UNCHANGED <<up, queue, active, jobs, lock, snaps, disk, infl, file, hist>>
    BY <1>1 DEF PauseRunning, CancelBegins
  <2> QED BY <2>1, IdleTracked
<1>2. ASSUME NEW t \in Tasks, Enqueue(t) \/ PauseQueued(t) \/ Resume(t) PROVE Tracked'
  BY <1>2, EnqueueTracked, PauseQueuedTracked, ResumeTracked
<1>3. ASSUME NEW n \in Limits, SetConcurrency(n) PROVE Tracked'
  <2>1. UNCHANGED <<up, queue, active, jobs, lock, snaps, disk, infl, file, hist>>
    BY <1>3 DEF SetConcurrency
  <2> QED BY <2>1, IdleTracked
<1>4. CASE Process
  <2>1. UNCHANGED <<up, queue, active, jobs, lock, snaps, disk, infl, file, hist>>
    BY <1>4 DEF Process
  <2> QED BY <2>1, IdleTracked
<1>5. CASE PauseAll \/ ResumeAll
  BY <1>5, PauseAllTracked, ResumeAllTracked
<1>6. CASE \E st \in {"error", "paused", "completed"} : ClearStatus(st)
  BY <1>6, ClearStatusTracked
<1> QED BY <1>1, <1>2, <1>3, <1>4, <1>5, <1>6 DEF User

-----------------------------------------------------------------------------
(* The two files, when the process has ended and when it is back *)

\* Only the files are left.
LEMMA ForgottenTracked ==
    ASSUME Forgotten, hist' = hist,
           \A x, y \in infl' \cup disk' : x.id = y.id => x.task = y.task,
           \A x \in infl' \cup disk' : x.task \in hist.accepted,
           \A e \in infl' : e.st # "queued",
           \A e \in disk' : e.st = "queued" /\ e.retries >= MaxRetries => e.task \in hist.spent,
           \A t \in Clean : t \in TasksOf(disk') \/ t \in TasksOf(infl') \/ t \in hist.atRisk
    PROVE  Tracked'
<1>1. /\ up' = FALSE /\ queue' = <<>> /\ active' = {} /\ jobs' = {} /\ lock' = Free /\ snaps' = <<>>
  BY DEF Forgotten
<1>2. ~Taken' /\ ~Moving' /\ lock' \notin RemoveType /\ Held' = {}
  BY <1>1, FreeIs
<1>3. Queued' = {} /\ DOMAIN snaps' = {}
  BY <1>1 DEF Queued, ToSet
<1>4. /\ Pictured' = infl' /\ Present' = infl' /\ Carriers' = {} /\ Clean' = Clean
  BY <1>1, <1>2, <1>3 DEF Pictured, Present, Placed, Carriers, Carrying, Clean
<1>5. Identified' /\ Fit' /\ Awaited'
  BY <1>1, <1>2, <1>3, <1>4 DEF Identified, Fit, Awaited
<1>6. Shown' /\ Covered' /\ Confirmed' /\ Ended' /\ Produced'
  BY <1>1, <1>2, <1>4 DEF Shown, Carrying, Covered, Confirmed, Ended, Produced
<1>7. Safe'
  BY <1>1, <1>4 DEF Safe
<1> QED BY <1>5, <1>6, <1>7 DEF Tracked

LEMMA CrashTracked ==
    ASSUME Inv, Tracked, Crash
    PROVE  Tracked'
<1>1. up /\ Forgotten /\ UNCHANGED <<disk, infl, hist>>
  BY DEF Crash
<1>2. infl \subseteq Present /\ infl \subseteq Pictured /\ (\A j \in jobs : j.entry \in Present)
  BY Places
<1>3. /\ \A x, y \in Present \cup disk : x.id = y.id => x.task = y.task
      /\ \A x \in Present \cup disk : x.task \in hist.accepted
      /\ \A e \in Pictured : e.st # "queued"
      /\ \A e \in disk : e.st = "queued" /\ e.retries >= MaxRetries => e.task \in hist.spent
  BY DEF Tracked, Identified, Fit
<1>4. ASSUME NEW t \in Clean
      PROVE  t \in TasksOf(disk') \/ t \in TasksOf(infl') \/ t \in hist.atRisk
  <2>1. CASE t \in TasksOf(disk) \/ t \in hist.atRisk
    BY <1>1, <2>1
  <2>2. ASSUME NEW j \in Carrying, j.entry.task = t PROVE t \in TasksOf(infl) \/ t \in hist.atRisk
    <3>1. j.entry.id \in Ids(infl) \/ t \in hist.atRisk
      BY <2>2 DEF Tracked, Covered, CoveredBy, Carriers
    <3>2. ASSUME NEW e \in infl, e.id = j.entry.id PROVE e.task = t
      BY <1>2, <1>3, <2>2, <3>2 DEF Carrying
    <3> QED BY <3>1, <3>2 DEF Ids, TasksOf
  <2> QED BY <1>1, <2>1, <2>2 DEF Tracked, Safe
<1> QED BY <1>1, <1>2, <1>3, <1>4, ForgottenTracked

LEMMA FlushEndsTracked ==
    ASSUME Inv, Tracked, FlushEnds
    PROVE  Tracked'
<1> DEFINE f == [e \in active |-> IF Terminal(e) THEN e ELSE [e EXCEPT !.st = "paused"]]
           kept == Queued \cup { f[e] : e \in active }
<1>1. /\ up /\ lock = Free /\ Forgotten /\ infl' = {} /\ hist' = hist
      /\ disk' = { e \in disk : e.id \notin Ids(kept) } \cup kept
  BY DEF FlushEnds
<1>2. \A e \in active : Same(f[e], e) /\ f[e].st \in {e.st, "paused"}
  BY Types DEF Entries, Same
<1> HIDE DEF f
<1>3. /\ \A x \in kept : x \in Queued \/ \E e \in active : Same(x, e) /\ x.st \in {e.st, "paused"}
      /\ Queued \subseteq kept
      /\ \A e \in active : \E x \in kept : Same(x, e)
  BY <1>2
<1> HIDE DEF kept
<1>4. /\ \A x, y \in Present \cup disk : x.id = y.id => x.task = y.task
      /\ \A x \in Present \cup disk : x.task \in hist.accepted
      /\ \A e \in Queued \cup disk : e.st = "queued" /\ e.retries >= MaxRetries => e.task \in hist.spent
      /\ \A e \in Pictured : e.st # "queued"
      /\ Queued \subseteq Present /\ active \subseteq Present /\ active \subseteq Pictured
  BY <1>1, FreeLock, AtRest
<1>5. \A x \in kept : \E y \in Present : Same(x, y)
  BY <1>3, <1>4 DEF Same
<1>6. \A x \in disk' : \E y \in Present \cup disk : Same(x, y)
  BY <1>1, <1>5 DEF Same
<1>7. /\ \A x, y \in disk' : x.id = y.id => x.task = y.task
      /\ \A x \in disk' : x.task \in hist.accepted
  BY <1>4, <1>6 DEF Same
<1>8. \A e \in disk' : e.st = "queued" /\ e.retries >= MaxRetries => e.task \in hist.spent
  BY <1>1, <1>3, <1>4
<1>9. ASSUME NEW t \in Clean PROVE t \in TasksOf(disk') \/ t \in hist.atRisk
  <2>1. ASSUME NEW e \in disk, e.task = t PROVE \E x \in disk' : x.task = t
    <3>1. CASE e.id \in Ids(kept)
      <4>1. PICK x \in kept : x.id = e.id
        BY <3>1 DEF Ids
      <4>2. x.task = e.task
        BY <1>4, <1>5, <4>1 DEF Same
      <4> QED BY <1>1, <2>1, <4>1, <4>2
    <3> QED BY <1>1, <2>1, <3>1
  <2>2. ASSUME NEW j \in Carrying, j.entry.task = t PROVE \E x \in disk' : x.task = t
    <3>1. ~Requeueing(j) /\ j.entry \in Present
      BY <1>1, FreeLock, Places DEF Carrying
    <3>2. j.entry.id \in Ids(active)
      BY <2>2, <3>1 DEF Tracked, Shown
    <3>3. PICK e \in active : e.id = j.entry.id
      BY <3>2 DEF Ids
    <3>4. e.task = t
      BY <1>4, <2>2, <3>1, <3>3
    <3> QED BY <1>1, <1>3, <3>4 DEF Same
  <2> QED BY <1>1, <2>1, <2>2 DEF Tracked, Safe, TasksOf
<1>10. TasksOf(infl') = {}
  BY <1>1 DEF TasksOf
<1> QED BY <1>1, <1>7, <1>8, <1>9, ForgottenTracked

\* The recovery keeps what is in either file.
LEMMA RecoveredTasks ==
    ASSUME Inv, Tracked
    PROVE  /\ \A e \in Recovered : \E d \in disk \cup infl :
                /\ d.task = e.task /\ d.retries = e.retries
                /\ e.st = "queued" => d.st = "queued"
           /\ \A d \in disk \cup infl : \E e \in Recovered : e.task = d.task
<1> DEFINE S == { d \in disk : d.id \notin Ids(infl) } \cup infl
<1>1. disk \subseteq Entries /\ infl \subseteq Entries
  BY Types
<1>2. \A e \in Entries : /\ Normalize(e).task = e.task /\ Normalize(e).retries = e.retries
                         /\ Normalize(e).st = "queued" => e.st = "queued"
  BY DEF Normalize, Entries
<1>3. Recovered = { Normalize(e) : e \in S }
  BY DEF Recovered
<1>4. \A e \in S : e \in disk \cup infl
  OBVIOUS
<1>5. ASSUME NEW d \in disk \cup infl PROVE \E e \in S : e.task = d.task
  <2>1. CASE d \in disk /\ d.id \in Ids(infl)
    <3>1. PICK e \in infl : e.id = d.id
      BY <2>1 DEF Ids
    <3>2. e \in Present
      BY Places
    <3>3. e.task = d.task
      BY <2>1, <3>1, <3>2 DEF Tracked, Identified
    <3> QED BY <3>3
  <2> QED BY <2>1
<1> HIDE DEF S
<1>6. ASSUME NEW e \in Recovered
      PROVE  \E d \in disk \cup infl : /\ d.task = e.task /\ d.retries = e.retries
                                       /\ e.st = "queued" => d.st = "queued"
  BY <1>1, <1>2, <1>3, <1>4
<1>7. ASSUME NEW d \in disk \cup infl PROVE \E e \in Recovered : e.task = d.task
  <2>1. PICK e \in S : e.task = d.task
    BY <1>5
  <2>2. Normalize(e) \in Recovered /\ Normalize(e).task = d.task
    BY <1>1, <1>2, <1>3, <1>4, <2>1
  <2> QED BY <2>2
<1> QED BY <1>6, <1>7

LEMMA RestoreTracked ==
    ASSUME Inv, Tracked, NEW auto \in BOOLEAN, Restore(auto)
    PROVE  Tracked'
<1> DEFINE again(e) == auto /\ e.st = "paused" /\ e.retries < MaxRetries
           order == SetToSeq(Recovered)
           all == [i \in DOMAIN order |->
                     [order[i] EXCEPT !.id = i, !.run = i,
                                      !.st = IF again(order[i]) THEN "queued" ELSE @]]
           R == TasksOf(Recovered)
<1>1. /\ ~up /\ up' = TRUE /\ disk' = ToSet(all)
      /\ queue' = Keep(all, { e \in ToSet(all) : Runnable(e) })
      /\ infl' = {}
      /\ hist' = [hist EXCEPT !.atRisk = @ \ R, !.unsaved = @ \ R,
                              !.void = {}, !.settled = {}, !.parked = ~auto]
      /\ UNCHANGED <<active, jobs, lock, snaps>>
  BY DEF Restore
<1>2. active' = {} /\ jobs' = {} /\ lock' = Free /\ snaps' = <<>> /\ jobs = {}
  BY <1>1 DEF Inv, Down
<1>3. ~Taken' /\ ~Moving' /\ lock' \notin RemoveType /\ Held' = {}
  BY <1>2, FreeIs
<1>4. /\ Picture(Recovered)
      /\ \A e \in Recovered : \E d \in disk \cup infl :
           /\ d.task = e.task /\ d.retries = e.retries
           /\ e.st = "queued" => d.st = "queued"
      /\ \A d \in disk \cup infl : \E e \in Recovered : e.task = d.task
  BY RecoveredAre, RecoveredTasks
<1>5. /\ DOMAIN order = 1 .. Len(order) /\ Len(order) \in Nat
      /\ \A i \in DOMAIN order : order[i] \in Recovered
      /\ \A e \in Recovered : \E i \in DOMAIN order : order[i] = e
  BY <1>4, SetToSeqOrders DEF Picture
<1> HIDE DEF order
<1>6. ASSUME NEW i \in DOMAIN order
      PROVE  /\ all[i] \in Entries /\ all[i].id = i /\ all[i].task = order[i].task
             /\ all[i].retries = order[i].retries
             /\ all[i].st = "queued" => order[i].st = "queued" \/ order[i].retries < MaxRetries
  <2>1. order[i] \in Entries /\ i \in Nat
    BY <1>4, <1>5 DEF Picture
  <2>2. PICK st : st = IF again(order[i]) THEN "queued" ELSE order[i].st
    OBVIOUS
  <2>3. st \in Statuses /\ (st = "queued" => order[i].st = "queued" \/ order[i].retries < MaxRetries)
    BY <2>1, <2>2 DEF Entries, Statuses
  <2> HIDE DEF again
  <2>4. all[i] = [order[i] EXCEPT !.id = i, !.run = i, !.st = st]
    BY <2>2
  <2> HIDE DEF all
  <2> QED BY <2>1, <2>3, <2>4 DEF Entries
<1>7. DOMAIN all = DOMAIN order /\ all = [i \in DOMAIN order |-> all[i]]
  OBVIOUS
<1> HIDE DEF all, again
<1>8. all \in Seq(Entries)
  <2>1. all \in [1 .. Len(order) -> Entries]
    BY <1>5, <1>6, <1>7
  <2> QED BY <1>5, <2>1, SeqDef
<1>9. /\ \A x \in disk' : \E i \in DOMAIN order : x = all[i]
      /\ \A i \in DOMAIN order : all[i] \in disk'
  BY <1>1, <1>7 DEF ToSet
<1>10. Queued' = { e \in disk' : Runnable(e) }
  BY <1>1, <1>8, KeepRange DEF Queued
<1>11. infl \subseteq Present /\ infl \subseteq Pictured
  BY Places
<1>12. /\ \A d \in disk \cup infl : d.task \in hist.accepted
       /\ \A d \in disk \cup infl : d.st = "queued" /\ d.retries >= MaxRetries => d.task \in hist.spent
  BY <1>11 DEF Tracked, Identified, Fit
<1>13. hist \in History
  BY Types
<1>14. /\ hist'.accepted = hist.accepted /\ hist'.spent = hist.spent
       /\ hist'.dropped = hist.dropped /\ hist'.unsaved = hist.unsaved \ R
       /\ hist'.atRisk = hist.atRisk \ R
  <2> HIDE DEF R
  <2> QED BY <1>1, <1>13 DEF History
<1>15. ASSUME NEW x \in disk'
       PROVE  /\ x.task \in hist'.accepted /\ x.task \in R
              /\ x \in Entries
              /\ x.st = "queued" /\ x.retries >= MaxRetries => x.task \in hist'.spent
  <2>1. PICK i \in DOMAIN order : x = all[i]
    BY <1>9
  <2>2. PICK d \in disk \cup infl : /\ d.task = order[i].task /\ d.retries = order[i].retries
                                    /\ order[i].st = "queued" => d.st = "queued"
    BY <1>4, <1>5
  <2>3. x.task \in R
    BY <1>5, <1>6, <2>1 DEF TasksOf
  <2>4. x.retries \in Nat /\ MaxRetries \in Nat
    BY <1>6, <2>1, DownloadAssumption DEF Entries
  <2> QED BY <1>6, <1>12, <1>14, <2>1, <2>2, <2>3, <2>4
<1>16. \A t \in R : t \in TasksOf(disk')
  <2> SUFFICES ASSUME NEW e \in Recovered PROVE e.task \in TasksOf(disk')
    BY DEF TasksOf
  <2>1. PICK i \in DOMAIN order : order[i] = e
    BY <1>5
  <2> QED BY <1>6, <1>9, <2>1 DEF TasksOf
<1>17. ASSUME NEW x \in disk', NEW y \in disk', x.id = y.id PROVE x = y
  <2>1. PICK i \in DOMAIN order : x = all[i]
    BY <1>9
  <2>2. PICK k \in DOMAIN order : y = all[k]
    BY <1>9
  <2> QED BY <1>6, <1>17, <2>1, <2>2
<1>18. /\ Pictured' = {} /\ Present' \subseteq disk' /\ Carriers' = {} /\ Carrying' = {}
  <2>1. DOMAIN snaps' = {}
    BY <1>2
  <2>2. Pictured' = {}
    BY <1>1, <1>2, <2>1 DEF Pictured
  <2> QED BY <1>2, <1>3, <1>10, <2>2 DEF Present, Placed, Carriers, Carrying
<1>19. Identified'
  BY <1>3, <1>15, <1>17, <1>18 DEF Identified
<1>20. Fit'
  <2>1. \A e \in Queued' \cup disk' : e.st = "queued" /\ e.retries >= MaxRetries => e.task \in hist'.spent
    BY <1>10, <1>15
  <2> QED BY <1>2, <1>3, <1>18, <2>1 DEF Fit
<1>21. Awaited'
  <2> SUFFICES ASSUME NEW e \in disk', e.st = "queued", e.task \in Clean' PROVE e \in Queued'
    BY DEF Awaited, TasksOf
  <2>1. e.retries \in Nat /\ MaxRetries \in Nat
    BY <1>15, DownloadAssumption DEF Entries
  <2>2. e.retries < MaxRetries
    BY <1>15, <2>1 DEF Clean
  <2> QED BY <1>10, <2>2 DEF Runnable, EntryStatus
<1>22. Shown' /\ Covered' /\ Confirmed' /\ Ended' /\ Produced'
  BY <1>2, <1>3, <1>18 DEF Shown, Covered, Confirmed, Ended, Produced
<1>23. Safe'
  <2> SUFFICES ASSUME NEW t \in Clean', t \notin TasksOf(disk')
               PROVE  t \in hist'.atRisk /\ t \notin TasksOf(Present')
    BY DEF Safe
  <2>1. t \notin R
    BY <1>16
  <2>2. t \in Clean
    BY <1>14, <2>1 DEF Clean
  <2>3. t \notin TasksOf(disk) /\ t \notin TasksOf(infl)
    BY <1>4, <2>1 DEF TasksOf
  <2>4. t \in hist.atRisk
    BY <1>1, <2>2, <2>3 DEF Tracked, Safe
  <2> QED BY <1>14, <1>18, <2>1, <2>4 DEF TasksOf
<1> QED BY <1>19, <1>20, <1>21, <1>22, <1>23 DEF Tracked

-----------------------------------------------------------------------------
(* The theorems *)

LEMMA InitInv ==
    ASSUME Init
    PROVE  Inv
<1>1. /\ up = TRUE /\ queue = <<>> /\ active = {} /\ batches = {} /\ jobs = {}
      /\ lock = Free /\ fill = FALSE /\ closing = FALSE
      /\ cancel = {} /\ pause = {} /\ cancels = {} /\ snaps = <<>>
      /\ disk = {} /\ infl = {} /\ file = [t \in Tasks |-> NoFile]
      /\ fresh = 0 /\ limit \in Limits /\ ops = 0 /\ faults = 0
      /\ hist = [accepted |-> {}, dropped |-> {}, spent |-> {}, void |-> {}, atRisk |-> {},
                 unsaved |-> {}, settled |-> {}, parked |-> FALSE]
  BY DEF Init
<1>2. /\ lock \notin MoveType /\ lock \notin RetryType /\ lock \notin RemoveType
      /\ lock.op = "free"
  BY <1>1 DEF Free, MoveType, RetryType, RemoveType
<1>3. ~Taken /\ ~Moving /\ Held = {}
  BY <1>2 DEF Taken, Moving, Held
<1>4. /\ <<>> \in Seq(Entries) /\ <<>> \in Seq(SnapType)
      /\ Queued = {} /\ DOMAIN queue = {} /\ DOMAIN snaps = {}
  BY <1>1 DEF Queued, ToSet
<1>5. Present = {}
  BY <1>1, <1>3, <1>4 DEF Present, Placed, Pictured
<1>6. Typed
  <2>1. hist \in History /\ file \in [Tasks -> [kind : {"none", "part", "final"}, run : Nat]]
    BY <1>1 DEF History, NoFile
  <2>2. TypeOK
    <3>1. {up, fill, closing} \subseteq BOOLEAN /\ {active, disk, infl} \subseteq SUBSET Entries
      BY <1>1
    <3>2. {batches, cancel, pause} \subseteq SUBSET Nat /\ {fresh, ops, faults} \subseteq Nat
      BY <1>1
    <3> QED BY <1>1, <1>2, <1>4, <2>1, <3>1, <3>2 DEF TypeOK
  <2>3. IsFiniteSet({})
    BY FS_EmptySet
  <2> QED BY <1>1, <1>2, <1>4, <2>2, <2>3 DEF Typed
<1>7. Down /\ Finished /\ Retrying /\ Attended /\ Busy
  BY <1>1, <1>2, <1>3, <1>4 DEF Down, Finished, Retrying, Attended, Busy
<1>8. Numbered /\ Named
  BY <1>1, <1>2, <1>5 DEF Numbered, Named, NoFile
<1>9. OneId /\ Filed /\ Apart /\ Resting
  BY <1>1, <1>3, <1>4, <1>5 DEF OneId, Distinct, Filed, Apart, Resting
<1>10. Silenced
  BY <1>1, <1>2 DEF Silenced, Voided
<1> QED BY <1>6, <1>7, <1>8, <1>9, <1>10 DEF Inv

LEMMA UserKeeps ==
    ASSUME Inv, User
    PROVE  Inv'
<1>1. ASSUME NEW t \in Tasks,
             Enqueue(t) \/ PauseQueued(t) \/ PauseRunning(t) \/ CancelBegins(t) \/ Resume(t)
      PROVE  Inv'
  BY <1>1, EnqueueKeeps, PauseQueuedKeeps, PauseRunningKeeps, CancelBeginsKeeps, ResumeKeeps
<1>2. CASE PauseAll \/ ResumeAll
  BY <1>2, PauseAllKeeps, ResumeAllKeeps
<1>3. CASE \E n \in Limits : SetConcurrency(n)
  BY <1>3, SetConcurrencyKeeps
<1>4. CASE \E st \in {"error", "paused", "completed"} : ClearStatus(st)
  BY <1>4, ClearStatusKeeps
<1> QED BY <1>1, <1>2, <1>3, <1>4 DEF User

LEMMA StutterKeeps ==
    ASSUME Inv, UNCHANGED vars
    PROVE  Inv'
<1>1. UNCHANGED <<up, queue, active, batches, jobs, lock, fill, cancel, pause, cancels, closing,
                  limit, snaps, disk, infl, file, fresh, ops, faults, hist>>
  BY DEF vars
<1>2. Queued' = Queued /\ Held' = Held /\ Placed' = Placed /\ Pictured' = Pictured
      /\ Present' = Present /\ (Moving' <=> Moving) /\ (Taken' <=> Taken) /\ Voided' = Voided
  BY <1>1 DEF Queued, Held, Placed, Pictured, Present, Moving, Taken, Voided, MoveType, RetryType,
              RemoveType
<1>3. Typed'
  BY <1>1, <1>2, Zenon DEF Inv, Typed, TypeOK, JobType, SnapType, CancelType, MoveType, RetryType,
                           RemoveType
<1>4. Down' /\ Numbered' /\ Named' /\ OneId' /\ Filed' /\ Finished'
  BY <1>1, <1>2, Zenon
     DEF Inv, Down, Numbered, Named, OneId, Filed, Finished, Distinct, RemoveType, CancelType
<1>5. Retrying' /\ Attended' /\ Busy' /\ Apart' /\ Resting'
  BY <1>1, <1>2, Zenon
     DEF Inv, Retrying, Attended, Busy, Apart, Resting, Live, Runnable, RetryType
<1>6. Silenced'
  BY <1>1, <1>2, Zenon DEF Inv, Silenced, Quelled, Starts
<1> QED BY <1>3, <1>4, <1>5, <1>6 DEF Inv

LEMMA NextKeeps ==
    ASSUME Inv, [Next]_vars
    PROVE  Inv'
<1>1. CASE Fill
  BY <1>1, FillKeeps
<1>2. CASE WriterWrites
  BY <1>2, WriterKeeps
<1>3. ASSUME NEW j \in jobs, Job(j) PROVE Inv'
  BY <1>3, JobKeeps
<1>4. CASE User \/ Process
  BY <1>4, UserKeeps, ProcessKeeps
<1>5. ASSUME NEW c \in cancels, CancelRemoves(c) \/ CancelTimesOut(c) PROVE Inv'
  BY <1>5, CancelRemovesKeeps, TimesOutKeeps
<1>6. CASE CancelForgets
  BY <1>6, CancelForgetsKeeps
<1>7. CASE FlushBegins \/ FlushEnds \/ Crash
  BY <1>7, FlushBeginsKeeps, FlushEndsKeeps, CrashKeepsInv
<1>8. ASSUME NEW auto \in BOOLEAN, Restore(auto) PROVE Inv'
  BY <1>8, RestoreKeeps
<1>9. CASE UNCHANGED vars
  BY <1>9, StutterKeeps
<1> QED BY <1>1, <1>2, <1>3, <1>4, <1>5, <1>6, <1>7, <1>8, <1>9 DEF Next

\* The invariant holds in every state the manager reaches.
LEMMA Invariance == Spec => []Inv
<1>1. Init => Inv
  BY InitInv
<1>2. Inv /\ [Next]_vars => Inv'
  BY NextKeeps
<1> QED BY <1>1, <1>2, PTL DEF Spec

\* The settlement of a task writes the last state of its entry to downloads.json, and then
\* takes the entry out of downloads_inflight.json with a new generation
\* (update_inflight_state): no older snapshot, and no rollback or retry of the
\* scheduler, puts it back.
THEOREM SettledStaysOutAlways == Spec => []SettledStaysOut
<1>1. Inv => SettledStaysOut
  BY DEF Inv, Apart, SettledStaysOut, Present, Pictured
<1> QED BY <1>1, Invariance, PTL

\* When cancel_and_cleanup_download has returned and the cancelled run no longer writes,
\* nothing on the disk is its: a run that had not started finds its flag, and no command
\* takes the flag away while the run may still start.
THEOREM CancelledGoneAlways == Spec => []CancelledGone
<1>1. Inv => CancelledGone
  BY DEF Inv, Silenced, Voided, CancelledGone
<1> QED BY <1>1, Invariance, PTL

\* Whatever is shown as running has its task, or process_download_queue_inner is about to
\* spawn it; nothing is active in downloads.json, where a restart would find it; and the
\* state keeps its type.
THEOREM NoOrphanAlways == Spec => []NoOrphan
<1>1. ASSUME Inv PROVE NoOrphan
  <2>1. TypeOK
    BY <1>1 DEF Inv, Typed
  <2>2. ASSUME up, NEW e \in active
        PROVE  \/ \E j \in jobs : j.entry.id = e.id
               \/ lock.op = "fill" /\ lock.step = "persist" /\ lock.entry.id = e.id
    <3>1. e \in Present
      BY DEF Present, Pictured
    <3>2. \A x \in Present : x.run = e.run => x.id = e.id
      BY <1>1, <2>2, <3>1 DEF Inv, Named
    <3>3. CASE \E j \in jobs : j.entry.run = e.run
      BY <3>2, <3>3 DEF Present, Placed
    <3>4. CASE Moving /\ lock.step = "persist" /\ lock.entry.run = e.run
      <4>1. lock.entry \in Present /\ lock.op = "fill"
        BY <3>4 DEF Present, Placed, Held, Taken, Moving, MoveType
      <4> QED BY <3>2, <3>4, <4>1
    <3> QED BY <1>1, <3>3, <3>4 DEF Inv, Attended
  <2>3. up => \A e \in disk : e.st # "active"
    BY <1>1 DEF Inv, Typed
  <2> QED BY <2>1, <2>2, <2>3 DEF NoOrphan
<1> QED BY <1>1, Invariance, PTL

\* Whoever ends, leaves or adds an entry calls fill_download_queue_slots: with the
\* scheduler free and no task left, no download that may run is still waiting.
THEOREM NoIdleQueueAlways == Spec => []NoIdleQueue
<1>1. Inv => NoIdleQueue
  BY DEF Inv, Busy, NoIdleQueue, Free
<1> QED BY <1>1, Invariance, PTL

LEMMA InitTracked ==
    ASSUME Init
    PROVE  Tracked
<1>1. /\ up = TRUE /\ queue = <<>> /\ active = {} /\ jobs = {} /\ lock = Free /\ snaps = <<>>
      /\ disk = {} /\ infl = {} /\ hist.accepted = {}
  BY DEF Init
<1>2. /\ lock \notin MoveType /\ lock \notin RetryType /\ lock \notin RemoveType
  BY <1>1 DEF Free, MoveType, RetryType, RemoveType
<1>3. ~Taken /\ ~Moving /\ Held = {}
  BY <1>2 DEF Taken, Moving, Held
<1>4. Queued = {} /\ DOMAIN snaps = {} /\ Clean = {}
  BY <1>1 DEF Queued, ToSet, Clean
<1>5. Present = {} /\ Pictured = {} /\ Carriers = {} /\ Carrying = {}
  BY <1>1, <1>3, <1>4 DEF Present, Placed, Pictured, Carriers, Carrying
<1>6. Identified /\ Fit /\ Awaited /\ Shown /\ Covered
  BY <1>1, <1>2, <1>3, <1>4, <1>5 DEF Identified, Fit, Awaited, Shown, Covered
<1>7. Confirmed /\ Ended /\ Produced /\ Safe
  BY <1>1, <1>4 DEF Confirmed, Ended, Produced, Safe
<1> QED BY <1>6, <1>7 DEF Tracked

LEMMA NextTracked ==
    ASSUME Inv, Tracked, [Next]_vars
    PROVE  Tracked'
<1>1. CASE Fill
  BY <1>1, FillTracked
<1>2. CASE WriterWrites
  BY <1>2, WriterTracked
<1>3. ASSUME NEW j \in jobs, Job(j) PROVE Tracked'
  BY <1>3, JobTracked
<1>4. CASE User \/ Process
  BY <1>4, UserTracked
<1>5. ASSUME NEW c \in cancels, CancelRemoves(c) PROVE Tracked'
  BY <1>5, CancelRemovesTracked
<1>6. CASE CancelForgets
  BY <1>6, CancelForgetsTracked
<1>7. CASE FlushEnds \/ Crash
  BY <1>7, FlushEndsTracked, CrashTracked
<1>8. ASSUME NEW auto \in BOOLEAN, Restore(auto) PROVE Tracked'
  BY <1>8, RestoreTracked
<1>9. CASE UNCHANGED vars \/ FlushBegins \/ \E c \in cancels : CancelTimesOut(c)
  <2>1. UNCHANGED <<up, queue, active, jobs, lock, snaps, disk, infl, file, hist>>
    BY <1>9 DEF vars, FlushBegins, CancelTimesOut
  <2> QED BY <2>1, IdleTracked
<1> QED BY <1>1, <1>2, <1>3, <1>4, <1>5, <1>6, <1>7, <1>8, <1>9 DEF Next

\* Where every download is, in every state the manager reaches.
LEMMA TrackedInvariance == Spec => [](Inv /\ Tracked)
<1>1. Init => Inv /\ Tracked
  BY InitInv, InitTracked
<1>2. (Inv /\ Tracked) /\ [Next]_vars => (Inv /\ Tracked)'
  BY NextKeeps, NextTracked
<1> QED BY <1>1, <1>2, PTL DEF Spec

\* A crash at any moment finds every accepted download that was not dropped in
\* downloads.json or in downloads_inflight.json: the file an entry goes to is written
\* before it leaves the other, in the hand-over and its rollback, in the retry, in the
\* settlement, in every command, in the flush and in the recovery.
THEOREM CrashKeepsAlways == Spec => []CrashKeeps
<1>1. ASSUME Inv, Tracked PROVE CrashKeeps
  <2> SUFFICES ASSUME NEW t \in Kept, t \notin hist.spent PROVE t \in TasksOf(disk \cup infl)
    BY DEF CrashKeeps
  <2>1. t \in Clean /\ t \notin hist.atRisk
    BY DEF Kept, Clean
  <2>2. ASSUME NEW j \in Carrying, j.entry.task = t PROVE \E e \in infl : e.task = t
    <3>1. j.entry.id \in Ids(infl)
      BY <1>1, <2>1, <2>2 DEF Tracked, Covered, CoveredBy, Carriers
    <3>2. PICK e \in infl : e.id = j.entry.id
      BY <3>1 DEF Ids
    <3>3. j.entry \in Present /\ e \in Present
      BY Places DEF Carrying
    <3>4. e.task = t
      BY <1>1, <2>2, <3>2, <3>3 DEF Tracked, Identified
    <3> QED BY <3>4
  <2> QED BY <1>1, <2>1, <2>2 DEF Tracked, Safe, TasksOf
<1> QED BY <1>1, TrackedInvariance, PTL
================================================================================
