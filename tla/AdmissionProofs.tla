--------------------------- MODULE AdmissionProofs ---------------------------
(***************************************************************************)
(* Proofs about the admission queue, for any number of requests and keys   *)
(* and any bounds.                                                         *)
(***************************************************************************)
EXTENDS Admission, FiniteSetTheorems, SequenceTheorems, TLAPS

USE AdmissionAssumption

(* Sequences without one of their elements *)

\* What RemoveAt returns, element by element.
LEMMA RemoveAtElements ==
    ASSUME NEW S, NEW s \in Seq(S), NEW i \in 1 .. Len(s)
    PROVE  /\ RemoveAt(s, i) \in Seq(S)
           /\ Len(RemoveAt(s, i)) = Len(s) - 1
           /\ \A j \in 1 .. (Len(s) - 1) :
                 RemoveAt(s, i)[j] = IF j < i THEN s[j] ELSE s[j + 1]
<1> DEFINE front == SubSeq(s, 1, i - 1)
           back == SubSeq(s, i + 1, Len(s))
<1>1. front \in Seq(S) /\ Len(front) = i - 1 /\ \A j \in 1 .. (i - 1) : front[j] = s[j]
  OBVIOUS
<1>2. back \in Seq(S) /\ Len(back) = Len(s) - i
      /\ \A j \in 1 .. (Len(s) - i) : back[j] = s[i + j]
  OBVIOUS
<1> HIDE DEF front, back
<1>3. RemoveAt(s, i) = front \o back
  BY DEF RemoveAt, front, back
<1>4. front \o back \in Seq(S) /\ Len(front \o back) = Len(s) - 1
  BY <1>1, <1>2, ConcatProperties
<1>5. ASSUME NEW j \in 1 .. (Len(s) - 1)
      PROVE  (front \o back)[j] = IF j < i THEN s[j] ELSE s[j + 1]
  <2>1. CASE j < i
    BY <1>1, <1>2, <2>1
  <2>2. CASE ~(j < i)
    <3>1. (front \o back)[j] = back[j - (i - 1)]
      BY <1>1, <1>2, <2>2
    <3>2. j - (i - 1) \in 1 .. (Len(s) - i) /\ i + (j - (i - 1)) = j + 1
      BY <2>2
    <3>3. back[j - (i - 1)] = s[i + (j - (i - 1))]
      BY <1>2, <3>2
    <3> QED BY <3>1, <3>2, <3>3, <2>2
  <2> QED BY <2>1, <2>2
<1> QED BY <1>3, <1>4, <1>5

\* Removing the only occurrence of an element.
LEMMA RemoveFromDistinct ==
    ASSUME NEW S, NEW s \in Seq(S), Distinct(s), NEW x, Contains(s, x)
    PROVE  LET t == RemoveAt(s, Position(s, x))
           IN  /\ t \in Seq(S)
               /\ Len(t) = Len(s) - 1
               /\ Distinct(t)
               /\ \A y : Contains(t, y) <=> y # x /\ Contains(s, y)
<1> DEFINE p == Position(s, x)
           t == RemoveAt(s, p)
<1>1. p \in DOMAIN s /\ s[p] = x
  BY DEF Position, Contains
<1>2. p \in 1 .. Len(s)
  BY <1>1
<1> HIDE DEF p
<1>3. /\ t \in Seq(S)
      /\ Len(t) = Len(s) - 1
      /\ \A j \in 1 .. (Len(s) - 1) : t[j] = IF j < p THEN s[j] ELSE s[j + 1]
  BY <1>2, RemoveAtElements
<1> HIDE DEF t
<1>4. DOMAIN t = 1 .. (Len(s) - 1) /\ DOMAIN s = 1 .. Len(s)
  BY <1>3
<1>5. Distinct(t)
  <2> SUFFICES ASSUME NEW i \in 1 .. (Len(s) - 1), NEW j \in 1 .. (Len(s) - 1), t[i] = t[j]
               PROVE  i = j
    BY <1>4 DEF Distinct
  <2> DEFINE I == IF i < p THEN i ELSE i + 1
             J == IF j < p THEN j ELSE j + 1
  <2>1. t[i] = s[I] /\ t[j] = s[J] /\ I \in 1 .. Len(s) /\ J \in 1 .. Len(s)
    BY <1>3, <1>2
  <2>2. I = J
    BY <2>1, <1>4 DEF Distinct
  <2> QED BY <2>2, <1>2
<1>6. ASSUME NEW y
      PROVE  (\E i \in DOMAIN t : t[i] = y) <=> y # x /\ \E i \in DOMAIN s : s[i] = y
  <2>1. ASSUME NEW i \in DOMAIN t, t[i] = y
        PROVE  y # x /\ \E j \in DOMAIN s : s[j] = y
    <3> DEFINE I == IF i < p THEN i ELSE i + 1
    <3>1. t[i] = s[I] /\ I \in 1 .. Len(s) /\ I # p
      BY <1>2, <1>3, <1>4
    <3> QED BY <2>1, <3>1, <1>1, <1>4 DEF Distinct
  <2>2. ASSUME NEW i \in DOMAIN s, s[i] = y, y # x
        PROVE  \E j \in DOMAIN t : t[j] = y
    <3>1. i # p
      BY <2>2, <1>1
    <3>2. CASE i < p
      <4>1. i \in DOMAIN t /\ t[i] = s[i]
        BY <1>2, <1>3, <1>4, <3>2
      <4> QED BY <4>1, <2>2
    <3>3. CASE i > p
      <4>1. i - 1 \in DOMAIN t /\ t[i - 1] = s[i]
        BY <1>2, <1>3, <1>4, <3>3
      <4> QED BY <4>1, <2>2
    <3> QED BY <3>1, <3>2, <3>3, <1>2, <1>4
  <2> QED BY <2>1, <2>2
<1> QED BY <1>3, <1>4, <1>5, <1>6 DEF t, p, Contains

\* Appending a new element.
LEMMA AppendToDistinct ==
    ASSUME NEW S, NEW s \in Seq(S), Distinct(s), NEW x \in S, ~Contains(s, x)
    PROVE  /\ Append(s, x) \in Seq(S)
           /\ Len(Append(s, x)) = Len(s) + 1
           /\ Distinct(Append(s, x))
           /\ \A y : Contains(Append(s, x), y) <=> y = x \/ Contains(s, y)
<1> DEFINE t == Append(s, x)
<1>1. t \in Seq(S) /\ Len(t) = Len(s) + 1 /\ DOMAIN t = 1 .. (Len(s) + 1) /\ DOMAIN s = 1 .. Len(s)
  OBVIOUS
<1>2. t[Len(s) + 1] = x /\ \A i \in 1 .. Len(s) : t[i] = s[i]
  OBVIOUS
<1> HIDE DEF t
<1>3. Distinct(t)
  BY <1>1, <1>2 DEF Distinct, Contains
<1>4. \A y : Contains(t, y) <=> y = x \/ Contains(s, y)
  BY <1>1, <1>2 DEF Contains
<1> QED BY <1>1, <1>3, <1>4 DEF t

\* turns.retain.
LEMMA RetainFromDistinct ==
    ASSUME NEW S, NEW s \in Seq(S), Distinct(s), NEW k
    PROVE  /\ Retain(s, k) \in Seq(S)
           /\ Distinct(Retain(s, k))
           /\ \A y : Contains(Retain(s, k), y) <=> y # k /\ Contains(s, y)
<1>1. CASE Contains(s, k)
  BY <1>1, RemoveFromDistinct DEF Retain
<1>2. CASE ~Contains(s, k)
  BY <1>2 DEF Retain
<1> QED BY <1>1, <1>2

-----------------------------------------------------------------------------
(* The structure of the queue *)

Structure == TypeOK /\ NoLeak /\ TurnsMirrorWaiting

\* What State::remove_waiter does to the two queues.
LEMMA RemoveWaiterEffect ==
    ASSUME Structure, NEW r \in Requests, key[r] \in Keys, NEW rotate \in BOOLEAN,
           RemoveWaiter(r, rotate), key' = key
    PROVE  /\ waiting' \in Seq(Requests) /\ Len(waiting') <= Len(waiting)
           /\ Distinct(waiting')
           /\ \A q : Contains(waiting', q) <=> q # r /\ Contains(waiting, q)
           /\ turns' \in Seq(Keys)
           /\ TurnsMirrorWaiting'
<1>1. /\ waiting \in Seq(Requests) /\ turns \in Seq(Keys) /\ Distinct(waiting) /\ Distinct(turns)
      /\ key \in [Requests -> Keys \cup {NoKey}]
      /\ \A k \in Keys : Contains(turns, k) <=> KeyWaiters(k) # {}
  BY DEF Structure, TypeOK, NoLeak, TurnsMirrorWaiting
<1>2. CASE Contains(waiting, r)
  <2>1. /\ waiting' = RemoveAt(waiting, Position(waiting, r))
        /\ turns' = CASE Remaining(r) /\ rotate -> Append(Retain(turns, key[r]), key[r])
                       [] Remaining(r) /\ ~rotate -> turns
                       [] ~Remaining(r) -> Retain(turns, key[r])
    BY <1>2 DEF RemoveWaiter
  <2>2. /\ waiting' \in Seq(Requests) /\ Len(waiting') = Len(waiting) - 1
        /\ Distinct(waiting')
        /\ \A q : Contains(waiting', q) <=> q # r /\ Contains(waiting, q)
    BY <1>1, <1>2, <2>1, RemoveFromDistinct
  <2>3. ASSUME NEW k \in Keys, k # key[r]
        PROVE  (KeyWaiters(k) # {})' <=> KeyWaiters(k) # {}
    BY <2>2, <2>3, <1>1 DEF KeyWaiters
  <2>4. (KeyWaiters(key[r]) # {})' <=> Remaining(r)
    BY <2>2, <1>1 DEF KeyWaiters, Remaining
  <2>5. Contains(turns, key[r])
    BY <1>1, <1>2 DEF KeyWaiters
  <2> DEFINE rest == Retain(turns, key[r])
  <2>6. /\ rest \in Seq(Keys) /\ Distinct(rest)
        /\ \A y : Contains(rest, y) <=> y # key[r] /\ Contains(turns, y)
    BY <1>1, RetainFromDistinct
  <2> HIDE DEF rest
  <2>7. CASE Remaining(r) /\ rotate
    <3>1. turns' = Append(rest, key[r])
      BY <2>1, <2>7 DEF rest
    <3>2. /\ turns' \in Seq(Keys) /\ Distinct(turns')
          /\ \A y : Contains(turns', y) <=> y = key[r] \/ Contains(rest, y)
      BY <3>1, <2>6, AppendToDistinct
    <3>3. \A k \in Keys : Contains(turns', k) <=> (KeyWaiters(k) # {})'
      BY <3>2, <2>6, <2>3, <2>4, <2>7, <1>1
    <3> QED BY <3>2, <3>3, <2>2, <1>1 DEF TurnsMirrorWaiting
  <2>8. CASE Remaining(r) /\ ~rotate
    <3>1. turns' = turns
      BY <2>1, <2>8
    <3>3. \A k \in Keys : Contains(turns', k) <=> (KeyWaiters(k) # {})'
      BY <3>1, <2>5, <2>3, <2>4, <2>8, <1>1
    <3> QED BY <3>1, <3>3, <2>2, <1>1 DEF TurnsMirrorWaiting
  <2>9. CASE ~Remaining(r)
    <3>1. turns' = rest
      BY <2>1, <2>9 DEF rest
    <3>3. \A k \in Keys : Contains(turns', k) <=> (KeyWaiters(k) # {})'
      BY <3>1, <2>6, <2>3, <2>4, <2>9, <1>1
    <3> QED BY <3>1, <3>3, <2>6, <2>2, <1>1 DEF TurnsMirrorWaiting
  <2> QED BY <2>7, <2>8, <2>9
<1>3. CASE ~Contains(waiting, r)
  <2>1. waiting' = waiting /\ turns' = turns
    BY <1>3 DEF RemoveWaiter, queue
  <2>2. TurnsMirrorWaiting'
    BY <2>1, <1>1 DEF TurnsMirrorWaiting, KeyWaiters
  <2> QED BY <2>1, <2>2, <1>1, <1>3
<1> QED BY <1>2, <1>3

\* When neither the queues nor the keys of queued requests change, neither does
\* the relation between them.
LEMMA TurnsFrame ==
    ASSUME TurnsMirrorWaiting, UNCHANGED queue,
           \A q \in Requests : Contains(waiting, q) => key'[q] = key[q]
    PROVE  TurnsMirrorWaiting'
<1>1. waiting' = waiting /\ turns' = turns
  BY DEF queue
<1>2. \A k \in Keys : KeyWaiters(k)' = KeyWaiters(k)
  BY <1>1 DEF KeyWaiters
<1> QED BY <1>1, <1>2 DEF TurnsMirrorWaiting

LEMMA StructureInit == Init => Structure
<1> SUFFICES ASSUME Init PROVE Structure
  OBVIOUS
<1>1. TypeOK
  <2>1. waiting \in Seq(Requests) /\ turns \in Seq(Keys)
    BY DEF Init
  <2>2. configures \in 0 .. MaxConfigures
    BY DEF Init
  <2>3. pc \in [Requests -> Locations] /\ key_active \in [Keys -> Nat]
        /\ key \in [Requests -> Keys \cup {NoKey}]
    BY DEF Init, Locations
  <2> QED BY <2>1, <2>2, <2>3 DEF Init, TypeOK
<1>2. \A x : ~Contains(waiting, x) /\ ~Contains(turns, x)
  BY DEF Init, Contains
<1>3. NoLeak
  BY <1>1, <1>2 DEF NoLeak, Init, Distinct, TypeOK
<1>4. TurnsMirrorWaiting
  BY <1>2 DEF TurnsMirrorWaiting, KeyWaiters, Init, Distinct
<1> QED BY <1>1, <1>3, <1>4 DEF Structure

LEMMA StructureAcquireFast ==
    ASSUME Structure, NEW r \in Requests, NEW k \in Keys, AcquireFast(r, k)
    PROVE  Structure'
<1> USE DEF Structure
<1>1. TypeOK'
  BY DEF AcquireFast, TypeOK, Locations, policy, queue
<1>2. ~Contains(waiting, r)
  BY DEF AcquireFast, NoLeak
<1>3. NoLeak'
  BY <1>2 DEF AcquireFast, NoLeak, TypeOK, queue, Locations
<1>4. TurnsMirrorWaiting'
  BY <1>2, TurnsFrame DEF AcquireFast, TypeOK
<1> QED BY <1>1, <1>3, <1>4

LEMMA StructureAcquireQueue ==
    ASSUME Structure, NEW r \in Requests, NEW k \in Keys, AcquireQueue(r, k)
    PROVE  Structure'
<1> USE DEF Structure
<1>1. /\ waiting' = Append(waiting, r) /\ key' = [key EXCEPT ![r] = k]
      /\ pc[r] = "idle" /\ pc' = [pc EXCEPT ![r] = "register"]
      /\ turns' = IF Contains(turns, k) THEN turns ELSE Append(turns, k)
      /\ UNCHANGED <<policy, slots, woken, configuring, configures>>
  BY DEF AcquireQueue
<1>2. ~Contains(waiting, r) /\ Distinct(waiting) /\ Distinct(turns)
      /\ waiting \in Seq(Requests) /\ turns \in Seq(Keys)
  BY <1>1 DEF NoLeak, TypeOK, TurnsMirrorWaiting
<1>3. /\ waiting' \in Seq(Requests) /\ Distinct(waiting')
      /\ \A q : Contains(waiting', q) <=> q = r \/ Contains(waiting, q)
  BY <1>1, <1>2, AppendToDistinct
<1>4. /\ turns' \in Seq(Keys) /\ Distinct(turns')
      /\ \A y : Contains(turns', y) <=> y = k \/ Contains(turns, y)
  BY <1>1, <1>2, AppendToDistinct
<1>5. TypeOK'
  BY <1>1, <1>3, <1>4 DEF TypeOK, Locations, policy, slots
<1>6. NoLeak'
  BY <1>1, <1>3 DEF NoLeak, TypeOK, slots
<1>7. ASSUME NEW j \in Keys
      PROVE  (KeyWaiters(j) # {})' <=> j = k \/ KeyWaiters(j) # {}
  <2>1. r \in KeyWaiters(k)'
    BY <1>1, <1>3 DEF KeyWaiters, TypeOK
  <2>2. \A q \in KeyWaiters(j) : q \in KeyWaiters(j)'
    BY <1>1, <1>2, <1>3 DEF KeyWaiters, TypeOK
  <2>3. \A q \in KeyWaiters(j)' : (q = r /\ j = k) \/ q \in KeyWaiters(j)
    BY <1>1, <1>3 DEF KeyWaiters, TypeOK
  <2> QED BY <2>1, <2>2, <2>3
<1>8. TurnsMirrorWaiting'
  BY <1>4, <1>7 DEF TurnsMirrorWaiting
<1> QED BY <1>5, <1>6, <1>8

LEMMA StructureCheckAdmit ==
    ASSUME Structure, NEW r \in Requests, CheckAdmit(r)
    PROVE  Structure'
<1> USE DEF Structure
<1>1. key[r] \in Keys /\ Contains(waiting, r)
  BY DEF CheckAdmit, NoLeak, TypeOK
<1>2. /\ waiting' \in Seq(Requests) /\ Distinct(waiting')
      /\ \A q : Contains(waiting', q) <=> q # r /\ Contains(waiting, q)
      /\ turns' \in Seq(Keys) /\ TurnsMirrorWaiting'
  BY <1>1, RemoveWaiterEffect DEF CheckAdmit
<1>3. /\ active' = active \cup {r} /\ pc' = [pc EXCEPT ![r] = "drop"] /\ key' = key
      /\ key_active' = [key_active EXCEPT ![key[r]] = @ + 1]
      /\ woken' = (woken \cup Registered) \ {r} /\ UNCHANGED <<policy, configuring, configures>>
  BY DEF CheckAdmit
<1>4. TypeOK'
  BY <1>1, <1>2, <1>3 DEF TypeOK, Locations, policy, Registered
<1>5. NoLeak'
  BY <1>1, <1>2, <1>3 DEF NoLeak, TypeOK
<1> QED BY <1>2, <1>4, <1>5

LEMMA StructureDropWaiter ==
    ASSUME Structure, NEW r \in Requests, DropWaiter(r)
    PROVE  Structure'
<1> USE DEF Structure
<1>1. key[r] \in Keys /\ pc[r] = "drop"
  BY DEF DropWaiter, NoLeak, TypeOK
<1>2. /\ waiting' \in Seq(Requests) /\ Distinct(waiting')
      /\ \A q : Contains(waiting', q) <=> q # r /\ Contains(waiting, q)
      /\ turns' \in Seq(Keys) /\ TurnsMirrorWaiting'
  BY <1>1, RemoveWaiterEffect DEF DropWaiter
<1>3. pc' = [pc EXCEPT ![r] = "notify"]
      /\ UNCHANGED <<policy, slots, key, woken, configuring, configures>>
  BY DEF DropWaiter
<1>4. TypeOK'
  BY <1>2, <1>3 DEF TypeOK, Locations, policy, slots
<1>5. NoLeak'
  BY <1>1, <1>2, <1>3 DEF NoLeak, TypeOK, slots
<1> QED BY <1>2, <1>4, <1>5

\* The steps that touch neither queue.
LEMMA StructureOther ==
    ASSUME Structure,
           \/ \E r \in Requests :
                 \/ Register(r) \/ CheckPark(r) \/ Wake(r) \/ Abandon(r)
                 \/ ReleasePermit(r) \/ NotifyWaiters(r)
           \/ \E l \in 0 .. MaxLimit, f \in BOOLEAN, ls \in [Keys -> KeyLimits] : Configure(l, f, ls)
           \/ ConfigureNotify
    PROVE  Structure'
<1> USE DEF Structure
<1>1. ASSUME NEW r \in Requests, Register(r) \/ CheckPark(r) \/ Wake(r) \/ Abandon(r)
      PROVE  Structure'
  <2>1. TypeOK'
    BY <1>1 DEF Register, CheckPark, Wake, Abandon, TypeOK, Locations, policy, queue, slots
  <2>2. NoLeak'
    BY <1>1 DEF Register, CheckPark, Wake, Abandon, NoLeak, TypeOK, queue, slots
  <2>3. TurnsMirrorWaiting'
    BY <1>1, TurnsFrame DEF Register, CheckPark, Wake, Abandon
  <2> QED BY <2>1, <2>2, <2>3
<1>2. ASSUME NEW r \in Requests, ReleasePermit(r)
      PROVE  Structure'
  <2>1. TypeOK'
    BY <1>2 DEF ReleasePermit, TypeOK, Locations, policy, queue, NoLeak
  <2>2. NoLeak'
    BY <1>2 DEF ReleasePermit, NoLeak, TypeOK, queue
  <2>3. TurnsMirrorWaiting'
    BY <1>2, TurnsFrame DEF ReleasePermit
  <2> QED BY <2>1, <2>2, <2>3
<1>3. ASSUME NEW r \in Requests, NotifyWaiters(r)
      PROVE  Structure'
  <2>1. TypeOK'
    BY <1>3 DEF NotifyWaiters, Return, TypeOK, Locations, policy, queue, slots, Registered
  <2>2. NoLeak'
    BY <1>3 DEF NotifyWaiters, Return, NoLeak, TypeOK, queue, slots
  <2>3. TurnsMirrorWaiting'
    <3>1. ~Contains(waiting, r)
      BY <1>3 DEF NotifyWaiters, NoLeak
    <3> QED BY <3>1, <1>3, TurnsFrame DEF NotifyWaiters, Return, TypeOK
  <2> QED BY <2>1, <2>2, <2>3
<1>4. ASSUME NEW l \in 0 .. MaxLimit, NEW f \in BOOLEAN, NEW ls \in [Keys -> KeyLimits],
             Configure(l, f, ls)
      PROVE  Structure'
  <2>1. TypeOK'
    <3>1. configures' \in 0 .. MaxConfigures
      BY <1>4 DEF Configure, TypeOK
    <3>2. limit' \in 1 .. MaxLimit
      BY <1>4, AdmissionAssumption DEF Configure
    <3> QED BY <3>1, <3>2, <1>4 DEF Configure, TypeOK, queue, slots
  <2>2. NoLeak'
    BY <1>4 DEF Configure, NoLeak, queue, slots
  <2>3. TurnsMirrorWaiting'
    BY <1>4, TurnsFrame DEF Configure
  <2> QED BY <2>1, <2>2, <2>3
<1>5. ASSUME ConfigureNotify
      PROVE  Structure'
  <2>1. TypeOK'
    BY <1>5 DEF ConfigureNotify, TypeOK, policy, queue, slots, Registered
  <2>2. NoLeak'
    BY <1>5 DEF ConfigureNotify, NoLeak, queue, slots
  <2>3. TurnsMirrorWaiting'
    BY <1>5, TurnsFrame DEF ConfigureNotify
  <2> QED BY <2>1, <2>2, <2>3
<1> QED BY <1>1, <1>2, <1>3, <1>4, <1>5

LEMMA StructureNext == Structure /\ [Next]_vars => Structure'
<1> SUFFICES ASSUME Structure, [Next]_vars PROVE Structure'
  OBVIOUS
<1>1. CASE UNCHANGED vars
  BY <1>1 DEF Structure, TypeOK, NoLeak, TurnsMirrorWaiting, KeyWaiters, vars
<1>2. ASSUME NEW r \in Requests, Acquire(r)
      PROVE  Structure'
  <2>1. PICK k \in Keys : AcquireFast(r, k) \/ AcquireReject(r, k) \/ AcquireQueue(r, k)
    BY <1>2 DEF Acquire
  <2>2. CASE AcquireReject(r, k)
    BY <2>2, <1>1 DEF AcquireReject
  <2> QED BY <2>1, <2>2, StructureAcquireFast, StructureAcquireQueue
<1>3. ASSUME NEW r \in Requests, Progress(r) \/ Abandon(r)
      PROVE  Structure'
  BY <1>3, StructureCheckAdmit, StructureDropWaiter, StructureOther DEF Progress
<1>4. CASE \/ \E l \in 0 .. MaxLimit, f \in BOOLEAN, ls \in [Keys -> KeyLimits] : Configure(l, f, ls)
           \/ ConfigureNotify
  BY <1>4, StructureOther
<1> QED BY <1>1, <1>2, <1>3, <1>4 DEF Next

\* The type invariant, for every number of requests and keys.
THEOREM TypeCorrect == Spec => []TypeOK
<1>1. Structure => TypeOK
  BY DEF Structure
<1> QED BY <1>1, StructureInit, StructureNext, PTL DEF Spec

\* No request is leaked or duplicated by acquire, by its timeout or
\* cancellation, or by the Drop handlers.
THEOREM NoLeakAlways == Spec => []NoLeak
<1>1. Structure => NoLeak
  BY DEF Structure
<1> QED BY <1>1, StructureInit, StructureNext, PTL DEF Spec

\* State::turns always is the set of the waiting keys, each once.
THEOREM TurnsMirrorWaitingAlways == Spec => []TurnsMirrorWaiting
<1>1. Structure => TurnsMirrorWaiting
  BY DEF Structure
<1> QED BY <1>1, StructureInit, StructureNext, PTL DEF Spec

-----------------------------------------------------------------------------
(* The per-key counters *)

Holders(k) == { r \in active : key[r] = k }

LEMMA HoldersFinite ==
    ASSUME TypeOK, NEW k PROVE IsFiniteSet(Holders(k)) /\ Cardinality(Holders(k)) \in Nat
<1>1. Holders(k) \in SUBSET Requests
  BY DEF Holders, TypeOK
<1>2. IsFiniteSet(Holders(k))
  BY <1>1, FS_Subset
<1> QED BY <1>2, FS_CardinalityType

\* One permit more, counted for the key it was acquired with.
LEMMA CountAdmit ==
    ASSUME Structure, KeyActiveCounts, NEW r \in Requests, NEW k \in Keys,
           r \notin active, active' = active \cup {r}, key'[r] = k,
           \A q \in Requests \ {r} : key'[q] = key[q],
           key_active' = [key_active EXCEPT ![k] = @ + 1]
    PROVE  KeyActiveCounts'
<1>1. TypeOK /\ active \subseteq Requests /\ key_active \in [Keys -> Nat]
  BY DEF Structure, TypeOK
<1>2. ASSUME NEW j \in Keys
      PROVE  key_active'[j] = Cardinality(Holders(j)')
  <2>1. key_active[j] = Cardinality(Holders(j)) /\ IsFiniteSet(Holders(j))
    BY <1>1, HoldersFinite DEF KeyActiveCounts, Holders
  <2>2. CASE j = k
    <3>1. Holders(j)' = Holders(j) \cup {r} /\ r \notin Holders(j)
      BY <1>1, <2>2 DEF Holders
    <3>2. Cardinality(Holders(j)') = Cardinality(Holders(j)) + 1
      BY <2>1, <3>1, FS_AddElement
    <3> QED BY <1>1, <2>1, <2>2, <3>2
  <2>3. CASE j # k
    <3>1. Holders(j)' = Holders(j)
      BY <1>1, <2>3 DEF Holders
    <3> QED BY <1>1, <2>1, <2>3, <3>1
  <2> QED BY <2>2, <2>3
<1> QED BY <1>2 DEF KeyActiveCounts, Holders

\* A step that changes no permit.
LEMMA CountFrame ==
    ASSUME Structure, KeyActiveCounts, UNCHANGED slots, \A q \in active : key'[q] = key[q]
    PROVE  KeyActiveCounts'
<1>1. \A k \in Keys : { r \in active : key[r] = k }' = { r \in active : key[r] = k }
  BY DEF slots
<1> QED BY <1>1 DEF KeyActiveCounts, slots

LEMMA CountRelease ==
    ASSUME Structure, KeyActiveCounts, NEW r \in Requests, ReleasePermit(r)
    PROVE  KeyActiveCounts'
<1>1. TypeOK /\ active \subseteq Requests /\ key_active \in [Keys -> Nat]
      /\ r \in active /\ key[r] \in Keys /\ key' = key /\ active' = active \ {r}
      /\ key_active' = [key_active EXCEPT ![key[r]] = IF @ > 0 THEN @ - 1 ELSE 0]
  BY DEF Structure, TypeOK, NoLeak, ReleasePermit
<1>2. ASSUME NEW j \in Keys
      PROVE  key_active'[j] = Cardinality(Holders(j)')
  <2>1. key_active[j] = Cardinality(Holders(j)) /\ IsFiniteSet(Holders(j))
    BY <1>1, HoldersFinite DEF KeyActiveCounts, Holders
  <2>2. CASE j = key[r]
    <3>1. Holders(j)' = Holders(j) \ {r} /\ r \in Holders(j)
      BY <1>1, <2>2 DEF Holders
    <3>2. Cardinality(Holders(j)') = Cardinality(Holders(j)) - 1
      BY <2>1, <3>1, FS_RemoveElement
    <3>3. Cardinality(Holders(j)) # 0 /\ Cardinality(Holders(j)) \in Nat
      BY <1>1, <2>1, <3>1, FS_EmptySet, HoldersFinite
    <3> QED BY <1>1, <2>1, <2>2, <3>2, <3>3
  <2>3. CASE j # key[r]
    <3>1. Holders(j)' = Holders(j)
      BY <1>1, <2>3 DEF Holders
    <3> QED BY <1>1, <2>1, <2>3, <3>1
  <2> QED BY <2>2, <2>3
<1> QED BY <1>2 DEF KeyActiveCounts, Holders

LEMMA CountNext == Structure /\ KeyActiveCounts /\ [Next]_vars => KeyActiveCounts'
<1> SUFFICES ASSUME Structure, KeyActiveCounts, [Next]_vars PROVE KeyActiveCounts'
  OBVIOUS
<1>1. CASE UNCHANGED vars
  BY <1>1 DEF KeyActiveCounts, vars
<1>2. ASSUME NEW r \in Requests, NEW k \in Keys, AcquireFast(r, k)
      PROVE  KeyActiveCounts'
  <2>1. r \notin active /\ key'[r] = k /\ \A q \in Requests \ {r} : key'[q] = key[q]
    BY <1>2 DEF AcquireFast, Structure, NoLeak, TypeOK
  <2> QED BY <1>2, <2>1, CountAdmit DEF AcquireFast
<1>3. ASSUME NEW r \in Requests, NEW k \in Keys, AcquireQueue(r, k)
      PROVE  KeyActiveCounts'
  <2>1. r \notin active
    BY <1>3 DEF AcquireQueue, Structure, NoLeak
  <2>2. \A q \in active : key'[q] = key[q]
    BY <1>3, <2>1 DEF AcquireQueue, Structure, TypeOK
  <2> QED BY <1>3, <2>2, CountFrame DEF AcquireQueue
<1>4. ASSUME NEW r \in Requests, CheckAdmit(r)
      PROVE  KeyActiveCounts'
  <2>1. r \notin active /\ key[r] \in Keys /\ key' = key
    BY <1>4 DEF CheckAdmit, Structure, NoLeak, TypeOK
  <2> QED BY <1>4, <2>1, CountAdmit DEF CheckAdmit
<1>5. ASSUME NEW r \in Requests, NotifyWaiters(r)
      PROVE  KeyActiveCounts'
  <2>1. \A q \in active : key'[q] = key[q]
    BY <1>5 DEF NotifyWaiters, Return, Structure, TypeOK
  <2> QED BY <1>5, <2>1, CountFrame DEF NotifyWaiters
<1>6. ASSUME NEW r \in Requests,
             Register(r) \/ CheckPark(r) \/ Wake(r) \/ Abandon(r) \/ DropWaiter(r)
      PROVE  KeyActiveCounts'
  BY <1>6, CountFrame DEF Register, CheckPark, Wake, Abandon, DropWaiter
<1>7. ASSUME NEW l, NEW f, NEW ls, Configure(l, f, ls) \/ ConfigureNotify
      PROVE  KeyActiveCounts'
  BY <1>7, CountFrame DEF Configure, ConfigureNotify
<1> QED
  BY <1>1, <1>2, <1>3, <1>4, <1>5, <1>6, <1>7, CountRelease
  DEF Next, Acquire, Progress, AcquireReject

\* State::key_active always equals the number of permits out for the key.
THEOREM KeyActiveCountsAlways == Spec => []KeyActiveCounts
<1>1. Init => KeyActiveCounts
  <2> SUFFICES ASSUME Init PROVE KeyActiveCounts
    OBVIOUS
  <2>1. \A k \in Keys : { r \in active : key[r] = k } = {}
    BY DEF Init
  <2> QED BY <2>1, FS_EmptySet DEF Init, KeyActiveCounts
<1> QED BY <1>1, StructureInit, StructureNext, CountNext, PTL DEF Spec

\* The queue, the rotation, the counters and the tasks always agree: nothing a
\* caller of acquire does, and no policy change, puts them out of step.
THEOREM BookkeepingAlways == Spec => []Bookkeeping
<1>1. TypeOK /\ KeyActiveCounts /\ TurnsMirrorWaiting /\ NoLeak => Bookkeeping
  BY DEF Bookkeeping
<1> QED
  BY <1>1, TypeCorrect, KeyActiveCountsAlways, TurnsMirrorWaitingAlways, NoLeakAlways, PTL

-----------------------------------------------------------------------------
(* Who is selected *)

LEMMA Smallest ==
    ASSUME NEW T \in SUBSET Nat, T # {}
    PROVE  \E n \in T : \A m \in T : n <= m
<1>1. \E n \in T : \A m \in T : ~(<<m, n>> \in OpToRel(<, Nat))
  BY WFMin, NatLessThanWellFounded
<1>2. PICK n \in T : \A m \in T : ~(<<m, n>> \in OpToRel(<, Nat))
  BY <1>1
<1>3. \A m \in T : ~(m < n)
  BY <1>2 DEF OpToRel
<1> QED BY <1>3

LEMMA KeyLimitType ==
    ASSUME TypeOK, NEW k \in Keys
    PROVE  KeyLimit(k) \in Nat /\ key_active[k] \in Nat
<1>1. limits[k] \in KeyLimits /\ key_active[k] \in Nat
  BY DEF TypeOK
<1>2. limit \in Nat
  BY DEF TypeOK
<1>3. limits[k] \in Nat
  BY <1>1
<1> QED BY <1>1, <1>2, <1>3 DEF KeyLimit

LEMMA ActiveFinite ==
    ASSUME TypeOK PROVE IsFiniteSet(active) /\ Cardinality(active) \in Nat
BY FS_Subset, FS_CardinalityType DEF TypeOK

\* The queue is work conserving: while a slot is free and some waiting key may
\* use it, selected() names a waiter.
LEMMA SomeoneSelected ==
    ASSUME Structure, Cardinality(active) < limit,
           NEW w \in DOMAIN waiting, Available(key[waiting[w]])
    PROVE  Selected # {}
<1>1. /\ TypeOK /\ waiting \in Seq(Requests) /\ turns \in Seq(Keys)
      /\ \A x \in DOMAIN waiting : waiting[x] \in Requests /\ Contains(waiting, waiting[x])
      /\ \A x \in DOMAIN waiting : key[waiting[x]] \in Keys
      /\ DOMAIN waiting = 1 .. Len(waiting) /\ DOMAIN turns = 1 .. Len(turns)
      /\ Cardinality(active) \in Nat /\ limit \in Nat
  <2>1. TypeOK /\ waiting \in Seq(Requests) /\ turns \in Seq(Keys) /\ NoLeak
    BY DEF Structure, TypeOK
  <2>2. \A x \in DOMAIN waiting : waiting[x] \in Requests /\ Contains(waiting, waiting[x])
    BY <2>1 DEF Contains
  <2>3. \A x \in DOMAIN waiting : key[waiting[x]] \in Keys
    BY <2>1, <2>2 DEF NoLeak, TypeOK
  <2> QED BY <2>1, <2>2, <2>3, ActiveFinite DEF TypeOK
<1>2. CASE ~fair
  <2> DEFINE T == { x \in DOMAIN waiting : Available(key[waiting[x]]) }
  <2>0. T \in SUBSET Nat /\ T # {}
    BY <1>1
  <2>1. PICK x \in T : \A y \in T : x <= y
    <3> HIDE DEF T
    <3> QED BY <2>0, Smallest
  <2>2. \A v \in 1 .. (x - 1) : ~Available(key[waiting[v]])
    BY <2>1, <1>1
  <2>3. waiting[x] \in Selected
    BY <2>1, <2>2, <1>1, <1>2 DEF Selected
  <2> QED BY <2>3
<1>3. CASE fair
  <2> DEFINE T == { t \in DOMAIN turns : Available(turns[t]) }
  <2>1. T \in SUBSET Nat /\ T # {}
    <3>1. waiting[w] \in KeyWaiters(key[waiting[w]])
      BY <1>1 DEF KeyWaiters
    <3>2. Contains(turns, key[waiting[w]])
      BY <1>1, <3>1 DEF Structure, TurnsMirrorWaiting
    <3> QED BY <3>2, <1>1 DEF Contains
  <2>2. PICK t \in T : \A y \in T : t <= y
    <3> HIDE DEF T
    <3> QED BY <2>1, Smallest
  <2>3. FirstTurn(t)
    BY <2>2, <1>1 DEF FirstTurn
  <2> DEFINE W == { x \in DOMAIN waiting : key[waiting[x]] = turns[t] }
  <2>4. W \in SUBSET Nat /\ W # {}
    <3>1. Contains(turns, turns[t]) /\ turns[t] \in Keys
      BY <2>2, <1>1 DEF Contains
    <3>2. KeyWaiters(turns[t]) # {}
      BY <3>1 DEF Structure, TurnsMirrorWaiting
    <3> QED BY <3>2, <1>1 DEF KeyWaiters, Contains
  <2>5. PICK x \in W : \A y \in W : x <= y
    <3> HIDE DEF W
    <3> QED BY <2>4, Smallest
  <2>6. \A v \in 1 .. (x - 1) : key[waiting[v]] # turns[t]
    BY <2>5, <1>1
  <2>7. waiting[x] \in Selected
    BY <2>2, <2>3, <2>5, <2>6, <1>1, <1>3 DEF Selected
  <2> QED BY <2>7
<1> QED BY <1>2, <1>3

\* A selected waiter fits both limits.
LEMMA SelectedFits ==
    ASSUME TypeOK, NEW r \in Selected
    PROVE  r \in Requests /\ Cardinality(active) < limit /\ Available(key[r])
<1>1. Cardinality(active) \in Nat /\ limit \in Nat
  BY ActiveFinite DEF TypeOK
<1> QED BY <1>1 DEF Selected, FirstTurn

\* A newcomer that bypasses the queue leaves nobody selected behind.
LEMMA FastPathSelection ==
    ASSUME Structure, NEW r \in Requests, NEW k \in Keys, AcquireFast(r, k)
    PROVE  Selected' = {}
<1> SUFFICES ASSUME NEW q \in Selected' PROVE FALSE
  OBVIOUS
<1>1. /\ TypeOK /\ Selected = {} /\ Cardinality(active) < limit /\ ~Contains(waiting, r)
      /\ waiting' = waiting /\ UNCHANGED policy
      /\ key' = [key EXCEPT ![r] = k] /\ key_active' = [key_active EXCEPT ![k] = @ + 1]
  BY DEF AcquireFast, MayBypassQueue, Structure, NoLeak, queue
<1>3. q \in Requests /\ Available(key[q])'
  BY DEF Selected, FirstTurn
<1>4. PICK w \in DOMAIN waiting : waiting[w] = q
  BY <1>1 DEF Selected
<1>5. q # r /\ key'[q] = key[q] /\ key[q] \in Keys
  <2>1. Contains(waiting, q)
    BY <1>4, <1>1 DEF Contains, TypeOK
  <2> QED BY <2>1, <1>1, <1>3 DEF Structure, NoLeak, TypeOK
<1>6. key_active'[key[q]] >= key_active[key[q]] /\ KeyLimit(key[q])' = KeyLimit(key[q])
  BY <1>1, <1>5 DEF TypeOK, KeyLimit, policy
<1>7. Available(key[q])
  BY <1>1, <1>3, <1>5, <1>6, KeyLimitType DEF Available, TypeOK
<1> QED BY <1>1, <1>4, <1>7, SomeoneSelected

\* A newcomer that queues changes the selection at most to itself.
LEMMA QueueingSelection ==
    ASSUME Structure, NEW r \in Requests, NEW k \in Keys, AcquireQueue(r, k)
    PROVE  Selected' \subseteq Selected \cup {r}
<1> SUFFICES ASSUME NEW q \in Selected', q # r PROVE q \in Selected
  OBVIOUS
<1>1. /\ TypeOK /\ waiting \in Seq(Requests) /\ turns \in Seq(Keys) /\ ~Contains(waiting, r)
      /\ waiting' = Append(waiting, r) /\ UNCHANGED policy /\ UNCHANGED slots
      /\ turns' = IF Contains(turns, k) THEN turns ELSE Append(turns, k)
      /\ key' = [key EXCEPT ![r] = k] /\ key \in [Requests -> Keys \cup {NoKey}]
  BY DEF AcquireQueue, Structure, NoLeak, TypeOK
<1>2. /\ DOMAIN waiting' = 1 .. (Len(waiting) + 1) /\ DOMAIN waiting = 1 .. Len(waiting)
      /\ waiting'[Len(waiting) + 1] = r
      /\ \A i \in 1 .. Len(waiting) : waiting'[i] = waiting[i] /\ waiting[i] # r /\ waiting[i] \in Requests
  BY <1>1 DEF Contains
<1>3. \A i \in 1 .. Len(waiting) : key'[waiting'[i]] = key[waiting[i]]
  BY <1>1, <1>2
<1>4. \A j : Available(j)' <=> Available(j)
  BY <1>1 DEF Available, KeyLimit, slots, policy
<1>5. Cardinality(active) < limit /\ q \in Requests /\ Cardinality(active) \in Nat /\ limit \in Nat
  <2>1. ~(Cardinality(active)' >= limit') /\ q \in Requests
    BY DEF Selected
  <2>2. Cardinality(active) \in Nat /\ limit \in Nat
    BY <1>1, ActiveFinite DEF TypeOK
  <2> QED BY <2>1, <2>2, <1>1 DEF slots, policy
<1>6. ~(Cardinality(active)' >= limit')
  BY <1>1, <1>5 DEF slots, policy
<1>7. PICK w \in DOMAIN waiting' :
             /\ waiting'[w] = q
             /\ IF fair'
                THEN \E t \in DOMAIN turns' :
                        /\ FirstTurn(t)'
                        /\ key'[q] = turns'[t]
                        /\ \A v \in 1 .. (w - 1) : key'[waiting'[v]] # turns'[t]
                ELSE /\ Available(key[q])'
                     /\ \A v \in 1 .. (w - 1) : ~Available(key[waiting[v]])'
  BY <1>6 DEF Selected
<1>8. w \in 1 .. Len(waiting) /\ waiting[w] = q /\ key'[q] = key[q]
  BY <1>7, <1>2, <1>3
<1>9. \A v \in 1 .. (w - 1) : key'[waiting'[v]] = key[waiting[v]]
  BY <1>3, <1>8
<1>10. CASE ~fair
  <2>1. Available(key[q]) /\ \A v \in 1 .. (w - 1) : ~Available(key[waiting[v]])
    <3>1. /\ limit' = limit /\ limits' = limits /\ fair' = FALSE
          /\ key_active' = key_active
      BY <1>1, <1>10 DEF policy, slots, TypeOK
    <3>2. Available(key[q])' <=> Available(key[q])
      BY <3>1, <1>8 DEF Available, KeyLimit
    <3>3. ASSUME NEW v \in 1 .. (w - 1)
          PROVE  Available(key[waiting[v]])' <=> Available(key[waiting[v]])
      BY <3>1, <1>9 DEF Available, KeyLimit
    <3> QED BY <3>1, <3>2, <3>3, <1>7
  <2> QED BY <2>1, <1>2, <1>5, <1>8, <1>10 DEF Selected
<1>11. CASE fair
  <2>1. PICK t \in DOMAIN turns' :
                        /\ FirstTurn(t)'
                        /\ key'[q] = turns'[t]
                        /\ \A v \in 1 .. (w - 1) : key'[waiting'[v]] # turns'[t]
    BY <1>1, <1>7, <1>11 DEF policy
  <2>2. Contains(turns, key[q])
    <3>1. q \in KeyWaiters(key[q]) /\ key[q] \in Keys
      <4>1. Contains(waiting, q)
        BY <1>8 DEF Contains
      <4> QED BY <4>1, <1>5 DEF KeyWaiters, Structure, NoLeak, TypeOK
    <3> QED BY <3>1 DEF Structure, TurnsMirrorWaiting
  <2>3. t \in DOMAIN turns /\ \A i \in 1 .. t : turns'[i] = turns[i]
    <3>1. CASE Contains(turns, k)
      BY <3>1, <1>1, <2>1
    <3>2. CASE ~Contains(turns, k)
      <4>1. turns' = Append(turns, k)
        BY <3>2, <1>1
      <4>2. /\ DOMAIN turns' = 1 .. (Len(turns) + 1) /\ DOMAIN turns = 1 .. Len(turns)
            /\ turns'[Len(turns) + 1] = k
            /\ \A i \in 1 .. Len(turns) : turns'[i] = turns[i]
        <5>1. turns \in Seq(Keys)
          BY <1>1
        <5> QED BY <4>1, <5>1
      <4>3. t # Len(turns) + 1
        BY <4>2, <3>2, <2>1, <2>2, <1>8
      <4> QED BY <4>2, <4>3, <2>1
    <3> QED BY <3>1, <3>2
  <2>4. DOMAIN turns = 1 .. Len(turns)
    BY <1>1
  <2>5. FirstTurn(t)
    <3>1. Available(turns[t])
      BY <1>4, <2>1, <2>3, <2>4 DEF FirstTurn, Available, KeyLimit
    <3>2. \A s \in 1 .. (t - 1) : ~Available(turns[s])
      BY <1>4, <2>1, <2>3, <2>4 DEF FirstTurn, Available, KeyLimit
    <3> QED BY <3>1, <3>2, <2>3 DEF FirstTurn
  <2>6. key[q] = turns[t] /\ \A v \in 1 .. (w - 1) : key[waiting[v]] # turns[t]
    <3>1. turns'[t] = turns[t]
      BY <2>3, <2>4
    <3> QED BY <3>1, <2>1, <1>8, <1>9
  <2> QED BY <2>3, <2>5, <2>6, <1>2, <1>5, <1>8, <1>11 DEF Selected
<1> QED BY <1>10, <1>11

-----------------------------------------------------------------------------
(* No lost wake-up *)

\* While somebody still owes a notification there is nothing to show.
LEMMA PendingSuffices == NotifyPending' => NoLostWakeup'
BY DEF NoLostWakeup

\* A step that changes neither the selection nor who owes a notification.
LEMMA SelectionFrame ==
    ASSUME UNCHANGED <<policy, queue, slots, key>>
    PROVE  Selected' = Selected
BY DEF Selected, FirstTurn, Available, KeyLimit, policy, queue, slots

LEMMA WakeupAcquire ==
    ASSUME Structure, NoLostWakeup, NEW r \in Requests, NEW k \in Keys,
           AcquireFast(r, k) \/ AcquireQueue(r, k)
    PROVE  NoLostWakeup'
<1>1. CASE AcquireFast(r, k)
  BY <1>1, FastPathSelection DEF NoLostWakeup
<1>2. CASE AcquireQueue(r, k)
  <2>1. Selected' \subseteq Selected \cup {r}
    BY <1>2, QueueingSelection
  <2>2. pc' = [pc EXCEPT ![r] = "register"] /\ woken' = woken /\ configuring' = configuring
        /\ pc[r] = "idle" /\ pc \in [Requests -> Locations]
    BY <1>2 DEF AcquireQueue, Structure, TypeOK
  <2>3. NotifyPending => NotifyPending'
    BY <2>2 DEF NotifyPending
  <2>4. ASSUME NEW q \in Selected', pc'[q] = "parked"
        PROVE  q \in woken' \/ NotifyPending'
    <3>1. q # r
      BY <2>2, <2>4
    <3>2. q \in Selected /\ pc[q] = "parked"
      BY <3>1, <2>1, <2>2, <2>4
    <3> QED BY <3>2, <2>2, <2>3 DEF NoLostWakeup
  <2> QED BY <2>4 DEF NoLostWakeup
<1> QED BY <1>1, <1>2

LEMMA WakeupQuiet ==
    ASSUME Structure, NoLostWakeup, NEW r \in Requests,
           Register(r) \/ CheckPark(r) \/ Wake(r)
    PROVE  NoLostWakeup'
<1>1. Selected' = Selected
  BY SelectionFrame DEF Register, CheckPark, Wake
<1>2. /\ pc \in [Requests -> Locations] /\ configuring' = configuring
      /\ pc[r] \in {"register", "check", "parked"}
      /\ \A q \in Requests \ {r} : pc'[q] = pc[q] /\ (q \in woken' <=> q \in woken)
      /\ pc'[r] = "parked" => r \notin Selected
  BY DEF Register, CheckPark, Wake, Structure, TypeOK
<1>3. NotifyPending => NotifyPending'
  BY <1>2 DEF NotifyPending
<1>4. \A q \in Selected : q \in Requests
  BY DEF Selected
<1> QED BY <1>1, <1>2, <1>3, <1>4 DEF NoLostWakeup

\* notify_waiters reaches every parked task.
LEMMA WakeupNotify ==
    ASSUME Structure, NEW r \in Requests, NotifyWaiters(r) \/ ConfigureNotify
    PROVE  NoLostWakeup'
<1>1. \A q \in Requests : pc'[q] = "parked" => pc[q] = "parked"
  BY DEF NotifyWaiters, Return, ConfigureNotify, Structure, TypeOK
<1>2. \A q \in Requests : pc[q] = "parked" => q \in woken'
  BY DEF NotifyWaiters, ConfigureNotify, Registered
<1>3. \A q \in Selected' : q \in Requests
  BY DEF Selected
<1> QED BY <1>1, <1>2, <1>3 DEF NoLostWakeup

LEMMA WakeupOwed ==
    ASSUME Structure, NEW r \in Requests,
           CheckAdmit(r) \/ Abandon(r) \/ DropWaiter(r) \/ ReleasePermit(r)
    PROVE  NoLostWakeup'
<1>1. pc'[r] \in {"drop", "notify"}
  BY DEF CheckAdmit, Abandon, DropWaiter, ReleasePermit, Structure, TypeOK
<1> QED BY <1>1, PendingSuffices DEF NotifyPending

LEMMA WakeupNext == Structure /\ NoLostWakeup /\ [Next]_vars => NoLostWakeup'
<1> SUFFICES ASSUME Structure, NoLostWakeup, [Next]_vars PROVE NoLostWakeup'
  OBVIOUS
<1>1. CASE UNCHANGED vars
  <2>1. Selected' = Selected
    BY <1>1, SelectionFrame DEF vars, policy, queue, slots
  <2> QED BY <1>1, <2>1 DEF NoLostWakeup, NotifyPending, vars
<1>2. ASSUME NEW l, NEW f, NEW ls, Configure(l, f, ls)
      PROVE  NoLostWakeup'
  BY <1>2, PendingSuffices DEF Configure, NotifyPending
<1>3. CASE ConfigureNotify
  <2>1. CASE Requests = {}
    BY <2>1 DEF NoLostWakeup, Selected
  <2>2. CASE Requests # {}
    BY <2>2, <1>3, WakeupNotify
  <2> QED BY <2>1, <2>2
<1>4. ASSUME NEW r \in Requests, Acquire(r)
      PROVE  NoLostWakeup'
  BY <1>4, <1>1, WakeupAcquire DEF Acquire, AcquireReject
<1>5. ASSUME NEW r \in Requests, Progress(r) \/ Abandon(r)
      PROVE  NoLostWakeup'
  BY <1>5, WakeupQuiet, WakeupNotify, WakeupOwed DEF Progress
<1> QED BY <1>1, <1>2, <1>3, <1>4, <1>5 DEF Next

\* "Releases and policy updates cannot be lost": a selected waiter never sleeps
\* without a wake-up delivered or owed, for any number of tasks.
THEOREM NoLostWakeupAlways == Spec => []NoLostWakeup
<1>1. Init => NoLostWakeup
  BY DEF Init, NoLostWakeup, Selected
<1> QED BY <1>1, StructureInit, StructureNext, WakeupNext, PTL DEF Spec

-----------------------------------------------------------------------------
(* Limits *)

\* Every admission, through the queue or around it, keeps within the global
\* limit and the limit of the request's key.
THEOREM AdmitsWithinLimitsAlways == Spec => AdmitsWithinLimits
<1> DEFINE Fits(r) == /\ Cardinality(active') <= limit
                      /\ Cardinality({ q \in active' : key'[q] = key'[r] }) <= KeyLimit(key'[r])
<1>1. ASSUME Structure, KeyActiveCounts, KeyActiveCounts', NEW r \in Requests, NEW k \in Keys,
             r \notin active, active' = active \cup {r}, key'[r] = k,
             key_active' = [key_active EXCEPT ![k] = @ + 1],
             Cardinality(active) < limit, Available(k)
      PROVE  \A q \in active' \ active : Fits(q)
  <2>1. TypeOK /\ limit \in Nat
    BY <1>1 DEF Structure, TypeOK
  <2>2. Cardinality(active') = Cardinality(active) + 1 /\ Cardinality(active) \in Nat
    BY <1>1, <2>1, ActiveFinite, FS_AddElement
  <2>3. key_active'[k] = key_active[k] + 1 /\ key_active[k] \in Nat /\ KeyLimit(k) \in Nat
    BY <1>1, <2>1, KeyLimitType DEF TypeOK
  <2>4. key_active'[k] = Cardinality({ q \in active' : key'[q] = k })
    BY <1>1 DEF KeyActiveCounts
  <2>5. key_active'[k] <= KeyLimit(k)
    BY <1>1, <2>3 DEF Available
  <2>6. Cardinality(active') <= limit
    BY <1>1, <2>1, <2>2
  <2>7. Fits(r)
    BY <1>1, <2>4, <2>5, <2>6
  <2> QED BY <1>1, <2>7
<1>2. ASSUME Structure, KeyActiveCounts, KeyActiveCounts', [Next]_vars
      PROVE  [\A r \in active' \ active : Fits(r)]_vars
  <2> USE <1>2
  <2>1. ASSUME NEW r \in Requests, NEW k \in Keys, AcquireFast(r, k)
        PROVE  \A q \in active' \ active : Fits(q)
    <3>1. r \notin active /\ key'[r] = k
      BY <2>1 DEF AcquireFast, Structure, NoLeak, TypeOK
    <3> QED BY <2>1, <3>1, <1>1 DEF AcquireFast, MayBypassQueue
  <2>2. ASSUME NEW r \in Requests, CheckAdmit(r)
        PROVE  \A q \in active' \ active : Fits(q)
    <3>1. r \notin active /\ key'[r] = key[r] /\ key[r] \in Keys
      BY <2>2 DEF CheckAdmit, Structure, NoLeak, TypeOK
    <3>2. Cardinality(active) < limit /\ Available(key[r])
      BY <2>2, SelectedFits DEF CheckAdmit, Structure
    <3> QED BY <2>2, <3>1, <3>2, <1>1 DEF CheckAdmit
  <2>3. ASSUME NEW r \in Requests, NEW k \in Keys, AcquireQueue(r, k)
        PROVE  active' = active
    BY <2>3 DEF AcquireQueue, slots
  <2>4. ASSUME NEW r \in Requests,
               \/ Register(r) \/ CheckPark(r) \/ Wake(r) \/ Abandon(r)
               \/ DropWaiter(r) \/ ReleasePermit(r) \/ NotifyWaiters(r)
        PROVE  active' \subseteq active
    BY <2>4 DEF Register, CheckPark, Wake, Abandon, DropWaiter, ReleasePermit, NotifyWaiters, slots
  <2>5. ASSUME NEW l, NEW f, NEW ls, Configure(l, f, ls) \/ ConfigureNotify
        PROVE  active' = active
    BY <2>5 DEF Configure, ConfigureNotify, slots
  <2> QED
    BY <2>1, <2>2, <2>3, <2>4, <2>5 DEF Next, Acquire, Progress, AcquireReject
<1>3. Structure /\ KeyActiveCounts /\ KeyActiveCounts' /\ [Next]_vars
        => [\A r \in active' \ active : Fits(r)]_vars
  BY <1>2
<1>4. Spec => []Structure /\ []KeyActiveCounts
  BY StructureInit, StructureNext, KeyActiveCountsAlways, PTL DEF Spec
<1>5. Spec => [][\A r \in active' \ active : Fits(r)]_vars
  BY <1>3, <1>4, PTL DEF Spec
<1> QED BY <1>5, PTL DEF AdmitsWithinLimits

-----------------------------------------------------------------------------
(* The bounds of the queue, and its order *)

\* A step that adds nobody to the queue keeps it within its bounds.
LEMMA BoundsKept ==
    ASSUME TypeOK, QueueBounded, waiting' \in Seq(Requests), Len(waiting') <= Len(waiting),
           \A q \in Requests : Contains(waiting', q) => Contains(waiting, q) /\ key'[q] = key[q]
    PROVE  QueueBounded'
<1>1. Len(waiting) \in Nat /\ Len(waiting') \in Nat /\ Len(waiting) <= MaxWaiters
  BY DEF TypeOK, QueueBounded
<1>2. ASSUME NEW k \in Keys PROVE Cardinality(KeyWaiters(k)') <= MaxKeyWaiters
  <2>1. KeyWaiters(k)' \subseteq KeyWaiters(k) /\ KeyWaiters(k) \subseteq Requests
    BY DEF KeyWaiters
  <2>2. IsFiniteSet(KeyWaiters(k))
    BY <2>1, FS_Subset
  <2>3. /\ Cardinality(KeyWaiters(k)') <= Cardinality(KeyWaiters(k))
        /\ Cardinality(KeyWaiters(k)') \in Nat /\ Cardinality(KeyWaiters(k)) \in Nat
    BY <2>1, <2>2, FS_Subset, FS_CardinalityType
  <2>4. Cardinality(KeyWaiters(k)) <= MaxKeyWaiters
    BY DEF QueueBounded
  <2> QED BY <2>3, <2>4
<1> QED BY <1>1, <1>2 DEF QueueBounded

LEMMA BoundsAcquireQueue ==
    ASSUME Structure, QueueBounded, NEW r \in Requests, NEW k \in Keys, AcquireQueue(r, k)
    PROVE  QueueBounded'
<1>1. /\ waiting' = Append(waiting, r) /\ key' = [key EXCEPT ![r] = k]
      /\ pc[r] = "idle" /\ ~QueueFull(k)
  BY DEF AcquireQueue
<1>2. ~Contains(waiting, r) /\ Distinct(waiting) /\ waiting \in Seq(Requests)
      /\ key \in [Requests -> Keys \cup {NoKey}]
  BY <1>1 DEF Structure, NoLeak, TypeOK
<1>3. /\ Len(waiting') = Len(waiting) + 1
      /\ \A q : Contains(waiting', q) <=> q = r \/ Contains(waiting, q)
  BY <1>1, <1>2, AppendToDistinct
<1>4. Len(waiting') <= MaxWaiters
  BY <1>1, <1>2, <1>3 DEF QueueFull
<1>5. ASSUME NEW j \in Keys PROVE Cardinality(KeyWaiters(j)') <= MaxKeyWaiters
  <2>1. IsFiniteSet(KeyWaiters(j)) /\ Cardinality(KeyWaiters(j)) <= MaxKeyWaiters
    BY FS_Subset DEF KeyWaiters, QueueBounded
  <2>2. Cardinality(KeyWaiters(j)) \in Nat
    BY <2>1, FS_CardinalityType
  <2>3. CASE j = k
    <3>1. KeyWaiters(j)' = KeyWaiters(j) \cup {r} /\ r \notin KeyWaiters(j)
      BY <1>1, <1>2, <1>3, <2>3 DEF KeyWaiters
    <3>2. Cardinality(KeyWaiters(j)') = Cardinality(KeyWaiters(j)) + 1
      BY <2>1, <3>1, FS_AddElement
    <3> QED BY <1>1, <2>2, <2>3, <3>2 DEF QueueFull
  <2>4. CASE j # k
    <3>1. KeyWaiters(j)' = KeyWaiters(j)
      BY <1>1, <1>2, <1>3, <2>4 DEF KeyWaiters
    <3> QED BY <2>1, <3>1
  <2> QED BY <2>3, <2>4
<1> QED BY <1>4, <1>5 DEF QueueBounded

LEMMA BoundsNext == Structure /\ QueueBounded /\ [Next]_vars => QueueBounded'
<1> SUFFICES ASSUME Structure, QueueBounded, [Next]_vars PROVE QueueBounded'
  OBVIOUS
<1>1. TypeOK /\ NoLeak /\ waiting \in Seq(Requests)
  BY DEF Structure, TypeOK
<1>2. ASSUME waiting' = waiting, \A q \in Requests : Contains(waiting, q) => key'[q] = key[q]
      PROVE  QueueBounded'
  BY <1>1, <1>2, BoundsKept
<1>3. CASE UNCHANGED vars
  BY <1>2, <1>3 DEF vars
<1>4. ASSUME NEW r \in Requests, NEW k \in Keys, AcquireFast(r, k)
      PROVE  QueueBounded'
  <2>1. ~Contains(waiting, r)
    BY <1>1, <1>4 DEF AcquireFast, NoLeak
  <2> QED BY <1>1, <1>2, <1>4, <2>1 DEF AcquireFast, queue, TypeOK
<1>5. ASSUME NEW r \in Requests, CheckAdmit(r) \/ DropWaiter(r)
      PROVE  QueueBounded'
  <2>1. key[r] \in Keys /\ key' = key
    BY <1>1, <1>5 DEF CheckAdmit, DropWaiter, NoLeak, TypeOK
  <2>2. \E rotate \in BOOLEAN : RemoveWaiter(r, rotate)
    BY <1>5 DEF CheckAdmit, DropWaiter
  <2>3. /\ waiting' \in Seq(Requests) /\ Len(waiting') <= Len(waiting)
        /\ \A q : Contains(waiting', q) <=> q # r /\ Contains(waiting, q)
    BY <2>1, <2>2, RemoveWaiterEffect
  <2> QED BY <1>1, <2>1, <2>3, BoundsKept
<1>6. ASSUME NEW r \in Requests, NotifyWaiters(r)
      PROVE  QueueBounded'
  <2>1. ~Contains(waiting, r)
    BY <1>1, <1>6 DEF NotifyWaiters, NoLeak
  <2> QED BY <1>1, <1>2, <1>6, <2>1 DEF NotifyWaiters, Return, queue, TypeOK
<1>7. ASSUME NEW r \in Requests,
             Register(r) \/ CheckPark(r) \/ Wake(r) \/ Abandon(r) \/ ReleasePermit(r)
      PROVE  QueueBounded'
  BY <1>2, <1>7 DEF Register, CheckPark, Wake, Abandon, ReleasePermit, queue
<1>8. ASSUME NEW l, NEW f, NEW ls, Configure(l, f, ls) \/ ConfigureNotify
      PROVE  QueueBounded'
  BY <1>2, <1>8 DEF Configure, ConfigureNotify, queue
<1>9. ASSUME NEW r \in Requests, NEW k \in Keys, AcquireQueue(r, k)
      PROVE  QueueBounded'
  BY <1>9, BoundsAcquireQueue
<1> QED
  BY <1>3, <1>4, <1>5, <1>6, <1>7, <1>8, <1>9 DEF Next, Acquire, Progress, AcquireReject

\* The queue never exceeds MAX_WAITERS, and no key MAX_KEY_WAITERS, whatever
\* mix of timeouts, cancellations and admissions empties and refills it.
THEOREM QueueBoundedAlways == Spec => []QueueBounded
<1>1. Init => QueueBounded
  <2> SUFFICES ASSUME Init PROVE QueueBounded
    OBVIOUS
  <2>1. waiting = << >> /\ \A k \in Keys : KeyWaiters(k) = {}
    BY DEF Init, KeyWaiters, Contains
  <2>2. Len(waiting) = 0 /\ \A k \in Keys : Cardinality(KeyWaiters(k)) = 0
    BY <2>1, FS_EmptySet
  <2> QED BY <2>2 DEF QueueBounded
<1> QED BY <1>1, StructureInit, StructureNext, BoundsNext, PTL DEF Spec

\* A request that skips the queue overtakes no waiter that could be admitted:
\* the fast path of acquire is taken only while every queued key is at its limit.
THEOREM NoBargingAlways == Spec => NoBarging
<1> DEFINE Polite(r) == ~Contains(waiting, r)
                          => \A w \in DOMAIN waiting : ~Available(key[waiting[w]])
<1>1. ASSUME Structure, [Next]_vars
      PROVE  [\A r \in active' \ active : Polite(r)]_vars
  <2> USE <1>1
  <2>1. ASSUME NEW r \in Requests, NEW k \in Keys, AcquireFast(r, k)
        PROVE  \A q \in active' \ active : Polite(q)
    BY <2>1, SomeoneSelected DEF AcquireFast, MayBypassQueue
  <2>2. ASSUME NEW r \in Requests, CheckAdmit(r)
        PROVE  \A q \in active' \ active : Polite(q)
    BY <2>2 DEF CheckAdmit, Structure, NoLeak
  <2>3. ASSUME NEW r \in Requests, NEW k \in Keys, AcquireQueue(r, k)
        PROVE  active' = active
    BY <2>3 DEF AcquireQueue, slots
  <2>4. ASSUME NEW r \in Requests,
               \/ Register(r) \/ CheckPark(r) \/ Wake(r) \/ Abandon(r)
               \/ DropWaiter(r) \/ ReleasePermit(r) \/ NotifyWaiters(r)
        PROVE  active' \subseteq active
    BY <2>4 DEF Register, CheckPark, Wake, Abandon, DropWaiter, ReleasePermit, NotifyWaiters, slots
  <2>5. ASSUME NEW l, NEW f, NEW ls, Configure(l, f, ls) \/ ConfigureNotify
        PROVE  active' = active
    BY <2>5 DEF Configure, ConfigureNotify, slots
  <2> QED
    BY <2>1, <2>2, <2>3, <2>4, <2>5 DEF Next, Acquire, Progress, AcquireReject
<1>2. Structure /\ [Next]_vars => [\A r \in active' \ active : Polite(r)]_vars
  BY <1>1
<1>3. Spec => []Structure
  BY StructureInit, StructureNext, PTL DEF Spec
<1>4. Spec => [][\A r \in active' \ active : Polite(r)]_vars
  BY <1>2, <1>3, PTL DEF Spec
<1> QED BY <1>4, PTL DEF NoBarging
==============================================================================
