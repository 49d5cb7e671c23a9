----------------------------- MODULE ProxyProofs -----------------------------
(***************************************************************************)
(* The proxy: the count of each of its targets is true and stays within    *)
(* its route (RouterTargets), and the daemon that runs it follows the      *)
(* stored configuration, or the desktop process knows that it does not     *)
(* (ProxyControl).  The two share no state; each part has an invariant of  *)
(* its own, TargetsInv and Inv.                                            *)
(***************************************************************************)
EXTENDS RouterTargets, ProxyControl, FiniteSetTheorems, SequenceTheorems, TLAPS

\* A request is at an instance exactly while it holds a permit, and only then can
\* the permit be live.
Placed ==
    \A r \in Requests :
        /\ pc[r] \in Holding => at[r] \in Instances
        /\ live[r] => pc[r] \in Holding

TargetsInv == TargetsTypeOK /\ Placed /\ PermitsBalanced /\ ConcurrencyBounded

-----------------------------------------------------------------------------
(* Entries *)

LEMMA DefaultEntry == Default \in Entries /\ Cardinality(Requests) \in Nat
  BY TargetsAssumption, FS_CardinalityType DEF Default, Entries

LEMMA EntryType ==
    ASSUME TargetsTypeOK, NEW i \in Instances
    PROVE  Entry(i) \in Entries /\ (target[i] # NoTarget => target[i] \in Entries)
  BY DefaultEntry DEF Entry, TargetsTypeOK

LEMMA CappedFailures ==
    ASSUME NEW n \in 0 .. Threshold
    PROVE  Min({n + 1, Threshold}) \in 0 .. Threshold
<1>1. Threshold \in Nat
  BY TargetsAssumption
<1>2. CASE n + 1 <= Threshold
  BY <1>1, <1>2 DEF Min
<1>3. CASE ~(n + 1 <= Threshold)
  BY <1>1, <1>3 DEF Min
<1> QED BY <1>2, <1>3

\* What a report does to a target: the map keeps its type, no entry disappears,
\* and no count changes.
Reported(i) ==
    /\ target' \in [Instances -> Entries \cup {NoTarget}]
    /\ target'[i] # NoTarget
    /\ target'[i].active = Entry(i).active
    /\ \A j \in Instances \ {i} : target'[j] = target[j]

LEMMA SuccessReported ==
    ASSUME TargetsTypeOK, NEW i \in Instances, NEW s \in SlotCounts \cup {Entry(i).slots},
           MarkProbeSuccess(i, s)
    PROVE  Reported(i)
<1>1. Entry(i) \in Entries /\ 0 \in 0 .. Threshold /\ s \in SlotCounts \cup {0}
  BY EntryType, TargetsAssumption DEF Entries
<1> DEFINE e == [Entry(i) EXCEPT !.ready = TRUE, !.open = FALSE, !.failures = 0,
                                 !.proven = TRUE, !.slots = s]
<1>2. e \in Entries /\ e.active = Entry(i).active
  BY <1>1 DEF Entries
<1>3. target' = [target EXCEPT ![i] = e]
  BY DEF MarkProbeSuccess
<1> HIDE DEF e
<1> QED BY <1>2, <1>3, NoTargetAssumption DEF Reported, TargetsTypeOK

LEMMA FailureReported ==
    ASSUME TargetsTypeOK, NEW i \in Instances, NEW threshold, MarkProbeFailure(i, threshold)
    PROVE  Reported(i)
<1> DEFINE n == Min({Entry(i).failures + 1, Threshold})
           trips == n >= threshold
           e == [Entry(i) EXCEPT !.failures = n, !.ready = @ /\ ~trips, !.open = @ \/ trips]
<1>1. Entry(i) \in Entries /\ n \in 0 .. Threshold
  BY EntryType, CappedFailures DEF Entries
<1>2. target' = [target EXCEPT ![i] = e]
  BY DEF MarkProbeFailure
<1>3. (Entry(i).ready /\ ~trips) \in BOOLEAN /\ (Entry(i).open \/ trips) \in BOOLEAN
  OBVIOUS
<1> HIDE DEF n, trips
<1>4. e \in Entries /\ e.active = Entry(i).active
  BY <1>1, <1>3 DEF Entries
<1> HIDE DEF e
<1> QED BY <1>2, <1>4, NoTargetAssumption DEF Reported, TargetsTypeOK

-----------------------------------------------------------------------------
(* Permits *)

LEMMA PermitsFinite ==
    ASSUME NEW i \in Instances
    PROVE  /\ IsFiniteSet(Permits(i))
           /\ Cardinality(Permits(i)) \in 0 .. Cardinality(Requests)
<1>1. Permits(i) \in SUBSET Requests
  BY DEF Permits
<1> QED BY <1>1, TargetsAssumption, FS_Subset, FS_CardinalityType

LEMMA PermitsStay ==
    ASSUME NEW i \in Instances, Placed, Placed',
           \A r \in Requests : live[r] = live'[r] /\ (live[r] => at'[r] = at[r])
    PROVE  Permits(i)' = Permits(i)
  BY DEF Permits, Placed

\* A report, of a request or of a probe, leaves permits and counts alone.
LEMMA ReportKeepsInv ==
    ASSUME TargetsInv, TargetsTypeOK', Placed', NEW i \in Instances, Reported(i),
           live' = live, at' = at
    PROVE  TargetsInv'
<1>1. \A j \in Instances : Permits(j)' = Permits(j)
  BY PermitsStay DEF TargetsInv
<1>2. ASSUME target[i] = NoTarget
      PROVE  Cardinality(Permits(i)) = 0 /\ Entry(i).active = 0
  <2>1. Permits(i) = {}
    BY <1>2 DEF TargetsInv, PermitsBalanced, Permits
  <2> QED BY <2>1, <1>2, FS_EmptySet DEF Entry, Default
<1>3. target'[i].active = Cardinality(Permits(i))
  BY <1>2 DEF TargetsInv, PermitsBalanced, Reported, Entry
<1>4. PermitsBalanced'
  <2>1. ASSUME NEW j \in Instances, target'[j] # NoTarget
        PROVE  target'[j].active = Cardinality(Permits(j)')
    BY <1>1, <1>3, <2>1 DEF TargetsInv, PermitsBalanced, Reported
  <2>2. ASSUME NEW r \in Requests, live'[r] PROVE target'[at'[r]] # NoTarget
    BY <2>2 DEF TargetsInv, PermitsBalanced, Reported, Placed
  <2> QED BY <2>1, <2>2 DEF PermitsBalanced
<1>5. ConcurrencyBounded'
  BY <1>1 DEF TargetsInv, ConcurrencyBounded
<1> QED BY <1>4, <1>5 DEF TargetsInv

-----------------------------------------------------------------------------
LEMMA TargetsInitKeeps == TargetsInit => TargetsInv
<1> SUFFICES ASSUME TargetsInit PROVE TargetsInv
  OBVIOUS
<1>1. TargetsTypeOK
  BY TargetsAssumption DEF TargetsInit, TargetsTypeOK
<1>2. \A i \in Instances : Permits(i) = {}
  BY DEF TargetsInit, Permits
<1>3. Placed /\ PermitsBalanced
  BY DEF TargetsInit, Placed, PermitsBalanced, Holding
<1>4. ConcurrencyBounded
  BY <1>2, FS_EmptySet, TargetsAssumption DEF ConcurrencyBounded
<1> QED BY <1>1, <1>3, <1>4 DEF TargetsInv

\* The steps that touch neither the map nor the permits.
LEMMA QuietStep ==
    ASSUME TargetsInv, TargetsTypeOK', Placed', UNCHANGED <<target, at, live>>
    PROVE  TargetsInv'
<1>1. \A j \in Instances : Permits(j)' = Permits(j)
  BY PermitsStay DEF TargetsInv
<1> QED BY <1>1 DEF TargetsInv, PermitsBalanced, ConcurrencyBounded

LEMMA AcquireStep ==
    ASSUME TargetsInv, NEW r \in Requests, SelectAndAcquire(r)
    PROVE  TargetsInv'
<1> PICK i \in Preferred(cands[r]) :
         /\ target' = [target EXCEPT ![i] = [Entry(i) EXCEPT !.active = @ + 1]]
         /\ at' = [at EXCEPT ![r] = i]
  BY DEF SelectAndAcquire
<1>1. i \in Instances /\ ~AtCapacity(i)
  BY DEF Preferred, TargetsInv, TargetsTypeOK
<1>2. r \notin Permits(i) /\ ~live[r]
  BY DEF TargetsInv, Placed, Holding, SelectAndAcquire, Permits
<1>3. Permits(i)' = Permits(i) \cup {r}
  BY <1>1, <1>2 DEF Permits, SelectAndAcquire, TargetsInv, TargetsTypeOK, Holding
<1>4. \A j \in Instances \ {i} : Permits(j)' = Permits(j)
  BY <1>2 DEF Permits, SelectAndAcquire, TargetsInv, TargetsTypeOK, Holding
<1>5. Entry(i) \in Entries /\ Entry(i).active = Cardinality(Permits(i))
  <2>1. CASE target[i] = NoTarget
    <3>1. Permits(i) = {}
      BY <2>1 DEF TargetsInv, PermitsBalanced, Permits
    <3> QED BY <3>1, <2>1, FS_EmptySet, DefaultEntry DEF Entry, Default
  <2>2. CASE target[i] # NoTarget
    BY <2>2, <1>1, EntryType DEF Entry, TargetsInv, PermitsBalanced
  <2> QED BY <2>1, <2>2
<1>6. Cardinality(Permits(i)') = Cardinality(Permits(i)) + 1
  BY <1>1, <1>2, <1>3, PermitsFinite, FS_AddElement
<1>7. Cardinality(Permits(i)') \in 0 .. Cardinality(Requests)
  <2>1. Permits(i) \cup {r} \in SUBSET Requests
    BY DEF Permits
  <2> QED BY <2>1, <1>3, TargetsAssumption, FS_Subset, FS_CardinalityType
<1> DEFINE e == [Entry(i) EXCEPT !.active = @ + 1]
<1>8. e \in Entries /\ e.active = Cardinality(Permits(i)')
  BY <1>5, <1>6, <1>7 DEF Entries
<1>9. target' = [target EXCEPT ![i] = e]
  OBVIOUS
<1> HIDE DEF e
<1>10. TargetsTypeOK'
  BY <1>1, <1>8, <1>9 DEF TargetsInv, TargetsTypeOK, SelectAndAcquire, Holding
<1>11. Placed'
  BY <1>1 DEF TargetsInv, TargetsTypeOK, Placed, SelectAndAcquire, Holding
<1>12. PermitsBalanced'
  <2>1. ASSUME NEW j \in Instances, target'[j] # NoTarget
        PROVE  target'[j].active = Cardinality(Permits(j)')
    <3>1. CASE j = i
      BY <3>1, <1>1, <1>8, <1>9 DEF TargetsInv, TargetsTypeOK
    <3>2. CASE j # i
      BY <3>2, <1>4, <1>9, <2>1 DEF TargetsInv, TargetsTypeOK, PermitsBalanced
    <3> QED BY <3>1, <3>2
  <2>2. ASSUME NEW q \in Requests, live'[q] PROVE target'[at'[q]] # NoTarget
    BY <2>2, <1>1, <1>8, <1>9, NoTargetAssumption
       DEF TargetsInv, TargetsTypeOK, PermitsBalanced, SelectAndAcquire
  <2> QED BY <2>1, <2>2 DEF PermitsBalanced
<1>13. ConcurrencyBounded'
  <2> SUFFICES ASSUME NEW j \in Instances, MaxConcurrent > 0
               PROVE  Cardinality(Permits(j)') <= MaxConcurrent
    BY DEF ConcurrencyBounded
  <2>1. CASE j = i
    BY <2>1, <1>1, <1>5, <1>6, PermitsFinite, DefaultEntry, TargetsAssumption DEF AtCapacity
  <2>2. CASE j # i
    BY <2>2, <1>4 DEF TargetsInv, ConcurrencyBounded
  <2> QED BY <2>1, <2>2
<1> QED BY <1>10, <1>11, <1>12, <1>13 DEF TargetsInv

LEMMA FinishStep ==
    ASSUME TargetsInv, NEW r \in Requests, Finish(r)
    PROVE  TargetsInv'
<1>1. PICK i \in Instances : i = at[r]
  BY DEF TargetsInv, Placed, Finish, Holding
<1>2. Permits(i)' = Permits(i) \ {r}
  BY <1>1 DEF Permits, Finish, TargetsInv, TargetsTypeOK, Holding
<1>3. \A j \in Instances \ {i} : Permits(j)' = Permits(j)
  BY <1>1 DEF Permits, Finish, TargetsInv, TargetsTypeOK, Holding
<1>4. r \in Permits(i) <=> live[r]
  BY <1>1 DEF Permits, TargetsInv, Placed
<1>5. /\ IsFiniteSet(Permits(i))
      /\ Cardinality(Permits(i)) \in Nat
      /\ Cardinality(Permits(i)) <= Cardinality(Requests)
      /\ Cardinality(Permits(i)') =
            IF live[r] THEN Cardinality(Permits(i)) - 1 ELSE Cardinality(Permits(i))
      /\ live[r] => Cardinality(Permits(i)) > 0
  <2>1. /\ IsFiniteSet(Permits(i))
        /\ Cardinality(Permits(i)) \in Nat
        /\ Cardinality(Permits(i)) <= Cardinality(Requests)
    BY <1>1, PermitsFinite, DefaultEntry
  <2>2. live[r] => Cardinality(Permits(i)) # 0
    BY <2>1, <1>4, FS_EmptySet
  <2>3. Cardinality(Permits(i) \ {r}) =
          IF r \in Permits(i) THEN Cardinality(Permits(i)) - 1 ELSE Cardinality(Permits(i))
    BY <2>1, FS_RemoveElement
  <2> QED BY <2>1, <2>2, <2>3, <1>2, <1>4
<1>6. CASE target[i] # NoTarget /\ live[r]
  <2> DEFINE e == [target[i] EXCEPT !.active = IF @ = 0 THEN 0 ELSE @ - 1]
  <2>1. target[i] \in Entries /\ target[i].active = Cardinality(Permits(i))
    BY <1>1, <1>6, EntryType DEF TargetsInv, PermitsBalanced
  <2>2. e \in Entries /\ e.active = Cardinality(Permits(i)')
    BY <2>1, <1>5, <1>6, DefaultEntry DEF Entries
  <2>3. target' = [target EXCEPT ![i] = e]
    BY <1>1, <1>6 DEF Finish, DropPermit
  <2> HIDE DEF e
  <2>4. TargetsTypeOK' /\ Placed'
    BY <1>1, <2>2, <2>3 DEF TargetsInv, TargetsTypeOK, Placed, Finish, Holding
  <2>5. PermitsBalanced'
    <3>1. ASSUME NEW j \in Instances, target'[j] # NoTarget
          PROVE  target'[j].active = Cardinality(Permits(j)')
      <4>1. CASE j = i
        BY <4>1, <1>1, <2>2, <2>3 DEF TargetsInv, TargetsTypeOK
      <4>2. CASE j # i
        BY <4>2, <1>3, <2>3, <3>1 DEF TargetsInv, TargetsTypeOK, PermitsBalanced
      <4> QED BY <4>1, <4>2
    <3>2. ASSUME NEW q \in Requests, live'[q] PROVE target'[at'[q]] # NoTarget
      BY <3>2, <1>1, <2>2, <2>3, NoTargetAssumption
         DEF TargetsInv, TargetsTypeOK, PermitsBalanced, Finish, Placed
    <3> QED BY <3>1, <3>2 DEF PermitsBalanced
  <2>6. ConcurrencyBounded'
    BY <1>3, <1>5, <1>6, <1>1, TargetsAssumption DEF TargetsInv, ConcurrencyBounded
  <2> QED BY <2>4, <2>5, <2>6 DEF TargetsInv
<1>7. CASE ~(target[i] # NoTarget /\ live[r])
  <2>1. target' = target /\ ~live[r]
    BY <1>7, <1>1 DEF Finish, DropPermit, TargetsInv, PermitsBalanced
  <2>2. \A j \in Instances : Permits(j)' = Permits(j)
    BY <1>2, <1>3, <1>4, <2>1
  <2>3. TargetsTypeOK' /\ Placed'
    BY <2>1 DEF TargetsInv, TargetsTypeOK, Placed, Finish, Holding
  <2>4. PermitsBalanced' /\ ConcurrencyBounded'
    BY <2>1, <2>2 DEF TargetsInv, PermitsBalanced, ConcurrencyBounded, Finish, TargetsTypeOK
  <2> QED BY <2>3, <2>4 DEF TargetsInv
<1> QED BY <1>6, <1>7

\* Eviction takes the count away and with it every permit that was counted.
LEMMA RetainStep ==
    ASSUME TargetsInv, RoundRetain
    PROVE  TargetsInv'
<1>1. TargetsTypeOK' /\ Placed'
  BY DEF TargetsInv, TargetsTypeOK, Placed, RoundRetain, RetainTargets
<1>2. /\ \A i \in Instances : target'[i] = IF i \in ids THEN target[i] ELSE NoTarget
      /\ \A r \in Requests : live'[r] = (live[r] /\ at[r] \in ids)
      /\ at' = at /\ pc' = pc
  BY DEF RoundRetain, RetainTargets
<1>3. \A i \in Instances : Permits(i)' = IF i \in ids THEN Permits(i) ELSE {}
  BY <1>2 DEF Permits
<1>4. PermitsBalanced'
  <2>1. ASSUME NEW j \in Instances, target'[j] # NoTarget
        PROVE  target'[j].active = Cardinality(Permits(j)')
    BY <2>1, <1>2, <1>3 DEF TargetsInv, PermitsBalanced
  <2>2. ASSUME NEW q \in Requests, live'[q] PROVE target'[at'[q]] # NoTarget
    BY <2>2, <1>2 DEF TargetsInv, PermitsBalanced, TargetsTypeOK
  <2> QED BY <2>1, <2>2 DEF PermitsBalanced
<1>5. ConcurrencyBounded'
  BY <1>3, FS_EmptySet, TargetsAssumption DEF TargetsInv, ConcurrencyBounded
<1> QED BY <1>1, <1>4, <1>5 DEF TargetsInv

LEMMA TargetsNextKeeps == TargetsInv /\ [TargetsNext]_targetVars => TargetsInv'
<1> SUFFICES ASSUME TargetsInv, [TargetsNext]_targetVars PROVE TargetsInv'
  OBVIOUS
<1> USE DEF TargetsInv
<1>1. ASSUME NEW r \in Requests, Resolve(r) \/ SelectFails(r) \/ AnswerGood(r) \/ AnswerBad(r)
      PROVE  TargetsInv'
  <2>1. TargetsTypeOK' /\ Placed' /\ UNCHANGED <<target, at, live>>
    BY <1>1 DEF Resolve, SelectFails, AnswerGood, AnswerBad, TargetsTypeOK, Placed, Holding
  <2> QED BY <2>1, QuietStep
<1>2. ASSUME NEW i \in Instances, Appear(i) \/ Disappear(i) \/ EngineUp(i) \/ EngineDown(i)
                                  \/ ProbeHealth(i)
      PROVE  TargetsInv'
  <2>1. TargetsTypeOK' /\ Placed' /\ UNCHANGED <<target, at, live>>
    BY <1>2 DEF Appear, Disappear, EngineUp, EngineDown, ProbeHealth, TargetsTypeOK, Placed
  <2> QED BY <2>1, QuietStep
<1>3. CASE RoundSnapshot \/ RoundEnds \/ UNCHANGED targetVars
  <2>1. TargetsTypeOK' /\ Placed' /\ UNCHANGED <<target, at, live>>
    BY <1>3 DEF RoundSnapshot, RoundEnds, targetVars, TargetsTypeOK, Placed
  <2> QED BY <2>1, QuietStep
<1>4. ASSUME NEW r \in Requests, ReportGood(r) \/ ReportBad(r)
      PROVE  TargetsInv'
  <2>1. at[r] \in Instances /\ at' = at /\ live' = live
    BY <1>4 DEF ReportGood, ReportBad, Placed, Holding
  <2>2. Reported(at[r])
    BY <1>4, <2>1, SuccessReported, FailureReported DEF ReportGood, ReportBad
  <2>3. TargetsTypeOK' /\ Placed'
    BY <1>4, <2>2 DEF ReportGood, ReportBad, Reported, TargetsTypeOK, Placed, Holding
  <2>4. PICK i \in Instances : i = at[r]
    BY <2>1
  <2> QED BY <2>1, <2>2, <2>3, <2>4, ReportKeepsInv DEF Reported
<1>5. ASSUME NEW i \in Instances, ProbeSucceeds(i) \/ ProbeFails(i)
      PROVE  TargetsInv'
  <2>1. Reported(i)
    BY <1>5, SuccessReported, FailureReported DEF ProbeSucceeds, ProbeFails
  <2>2. TargetsTypeOK' /\ Placed' /\ at' = at /\ live' = live
    BY <1>5, <2>1 DEF ProbeSucceeds, ProbeFails, Reported, TargetsTypeOK, Placed
  <2> QED BY <2>1, <2>2, ReportKeepsInv
<1>6. ASSUME NEW i \in Instances, CooldownEnds(i)
      PROVE  TargetsInv'
  <2> DEFINE e == [target[i] EXCEPT !.open = FALSE]
  <2>1. target[i] \in Entries /\ target[i] # NoTarget /\ target' = [target EXCEPT ![i] = e]
    BY <1>6, EntryType DEF CooldownEnds
  <2>2. e \in Entries /\ e.active = target[i].active
    BY <2>1 DEF Entries
  <2> HIDE DEF e
  <2>3. Reported(i)
    BY <2>1, <2>2, NoTargetAssumption DEF Reported, Entry, TargetsTypeOK
  <2>4. TargetsTypeOK' /\ Placed' /\ at' = at /\ live' = live
    BY <1>6, <2>3 DEF CooldownEnds, Reported, TargetsTypeOK, Placed
  <2> QED BY <2>3, <2>4, ReportKeepsInv
<1> QED
  BY <1>1, <1>2, <1>3, <1>4, <1>5, <1>6, AcquireStep, FinishStep, RetainStep DEF TargetsNext

-----------------------------------------------------------------------------
\* For any number of instances and requests, the count of a target equals the
\* permits it has granted and not got back, through evictions and recreations under
\* the same name, and never exceeds the limit of its route
\* (select_and_acquire_target, retain_targets, Drop for TargetRequestPermit).
THEOREM PermitsSoundAlways == TargetsSpec => []PermitsSound
<1>1. TargetsInv => PermitsSound
  BY DEF TargetsInv, PermitsSound
<1> QED BY <1>1, TargetsInitKeeps, TargetsNextKeeps, PTL DEF TargetsSpec
-----------------------------------------------------------------------------
(* Paths: what an operation may have left to do *)

Rest(t) == {t[i] : i \in DOMAIN t}
Left(step) == step \in Rest(op.todo)

SavePaths ==
    {<<"status", "write", "read", "sync", "bg">>,
     <<"write", "read", "sync", "bg">>, <<"read", "sync", "bg">>, <<"sync", "bg">>,
     <<"bg">>, <<>>}
SwitchPaths ==
    {<<"status", "write", "read", "sync", "proxy">>,
     <<"write", "read", "sync", "proxy">>, <<"read", "sync", "proxy">>,
     <<"sync", "proxy">>, <<"proxy">>, <<>>}
RestartPaths ==
    {<<"write", "halt", "mark", "read", "sync", "proxy">>,
     <<"halt", "mark", "read", "sync", "proxy">>,
     <<"mark", "read", "sync", "proxy">>, <<"read", "sync", "proxy">>,
     <<"sync", "proxy">>, <<"proxy">>, <<>>}
BridgePaths ==
    {<<"read", "sync", "bg", "proxy">>, <<"sync", "bg", "proxy">>,
     <<"bg", "proxy">>, <<"proxy">>, <<>>}
LeavePaths ==
    {<<"write", "read", "sync", "proxy", "bg">>, <<"read", "sync", "proxy", "bg">>,
     <<"sync", "proxy", "bg">>, <<"proxy", "bg">>, <<"bg">>, <<>>}
QuitPaths ==
    {<<"write", "read", "sync", "proxy", "done", "exit">>,
     <<"read", "sync", "proxy", "done", "exit">>,
     <<"sync", "proxy", "done", "exit">>, <<"proxy", "done", "exit">>,
     <<"done", "exit">>, <<"exit">>, <<>>}

\* The order of the steps, where an invariant depends on it: h comes next, and r is
\* what is left.
Early == {"status", "write", "halt", "mark"}
InOrder(h, r) ==
    /\ h \in r
    /\ "write" \in r => h \in {"status", "write"} /\ "read" \in r
    /\ "mark" \in r => h \in {"write", "halt", "mark"} /\ "read" \in r
    /\ "read" \in r => h \in Early \cup {"read"} /\ "sync" \in r
    /\ "sync" \in r => h \in Early \cup {"read", "sync"}
    /\ "done" \in r => h # "exit"
    /\ h \in {"done", "exit"} => "proxy" \notin r
    /\ h = "status" => "write" \in r
    /\ h = "halt" => "mark" \in r /\ "write" \notin r

Onward(t, paths) ==
    /\ Tail(t) \in paths
    /\ Rest(Tail(t)) = Rest(t) \ {Head(t)}
    /\ InOrder(Head(t), Rest(t))

LEMMA SaveOnward ==
    ASSUME NEW t \in SavePaths, t # <<>>
    PROVE  Onward(t, SavePaths) /\ Rest(t) \subseteq {"status", "write", "read", "sync", "bg"}
           /\ "bg" \in Rest(t)
<1>1. /\ Rest(<<>>) = {}
      /\ Rest(<<"bg">>) = {"bg"}
      /\ Rest(<<"sync", "bg">>) = {"sync", "bg"}
      /\ Rest(<<"read", "sync", "bg">>) = {"read", "sync", "bg"}
      /\ Rest(<<"write", "read", "sync", "bg">>) = {"write", "read", "sync", "bg"}
      /\ Rest(<<"status", "write", "read", "sync", "bg">>) = {"status", "write", "read", "sync", "bg"}
  BY DEF Rest
<1>2. CASE t = <<"status", "write", "read", "sync", "bg">>
  <2>1. Head(t) = "status" /\ Tail(t) = <<"write", "read", "sync", "bg">> /\ Tail(t) \in SavePaths
    BY <1>2 DEF SavePaths
  <2>2. Rest(t) = {"status", "write", "read", "sync", "bg"} /\ Rest(Tail(t)) = {"write", "read", "sync", "bg"}
    BY <2>1, <1>1, <1>2
  <2> QED BY <2>1, <2>2, Zenon DEF Onward, InOrder, Early
<1>3. CASE t = <<"write", "read", "sync", "bg">>
  <2>1. Head(t) = "write" /\ Tail(t) = <<"read", "sync", "bg">> /\ Tail(t) \in SavePaths
    BY <1>3 DEF SavePaths
  <2>2. Rest(t) = {"write", "read", "sync", "bg"} /\ Rest(Tail(t)) = {"read", "sync", "bg"}
    BY <2>1, <1>1, <1>3
  <2> QED BY <2>1, <2>2, Zenon DEF Onward, InOrder, Early
<1>4. CASE t = <<"read", "sync", "bg">>
  <2>1. Head(t) = "read" /\ Tail(t) = <<"sync", "bg">> /\ Tail(t) \in SavePaths
    BY <1>4 DEF SavePaths
  <2>2. Rest(t) = {"read", "sync", "bg"} /\ Rest(Tail(t)) = {"sync", "bg"}
    BY <2>1, <1>1, <1>4
  <2> QED BY <2>1, <2>2, Zenon DEF Onward, InOrder, Early
<1>5. CASE t = <<"sync", "bg">>
  <2>1. Head(t) = "sync" /\ Tail(t) = <<"bg">> /\ Tail(t) \in SavePaths
    BY <1>5 DEF SavePaths
  <2>2. Rest(t) = {"sync", "bg"} /\ Rest(Tail(t)) = {"bg"}
    BY <2>1, <1>1, <1>5
  <2> QED BY <2>1, <2>2, Zenon DEF Onward, InOrder, Early
<1>6. CASE t = <<"bg">>
  <2>1. Head(t) = "bg" /\ Tail(t) = <<>> /\ Tail(t) \in SavePaths
    BY <1>6 DEF SavePaths
  <2>2. Rest(t) = {"bg"} /\ Rest(Tail(t)) = {}
    BY <2>1, <1>1, <1>6
  <2> QED BY <2>1, <2>2, Zenon DEF Onward, InOrder, Early
<1> QED BY <1>2, <1>3, <1>4, <1>5, <1>6 DEF SavePaths

LEMMA SwitchOnward ==
    ASSUME NEW t \in SwitchPaths, t # <<>>
    PROVE  Onward(t, SwitchPaths) /\ Rest(t) \subseteq {"status", "write", "read", "sync", "proxy"}
           /\ ("sync" \in Rest(t) => "proxy" \in Rest(t))
<1>1. /\ Rest(<<>>) = {}
      /\ Rest(<<"proxy">>) = {"proxy"}
      /\ Rest(<<"sync", "proxy">>) = {"sync", "proxy"}
      /\ Rest(<<"read", "sync", "proxy">>) = {"read", "sync", "proxy"}
      /\ Rest(<<"write", "read", "sync", "proxy">>) = {"write", "read", "sync", "proxy"}
      /\ Rest(<<"status", "write", "read", "sync", "proxy">>) = {"status", "write", "read", "sync", "proxy"}
  BY DEF Rest
<1>2. CASE t = <<"status", "write", "read", "sync", "proxy">>
  <2>1. Head(t) = "status" /\ Tail(t) = <<"write", "read", "sync", "proxy">> /\ Tail(t) \in SwitchPaths
    BY <1>2 DEF SwitchPaths
  <2>2. Rest(t) = {"status", "write", "read", "sync", "proxy"} /\ Rest(Tail(t)) = {"write", "read", "sync", "proxy"}
    BY <2>1, <1>1, <1>2
  <2> QED BY <2>1, <2>2, Zenon DEF Onward, InOrder, Early
<1>3. CASE t = <<"write", "read", "sync", "proxy">>
  <2>1. Head(t) = "write" /\ Tail(t) = <<"read", "sync", "proxy">> /\ Tail(t) \in SwitchPaths
    BY <1>3 DEF SwitchPaths
  <2>2. Rest(t) = {"write", "read", "sync", "proxy"} /\ Rest(Tail(t)) = {"read", "sync", "proxy"}
    BY <2>1, <1>1, <1>3
  <2> QED BY <2>1, <2>2, Zenon DEF Onward, InOrder, Early
<1>4. CASE t = <<"read", "sync", "proxy">>
  <2>1. Head(t) = "read" /\ Tail(t) = <<"sync", "proxy">> /\ Tail(t) \in SwitchPaths
    BY <1>4 DEF SwitchPaths
  <2>2. Rest(t) = {"read", "sync", "proxy"} /\ Rest(Tail(t)) = {"sync", "proxy"}
    BY <2>1, <1>1, <1>4
  <2> QED BY <2>1, <2>2, Zenon DEF Onward, InOrder, Early
<1>5. CASE t = <<"sync", "proxy">>
  <2>1. Head(t) = "sync" /\ Tail(t) = <<"proxy">> /\ Tail(t) \in SwitchPaths
    BY <1>5 DEF SwitchPaths
  <2>2. Rest(t) = {"sync", "proxy"} /\ Rest(Tail(t)) = {"proxy"}
    BY <2>1, <1>1, <1>5
  <2> QED BY <2>1, <2>2, Zenon DEF Onward, InOrder, Early
<1>6. CASE t = <<"proxy">>
  <2>1. Head(t) = "proxy" /\ Tail(t) = <<>> /\ Tail(t) \in SwitchPaths
    BY <1>6 DEF SwitchPaths
  <2>2. Rest(t) = {"proxy"} /\ Rest(Tail(t)) = {}
    BY <2>1, <1>1, <1>6
  <2> QED BY <2>1, <2>2, Zenon DEF Onward, InOrder, Early
<1> QED BY <1>2, <1>3, <1>4, <1>5, <1>6 DEF SwitchPaths

LEMMA RestartOnward ==
    ASSUME NEW t \in RestartPaths, t # <<>>
    PROVE  Onward(t, RestartPaths) /\ Rest(t) \subseteq {"write", "halt", "mark", "read", "sync", "proxy"}
           /\ ("write" \in Rest(t) => "mark" \in Rest(t))
           /\ ("sync" \in Rest(t) => "proxy" \in Rest(t))
<1>1. /\ Rest(<<>>) = {}
      /\ Rest(<<"proxy">>) = {"proxy"}
      /\ Rest(<<"sync", "proxy">>) = {"sync", "proxy"}
      /\ Rest(<<"read", "sync", "proxy">>) = {"read", "sync", "proxy"}
      /\ Rest(<<"mark", "read", "sync", "proxy">>) = {"mark", "read", "sync", "proxy"}
      /\ Rest(<<"halt", "mark", "read", "sync", "proxy">>) = {"halt", "mark", "read", "sync", "proxy"}
      /\ Rest(<<"write", "halt", "mark", "read", "sync", "proxy">>) = {"write", "halt", "mark", "read", "sync", "proxy"}
  BY DEF Rest
<1>2. CASE t = <<"write", "halt", "mark", "read", "sync", "proxy">>
  <2>1. Head(t) = "write" /\ Tail(t) = <<"halt", "mark", "read", "sync", "proxy">> /\ Tail(t) \in RestartPaths
    BY <1>2 DEF RestartPaths
  <2>2. Rest(t) = {"write", "halt", "mark", "read", "sync", "proxy"} /\ Rest(Tail(t)) = {"halt", "mark", "read", "sync", "proxy"}
    BY <2>1, <1>1, <1>2
  <2> QED BY <2>1, <2>2, Zenon DEF Onward, InOrder, Early
<1>3. CASE t = <<"halt", "mark", "read", "sync", "proxy">>
  <2>1. Head(t) = "halt" /\ Tail(t) = <<"mark", "read", "sync", "proxy">> /\ Tail(t) \in RestartPaths
    BY <1>3 DEF RestartPaths
  <2>2. Rest(t) = {"halt", "mark", "read", "sync", "proxy"} /\ Rest(Tail(t)) = {"mark", "read", "sync", "proxy"}
    BY <2>1, <1>1, <1>3
  <2> QED BY <2>1, <2>2, Zenon DEF Onward, InOrder, Early
<1>4. CASE t = <<"mark", "read", "sync", "proxy">>
  <2>1. Head(t) = "mark" /\ Tail(t) = <<"read", "sync", "proxy">> /\ Tail(t) \in RestartPaths
    BY <1>4 DEF RestartPaths
  <2>2. Rest(t) = {"mark", "read", "sync", "proxy"} /\ Rest(Tail(t)) = {"read", "sync", "proxy"}
    BY <2>1, <1>1, <1>4
  <2> QED BY <2>1, <2>2, Zenon DEF Onward, InOrder, Early
<1>5. CASE t = <<"read", "sync", "proxy">>
  <2>1. Head(t) = "read" /\ Tail(t) = <<"sync", "proxy">> /\ Tail(t) \in RestartPaths
    BY <1>5 DEF RestartPaths
  <2>2. Rest(t) = {"read", "sync", "proxy"} /\ Rest(Tail(t)) = {"sync", "proxy"}
    BY <2>1, <1>1, <1>5
  <2> QED BY <2>1, <2>2, Zenon DEF Onward, InOrder, Early
<1>6. CASE t = <<"sync", "proxy">>
  <2>1. Head(t) = "sync" /\ Tail(t) = <<"proxy">> /\ Tail(t) \in RestartPaths
    BY <1>6 DEF RestartPaths
  <2>2. Rest(t) = {"sync", "proxy"} /\ Rest(Tail(t)) = {"proxy"}
    BY <2>1, <1>1, <1>6
  <2> QED BY <2>1, <2>2, Zenon DEF Onward, InOrder, Early
<1>7. CASE t = <<"proxy">>
  <2>1. Head(t) = "proxy" /\ Tail(t) = <<>> /\ Tail(t) \in RestartPaths
    BY <1>7 DEF RestartPaths
  <2>2. Rest(t) = {"proxy"} /\ Rest(Tail(t)) = {}
    BY <2>1, <1>1, <1>7
  <2> QED BY <2>1, <2>2, Zenon DEF Onward, InOrder, Early
<1> QED BY <1>2, <1>3, <1>4, <1>5, <1>6, <1>7 DEF RestartPaths

LEMMA BridgeOnward ==
    ASSUME NEW t \in BridgePaths, t # <<>>
    PROVE  Onward(t, BridgePaths) /\ Rest(t) \subseteq {"read", "sync", "bg", "proxy"}
           /\ ("sync" \in Rest(t) => "proxy" \in Rest(t))
<1>1. /\ Rest(<<>>) = {}
      /\ Rest(<<"proxy">>) = {"proxy"}
      /\ Rest(<<"bg", "proxy">>) = {"bg", "proxy"}
      /\ Rest(<<"sync", "bg", "proxy">>) = {"sync", "bg", "proxy"}
      /\ Rest(<<"read", "sync", "bg", "proxy">>) = {"read", "sync", "bg", "proxy"}
  BY DEF Rest
<1>2. CASE t = <<"read", "sync", "bg", "proxy">>
  <2>1. Head(t) = "read" /\ Tail(t) = <<"sync", "bg", "proxy">> /\ Tail(t) \in BridgePaths
    BY <1>2 DEF BridgePaths
  <2>2. Rest(t) = {"read", "sync", "bg", "proxy"} /\ Rest(Tail(t)) = {"sync", "bg", "proxy"}
    BY <2>1, <1>1, <1>2
  <2> QED BY <2>1, <2>2, Zenon DEF Onward, InOrder, Early
<1>3. CASE t = <<"sync", "bg", "proxy">>
  <2>1. Head(t) = "sync" /\ Tail(t) = <<"bg", "proxy">> /\ Tail(t) \in BridgePaths
    BY <1>3 DEF BridgePaths
  <2>2. Rest(t) = {"sync", "bg", "proxy"} /\ Rest(Tail(t)) = {"bg", "proxy"}
    BY <2>1, <1>1, <1>3
  <2> QED BY <2>1, <2>2, Zenon DEF Onward, InOrder, Early
<1>4. CASE t = <<"bg", "proxy">>
  <2>1. Head(t) = "bg" /\ Tail(t) = <<"proxy">> /\ Tail(t) \in BridgePaths
    BY <1>4 DEF BridgePaths
  <2>2. Rest(t) = {"bg", "proxy"} /\ Rest(Tail(t)) = {"proxy"}
    BY <2>1, <1>1, <1>4
  <2> QED BY <2>1, <2>2, Zenon DEF Onward, InOrder, Early
<1>5. CASE t = <<"proxy">>
  <2>1. Head(t) = "proxy" /\ Tail(t) = <<>> /\ Tail(t) \in BridgePaths
    BY <1>5 DEF BridgePaths
  <2>2. Rest(t) = {"proxy"} /\ Rest(Tail(t)) = {}
    BY <2>1, <1>1, <1>5
  <2> QED BY <2>1, <2>2, Zenon DEF Onward, InOrder, Early
<1> QED BY <1>2, <1>3, <1>4, <1>5 DEF BridgePaths

LEMMA LeaveOnward ==
    ASSUME NEW t \in LeavePaths, t # <<>>
    PROVE  Onward(t, LeavePaths) /\ Rest(t) \subseteq {"write", "read", "sync", "proxy", "bg"}
           /\ "bg" \in Rest(t)
           /\ ("sync" \in Rest(t) => "proxy" \in Rest(t))
<1>1. /\ Rest(<<>>) = {}
      /\ Rest(<<"bg">>) = {"bg"}
      /\ Rest(<<"proxy", "bg">>) = {"proxy", "bg"}
      /\ Rest(<<"sync", "proxy", "bg">>) = {"sync", "proxy", "bg"}
      /\ Rest(<<"read", "sync", "proxy", "bg">>) = {"read", "sync", "proxy", "bg"}
      /\ Rest(<<"write", "read", "sync", "proxy", "bg">>) = {"write", "read", "sync", "proxy", "bg"}
  BY DEF Rest
<1>2. CASE t = <<"write", "read", "sync", "proxy", "bg">>
  <2>1. Head(t) = "write" /\ Tail(t) = <<"read", "sync", "proxy", "bg">> /\ Tail(t) \in LeavePaths
    BY <1>2 DEF LeavePaths
  <2>2. Rest(t) = {"write", "read", "sync", "proxy", "bg"} /\ Rest(Tail(t)) = {"read", "sync", "proxy", "bg"}
    BY <2>1, <1>1, <1>2
  <2> QED BY <2>1, <2>2, Zenon DEF Onward, InOrder, Early
<1>3. CASE t = <<"read", "sync", "proxy", "bg">>
  <2>1. Head(t) = "read" /\ Tail(t) = <<"sync", "proxy", "bg">> /\ Tail(t) \in LeavePaths
    BY <1>3 DEF LeavePaths
  <2>2. Rest(t) = {"read", "sync", "proxy", "bg"} /\ Rest(Tail(t)) = {"sync", "proxy", "bg"}
    BY <2>1, <1>1, <1>3
  <2> QED BY <2>1, <2>2, Zenon DEF Onward, InOrder, Early
<1>4. CASE t = <<"sync", "proxy", "bg">>
  <2>1. Head(t) = "sync" /\ Tail(t) = <<"proxy", "bg">> /\ Tail(t) \in LeavePaths
    BY <1>4 DEF LeavePaths
  <2>2. Rest(t) = {"sync", "proxy", "bg"} /\ Rest(Tail(t)) = {"proxy", "bg"}
    BY <2>1, <1>1, <1>4
  <2> QED BY <2>1, <2>2, Zenon DEF Onward, InOrder, Early
<1>5. CASE t = <<"proxy", "bg">>
  <2>1. Head(t) = "proxy" /\ Tail(t) = <<"bg">> /\ Tail(t) \in LeavePaths
    BY <1>5 DEF LeavePaths
  <2>2. Rest(t) = {"proxy", "bg"} /\ Rest(Tail(t)) = {"bg"}
    BY <2>1, <1>1, <1>5
  <2> QED BY <2>1, <2>2, Zenon DEF Onward, InOrder, Early
<1>6. CASE t = <<"bg">>
  <2>1. Head(t) = "bg" /\ Tail(t) = <<>> /\ Tail(t) \in LeavePaths
    BY <1>6 DEF LeavePaths
  <2>2. Rest(t) = {"bg"} /\ Rest(Tail(t)) = {}
    BY <2>1, <1>1, <1>6
  <2> QED BY <2>1, <2>2, Zenon DEF Onward, InOrder, Early
<1> QED BY <1>2, <1>3, <1>4, <1>5, <1>6 DEF LeavePaths

LEMMA QuitOnward ==
    ASSUME NEW t \in QuitPaths, t # <<>>
    PROVE  Onward(t, QuitPaths) /\ Rest(t) \subseteq {"write", "read", "sync", "proxy", "done", "exit"}
           /\ "exit" \in Rest(t) /\ (Head(t) = "exit" \/ "done" \in Rest(t))
           /\ ("sync" \in Rest(t) => "proxy" \in Rest(t))
<1>1. /\ Rest(<<>>) = {}
      /\ Rest(<<"exit">>) = {"exit"}
      /\ Rest(<<"done", "exit">>) = {"done", "exit"}
      /\ Rest(<<"proxy", "done", "exit">>) = {"proxy", "done", "exit"}
      /\ Rest(<<"sync", "proxy", "done", "exit">>) = {"sync", "proxy", "done", "exit"}
      /\ Rest(<<"read", "sync", "proxy", "done", "exit">>) = {"read", "sync", "proxy", "done", "exit"}
      /\ Rest(<<"write", "read", "sync", "proxy", "done", "exit">>) = {"write", "read", "sync", "proxy", "done", "exit"}
  BY DEF Rest
<1>2. CASE t = <<"write", "read", "sync", "proxy", "done", "exit">>
  <2>1. Head(t) = "write" /\ Tail(t) = <<"read", "sync", "proxy", "done", "exit">> /\ Tail(t) \in QuitPaths
    BY <1>2 DEF QuitPaths
  <2>2. Rest(t) = {"write", "read", "sync", "proxy", "done", "exit"} /\ Rest(Tail(t)) = {"read", "sync", "proxy", "done", "exit"}
    BY <2>1, <1>1, <1>2
  <2> QED BY <2>1, <2>2, Zenon DEF Onward, InOrder, Early
<1>3. CASE t = <<"read", "sync", "proxy", "done", "exit">>
  <2>1. Head(t) = "read" /\ Tail(t) = <<"sync", "proxy", "done", "exit">> /\ Tail(t) \in QuitPaths
    BY <1>3 DEF QuitPaths
  <2>2. Rest(t) = {"read", "sync", "proxy", "done", "exit"} /\ Rest(Tail(t)) = {"sync", "proxy", "done", "exit"}
    BY <2>1, <1>1, <1>3
  <2> QED BY <2>1, <2>2, Zenon DEF Onward, InOrder, Early
<1>4. CASE t = <<"sync", "proxy", "done", "exit">>
  <2>1. Head(t) = "sync" /\ Tail(t) = <<"proxy", "done", "exit">> /\ Tail(t) \in QuitPaths
    BY <1>4 DEF QuitPaths
  <2>2. Rest(t) = {"sync", "proxy", "done", "exit"} /\ Rest(Tail(t)) = {"proxy", "done", "exit"}
    BY <2>1, <1>1, <1>4
  <2> QED BY <2>1, <2>2, Zenon DEF Onward, InOrder, Early
<1>5. CASE t = <<"proxy", "done", "exit">>
  <2>1. Head(t) = "proxy" /\ Tail(t) = <<"done", "exit">> /\ Tail(t) \in QuitPaths
    BY <1>5 DEF QuitPaths
  <2>2. Rest(t) = {"proxy", "done", "exit"} /\ Rest(Tail(t)) = {"done", "exit"}
    BY <2>1, <1>1, <1>5
  <2> QED BY <2>1, <2>2, Zenon DEF Onward, InOrder, Early
<1>6. CASE t = <<"done", "exit">>
  <2>1. Head(t) = "done" /\ Tail(t) = <<"exit">> /\ Tail(t) \in QuitPaths
    BY <1>6 DEF QuitPaths
  <2>2. Rest(t) = {"done", "exit"} /\ Rest(Tail(t)) = {"exit"}
    BY <2>1, <1>1, <1>6
  <2> QED BY <2>1, <2>2, Zenon DEF Onward, InOrder, Early
<1>7. CASE t = <<"exit">>
  <2>1. Head(t) = "exit" /\ Tail(t) = <<>> /\ Tail(t) \in QuitPaths
    BY <1>7 DEF QuitPaths
  <2>2. Rest(t) = {"exit"} /\ Rest(Tail(t)) = {}
    BY <2>1, <1>1, <1>7
  <2> QED BY <2>1, <2>2, Zenon DEF Onward, InOrder, Early
<1> QED BY <1>2, <1>3, <1>4, <1>5, <1>6, <1>7 DEF QuitPaths

InPlan(o) ==
    /\ o.kind = "save" \/ (o.kind = "detach" /\ o.back) => o.todo \in SavePaths
    /\ o.kind \in {"start", "stop"} => o.todo \in SwitchPaths
    /\ o.kind = "restart" => o.todo \in RestartPaths
    /\ o.kind = "bridge" => o.todo \in BridgePaths
    /\ o.kind = "quiet" \/ (o.kind = "detach" /\ ~o.back) => o.todo \in LeavePaths
    /\ o.kind = "quit" => o.todo \in QuitPaths

-----------------------------------------------------------------------------
(* The inductive invariant *)

Steps == Calls \cup {"write", "mark", "done", "read"}
GuiType == [up : BOOLEAN, cfg : Configs, disk : Configs, inst : {1, 2}, pending : BOOLEAN,
            resync : BOOLEAN, unmarked : BOOLEAN, behind : BOOLEAN]
OpType == [kind : Kinds \cup {"idle"}, todo : Seq(Steps), prev : Configs, want : Configs,
           was : BOOLEAN, moved : BOOLEAN, inst : {1, 2}, again : BOOLEAN,
           retried : BOOLEAN, back : BOOLEAN, err : BOOLEAN, owed : BOOLEAN]
DmType == [up : BOOLEAN, cfg : Configs, inst : {1, 2}, bg : BOOLEAN,
           serving : Addrs \cup {NoAddr}]
HistType == [raced : BOOLEAN, split : BOOLEAN, halted : BOOLEAN, detached : BOOLEAN,
             masked : BOOLEAN]

\* The router listens where the daemon's configuration says, and only in a daemon that
\* is up; a dead daemon has no restart loop.
DaemonSound ==
    /\ Serving(dm) => dm.up /\ dm.serving = dm.cfg.addr
    /\ ~dm.up => loops = NoLoops

\* What is left of an operation is a rest of its program or of its rollback, and an
\* error leads to the rollback, to the end, or is collected.
Planned ==
    /\ Free => op.todo = <<>> /\ ~op.moved
    /\ ~gui.up => Free
    /\ ~Free => /\ InPlan(op)
                /\ op.back => op.kind \in DOMAIN Undo
                /\ op.err => op.back \/ op.kind = "quiet" \/ op.todo = <<>>
                /\ op.err /\ op.kind \in DOMAIN Undo => op.back
                /\ op.kind = "quit" /\ op.todo = <<>> => op.err

\* What an operation of each kind changes in the configuration.
Purpose(kind, prev, want) ==
    /\ kind = "save" => want.on = prev.on
    /\ kind = "start" => want = [prev EXCEPT !.on = TRUE]
    /\ kind = "stop" => want = [prev EXCEPT !.on = FALSE]
    /\ kind = "restart" => want = prev /\ want.on
    /\ kind = "bridge" => want = prev
    /\ kind = "detach" => want = [prev EXCEPT !.bg = TRUE]
    /\ kind = "quiet" => want = [prev EXCEPT !.on = FALSE, !.bg = FALSE]
    /\ kind = "quit" => want = [prev EXCEPT !.on = FALSE]

\* The configuration in memory is the one wanted once it is written, and the one before
\* until then and in a rollback; the hand-over has it in the file, too.
Purposeful ==
    ~Free => /\ IF op.back THEN op.want = op.prev ELSE Purpose(op.kind, op.prev, op.want)
             /\ gui.cfg = IF op.back \/ Left("write") THEN op.prev ELSE op.want
             /\ op.kind = "detach" /\ ~op.back /\ ~Left("write") => gui.disk = op.want

\* A change stays pending while an operation has not repaired it: nothing is pending only
\* before the first write of an operation, in a bridge that follows a restart of the
\* daemon, in the first half of a restart, and once a quit is past its mark.
Marked ==
    /\ op.moved => gui.pending
    /\ ~Free /\ ~gui.pending =>
         /\ op.owed => hist.masked
         /\ \/ op.kind = "bridge"
            \/ Left("write") /\ ~op.back
            \/ op.kind = "restart" /\ (Left("mark") \/ (op.err /\ hist.halted))
            \/ op.kind = "quit" /\ ~Left("done")

\* Instances read or sent by the operation are out of date only when a mark follows or
\* has been noticed.
Fresh(i) == i = gui.inst \/ gui.unmarked \/ op.moved
ReadFresh == ~Free /\ ~Left("read") /\ ~op.err => Fresh(op.inst)

\* A rollback that restores another running state than the one configured.
Deviates == op.back /\ op.kind \in {"start", "stop"} /\ op.was # op.prev.on

\* Past its synchronisation, an operation without an error has given the daemon its
\* configuration and its instances.
Synced ==
    ~Free /\ ~op.err /\ ~Left("sync") =>
        /\ dm.cfg.addr = gui.cfg.addr /\ dm.cfg.bg = gui.cfg.bg
        /\ dm.cfg.on = gui.cfg.on \/ hist.raced \/ Deviates
        /\ Fresh(dm.inst)

\* The background mode: operations that do not ask for it keep the one there was, the
\* others have set it past their "bg".
Keeps == \/ op.kind \in {"start", "stop", "restart", "quit"}
         \/ op.kind = "save" /\ ~op.back /\ op.want.bg = op.prev.bg
Moded ==
    ~Free => /\ ~op.owed /\ ~hist.masked /\ Keeps => dm.bg = gui.cfg.bg
             /\ ~Keeps /\ ~Left("bg") /\ ~op.err => dm.bg = gui.cfg.bg

\* A router that is switched off: operations that do not touch it find it stopped, the
\* others have stopped it past their "proxy".
Flagged == hist.raced \/ hist.split \/ hist.halted
Stopped == ~Serving(dm) /\ ~dm.cfg.on
Ordered ==
    ~Free /\ ~gui.cfg.on =>
        /\ op.kind \in {"save", "detach"} /\ ~op.owed /\ ~hist.masked /\ ~Flagged => Stopped
        /\ /\ op.kind \in {"start", "stop", "quit", "quiet", "bridge"}
           /\ ~Left("sync") /\ ~Left("proxy") /\ ~op.err /\ ~Deviates /\ ~hist.raced
           => ~Serving(dm)

\* While nothing is pending the daemon is up to date, whatever operation is under way.
UpToDate ==
    gui.up /\ ~gui.pending /\ ~hist.masked =>
        /\ dm.bg = gui.cfg.bg
        /\ dm.inst = gui.inst \/ gui.unmarked
        /\ ~Flagged /\ ~(op.kind = "restart" /\ ~Left("write"))
             => dm.cfg = gui.cfg /\ (~gui.cfg.on => ~Serving(dm))

\* The hand-over, from the end of its last step to the next start of the desktop process.
Listens == dm.up /\ dm.cfg.on => Serving(dm) \/ loops.sleep + loops.go > 0
Handing ==
    /\ op.kind = "detach" /\ ~op.back /\ op.todo = <<>> /\ ~hist.raced => Listens
    /\ hist.detached => ~gui.up
    /\ hist.detached /\ ~hist.raced => dm.bg /\ dm.cfg = gui.disk /\ Listens

OpInv == Planned /\ Purposeful /\ Marked /\ ReadFresh /\ Synced /\ Moded /\ Ordered
Inv == TypeOK /\ DaemonSound /\ OpInv /\ UpToDate /\ Handing

LEMMA InvReconciled == Inv => Reconciled
  BY DEF Inv, Reconciled, UpToDate, Exempt, Flagged, Quiet, Free

LEMMA InvHandedOver == Inv => HandedOver
<1> SUFFICES ASSUME Inv, hist.detached, ~hist.raced, dm.up, dm.cfg.on, Serving(dm)
             PROVE  dm.serving = dm.cfg.addr
  BY DEF Inv, Handing, Listens, HandedOver
<1> QED BY DEF Inv, DaemonSound

-----------------------------------------------------------------------------
(* The steps of an operation *)

LEMMA EndsInPlan == ASSUME NEW o, o.todo = <<>> PROVE InPlan(o)
  BY DEF InPlan, SavePaths, SwitchPaths, RestartPaths, BridgePaths, LeavePaths, QuitPaths

\* The next step is one of its kind's, in its place, and what is left after it is again a
\* rest of the same program.
HeadFacts(h) ==
    /\ Rest(Tail(op.todo)) = Rest(op.todo) \ {h}
    /\ InOrder(h, Rest(op.todo))
    /\ h \in Steps
    /\ \A o \in OpType : /\ o.kind = op.kind /\ o.back = op.back
                         /\ o.todo \in {Tail(op.todo), <<>>}
                         => InPlan(o)
    /\ h \in {"halt", "mark"} => op.kind = "restart"
    /\ h \in {"done", "exit"} => op.kind = "quit"
    /\ h = "bg" => op.kind \in {"save", "bridge", "detach", "quiet"}
    /\ h = "proxy" => op.kind # "save" /\ ~(op.kind = "detach" /\ op.back)
    /\ h = "status" => op.kind \in {"save", "start", "stop", "detach"}
    /\ op.kind = "quit" => "exit" \in Rest(op.todo) /\ (h = "exit" \/ "done" \in Rest(op.todo))
    /\ op.kind \in {"save", "detach", "quiet"} => "bg" \in Rest(op.todo)
    /\ h = "write" => op.kind # "bridge"
    /\ h = "write" /\ op.kind = "restart" => "mark" \in Rest(op.todo)
    /\ h = "sync" /\ op.kind \notin {"save", "detach"} => "proxy" \in Rest(op.todo)

LEMMA HeadStep ==
    ASSUME TypeOK, Planned, ~Free, op.todo # <<>>
    PROVE  HeadFacts(Head(op.todo))
<1> USE DEF HeadFacts
<1>1. op.kind \in Kinds /\ op.back \in BOOLEAN /\ InPlan(op)
  BY DEF TypeOK, Planned, Free
<1>2. \A o : o.todo = <<>> => InPlan(o)
  BY EndsInPlan
<1>3. CASE op.kind = "save" \/ (op.kind = "detach" /\ op.back)
  <2>1. op.todo \in SavePaths
    BY <1>1, <1>3 DEF InPlan
  <2>2. /\ Onward(op.todo, SavePaths) /\ "bg" \in Rest(op.todo)
        /\ Rest(op.todo) \subseteq {"status", "write", "read", "sync", "bg"}
    BY <2>1, SaveOnward
  <2>3. ASSUME NEW o \in OpType, o.kind = op.kind, o.back = op.back, o.todo = Tail(op.todo)
        PROVE  InPlan(o)
    BY <2>2, <2>3, <1>3 DEF Onward, InPlan
  <2>4. InOrder(Head(op.todo), Rest(op.todo)) /\ Head(op.todo) \in Rest(op.todo)
    BY <2>2 DEF Onward, InOrder
  <2>5. \A o \in OpType : /\ o.kind = op.kind /\ o.back = op.back
                            /\ o.todo \in {Tail(op.todo), <<>>}
                            => InPlan(o)
    BY <2>3, <1>2
  <2>6. Head(op.todo) \in {"status", "write", "read", "sync", "bg"}
    BY <2>2, <2>4
  <2>7. op.kind \in {"save", "detach"} /\ (op.kind = "detach" => op.back)
    BY <1>3
  <2>8. /\ Rest(Tail(op.todo)) = Rest(op.todo) \ {Head(op.todo)} /\ Head(op.todo) \in Steps
        /\ "bg" \in Rest(op.todo)
    BY <2>2, <2>6 DEF Onward, Steps, Calls
  <2> HIDE DEF HeadFacts
  <2>9. /\ Head(op.todo) \notin {"halt", "mark", "done", "exit", "proxy"}
        /\ op.kind \notin {"quit", "restart", "bridge"}
    BY <2>6, <2>7
  <2> QED BY <2>4, <2>5, <2>7, <2>8, <2>9, Zenon DEF HeadFacts
<1>4. CASE op.kind \in {"start", "stop"}
  <2>1. op.todo \in SwitchPaths
    BY <1>1, <1>4 DEF InPlan
  <2> QED BY <2>1, <1>2, <1>4, SwitchOnward DEF Onward, InPlan, InOrder, Steps, Calls
<1>5. CASE op.kind = "restart"
  <2>1. op.todo \in RestartPaths
    BY <1>1, <1>5 DEF InPlan
  <2> QED BY <2>1, <1>2, <1>5, RestartOnward DEF Onward, InPlan, InOrder, Steps, Calls
<1>6. CASE op.kind = "bridge"
  <2>1. op.todo \in BridgePaths
    BY <1>1, <1>6 DEF InPlan
  <2> QED BY <2>1, <1>2, <1>6, BridgeOnward DEF Onward, InPlan, InOrder, Steps, Calls
<1>7. CASE op.kind = "quiet" \/ (op.kind = "detach" /\ ~op.back)
  <2>1. op.todo \in LeavePaths
    BY <1>1, <1>7 DEF InPlan
  <2> QED BY <2>1, <1>2, <1>7, LeaveOnward DEF Onward, InPlan, InOrder, Steps, Calls
<1>8. CASE op.kind = "quit"
  <2>1. op.todo \in QuitPaths
    BY <1>1, <1>8 DEF InPlan
  <2> QED BY <2>1, <1>2, <1>8, QuitOnward DEF Onward, InPlan, InOrder, Steps, Calls
<1> QED BY <1>1, <1>3, <1>4, <1>5, <1>6, <1>7, <1>8 DEF Kinds

LEMMA StepAt ==
    ASSUME TypeOK, Planned, NEW step, At(step)
    PROVE  /\ gui.up /\ ~Free /\ op.todo # <<>> /\ Head(op.todo) = step
           /\ HeadFacts(step) /\ step \in Steps
           /\ Tail(op.todo) \in Seq(Steps) /\ Rest(<<>>) = {}
<1>1. gui.up /\ ~Free /\ op.todo # <<>> /\ Head(op.todo) = step
  BY DEF At, Planned
<1>2. HeadFacts(step)
  BY <1>1, HeadStep
<1>3. Tail(op.todo) \in Seq(Steps)
  BY <1>1, HeadTailProperties DEF TypeOK, Steps
<1>4. Rest(<<>>) = {}
  BY DEF Rest
<1> QED BY <1>1, <1>2, <1>3, <1>4 DEF HeadFacts

\* What the kinds do first, and what a rollback does.
LEMMA ProgramPaths ==
    /\ \A o : o.kind \in Kinds /\ ~o.back /\ o.todo = Programs[o.kind] => InPlan(o)
    /\ \A o : o.kind \in DOMAIN Undo /\ o.back /\ o.todo = Undo[o.kind] => InPlan(o)
  BY DEF InPlan, SavePaths, SwitchPaths, RestartPaths, BridgePaths, LeavePaths, QuitPaths,
         Programs, Undo, Kinds

LEMMA ProgramRests ==
    /\ \A k \in Kinds : /\ Programs[k] \in Seq(Steps) /\ Programs[k] # <<>>
                        /\ {"read", "sync"} \subseteq Rest(Programs[k])
                        /\ "write" \in Rest(Programs[k]) <=> k # "bridge"
                        /\ k # "save" => "proxy" \in Rest(Programs[k])
                        /\ k \in {"save", "detach", "quiet", "bridge"}
                             => "bg" \in Rest(Programs[k])
                        /\ k = "quit" => "done" \in Rest(Programs[k])
    /\ \A k \in DOMAIN Undo : /\ Undo[k] \in Seq(Steps) /\ Undo[k] # <<>>
                              /\ {"write", "read", "sync"} \subseteq Rest(Undo[k])
                              /\ k \in {"save", "detach"} => "bg" \in Rest(Undo[k])
    /\ DOMAIN Undo = {"save", "start", "stop", "detach"}
<1>1. /\ Rest(Programs["save"]) = {"status", "write", "read", "sync", "bg"}
      /\ Rest(Programs["start"]) = {"status", "write", "read", "sync", "proxy"}
      /\ Rest(Programs["stop"]) = {"status", "write", "read", "sync", "proxy"}
      /\ Rest(Programs["restart"]) = {"write", "halt", "mark", "read", "sync", "proxy"}
      /\ Rest(Programs["bridge"]) = {"read", "sync", "bg", "proxy"}
      /\ Rest(Programs["detach"]) = {"write", "read", "sync", "proxy", "bg"}
      /\ Rest(Programs["quiet"]) = {"write", "read", "sync", "proxy", "bg"}
      /\ Rest(Programs["quit"]) = {"write", "read", "sync", "proxy", "done", "exit"}
  BY DEF Rest, Programs
<1>2. /\ Rest(Undo["save"]) = {"write", "read", "sync", "bg"}
      /\ Rest(Undo["start"]) = {"write", "read", "sync", "proxy"}
      /\ Rest(Undo["stop"]) = {"write", "read", "sync", "proxy"}
      /\ Rest(Undo["detach"]) = {"write", "read", "sync", "bg"}
      /\ DOMAIN Undo = {"save", "start", "stop", "detach"}
  BY DEF Rest, Undo
<1>3. \A k \in Kinds : Programs[k] \in Seq(Steps) /\ Programs[k] # <<>>
  <2>1. Programs["save"] \in Seq(Steps) /\ Programs["save"] # <<>>
    BY DEF Programs, Steps, Calls
  <2>2. Programs["start"] \in Seq(Steps) /\ Programs["start"] # <<>>
    BY DEF Programs, Steps, Calls
  <2>3. Programs["stop"] \in Seq(Steps) /\ Programs["stop"] # <<>>
    BY DEF Programs, Steps, Calls
  <2>4. Programs["restart"] \in Seq(Steps) /\ Programs["restart"] # <<>>
    BY DEF Programs, Steps, Calls
  <2>5. Programs["bridge"] \in Seq(Steps) /\ Programs["bridge"] # <<>>
    BY DEF Programs, Steps, Calls
  <2>6. Programs["detach"] \in Seq(Steps) /\ Programs["detach"] # <<>>
    BY DEF Programs, Steps, Calls
  <2>7. Programs["quiet"] \in Seq(Steps) /\ Programs["quiet"] # <<>>
    BY DEF Programs, Steps, Calls
  <2>8. Programs["quit"] \in Seq(Steps) /\ Programs["quit"] # <<>>
    BY DEF Programs, Steps, Calls
  <2> QED BY <2>1, <2>2, <2>3, <2>4, <2>5, <2>6, <2>7, <2>8 DEF Kinds
<1>4. \A k \in DOMAIN Undo : Undo[k] \in Seq(Steps) /\ Undo[k] # <<>>
  <2>1. Undo["save"] \in Seq(Steps) /\ Undo["save"] # <<>>
    BY DEF Undo, Steps, Calls
  <2>2. Undo["start"] \in Seq(Steps) /\ Undo["start"] # <<>>
    BY DEF Undo, Steps, Calls
  <2>3. Undo["stop"] \in Seq(Steps) /\ Undo["stop"] # <<>>
    BY DEF Undo, Steps, Calls
  <2>4. Undo["detach"] \in Seq(Steps) /\ Undo["detach"] # <<>>
    BY DEF Undo, Steps, Calls
  <2> QED BY <1>2, <2>1, <2>2, <2>3, <2>4
<1> QED BY <1>1, <1>2, <1>3, <1>4 DEF Kinds

-----------------------------------------------------------------------------
(* Types *)

SpentType == [ops : 0..MaxOps, faults : 0..MaxFaults]
LoopType == [sleep : Nat, go : Nat]

LEMMA TypeParts ==
    TypeOK <=> /\ gui \in GuiType /\ op \in OpType /\ dm \in DmType
               /\ loops \in LoopType /\ spent \in SpentType /\ hist \in HistType
  BY DEF TypeOK, GuiType, OpType, DmType, LoopType, SpentType, HistType, Steps

LEMMA TypePrimed ==
    (/\ gui' \in GuiType /\ op' \in OpType /\ dm' \in DmType
     /\ loops' \in LoopType /\ spent' \in SpentType /\ hist' \in HistType)
    <=> TypeOK'
  BY DEF TypeOK, GuiType, OpType, DmType, LoopType, SpentType, HistType, Steps

LEMMA ConfigTypes ==
    ASSUME NEW c \in Configs
    PROVE  /\ c.on \in BOOLEAN /\ c.addr \in Addrs /\ c.bg \in BOOLEAN
           /\ \A b \in BOOLEAN : [c EXCEPT !.on = b] \in Configs
           /\ \A a \in Addrs, b \in BOOLEAN : [c EXCEPT !.addr = a, !.bg = b] \in Configs
           /\ \A b \in BOOLEAN : [c EXCEPT !.bg = b] \in Configs
           /\ \A b, g \in BOOLEAN : [c EXCEPT !.on = b, !.bg = g] \in Configs
  BY DEF Configs

LEMMA ConfigEqual ==
    ASSUME NEW c \in Configs, NEW d \in Configs, c.on = d.on, c.addr = d.addr, c.bg = d.bg
    PROVE  c = d
  BY DEF Configs

LEMMA IdleType == \A c \in Configs : Idle(c) \in OpType
<1> TAKE c \in Configs
<1>1. <<>> \in Seq(Steps) /\ 1 \in {1, 2} /\ FALSE \in BOOLEAN
  OBVIOUS
<1> QED BY <1>1 DEF Idle, OpType

LEMMA DmFields ==
    ASSUME NEW d \in DmType
    PROVE  /\ d.up \in BOOLEAN /\ d.cfg \in Configs /\ d.inst \in {1, 2} /\ d.bg \in BOOLEAN
           /\ d.serving \in Addrs \cup {NoAddr}
  BY DEF DmType

\* What the daemon's operations do to each part of it.
LEMMA StartEffect ==
    ASSUME NEW d \in DmType
    PROVE  /\ StartProxy(d) \in DmType
           /\ StartProxy(d).up = d.up /\ StartProxy(d).inst = d.inst /\ StartProxy(d).bg = d.bg
           /\ Serving(d) => StartProxy(d) = d
           /\ ~Serving(d) => /\ StartProxy(d).serving = d.cfg.addr
                             /\ StartProxy(d).cfg = [d.cfg EXCEPT !.on = TRUE]
           /\ Serving(StartProxy(d))
<1>1. CASE Serving(d)
  BY <1>1 DEF StartProxy
<1>2. CASE ~Serving(d)
  <2> DEFINE c == [d.cfg EXCEPT !.on = TRUE]
  <2>1. c \in Configs /\ d.cfg.addr \in Addrs /\ d.cfg.addr # NoAddr
    BY DmFields, ConfigTypes, ControlAssumption
  <2>2. StartProxy(d) = [d EXCEPT !.serving = d.cfg.addr, !.cfg = c]
    BY <1>2 DEF StartProxy, DmType
  <2> HIDE DEF c
  <2>3. StartProxy(d) \in DmType
    BY <2>1, <2>2 DEF DmType
  <2>4. /\ StartProxy(d).up = d.up /\ StartProxy(d).inst = d.inst /\ StartProxy(d).bg = d.bg
        /\ StartProxy(d).serving = d.cfg.addr /\ StartProxy(d).cfg = c
    BY <2>2 DEF DmType
  <2> QED BY <1>2, <2>1, <2>3, <2>4 DEF Serving, c
<1> QED BY <1>1, <1>2

LEMMA StopEffect ==
    ASSUME NEW d \in DmType
    PROVE  /\ StopProxy(d) \in DmType
           /\ StopProxy(d).up = d.up /\ StopProxy(d).inst = d.inst /\ StopProxy(d).bg = d.bg
           /\ StopProxy(d).serving = NoAddr /\ StopProxy(d).cfg = [d.cfg EXCEPT !.on = FALSE]
<1> DEFINE c == [d.cfg EXCEPT !.on = FALSE]
<1>1. c \in Configs
  BY DmFields, ConfigTypes
<1>2. StopProxy(d) = [d EXCEPT !.serving = NoAddr, !.cfg = c]
  BY DEF StopProxy, DmType
<1> HIDE DEF c
<1>3. StopProxy(d) \in DmType
  BY <1>1, <1>2 DEF DmType
<1>4. /\ StopProxy(d).up = d.up /\ StopProxy(d).inst = d.inst /\ StopProxy(d).bg = d.bg
      /\ StopProxy(d).serving = NoAddr /\ StopProxy(d).cfg = c
  BY <1>2 DEF DmType
<1> QED BY <1>3, <1>4 DEF c

LEMMA OtherEffects ==
    ASSUME NEW d \in DmType
    PROVE  /\ StopUnsaved(d) \in DmType
           /\ StopUnsaved(d).up = d.up /\ StopUnsaved(d).inst = d.inst
           /\ StopUnsaved(d).bg = d.bg /\ StopUnsaved(d).cfg = d.cfg
           /\ StopUnsaved(d).serving = NoAddr
           /\ Dead(d) \in DmType
           /\ ~Dead(d).up /\ Dead(d).inst = d.inst /\ Dead(d).bg = d.bg
           /\ Dead(d).cfg = d.cfg /\ Dead(d).serving = NoAddr
           /\ \A b \in BOOLEAN :
                /\ SetBackground(d, b) \in DmType
                /\ SetBackground(d, b).up = d.up /\ SetBackground(d, b).inst = d.inst
                /\ SetBackground(d, b).bg = b /\ SetBackground(d, b).cfg = d.cfg
                /\ SetBackground(d, b).serving = d.serving
           /\ \A c \in Configs, i \in {1, 2} :
                /\ SyncConfig(d, c, i) \in DmType
                /\ SyncConfig(d, c, i).up = d.up /\ SyncConfig(d, c, i).inst = i
                /\ SyncConfig(d, c, i).bg = d.bg /\ SyncConfig(d, c, i).cfg = c
                /\ SyncConfig(d, c, i).serving = d.serving
<1>1. FALSE \in BOOLEAN
  OBVIOUS
<1>2. StopUnsaved(d) \in DmType /\ Dead(d) \in DmType
  BY <1>1 DEF StopUnsaved, Dead, DmType
<1>3. \A b \in BOOLEAN : SetBackground(d, b) \in DmType
  BY DEF SetBackground, DmType
<1>4. \A c \in Configs, i \in {1, 2} : SyncConfig(d, c, i) \in DmType
  BY DEF SyncConfig, DmType
<1>5. /\ StopUnsaved(d).up = d.up /\ StopUnsaved(d).inst = d.inst
      /\ StopUnsaved(d).bg = d.bg /\ StopUnsaved(d).cfg = d.cfg
      /\ StopUnsaved(d).serving = NoAddr
      /\ ~Dead(d).up /\ Dead(d).inst = d.inst /\ Dead(d).bg = d.bg
      /\ Dead(d).cfg = d.cfg /\ Dead(d).serving = NoAddr
  BY DEF StopUnsaved, Dead, DmType
<1>6. \A b \in BOOLEAN :
        /\ SetBackground(d, b).up = d.up /\ SetBackground(d, b).inst = d.inst
        /\ SetBackground(d, b).bg = b /\ SetBackground(d, b).cfg = d.cfg
        /\ SetBackground(d, b).serving = d.serving
  BY DEF SetBackground, DmType
<1>7. \A c \in Configs, i \in {1, 2} :
        /\ SyncConfig(d, c, i).up = d.up /\ SyncConfig(d, c, i).inst = i
        /\ SyncConfig(d, c, i).bg = d.bg /\ SyncConfig(d, c, i).cfg = c
        /\ SyncConfig(d, c, i).serving = d.serving
  BY DEF SyncConfig, DmType
<1> QED BY <1>2, <1>3, <1>4, <1>5, <1>6, <1>7

LEMMA ModeEffect ==
    ASSUME NEW d \in DmType, NEW b \in BOOLEAN
    PROVE  /\ SetBackground(d, b) \in DmType
           /\ SetBackground(d, b).up = d.up /\ SetBackground(d, b).inst = d.inst
           /\ SetBackground(d, b).bg = b /\ SetBackground(d, b).cfg = d.cfg
           /\ SetBackground(d, b).serving = d.serving
  BY OtherEffects

LEMMA AskedEffect ==
    ASSUME TypeOK
    PROVE  /\ Asked \in DmType
           /\ Asked.up = dm.up /\ Asked.inst = dm.inst /\ Asked.bg = dm.bg
           /\ Wants \in {"start", "stop", "none"}
           /\ Asked = IF Wants = "start" THEN StartProxy(dm)
                      ELSE IF Wants = "stop" THEN StopProxy(dm) ELSE dm
<1>1. Asked = IF Wants = "start" THEN StartProxy(dm)
              ELSE IF Wants = "stop" THEN StopProxy(dm) ELSE dm
  BY DEF Asked
<1>2. Wants \in {"start", "stop", "none"}
  BY DEF Wants, Level
<1> QED BY <1>1, <1>2, StartEffect, StopEffect, TypeParts

LEMMA SpentTypes ==
    ASSUME TypeOK
    PROVE  (Fails => spent' \in SpentType) /\ (NoFault => spent' \in SpentType)
           /\ \A n : n = spent.ops + 1 /\ spent.ops < MaxOps
                       => [spent EXCEPT !.ops = n] \in SpentType
<1>1. spent \in SpentType
  BY TypeParts
<1>2. ASSUME Fails PROVE spent' \in SpentType
  <2> DEFINE f == spent.faults + 1
  <2>1. f \in 0..MaxFaults
    BY <1>1, <1>2, ControlAssumption DEF Fails, CanFail, SpentType
  <2>2. spent' = [spent EXCEPT !.faults = f]
    BY <1>2 DEF Fails
  <2> HIDE DEF f
  <2> QED BY <1>1, <2>1, <2>2 DEF SpentType
<1>3. ASSUME NEW n, n = spent.ops + 1, spent.ops < MaxOps
      PROVE  [spent EXCEPT !.ops = n] \in SpentType
  <2>1. n \in 0..MaxOps
    BY <1>1, <1>3, ControlAssumption DEF SpentType
  <2> QED BY <1>1, <2>1 DEF SpentType
<1> QED BY <1>1, <1>2, <1>3 DEF NoFault

LEMMA LoopTypes ==
    ASSUME NEW l \in LoopType
    PROVE  /\ NoLoops \in LoopType
           /\ l.sleep \in Nat /\ l.go \in Nat
           /\ \A n, m \in Nat : [sleep |-> n, go |-> m] \in LoopType
           /\ \A n \in Nat : [l EXCEPT !.sleep = n] \in LoopType /\ [l EXCEPT !.go = n] \in LoopType
<1>1. 0 \in Nat
  OBVIOUS
<1> QED BY <1>1 DEF NoLoops, LoopType

-----------------------------------------------------------------------------
(* The daemon's own steps *)

SameGui == /\ gui'.up = gui.up /\ gui'.cfg = gui.cfg /\ gui'.disk = gui.disk
           /\ gui'.inst = gui.inst /\ gui'.pending = gui.pending
           /\ gui'.unmarked = gui.unmarked
SameOp == /\ op'.kind = op.kind /\ op'.todo = op.todo /\ op'.prev = op.prev
          /\ op'.want = op.want /\ op'.was = op.was /\ op'.moved = op.moved
          /\ op'.inst = op.inst /\ op'.back = op.back /\ op'.err = op.err
          /\ op'.owed = op.owed

\* What the daemon may do to itself: its configuration stays, but for a restart loop that
\* turns it back on (raced); it starts to listen only if it is switched on.
DaemonMoves ==
    /\ dm'.inst = dm.inst /\ dm'.bg = dm.bg
    /\ dm'.cfg.addr = dm.cfg.addr /\ dm'.cfg.bg = dm.cfg.bg
    /\ hist'.split = hist.split /\ hist'.halted = hist.halted
    /\ hist'.masked = hist.masked /\ hist'.detached = hist.detached
    /\ hist.raced => hist'.raced
    /\ ~hist'.raced => /\ dm'.cfg = dm.cfg
                       /\ Serving(dm') => Serving(dm) \/ dm.cfg.on
                       /\ Listens => Listens'

LEMMA SameFacts ==
    ASSUME SameGui, SameOp
    PROVE  /\ Free' = Free /\ Deviates' = Deviates /\ Keeps' = Keeps
           /\ \A s : (s \in Rest(op.todo)') = (s \in Rest(op.todo))
           /\ Planned => Planned'
           /\ Purposeful => Purposeful'
           /\ ReadFresh => ReadFresh'
<1>1. /\ Free' = Free /\ Deviates' = Deviates /\ Keeps' = Keeps
      /\ Rest(op.todo)' = Rest(op.todo)
  BY DEF SameGui, SameOp, Free, Deviates, Keeps
<1>2. InPlan(op)' = InPlan(op)
  BY DEF SameOp, InPlan
<1>3. Planned => Planned'
  BY <1>1, <1>2 DEF SameGui, SameOp, Planned
<1>4. Purposeful => Purposeful'
  BY <1>1 DEF SameGui, SameOp, Purposeful, Left
<1>5. ReadFresh => ReadFresh'
  BY <1>1 DEF SameGui, SameOp, ReadFresh, Fresh, Left
<1> QED BY <1>1, <1>3, <1>4, <1>5

LEMMA DaemonMovesKeep ==
    ASSUME Inv, TypeOK', DaemonSound', SameGui, SameOp, DaemonMoves
    PROVE  Inv'
<1> USE SameFacts
<1>1. dm.cfg \in Configs /\ dm'.cfg \in Configs /\ hist.raced \in BOOLEAN
  BY TypeParts, DmFields DEF Inv, TypeOK, HistType
<1>2. Planned' /\ Purposeful' /\ ReadFresh'
  BY DEF Inv, OpInv
<1>3. Marked'
  BY DEF Inv, OpInv, Marked, SameGui, SameOp, DaemonMoves, Left
<1>4. Synced'
  BY DEF Inv, OpInv, Synced, SameGui, SameOp, DaemonMoves, Left, Fresh
<1>5. Moded'
  BY DEF Inv, OpInv, Moded, SameGui, SameOp, DaemonMoves, Left
<1>6. Ordered'
  <2>1. ASSUME ~Free, ~gui.cfg.on, op.kind \in {"save", "detach"}, ~op.owed, ~hist.masked,
               ~Flagged'
        PROVE  Stopped'
    BY <2>1 DEF Inv, OpInv, Ordered, Flagged, Stopped, DaemonMoves
  <2>2. ASSUME ~Free, ~gui.cfg.on, ~Left("sync"), ~Left("proxy"), ~op.err, ~Deviates, ~hist'.raced,
               op.kind \in {"start", "stop", "quit", "quiet", "bridge"}
        PROVE  ~Serving(dm')
    BY <2>2 DEF Inv, OpInv, Ordered, Synced, DaemonMoves
  <2> QED BY <2>1, <2>2 DEF Ordered, SameGui, SameOp, DaemonMoves, Left
<1>7. UpToDate'
  BY DEF Inv, UpToDate, SameGui, SameOp, DaemonMoves, Left, Flagged
<1>8. Handing'
  BY DEF Inv, Handing, SameGui, SameOp, DaemonMoves
<1> QED BY <1>2, <1>3, <1>4, <1>5, <1>6, <1>7, <1>8 DEF Inv, OpInv

LEMMA RestoreEffect ==
    ASSUME TypeOK, DaemonSound, Restore
    PROVE  /\ dm' \in DmType /\ loops' \in LoopType /\ spent' \in SpentType
           /\ dm'.up /\ dm'.cfg = dm.cfg /\ dm'.inst = dm.inst /\ dm'.bg = dm.bg
           /\ Serving(dm') => dm.cfg.on /\ dm'.serving = dm'.cfg.addr
           /\ Listens'
<1> DEFINE d == [dm EXCEPT !.up = TRUE]
<1>1. dm \in DmType /\ loops \in LoopType /\ spent' \in SpentType /\ dm.cfg \in Configs
  BY TypeParts, DmFields, SpentTypes DEF Restore
<1>2. /\ d \in DmType /\ d.up /\ d.cfg = dm.cfg /\ d.inst = dm.inst /\ d.bg = dm.bg
      /\ d.serving = dm.serving /\ ~Serving(d)
  <2>1. TRUE \in BOOLEAN
    OBVIOUS
  <2>2. d \in DmType
    BY <1>1, <2>1 DEF DmType
  <2> QED BY <1>1, <2>2 DEF DmType, DaemonSound, Restore, Serving
<1> HIDE DEF d
<1>3. ASSUME dm.cfg.on, dm' = StartProxy(d), UNCHANGED loops
      PROVE  /\ dm' \in DmType /\ loops' \in LoopType
             /\ dm'.up /\ dm'.cfg = dm.cfg /\ dm'.inst = dm.inst /\ dm'.bg = dm.bg
             /\ Serving(dm') => dm.cfg.on /\ dm'.serving = dm'.cfg.addr
             /\ Listens'
  <2>1. [d.cfg EXCEPT !.on = TRUE] = dm.cfg
    BY <1>1, <1>2, <1>3 DEF Configs
  <2> QED BY <1>1, <1>2, <1>3, <2>1, StartEffect DEF Listens
<1>4. ASSUME ~dm.cfg.on, dm' = d, UNCHANGED loops
      PROVE  /\ dm' \in DmType /\ loops' \in LoopType
             /\ dm'.up /\ dm'.cfg = dm.cfg /\ dm'.inst = dm.inst /\ dm'.bg = dm.bg
             /\ ~Serving(dm') /\ Listens'
  BY <1>1, <1>2, <1>4 DEF Listens
<1>5. ASSUME dm' = d, loops' = [loops EXCEPT !.sleep = @ + 1]
      PROVE  /\ dm' \in DmType /\ loops' \in LoopType
             /\ dm'.up /\ dm'.cfg = dm.cfg /\ dm'.inst = dm.inst /\ dm'.bg = dm.bg
             /\ ~Serving(dm') /\ Listens'
  <2> DEFINE n == loops.sleep + 1
  <2>1. n \in Nat /\ loops.go \in Nat /\ n + loops.go > 0
    BY <1>1 DEF LoopType
  <2>2. loops' = [loops EXCEPT !.sleep = n]
    BY <1>5
  <2> HIDE DEF n
  <2>4. loops' \in LoopType /\ loops'.sleep = n /\ loops'.go = loops.go
    BY <1>1, <2>1, <2>2 DEF LoopType
  <2>3. loops'.sleep + loops'.go > 0
    BY <2>1, <2>4
  <2> QED BY <1>2, <1>5, <2>4, <2>3 DEF Listens
<1> QED BY <1>1, <1>3, <1>4, <1>5 DEF Restore, d

LEMMA Unmoved ==
    /\ UNCHANGED gui => SameGui
    /\ UNCHANGED op => SameOp
  BY DEF SameGui, SameOp

LEMMA ServeErrorKeeps == ASSUME Inv, ServeError PROVE Inv'
<1> DEFINE n == loops.sleep + 1
<1>1. /\ dm \in DmType /\ loops \in LoopType /\ n \in Nat /\ n + loops.go > 0
      /\ loops.go \in Nat /\ spent' \in SpentType
  BY TypeParts, SpentTypes DEF Inv, LoopType, ServeError
<1>2. loops' = [loops EXCEPT !.sleep = n]
  BY DEF ServeError
<1> HIDE DEF n
<1>3. loops' \in LoopType /\ loops'.sleep = n /\ loops'.go = loops.go
  BY <1>1, <1>2 DEF LoopType
<1>4. /\ dm' \in DmType /\ dm'.cfg = dm.cfg /\ dm'.inst = dm.inst /\ dm'.bg = dm.bg
      /\ dm'.up /\ ~Serving(dm')
  BY <1>1, OtherEffects DEF ServeError, Serving
<1>5. Listens'
  BY <1>1, <1>3 DEF Listens
<1>6. TypeOK' /\ DaemonSound'
  BY <1>1, <1>3, <1>4, TypeParts, TypePrimed DEF Inv, ServeError, DaemonSound
<1> QED BY <1>4, <1>5, <1>6, DaemonMovesKeep, Unmoved DEF DaemonMoves, ServeError

LEMMA LoopChecksKeeps == ASSUME Inv, LoopChecks PROVE Inv'
<1>1. loops \in LoopType /\ loops.sleep \in Nat /\ loops.go \in Nat
  BY TypeParts DEF Inv, LoopType
<1> DEFINE n == loops.sleep - 1
           m == loops.go + 1
<1>2. n \in Nat /\ m \in Nat /\ n + m = loops.sleep + loops.go
  BY <1>1 DEF LoopChecks
<1>3. loops' = IF dm.cfg.on THEN [sleep |-> n, go |-> m] ELSE [loops EXCEPT !.sleep = n]
  BY DEF LoopChecks
<1> HIDE DEF n, m
<1>4. loops' \in LoopType /\ (dm.cfg.on => loops'.sleep + loops'.go = loops.sleep + loops.go)
  BY <1>1, <1>2, <1>3, LoopTypes
<1>5. TypeOK'
  BY <1>4, TypeParts, TypePrimed DEF Inv, LoopChecks
<1>6. dm.up
  BY <1>1 DEF Inv, DaemonSound, LoopChecks, NoLoops
<1>7. DaemonSound' /\ (Listens => Listens')
  BY <1>4, <1>6 DEF Inv, DaemonSound, Listens, LoopChecks
<1> QED BY <1>5, <1>7, DaemonMovesKeep, Unmoved DEF DaemonMoves, LoopChecks

LEMMA LoopStartsKeeps == ASSUME Inv, LoopStarts PROVE Inv'
<1>1. /\ dm \in DmType /\ loops \in LoopType /\ loops.sleep \in Nat /\ loops.go \in Nat
      /\ hist \in HistType /\ dm.cfg \in Configs
  BY TypeParts, DmFields DEF Inv, LoopType
<1> DEFINE m == loops.go - 1
           r == hist.raced \/ (~dm.cfg.on /\ ~Serving(dm))
<1>2. m \in Nat /\ r \in BOOLEAN
  BY <1>1 DEF LoopStarts
<1>3. loops' = [loops EXCEPT !.go = m] /\ hist' = [hist EXCEPT !.raced = r]
  BY DEF LoopStarts
<1> HIDE DEF m
<1>4. loops' \in LoopType
  BY <1>1, <1>2, <1>3, LoopTypes
<1>5. dm.up
  BY <1>1 DEF Inv, DaemonSound, LoopStarts, NoLoops
<1>6. /\ dm' \in DmType /\ dm'.up /\ dm'.inst = dm.inst /\ dm'.bg = dm.bg /\ Serving(dm')
      /\ Serving(dm) => dm' = dm
      /\ ~Serving(dm) => /\ dm'.serving = dm.cfg.addr
                         /\ dm'.cfg = [dm.cfg EXCEPT !.on = TRUE]
  BY <1>1, <1>5, StartEffect DEF LoopStarts
<1>7. /\ dm'.cfg.addr = dm.cfg.addr /\ dm'.cfg.bg = dm.cfg.bg
      /\ dm.cfg.on \/ Serving(dm) => dm'.cfg = dm.cfg
  BY <1>1, <1>6 DEF Configs
<1>8. DaemonSound'
  BY <1>6, <1>7 DEF Inv, DaemonSound
<1>9. /\ hist' \in HistType /\ hist'.raced = r
      /\ hist'.split = hist.split /\ hist'.halted = hist.halted
      /\ hist'.masked = hist.masked /\ hist'.detached = hist.detached
  <2> HIDE DEF r
  <2> QED BY <1>1, <1>2, <1>3 DEF HistType
<1>10. TypeOK'
  BY <1>4, <1>6, <1>9, TypeParts, TypePrimed DEF Inv, LoopStarts
<1>11. Listens'
  BY <1>6 DEF Listens
<1>12. DaemonMoves
  BY <1>6, <1>7, <1>9, <1>11 DEF DaemonMoves
<1> QED BY <1>8, <1>10, <1>12, DaemonMovesKeep, Unmoved DEF LoopStarts

LEMMA LoopFailsKeeps == ASSUME Inv, LoopFails PROVE Inv'
<1>1. loops \in LoopType /\ loops.sleep \in Nat /\ loops.go \in Nat /\ spent' \in SpentType
  BY TypeParts, SpentTypes DEF Inv, LoopType, LoopFails
<1> DEFINE n == loops.sleep + 1
           m == loops.go - 1
<1>2. n \in Nat /\ m \in Nat /\ n + m = loops.sleep + loops.go
  BY <1>1 DEF LoopFails
<1>3. loops' = [sleep |-> n, go |-> m]
  BY DEF LoopFails
<1> HIDE DEF n, m
<1>4. loops' \in LoopType /\ loops'.sleep + loops'.go = loops.sleep + loops.go
  BY <1>2, <1>3, LoopTypes, <1>1
<1>5. TypeOK'
  BY <1>1, <1>4, TypeParts, TypePrimed DEF Inv, LoopFails
<1>6. dm.up
  BY <1>1 DEF Inv, DaemonSound, LoopFails, NoLoops
<1>7. DaemonSound' /\ (Listens => Listens')
  BY <1>4, <1>6 DEF Inv, DaemonSound, Listens, LoopFails
<1> QED BY <1>5, <1>7, DaemonMovesKeep, Unmoved DEF DaemonMoves, LoopFails

\* A daemon that dies keeps what it has saved.
LEMMA DeathKeeps ==
    ASSUME Inv, dm' = Dead(dm), loops' = NoLoops, spent' \in SpentType,
           UNCHANGED <<gui, op, hist>>
    PROVE  Inv'
<1>1. dm \in DmType /\ loops' \in LoopType /\ NoLoops \in LoopType
  BY TypeParts, LoopTypes DEF Inv
<1>2. /\ dm' \in DmType /\ ~dm'.up /\ dm'.cfg = dm.cfg /\ dm'.inst = dm.inst
      /\ dm'.bg = dm.bg /\ ~Serving(dm')
  BY <1>1, OtherEffects DEF Serving
<1>3. TypeOK' /\ DaemonSound' /\ Listens'
  BY <1>1, <1>2, TypeParts, TypePrimed DEF Inv, DaemonSound, Listens
<1> QED BY <1>2, <1>3, DaemonMovesKeep, Unmoved DEF DaemonMoves

LEMMA DeathsKeep == ASSUME Inv, DaemonCrash \/ WatchdogStops PROVE Inv'
<1>1. spent' \in SpentType
  BY SpentTypes, TypeParts DEF Inv, DaemonCrash, WatchdogStops
<1> QED BY <1>1, DeathKeeps DEF DaemonCrash, WatchdogStops

\* A daemon that is started again does what it was last told.
LEMMA RestoreKeeps ==
    ASSUME Inv, Restore, gui' \in GuiType, op' \in OpType, SameGui, SameOp, UNCHANGED hist
    PROVE  Inv'
<1>1. /\ dm' \in DmType /\ loops' \in LoopType /\ spent' \in SpentType
      /\ dm'.up /\ dm'.cfg = dm.cfg /\ dm'.inst = dm.inst /\ dm'.bg = dm.bg
      /\ Serving(dm') => dm.cfg.on /\ dm'.serving = dm'.cfg.addr
      /\ Listens'
  BY RestoreEffect DEF Inv
<1>2. TypeOK' /\ DaemonSound'
  BY <1>1, TypeParts, TypePrimed DEF Inv, DaemonSound
<1> QED BY <1>1, <1>2, DaemonMovesKeep DEF DaemonMoves

LEMMA LoginStartKeeps == ASSUME Inv, LoginStart PROVE Inv'
<1>1. Restore /\ UNCHANGED <<gui, op, hist>>
  BY DEF LoginStart
<1>2. gui \in GuiType /\ op \in OpType
  BY TypeParts DEF Inv
<1> QED BY <1>1, <1>2, RestoreKeeps, Unmoved

LEMMA HeartbeatFailsKeeps == ASSUME Inv, HeartbeatFails PROVE Inv'
<1>1. Restore /\ UNCHANGED <<op, hist>> /\ gui' = [gui EXCEPT !.resync = TRUE]
  BY DEF HeartbeatFails
<1>2. gui \in GuiType /\ op \in OpType /\ TRUE \in BOOLEAN
  BY TypeParts DEF Inv
<1>3. gui' \in GuiType /\ SameGui
  BY <1>1, <1>2 DEF GuiType, SameGui
<1> QED BY <1>1, <1>2, <1>3, RestoreKeeps, Unmoved

LEMMA RecoverKeeps == ASSUME Inv, Recover PROVE Inv'
<1>1. PICK step \in Calls : At(step)
  BY DEF Recover
<1>2. /\ Restore /\ UNCHANGED <<gui, hist>>
      /\ op' = [op EXCEPT !.retried = TRUE, !.todo = Rewound]
      /\ gui \in GuiType /\ op \in OpType /\ TRUE \in BOOLEAN
  BY TypeParts DEF Inv, Recover
<1>3. CASE Rewound = op.todo
  <2>1. op' \in OpType /\ SameOp
    BY <1>2, <1>3 DEF OpType, SameOp
  <2> QED BY <1>2, <2>1, RestoreKeeps, Unmoved
<1>4. CASE Rewound # op.todo
  <2>1. /\ op.kind = "detach" /\ ~op.back /\ (At("proxy") \/ At("bg"))
        /\ Rewound = <<"sync", "proxy", "bg">>
    BY <1>4 DEF Rewound
  <2>2. PICK t : t = <<"sync", "proxy", "bg">>
    OBVIOUS
  <2>3. t \in Seq(Steps) /\ t # <<>> /\ t \in LeavePaths
    BY <2>2 DEF Steps, Calls, LeavePaths
  <2>4. Rest(t) = {"sync", "proxy", "bg"}
    BY <2>2 DEF Rest
  <2>5. op' = [op EXCEPT !.retried = TRUE, !.todo = t]
    BY <1>2, <2>1, <2>2
  <2>6. op' \in OpType
    BY <1>2, <2>3, <2>5 DEF OpType
  <2>7. /\ op'.kind = "detach" /\ op'.todo = t /\ op'.prev = op.prev /\ op'.want = op.want
        /\ op'.moved = op.moved /\ op'.inst = op.inst /\ ~op'.back
        /\ op'.err = op.err /\ op'.owed = op.owed
    BY <1>2, <2>1, <2>5 DEF OpType
  <2>8. gui.up /\ ~Free /\ op.todo # <<>> /\ ~Left("write") /\ ~Left("read") /\ Left("bg")
    BY <2>1, StepAt DEF Inv, OpInv, HeadFacts, InOrder, Early, Left
  <2>9. /\ dm' \in DmType /\ loops' \in LoopType /\ spent' \in SpentType
        /\ dm'.up /\ dm'.cfg = dm.cfg /\ dm'.inst = dm.inst /\ dm'.bg = dm.bg
        /\ Serving(dm') => dm.cfg.on /\ dm'.serving = dm'.cfg.addr
    BY <1>2, RestoreEffect DEF Inv
  <2>10. TypeOK' /\ DaemonSound'
    BY <1>2, <2>6, <2>9, TypeParts, TypePrimed DEF Inv, DaemonSound
  <2>11. Planned'
    <3>1. InPlan(op)'
      BY <2>3, <2>7 DEF InPlan
    <3>2. ~op'.err
      BY <2>1, <2>7, <2>8 DEF Inv, OpInv, Planned
    <3> QED BY <1>2, <2>8, <2>7, <2>3, <3>1, <3>2 DEF Planned, Free
  <2>12. gui.pending
    BY <2>1, <2>8 DEF Inv, OpInv, Marked
  <2>13. Purposeful' /\ Marked' /\ ReadFresh' /\ Synced'
    BY <1>2, <2>1, <2>4, <2>7, <2>8, <2>12
       DEF Inv, OpInv, Purposeful, Marked, ReadFresh, Synced, Free, Left, Fresh, Purpose
  <2>14. Moded'
    BY <1>2, <2>1, <2>4, <2>7 DEF Moded, Left, Keeps
  <2>15. Ordered'
    BY <1>2, <2>1, <2>7, <2>8, <2>9 DEF Inv, OpInv, Ordered, Flagged, Stopped, Free
  <2>16. UpToDate' /\ Handing'
    BY <1>2, <2>3, <2>7, <2>8, <2>12 DEF Inv, UpToDate, Handing
  <2> QED BY <2>10, <2>11, <2>13, <2>14, <2>15, <2>16 DEF Inv, OpInv
<1> QED BY <1>3, <1>4

-----------------------------------------------------------------------------
(* An operation begins, or returns *)

LEMMA IdleInv ==
    ASSUME NEW c, op' = Idle(c)
    PROVE  /\ OpInv' /\ op'.kind = "idle"
<1>1. op'.kind = "idle" /\ op'.todo = <<>> /\ op'.moved = FALSE
  BY DEF Idle
<1> QED BY <1>1 DEF OpInv, Planned, Purposeful, Marked, ReadFresh, Synced, Moded, Ordered,
                    Free

LEMMA ReturnKeeps ==
    ASSUME Inv, gui.up, Left("write"), op' = Idle(gui.cfg), spent' \in SpentType,
           UNCHANGED <<gui, dm, loops, hist>>
    PROVE  Inv'
<1>1. OpInv' /\ op'.kind = "idle"
  BY IdleInv
<1>2. TypeOK'
  BY TypeParts, TypePrimed, IdleType DEF Inv, GuiType
<1>3. DaemonSound'
  BY DEF Inv, DaemonSound
<1>4. UpToDate'
  BY <1>1 DEF Inv, UpToDate, Flagged
<1>5. Handing'
  BY <1>1 DEF Inv, Handing, Listens
<1> QED BY <1>1, <1>2, <1>3, <1>4, <1>5 DEF Inv

LEMMA BeginFields ==
    ASSUME TypeOK, NEW kind \in Kinds, NEW want \in Configs, Begin(kind, want)
    PROVE  /\ op' \in OpType
           /\ op'.kind = kind /\ op'.todo = Programs[kind] /\ op'.want = want
           /\ op'.prev = gui.cfg /\ op'.owed = gui.pending
           /\ ~op'.moved /\ ~op'.back /\ ~op'.err
<1>1. gui.cfg \in Configs /\ gui.pending \in BOOLEAN /\ Programs[kind] \in Seq(Steps)
  BY TypeParts, ProgramRests DEF GuiType
<1> DEFINE o == Idle(gui.cfg)
<1>2. /\ o \in OpType /\ o.prev = gui.cfg /\ ~o.moved /\ ~o.back /\ ~o.err
  BY <1>1, IdleType DEF Idle
<1>3. op' = [o EXCEPT !.kind = kind, !.todo = Programs[kind], !.want = want,
                      !.owed = gui.pending]
  BY DEF Begin
<1> HIDE DEF o
<1>4. op' \in OpType
  BY <1>1, <1>2, <1>3 DEF OpType
<1> QED BY <1>1, <1>2, <1>3, <1>4 DEF OpType

LEMMA BeginKeeps ==
    ASSUME Inv, Free, gui.up, NEW kind \in Kinds, NEW want \in Configs, Begin(kind, want),
           Purpose(kind, gui.cfg, want), gui' \in GuiType, SameGui, spent' \in SpentType,
           UNCHANGED <<dm, loops, hist>>
    PROVE  Inv'
<1>1. /\ op' \in OpType
      /\ op'.kind = kind /\ op'.todo = Programs[kind] /\ op'.want = want
      /\ op'.prev = gui.cfg /\ op'.owed = gui.pending
      /\ ~op'.moved /\ ~op'.back /\ ~op'.err
  BY BeginFields DEF Inv
<1>2. /\ Programs[kind] # <<>> /\ {"read", "sync"} \subseteq Rest(Programs[kind])
      /\ "write" \in Rest(Programs[kind]) <=> kind # "bridge"
      /\ kind # "save" => "proxy" \in Rest(Programs[kind])
      /\ kind \in {"save", "detach", "quiet", "bridge"} => "bg" \in Rest(Programs[kind])
  BY ProgramRests
<1>3. ~Free' /\ kind # "idle"
  BY <1>1 DEF Free, Kinds
<1>4. TypeOK' /\ DaemonSound'
  BY <1>1, TypeParts, TypePrimed DEF Inv, DaemonSound
<1>5. Planned'
  <2>1. InPlan(op)'
    BY <1>1, ProgramPaths DEF InPlan
  <2> QED BY <1>1, <1>2, <1>3, <2>1 DEF Planned, SameGui
<1>6. Purposeful'
  <2>1. gui'.cfg = IF Left("write")' THEN op'.prev ELSE op'.want
    BY <1>1, <1>2 DEF SameGui, Left, Purpose
  <2>2. op'.kind = "detach" => Left("write")'
    BY <1>1, <1>2 DEF Left
  <2> QED BY <1>1, <2>1, <2>2 DEF Purposeful
<1>7. Marked' /\ ReadFresh' /\ Synced'
  BY <1>1, <1>2 DEF Marked, ReadFresh, Synced, Left, SameGui
<1>8. Moded'
  <2>1. ~Keeps' => Left("bg")'
    BY <1>1, <1>2 DEF Keeps, Left, Kinds
  <2>2. ~op'.owed /\ ~hist.masked => dm.bg = gui.cfg.bg
    BY <1>1 DEF Inv, UpToDate
  <2> QED BY <2>1, <2>2 DEF Moded, SameGui
<1>9. Ordered'
  <2>1. ~op'.owed /\ ~hist.masked /\ ~Flagged /\ ~gui.cfg.on => Stopped
    BY <1>1 DEF Inv, UpToDate, Stopped, Free
  <2> QED BY <1>1, <1>2, <2>1 DEF Ordered, Left, SameGui, Flagged, Stopped
<1>10. UpToDate'
  BY <1>1, <1>2, <1>3 DEF Inv, UpToDate, SameGui, Left, Flagged, Free
<1>11. Handing'
  BY <1>1, <1>2 DEF Inv, Handing, SameGui, Listens
<1> QED BY <1>4, <1>5, <1>6, <1>7, <1>8, <1>9, <1>10, <1>11 DEF Inv, OpInv

LEMMA AskKeeps ==
    ASSUME Inv, NEW kind \in Kinds, NEW want \in Configs, Ask(kind, want),
           Purpose(kind, gui.cfg, want)
    PROVE  Inv'
<1> DEFINE n == spent.ops + 1
<1>1. spent' = [spent EXCEPT !.ops = n] /\ spent.ops < MaxOps
  BY DEF Ask
<1> HIDE DEF n
<1>2. spent' \in SpentType
  BY <1>1, SpentTypes DEF Inv, n
<1>3. gui' \in GuiType /\ SameGui /\ gui.up /\ Free /\ Begin(kind, want)
      /\ UNCHANGED <<dm, loops, hist>>
  BY TypeParts, Unmoved DEF Ask, Inv
<1> QED BY <1>2, <1>3, BeginKeeps

LEMMA UserKeeps ==
    ASSUME Inv, Save \/ StartRouter \/ StopRouter \/ RestartRouter \/ Detach \/ StopBackground
                  \/ Quit
    PROVE  Inv'
<1>1. gui.cfg \in Configs
  BY TypeParts DEF Inv, GuiType
<1>2. CASE Save
  <2>1. PICK a \in Addrs, b \in BOOLEAN : Ask("save", [gui.cfg EXCEPT !.addr = a, !.bg = b])
    BY <1>2 DEF Save
  <2> DEFINE w == [gui.cfg EXCEPT !.addr = a, !.bg = b]
  <2>2. w \in Configs /\ w.on = gui.cfg.on
    BY <1>1 DEF Configs
  <2> HIDE DEF w
  <2>3. Purpose("save", gui.cfg, w) /\ "save" \in Kinds
    BY <2>2 DEF Purpose, Kinds
  <2> QED BY <2>1, <2>2, <2>3, AskKeeps DEF w
<1>3. CASE StartRouter
  <2>1. /\ [gui.cfg EXCEPT !.on = TRUE] \in Configs /\ "start" \in Kinds
        /\ Purpose("start", gui.cfg, [gui.cfg EXCEPT !.on = TRUE])
    BY <1>1, ConfigTypes DEF Purpose, Kinds
  <2> QED BY <1>3, <2>1, AskKeeps DEF StartRouter
<1>4. CASE StopRouter
  <2>1. /\ [gui.cfg EXCEPT !.on = FALSE] \in Configs /\ "stop" \in Kinds
        /\ Purpose("stop", gui.cfg, [gui.cfg EXCEPT !.on = FALSE])
    BY <1>1, ConfigTypes DEF Purpose, Kinds
  <2> QED BY <1>4, <2>1, AskKeeps DEF StopRouter
<1>5. CASE RestartRouter
  <2>1. "restart" \in Kinds /\ Purpose("restart", gui.cfg, gui.cfg)
    BY <1>5 DEF Purpose, Kinds, RestartRouter
  <2> QED BY <1>1, <1>5, <2>1, AskKeeps DEF RestartRouter
<1>6. CASE Detach
  <2>1. /\ [gui.cfg EXCEPT !.bg = TRUE] \in Configs /\ "detach" \in Kinds
        /\ Purpose("detach", gui.cfg, [gui.cfg EXCEPT !.bg = TRUE])
    BY <1>1, ConfigTypes DEF Purpose, Kinds
  <2> QED BY <1>6, <2>1, AskKeeps DEF Detach
<1>7. CASE StopBackground
  <2>1. /\ [gui.cfg EXCEPT !.on = FALSE, !.bg = FALSE] \in Configs /\ "quiet" \in Kinds
        /\ Purpose("quiet", gui.cfg, [gui.cfg EXCEPT !.on = FALSE, !.bg = FALSE])
    BY <1>1, ConfigTypes DEF Purpose, Kinds
  <2> QED BY <1>7, <2>1, AskKeeps DEF StopBackground
<1>8. CASE Quit
  <2>1. /\ [gui.cfg EXCEPT !.on = FALSE] \in Configs /\ "quit" \in Kinds
        /\ Purpose("quit", gui.cfg, [gui.cfg EXCEPT !.on = FALSE])
    BY <1>1, ConfigTypes DEF Purpose, Kinds
  <2> QED BY <1>8, <2>1, AskKeeps DEF Quit
<1> QED BY <1>2, <1>3, <1>4, <1>5, <1>6, <1>7, <1>8

LEMMA BridgeBeginsKeeps == ASSUME Inv, BridgeBegins PROVE Inv'
<1>1. gui \in GuiType /\ gui.cfg \in Configs /\ spent' \in SpentType /\ FALSE \in BOOLEAN
  BY TypeParts DEF Inv, GuiType, BridgeBegins
<1>2. gui' \in GuiType /\ SameGui
  BY <1>1 DEF BridgeBegins, GuiType, SameGui
<1>3. "bridge" \in Kinds /\ Purpose("bridge", gui.cfg, gui.cfg)
  BY DEF Kinds, Purpose
<1> QED BY <1>1, <1>2, <1>3, BeginKeeps DEF BridgeBegins

LEMMA InstanceSavedKeeps == ASSUME Inv, InstanceSaved PROVE Inv'
<1> DEFINE n == spent.ops + 1
           i == 3 - gui.inst
<1>1. gui \in GuiType /\ op \in OpType /\ spent' = [spent EXCEPT !.ops = n] /\ spent.ops < MaxOps
  BY TypeParts DEF InstanceSaved, Inv
<1>2. i \in {1, 2} /\ TRUE \in BOOLEAN
  BY <1>1 DEF GuiType
<1>3. gui' = [gui EXCEPT !.inst = i, !.unmarked = TRUE]
  BY DEF InstanceSaved
<1> HIDE DEF n, i
<1>4. spent' \in SpentType
  BY <1>1, SpentTypes DEF Inv, n
<1>5. gui' \in GuiType
  BY <1>1, <1>2, <1>3 DEF GuiType
<1>6. /\ gui'.up = gui.up /\ gui'.cfg = gui.cfg /\ gui'.disk = gui.disk
      /\ gui'.pending = gui.pending /\ gui'.unmarked
  BY <1>1, <1>3 DEF GuiType
<1>7. TypeOK' /\ DaemonSound'
  BY <1>4, <1>5, TypeParts, TypePrimed DEF Inv, DaemonSound, InstanceSaved
<1>8. Planned' /\ Purposeful' /\ Marked'
  BY <1>6 DEF Inv, OpInv, Planned, Purposeful, Marked, InstanceSaved, Free, Left, InPlan
<1>9. ReadFresh' /\ Synced'
  BY <1>6 DEF Inv, OpInv, ReadFresh, Synced, Fresh, InstanceSaved, Free, Left, Deviates
<1>10. Moded' /\ Ordered'
  BY <1>6 DEF Inv, OpInv, Moded, Ordered, InstanceSaved, Free, Left, Keeps, Deviates, Flagged,
              Stopped
<1>11. UpToDate' /\ Handing'
  BY <1>6 DEF Inv, UpToDate, Handing, InstanceSaved, Left, Flagged, Listens
<1> QED BY <1>7, <1>8, <1>9, <1>10, <1>11 DEF Inv, OpInv

LEMMA InstanceMarkedKeeps == ASSUME Inv, InstanceMarked PROVE Inv'
<1>1. gui \in GuiType /\ op \in OpType /\ TRUE \in BOOLEAN /\ FALSE \in BOOLEAN /\ (~Free) \in BOOLEAN
  BY TypeParts DEF Inv
<1>2. gui' = [gui EXCEPT !.pending = TRUE, !.unmarked = FALSE] /\ op' = [op EXCEPT !.moved = ~Free]
  BY <1>1 DEF InstanceMarked, Mark, GuiType
<1>3. gui' \in GuiType /\ op' \in OpType
  BY <1>1, <1>2 DEF GuiType, OpType
<1>4. /\ gui'.up = gui.up /\ gui'.cfg = gui.cfg /\ gui'.disk = gui.disk
      /\ gui'.inst = gui.inst /\ gui'.pending
      /\ op'.kind = op.kind /\ op'.todo = op.todo /\ op'.prev = op.prev
      /\ op'.want = op.want /\ op'.was = op.was /\ op'.moved = ~Free
      /\ op'.inst = op.inst /\ op'.back = op.back /\ op'.err = op.err
      /\ op'.owed = op.owed
  BY <1>1, <1>2 DEF GuiType, OpType
<1>5. TypeOK' /\ DaemonSound'
  BY <1>3, TypeParts, TypePrimed DEF Inv, DaemonSound, InstanceMarked
<1>6. Planned' /\ Purposeful' /\ Marked'
  <2>1. InPlan(op)' = InPlan(op)
    BY <1>4 DEF InPlan
  <2> QED BY <1>4, <2>1 DEF Inv, OpInv, Planned, Purposeful, Marked, Free, Left
<1>7. ReadFresh' /\ Synced'
  BY <1>4 DEF Inv, OpInv, ReadFresh, Synced, Fresh, InstanceMarked, Free, Left, Deviates
<1>8. Moded' /\ Ordered'
  BY <1>4 DEF Inv, OpInv, Moded, Ordered, InstanceMarked, Free, Left, Keeps, Deviates, Flagged,
              Stopped
<1>9. UpToDate' /\ Handing'
  BY <1>4 DEF Inv, UpToDate, Handing, InstanceMarked, Listens
<1> QED BY <1>5, <1>6, <1>7, <1>8, <1>9 DEF Inv, OpInv

-----------------------------------------------------------------------------
(* A step fails *)

\* What a failed step leaves of the daemon: it may have stopped listening.
Spared == dm' = dm \/ dm' = StopUnsaved(dm)

\* What a failed step leaves of the past: a restart may have been halted.
Noted == /\ hist'.raced = hist.raced /\ hist'.split = hist.split
         /\ hist'.masked = hist.masked /\ hist'.detached = hist.detached
         /\ hist.halted => hist'.halted

LEMMA SparedFacts ==
    ASSUME TypeOK, Spared
    PROVE  /\ dm' \in DmType /\ dm'.up = dm.up /\ dm'.cfg = dm.cfg /\ dm'.inst = dm.inst
           /\ dm'.bg = dm.bg /\ (Serving(dm') => dm' = dm)
  BY TypeParts, OtherEffects DEF Spared, Serving

LEMMA RollbackKeeps ==
    ASSUME Inv, NEW step, At(step), Fail(step), RollsBack, spent' \in SpentType,
           hist' \in HistType, Spared, Noted, UNCHANGED loops
    PROVE  Inv'
<1>1. /\ gui.up /\ ~Free /\ gui \in GuiType /\ op \in OpType /\ op.prev \in Configs
      /\ op.kind \in DOMAIN Undo /\ ~op.back /\ TRUE \in BOOLEAN /\ FALSE \in BOOLEAN
  BY StepAt, TypeParts DEF Inv, OpInv, RollsBack, OpType
<1>2. /\ Undo[op.kind] \in Seq(Steps) /\ Undo[op.kind] # <<>>
      /\ {"write", "read", "sync"} \subseteq Rest(Undo[op.kind])
      /\ op.kind \in {"save", "detach"} => "bg" \in Rest(Undo[op.kind])
      /\ op.kind \in {"save", "start", "stop", "detach"}
  BY <1>1, ProgramRests
<1>3. PICK t : t = Undo[op.kind]
  OBVIOUS
<1>4. op' = [op EXCEPT !.todo = t, !.want = op.prev, !.back = TRUE,
                       !.moved = FALSE, !.again = FALSE, !.retried = FALSE]
  BY <1>1, <1>3 DEF Fail, RollsBack
<1>5. op' \in OpType
  BY <1>1, <1>2, <1>3, <1>4 DEF OpType
<1>6. /\ op'.kind = op.kind /\ op'.todo = t /\ op'.prev = op.prev
      /\ op'.want = op.prev /\ op'.was = op.was /\ ~op'.moved
      /\ op'.back /\ op'.err = op.err /\ op'.owed = op.owed
  BY <1>1, <1>4 DEF OpType
<1>7. gui' = [gui EXCEPT !.pending = TRUE, !.cfg = op.prev]
  BY <1>1 DEF Fail, RollsBack, Mark, GuiType
<1>8. gui' \in GuiType
  BY <1>1, <1>7 DEF GuiType
<1>9. gui'.up /\ gui'.cfg = op.prev /\ gui'.pending
  BY <1>1, <1>7 DEF GuiType
<1>10. /\ dm' \in DmType /\ dm'.up = dm.up /\ dm'.cfg = dm.cfg /\ dm'.inst = dm.inst
       /\ dm'.bg = dm.bg /\ (Serving(dm') => dm' = dm)
  BY SparedFacts DEF Inv
<1>11. TypeOK' /\ DaemonSound'
  BY <1>5, <1>8, <1>10, TypeParts, TypePrimed DEF Inv, DaemonSound
<1>12. Planned'
  <2>1. InPlan(op)'
    <3>1. InPlan(op')
      BY <1>1, <1>3, <1>6, ProgramPaths
    <3> QED BY <3>1 DEF InPlan
  <2>2. ~op'.err
    BY <1>1, <1>6 DEF Inv, OpInv, Planned
  <2> QED BY <1>1, <1>2, <1>6, <1>9, <2>1, <2>2 DEF Planned, Free
<1>13. Purposeful' /\ Marked' /\ ReadFresh' /\ Synced'
  BY <1>2, <1>3, <1>6, <1>9 DEF Purposeful, Marked, ReadFresh, Synced, Left
<1>14. /\ op.kind \in {"start", "stop"} => op.want.bg = op.prev.bg
       /\ op.kind \in {"save", "detach"} => op.want.on = op.prev.on
       /\ gui.cfg \in {op.prev, op.want}
  <2>1. Purpose(op.kind, op.prev, op.want) /\ gui.cfg \in {op.prev, op.want}
    BY <1>1 DEF Inv, OpInv, Purposeful
  <2>2. /\ op.kind = "start" => op.want.bg = op.prev.bg
        /\ op.kind = "stop" => op.want.bg = op.prev.bg
        /\ op.kind = "save" => op.want.on = op.prev.on
        /\ op.kind = "detach" => op.want.on = op.prev.on
    BY <1>1, <2>1 DEF Purpose, Configs
  <2> QED BY <2>1, <2>2
<1>15. Moded'
  <2>1. Keeps' => op.kind \in {"start", "stop"}
    BY <1>2, <1>6 DEF Keeps
  <2>2. ~Keeps' => Left("bg")'
    BY <1>2, <1>3, <1>6 DEF Keeps, Left
  <2>3. ~op.owed /\ ~hist.masked /\ op.kind \in {"start", "stop"} => dm.bg = gui.cfg.bg
    BY <1>1 DEF Inv, OpInv, Moded, Keeps
  <2>4. op.kind \in {"start", "stop"} => gui.cfg.bg = op.prev.bg
    BY <1>14
  <2> QED BY <2>1, <2>2, <2>3, <2>4, <1>6, <1>9, <1>10 DEF Moded, Noted
<1>16. Ordered'
  BY <1>1, <1>2, <1>3, <1>6, <1>9, <1>10, <1>14
     DEF Inv, OpInv, Ordered, Noted, Flagged, Stopped, Left
<1>17. UpToDate' /\ Handing'
  BY <1>1, <1>6, <1>9 DEF Inv, UpToDate, Handing, Noted
<1> QED BY <1>11, <1>12, <1>13, <1>15, <1>16, <1>17 DEF Inv, OpInv

LEMMA ErrorKeeps ==
    ASSUME Inv, NEW step \in (Calls \cup {"write"}) \ {"status"}, At(step), Fail(step),
           ~RollsBack, step = "write" => op.back, step = "halt" => hist'.halted,
           spent' \in SpentType, hist' \in HistType, Spared, Noted, UNCHANGED loops
    PROVE  Inv'
<1>1. /\ gui.up /\ ~Free /\ gui \in GuiType /\ op \in OpType
      /\ op.kind \in DOMAIN Undo => op.back
      /\ HeadFacts(step) /\ Tail(op.todo) \in Seq(Steps) /\ <<>> \in Seq(Steps)
      /\ TRUE \in BOOLEAN /\ FALSE \in BOOLEAN /\ Rest(<<>>) = {}
  BY StepAt, TypeParts DEF Inv, OpInv, RollsBack
<1>2. PICK t : t = RestOf(step)
  OBVIOUS
<1>3. /\ t \in {Tail(op.todo), <<>>} /\ t \in Seq(Steps)
      /\ ~op.back /\ op.kind # "quiet" => t = <<>>
      /\ Rest(t) \subseteq Rest(op.todo)
  BY <1>1, <1>2 DEF RestOf, Collects, HeadFacts
<1>4. /\ op' = [op EXCEPT !.todo = t, !.err = TRUE, !.again = FALSE, !.retried = FALSE]
      /\ UNCHANGED gui
  BY <1>2 DEF Fail
<1>5. op' \in OpType
  BY <1>1, <1>3, <1>4 DEF OpType
<1>6. /\ op'.kind = op.kind /\ op'.todo = t /\ op'.prev = op.prev
      /\ op'.want = op.want /\ op'.was = op.was /\ op'.moved = op.moved
      /\ op'.back = op.back /\ op'.err /\ op'.owed = op.owed
  BY <1>1, <1>4 DEF OpType
<1>7. ~op.back => ~Left("write") /\ ~Left("write")'
  BY <1>1, <1>3, <1>6 DEF HeadFacts, InOrder, Left
<1>8. Left("mark") => step \in {"write", "halt"}
  BY <1>1 DEF HeadFacts, InOrder, Left, Calls
<1>9. /\ dm' \in DmType /\ dm'.up = dm.up /\ dm'.cfg = dm.cfg /\ dm'.inst = dm.inst
      /\ dm'.bg = dm.bg /\ (Serving(dm') => dm' = dm)
  BY SparedFacts DEF Inv
<1>10. TypeOK' /\ DaemonSound'
  BY <1>4, <1>5, <1>9, TypeParts, TypePrimed DEF Inv, DaemonSound
<1>11. Planned'
  <2>1. InPlan(op)'
    <3>1. InPlan(op')
      BY <1>1, <1>3, <1>5, <1>6 DEF HeadFacts
    <3> QED BY <3>1 DEF InPlan
  <2> QED BY <1>1, <1>3, <1>4, <1>6, <2>1 DEF Inv, OpInv, Planned, Free
<1>12. Purposeful'
  BY <1>1, <1>4, <1>6, <1>7 DEF Inv, OpInv, Purposeful, Undo
<1>13. Marked'
  <2> SUFFICES ASSUME ~gui.pending
               PROVE  /\ ~op.moved
                      /\ op.owed => hist'.masked
                      /\ \/ op.kind = "bridge"
                         \/ Left("write")' /\ ~op.back
                         \/ op.kind = "restart" /\ hist'.halted
                         \/ op.kind = "quit" /\ ~Left("done")'
    BY <1>4, <1>6 DEF Inv, OpInv, Marked
  <2>1. /\ ~op.moved /\ (op.owed => hist.masked)
        /\ \/ op.kind = "bridge"
           \/ Left("write") /\ ~op.back
           \/ op.kind = "restart" /\ (Left("mark") \/ hist.halted)
           \/ op.kind = "quit" /\ ~Left("done")
    BY <1>1 DEF Inv, OpInv, Marked
  <2>2. op.kind = "restart" /\ Left("mark") => hist'.halted
    <3> SUFFICES ASSUME op.kind = "restart", Left("mark") PROVE hist'.halted
      OBVIOUS
    <3>1. ~op.back
      BY ProgramRests, <1>1 DEF Inv, OpInv, Planned
    <3> QED BY <3>1, <1>8
  <2>3. ~Left("done") => ~Left("done")'
    BY <1>3, <1>6 DEF Left
  <2> QED BY <1>7, <2>1, <2>2, <2>3 DEF Noted
<1>14. ReadFresh' /\ Synced'
  BY <1>6 DEF ReadFresh, Synced
<1>15. Moded'
  BY <1>1, <1>4, <1>6, <1>9 DEF Inv, OpInv, Moded, Noted, Keeps
<1>16. Ordered'
  BY <1>1, <1>4, <1>6, <1>9 DEF Inv, OpInv, Ordered, Noted, Flagged, Stopped
<1>17. UpToDate'
  <2>1. op.kind = "restart" => ~op.back
    BY ProgramRests, <1>1 DEF Inv, OpInv, Planned
  <2>2. op.kind = "restart" => ~Left("write")'
    BY <1>7, <2>1
  <2>3. ~Flagged' => ~Flagged
    BY DEF Flagged, Noted
  <2> QED BY <1>4, <1>6, <1>9, <2>2, <2>3 DEF Inv, UpToDate, Noted
<1>18. Handing'
  BY <1>1, <1>4, <1>6 DEF Inv, Handing, Noted, Undo
<1> QED BY <1>10, <1>11, <1>12, <1>13, <1>14, <1>15, <1>16, <1>17, <1>18 DEF Inv, OpInv

LEMMA FailKeeps ==
    ASSUME Inv, NEW step \in (Calls \cup {"write"}) \ {"status"}, At(step), Fail(step),
           step = "write" => op.kind \in {"save", "detach"} \/ op.back,
           step = "halt" => hist'.halted,
           spent' \in SpentType, hist' \in HistType, Spared, Noted, UNCHANGED loops
    PROVE  Inv'
<1>1. CASE RollsBack
  BY <1>1, RollbackKeeps
<1>2. CASE ~RollsBack
  <2>1. step = "write" => op.back
    BY <1>2, ProgramRests DEF RollsBack
  <2> QED BY <1>2, <2>1, ErrorKeeps
<1> QED BY <1>1, <1>2

LEMMA AtOne ==
    ASSUME NEW step, NEW other, At(step), At(other) PROVE step = other
  BY DEF At

LEMMA WantsAt ==
    /\ Wants = "start" => At("proxy")
    /\ Wants = "stop" => At("proxy") \/ At("halt") \/ At("exit")
  BY DEF Wants, Level

\* The halted mark, as the failed steps set it.
LEMMA HaltedTypes ==
    ASSUME TypeOK, NEW b \in BOOLEAN, hist' = [hist EXCEPT !.halted = @ \/ b]
    PROVE  hist' \in HistType /\ Noted /\ (b => hist'.halted)
<1>1. hist \in HistType /\ hist.halted \in BOOLEAN
  BY TypeParts DEF HistType
<1>2. PICK h \in BOOLEAN : h = (hist.halted \/ b)
  BY <1>1
<1>3. hist' = [hist EXCEPT !.halted = h]
  BY <1>2
<1> QED BY <1>1, <1>2, <1>3 DEF HistType, Noted

LEMMA WriteFailsKeeps == ASSUME Inv, WriteFails PROVE Inv'
<1>1. At("write") /\ spent' \in SpentType /\ UNCHANGED <<dm, loops, hist>>
  BY SpentTypes DEF WriteFails, Inv
<1>2. /\ gui.up /\ HeadFacts("write") /\ Left("write") /\ hist' \in HistType
      /\ Spared /\ Noted
  BY <1>1, StepAt, TypeParts DEF Inv, OpInv, HeadFacts, InOrder, Left, Spared, Noted
<1>3. CASE op.kind \in {"save", "detach"} \/ op.back
  BY <1>1, <1>2, <1>3, FailKeeps DEF WriteFails
<1>4. CASE ~(op.kind \in {"save", "detach"} \/ op.back)
  BY <1>1, <1>2, <1>4, ReturnKeeps DEF WriteFails
<1> QED BY <1>3, <1>4

LEMMA RefusalsKeep ==
    ASSUME Inv, SyncFails \/ BackgroundFails \/ StartFails PROVE Inv'
<1>1. spent' \in SpentType /\ UNCHANGED <<dm, loops, hist>>
  BY SpentTypes DEF SyncFails, BackgroundFails, StartFails, Inv
<1>2. hist' \in HistType /\ Spared /\ Noted
  BY <1>1, TypeParts DEF Inv, Spared, Noted
<1>3. PICK step \in {"sync", "bg", "proxy"} : At(step) /\ Fail(step)
  BY WantsAt DEF SyncFails, BackgroundFails, StartFails
<1>4. step \in (Calls \cup {"write"}) \ {"status"} /\ step # "write" /\ step # "halt"
  BY <1>3 DEF Calls
<1> QED BY <1>1, <1>2, <1>3, <1>4, FailKeeps

LEMMA StopFailsKeeps == ASSUME Inv, StopFails PROVE Inv'
<1>1. /\ spent' \in SpentType /\ UNCHANGED loops
      /\ dm' = StopUnsaved(dm)
      /\ hist' = [hist EXCEPT !.halted = @ \/ (op.kind = "restart")]
      /\ Fail(Head(op.todo)) /\ Wants = "stop"
  BY SpentTypes DEF StopFails, Inv
<1>2. hist' \in HistType /\ Spared /\ Noted /\ (op.kind = "restart" => hist'.halted)
  BY <1>1, HaltedTypes DEF Inv, Spared
<1>3. PICK step \in {"halt", "exit", "proxy"} : At(step)
  BY <1>1, WantsAt
<1>4. Fail(step) /\ (step = "halt" => op.kind = "restart")
  BY <1>1, <1>3, StepAt DEF Inv, OpInv, HeadFacts
<1>5. step \in (Calls \cup {"write"}) \ {"status"} /\ step # "write"
  BY <1>3 DEF Calls
<1> QED BY <1>1, <1>2, <1>3, <1>4, <1>5, FailKeeps

LEMMA CallFailsKeeps == ASSUME Inv, CallFails PROVE Inv'
<1>1. PICK step \in Calls : At(step)
  BY DEF CallFails
<1>2. /\ UNCHANGED <<dm, loops, spent>> /\ spent' \in SpentType
      /\ hist' = [hist EXCEPT !.halted = @ \/ At("halt")]
  BY TypeParts DEF CallFails, Inv
<1>3. /\ gui.up /\ HeadFacts(step) /\ Head(op.todo) = step
      /\ hist' \in HistType /\ Spared /\ Noted /\ (At("halt") => hist'.halted)
  <2>1. At("halt") \in BOOLEAN
    BY DEF At
  <2> QED BY <1>1, <1>2, <2>1, StepAt, HaltedTypes DEF Inv, OpInv, Spared
<1>4. CASE step = "status"
  <2>1. Left("write") /\ op' = Idle(gui.cfg) /\ UNCHANGED gui
    BY <1>1, <1>3, <1>4 DEF HeadFacts, InOrder, Left, CallFails
  <2>2. UNCHANGED hist
    <3>1. ~At("halt")
      BY <1>1, <1>4, AtOne
    <3>2. hist \in HistType
      BY TypeParts DEF Inv
    <3> QED BY <1>2, <3>1, <3>2 DEF HistType
  <2> QED BY <1>2, <1>3, <2>1, <2>2, ReturnKeeps
<1>5. CASE step # "status"
  <2>1. Fail(step) /\ step # "write"
    BY <1>1, <1>3, <1>5, AtOne DEF CallFails, Calls
  <2> QED BY <1>1, <1>2, <1>3, <1>5, <2>1, FailKeeps
<1> QED BY <1>4, <1>5

-----------------------------------------------------------------------------
(* A step succeeds *)

\* What every step that succeeds leaves of the operation.
Stepped == /\ op'.kind = op.kind /\ op'.todo = Tail(op.todo) /\ op'.prev = op.prev
           /\ op'.want = op.want /\ op'.back = op.back /\ op'.err = op.err
           /\ op'.owed = op.owed

LEMMA SteppedFacts ==
    ASSUME Inv, NEW step, At(step), step # "exit", op' \in OpType, Stepped, gui'.up
    PROVE  /\ Planned' /\ ~Free /\ ~Free' /\ Keeps' = Keeps
           /\ \A s : (s \in Rest(op.todo))' = (s \in Rest(op.todo) /\ s # step)
           /\ op.err => op.back \/ op.kind = "quiet"
           /\ op.back => op.kind \in {"save", "start", "stop", "detach"}
           /\ ~gui.pending => (~op.err /\ ~op.back) \/ Left("write")
           /\ ~(op'.kind = "detach" /\ ~op'.back /\ op'.todo = <<>>) \/ step = "bg"
<1>1. /\ ~Free /\ op.todo # <<>> /\ HeadFacts(step) /\ Rest(<<>>) = {} /\ gui.up
  BY StepAt DEF Inv, OpInv
<1>2. /\ op.err => op.back \/ op.kind = "quiet"
      /\ op.back => op.kind \in {"save", "start", "stop", "detach"}
  BY <1>1, ProgramRests DEF Inv, OpInv, Planned
<1>3. \A s : (s \in Rest(op.todo))' = (s \in Rest(op.todo) /\ s # step)
  BY <1>1 DEF HeadFacts, Stepped
<1>4. ~Free' /\ Keeps' = Keeps
  BY <1>1 DEF Free, Stepped, Keeps
<1>5. Planned'
  <2>1. InPlan(op)'
    <3>1. InPlan(op')
      BY <1>1 DEF HeadFacts, Stepped
    <3> QED BY <3>1 DEF InPlan
  <2>2. op.kind = "quit" => op'.todo # <<>>
    BY <1>1 DEF HeadFacts, Stepped
  <2>3. /\ op'.back => op'.kind \in DOMAIN Undo
        /\ op'.err => op'.back \/ op'.kind = "quiet"
        /\ op'.err /\ op'.kind \in DOMAIN Undo => op'.back
    BY <1>1, <1>2 DEF Inv, OpInv, Planned, Stepped
  <2> QED BY <1>4, <2>1, <2>2, <2>3 DEF Planned, Stepped
<1>6. ~gui.pending => (~op.err /\ ~op.back) \/ Left("write")
  <2> SUFFICES ASSUME ~gui.pending, ~Left("write") PROVE ~op.err /\ ~op.back
    OBVIOUS
  <2>1. op.kind \in {"bridge", "restart", "quit"}
    BY <1>1 DEF Inv, OpInv, Marked
  <2> QED BY <1>2, <2>1
<1>7. ~(op'.kind = "detach" /\ ~op'.back /\ op'.todo = <<>>) \/ step = "bg"
  BY <1>1 DEF HeadFacts, Stepped
<1> QED BY <1>1, <1>2, <1>3, <1>4, <1>5, <1>6, <1>7

LEMMA AdvanceFields ==
    ASSUME Inv, NEW step, At(step), Advance
    PROVE  /\ op' \in OpType /\ Stepped /\ op'.was = op.was /\ op'.moved = op.moved
           /\ op'.inst = op.inst /\ Deviates' = Deviates
<1>1. op \in OpType /\ Tail(op.todo) \in Seq(Steps) /\ FALSE \in BOOLEAN
  BY StepAt, TypeParts DEF Inv, OpInv
<1>2. PICK t : t = Tail(op.todo)
  OBVIOUS
<1>3. op' = [op EXCEPT !.todo = t, !.again = FALSE, !.retried = FALSE]
  BY <1>2 DEF Advance
<1>4. op' \in OpType
  BY <1>1, <1>2, <1>3 DEF OpType
<1>5. Stepped /\ op'.was = op.was /\ op'.moved = op.moved /\ op'.inst = op.inst
  BY <1>1, <1>2, <1>3 DEF OpType, Stepped
<1> QED BY <1>4, <1>5 DEF Stepped, Deviates

LEMMA StepStatusKeeps == ASSUME Inv, StepStatus PROVE Inv'
<1>1. /\ At("status") /\ HeadFacts("status") /\ gui.up /\ UNCHANGED <<gui, dm, loops, spent, hist>>
      /\ Tail(op.todo) \in Seq(Steps)
  BY StepAt DEF Inv, OpInv, StepStatus
<1>2. Left("write") /\ Left("read") /\ Left("sync") /\ spent' \in SpentType
  BY <1>1, TypeParts DEF HeadFacts, InOrder, Left, Inv
<1>3. CASE op' = Idle(gui.cfg)
  BY <1>1, <1>2, <1>3, ReturnKeeps
<1>4. CASE op' = [op EXCEPT !.todo = Tail(@), !.was = Serving(dm), !.retried = FALSE]
  <2>1. op \in OpType /\ Serving(dm) \in BOOLEAN /\ FALSE \in BOOLEAN
    BY TypeParts DEF Inv, Serving
  <2>2. PICK t, w : t = Tail(op.todo) /\ w = Serving(dm)
    OBVIOUS
  <2>3. op' = [op EXCEPT !.todo = t, !.was = w, !.retried = FALSE]
    BY <1>4, <2>2
  <2>4. op' \in OpType
    BY <1>1, <2>1, <2>2, <2>3 DEF OpType
  <2>5. Stepped /\ op'.moved = op.moved /\ op'.inst = op.inst
    BY <1>1, <2>1, <2>2, <2>3 DEF OpType, Stepped
  <2>6. /\ Planned' /\ ~Free /\ ~Free' /\ Keeps' = Keeps
        /\ \A s : (s \in Rest(op.todo))' = (s \in Rest(op.todo) /\ s # "status")
        /\ ~(op'.kind = "detach" /\ ~op'.back /\ op'.todo = <<>>)
    BY <1>1, <2>4, <2>5, SteppedFacts
  <2>7. TypeOK' /\ DaemonSound'
    BY <1>1, <2>4, TypeParts, TypePrimed DEF Inv, DaemonSound
  <2>8. Purposeful' /\ Marked'
    BY <1>1, <1>2, <2>5, <2>6 DEF Inv, OpInv, Purposeful, Marked, Stepped, Left
  <2>9. ReadFresh' /\ Synced'
    BY <1>2, <2>6 DEF ReadFresh, Synced, Left
  <2>10. Moded' /\ Ordered'
    BY <1>1, <1>2, <2>5, <2>6 DEF Inv, OpInv, Moded, Ordered, Stepped, Left, Flagged, Stopped
  <2>11. UpToDate' /\ Handing'
    BY <1>1, <1>2, <2>5, <2>6 DEF Inv, UpToDate, Handing, Stepped, Left, Flagged, Listens
  <2> QED BY <2>6, <2>7, <2>8, <2>9, <2>10, <2>11 DEF Inv, OpInv
<1> QED BY <1>3, <1>4 DEF StepStatus

LEMMA StepWriteKeeps == ASSUME Inv, StepWrite PROVE Inv'
<1>1. /\ At("write") /\ HeadFacts("write") /\ gui.up /\ UNCHANGED <<dm, loops, hist>>
      /\ Tail(op.todo) \in Seq(Steps) /\ spent' \in SpentType
  BY StepAt, SpentTypes DEF Inv, OpInv, StepWrite
<1>2. Left("write") /\ Left("read") /\ Left("sync")
  BY <1>1 DEF HeadFacts, InOrder, Left
<1>3. op \in OpType /\ gui \in GuiType /\ op.want \in Configs /\ op.moved \in BOOLEAN /\ op.back \in BOOLEAN
  BY TypeParts DEF Inv, OpType
<1>4. PICK t, m : t = Tail(op.todo) /\ m = (op.moved /\ op.back)
  OBVIOUS
<1>5. op' = [op EXCEPT !.todo = t, !.moved = m]
  BY <1>4 DEF StepWrite
<1>6. op' \in OpType
  BY <1>1, <1>3, <1>4, <1>5 DEF OpType
<1>7. Stepped /\ (op'.moved <=> op.moved /\ op.back)
  BY <1>3, <1>4, <1>5 DEF OpType, Stepped
<1>8. /\ gui' \in GuiType /\ gui'.up /\ gui'.cfg = op.want /\ gui'.disk = op.want
      /\ gui'.inst = gui.inst /\ gui'.unmarked = gui.unmarked
      /\ gui'.pending = IF op.kind = "restart" THEN gui.pending ELSE TRUE
  <2>1. PICK p \in BOOLEAN : p = IF op.kind = "restart" THEN gui.pending ELSE TRUE
    BY <1>3 DEF GuiType
  <2>2. gui' = [gui EXCEPT !.cfg = op.want, !.disk = op.want, !.pending = p]
    BY <1>3, <2>1 DEF StepWrite, GuiType
  <2>3. gui' \in GuiType
    BY <1>3, <2>1, <2>2 DEF GuiType
  <2> QED BY <1>1, <1>3, <2>1, <2>2, <2>3 DEF GuiType
<1>9. /\ Planned' /\ ~Free /\ ~Free' /\ Keeps' = Keeps
      /\ \A s : (s \in Rest(op.todo))' = (s \in Rest(op.todo) /\ s # "write")
      /\ ~(op'.kind = "detach" /\ ~op'.back /\ op'.todo = <<>>)
      /\ op.back => op.kind \in {"save", "start", "stop", "detach"}
  BY <1>1, <1>6, <1>7, <1>8, SteppedFacts
<1>10. /\ gui.cfg = op.prev
       /\ Keeps => op.want.bg = op.prev.bg
       /\ op.kind \in {"save", "detach"} => op.want.on = op.prev.on
       /\ op.kind = "restart" => op.want = op.prev
  <2>1. op.prev \in Configs
    BY <1>3 DEF OpType
  <2>2. gui.cfg = op.prev /\ (IF op.back THEN op.want = op.prev ELSE Purpose(op.kind, op.prev, op.want))
    BY <1>2, <1>9 DEF Inv, OpInv, Purposeful
  <2>3. /\ op.kind = "start" => op.want.bg = op.prev.bg
        /\ op.kind = "stop" => op.want.bg = op.prev.bg
        /\ op.kind = "quit" => op.want.bg = op.prev.bg
        /\ op.kind = "save" => op.want.on = op.prev.on
        /\ op.kind = "detach" => op.want.on = op.prev.on
        /\ op.kind = "restart" => op.want = op.prev
    BY <2>1, <2>2 DEF Purpose, Configs
  <2> QED BY <2>2, <2>3 DEF Keeps
<1>11. TypeOK' /\ DaemonSound'
  BY <1>1, <1>6, <1>8, TypeParts, TypePrimed DEF Inv, DaemonSound
<1>12. Purposeful'
  BY <1>7, <1>8, <1>9 DEF Inv, OpInv, Purposeful, Stepped, Left
<1>13. Marked'
  <2>1. op.kind = "restart" => Left("mark")' /\ ~op.back
    BY <1>1, <1>9 DEF HeadFacts, Left
  <2>2. op'.moved => gui'.pending
    BY <1>7, <1>8, <2>1
  <2>3. ~gui'.pending => op.kind = "restart" /\ (op.owed => hist.masked)
    BY <1>8, <1>9 DEF Inv, OpInv, Marked
  <2> QED BY <1>1, <1>7, <2>1, <2>2, <2>3 DEF Marked, Stepped
<1>14. ReadFresh' /\ Synced'
  BY <1>2, <1>9 DEF ReadFresh, Synced, Left
<1>15. Moded'
  <2>1. ~Keeps => Left("bg")'
    <3>1. op.kind \in Kinds
      BY <1>3, <1>9 DEF OpType, Free
    <3>2. ~Keeps => op.kind \in {"save", "detach", "quiet"}
      BY <1>1, <3>1 DEF HeadFacts, Keeps, Kinds
    <3>3. ~Keeps => "bg" \in Rest(op.todo)
      BY <1>1, <3>2 DEF HeadFacts
    <3> QED BY <1>9, <3>3 DEF Left
  <2>2. ~op.owed /\ ~hist.masked /\ Keeps => dm.bg = gui.cfg.bg
    BY <1>9 DEF Inv, OpInv, Moded
  <2> QED BY <1>1, <1>7, <1>8, <1>9, <1>10, <2>1, <2>2 DEF Moded, Stepped
<1>16. Ordered'
  BY <1>1, <1>2, <1>7, <1>8, <1>9, <1>10 DEF Inv, OpInv, Ordered, Stepped, Left, Flagged, Stopped
<1>17. UpToDate'
  <2> SUFFICES ASSUME ~gui.pending, op.kind = "restart", ~hist.masked
               PROVE  dm.bg = gui.cfg.bg /\ (dm.inst = gui.inst \/ gui.unmarked)
    BY <1>1, <1>7, <1>8, <1>9, <1>10 DEF UpToDate, Stepped, Left
  <2> QED BY <1>1 DEF Inv, UpToDate
<1>18. Handing'
  BY <1>1, <1>9 DEF Inv, Handing
<1> QED BY <1>9, <1>11, <1>12, <1>13, <1>14, <1>15, <1>16, <1>17, <1>18 DEF Inv, OpInv

LEMMA StepMarkKeeps == ASSUME Inv, StepMark PROVE Inv'
<1>1. /\ At("mark") /\ HeadFacts("mark") /\ gui.up /\ UNCHANGED <<dm, loops, spent, hist>>
      /\ Tail(op.todo) \in Seq(Steps) /\ op.kind = "restart"
  BY StepAt DEF Inv, OpInv, StepMark, HeadFacts
<1>2. Left("read") /\ Left("sync") /\ ~Left("write")
  BY <1>1 DEF HeadFacts, InOrder, Left
<1>3. op \in OpType /\ gui \in GuiType /\ TRUE \in BOOLEAN /\ FALSE \in BOOLEAN
  BY TypeParts DEF Inv, OpType
<1>4. PICK t : t = Tail(op.todo)
  OBVIOUS
<1>5. op' = [op EXCEPT !.todo = t, !.moved = FALSE] /\ gui' = [gui EXCEPT !.pending = TRUE]
  BY <1>4 DEF StepMark, Mark
<1>6. op' \in OpType /\ gui' \in GuiType
  BY <1>1, <1>3, <1>4, <1>5 DEF OpType, GuiType
<1>7. Stepped /\ ~op'.moved
  BY <1>3, <1>4, <1>5 DEF OpType, Stepped
<1>8. /\ gui'.up /\ gui'.cfg = gui.cfg /\ gui'.disk = gui.disk /\ gui'.pending
  BY <1>1, <1>3, <1>5 DEF GuiType
<1>9. /\ Planned' /\ ~Free /\ ~Free' /\ Keeps' = Keeps
      /\ \A s : (s \in Rest(op.todo))' = (s \in Rest(op.todo) /\ s # "mark")
  BY <1>1, <1>6, <1>7, <1>8, SteppedFacts
<1>10. TypeOK' /\ DaemonSound'
  BY <1>1, <1>6, TypeParts, TypePrimed DEF Inv, DaemonSound
<1>11. Purposeful' /\ Marked'
  BY <1>7, <1>8, <1>9 DEF Inv, OpInv, Purposeful, Marked, Stepped, Left
<1>12. ReadFresh' /\ Synced'
  BY <1>2, <1>9 DEF ReadFresh, Synced, Left
<1>13. Moded'
  BY <1>1, <1>7, <1>8, <1>9 DEF Inv, OpInv, Moded, Stepped, Keeps
<1>14. Ordered' /\ UpToDate' /\ Handing'
  BY <1>1, <1>7, <1>8 DEF Inv, Ordered, UpToDate, Handing, Stepped
<1> QED BY <1>9, <1>10, <1>11, <1>12, <1>13, <1>14 DEF Inv, OpInv

LEMMA StepReadKeeps == ASSUME Inv, StepRead PROVE Inv'
<1>1. /\ At("read") /\ HeadFacts("read") /\ gui.up /\ UNCHANGED <<gui, dm, loops, spent, hist>>
      /\ Tail(op.todo) \in Seq(Steps)
  BY StepAt DEF Inv, OpInv, StepRead, HeadFacts
<1>2. Left("read") /\ Left("sync")
  BY <1>1 DEF HeadFacts, InOrder, Left
<1>3. op \in OpType /\ gui \in GuiType /\ gui.inst \in {1, 2}
  BY TypeParts DEF Inv, GuiType
<1>4. PICK t : t = Tail(op.todo)
  OBVIOUS
<1>5. op' = [op EXCEPT !.todo = t, !.inst = gui.inst]
  BY <1>4 DEF StepRead
<1>6. op' \in OpType
  BY <1>1, <1>3, <1>4, <1>5 DEF OpType
<1>7. Stepped /\ op'.moved = op.moved /\ op'.inst = gui.inst /\ op'.was = op.was
  BY <1>3, <1>4, <1>5 DEF OpType, Stepped
<1>9. /\ Planned' /\ ~Free /\ ~Free' /\ Keeps' = Keeps
      /\ \A s : (s \in Rest(op.todo))' = (s \in Rest(op.todo) /\ s # "read")
      /\ ~(op'.kind = "detach" /\ ~op'.back /\ op'.todo = <<>>)
  BY <1>1, <1>6, <1>7, SteppedFacts
<1>10. TypeOK' /\ DaemonSound'
  BY <1>1, <1>6, TypeParts, TypePrimed DEF Inv, DaemonSound
<1>11. Purposeful' /\ Marked'
  BY <1>1, <1>7, <1>9 DEF Inv, OpInv, Purposeful, Marked, Stepped, Left
<1>12. ReadFresh' /\ Synced'
  BY <1>1, <1>2, <1>7, <1>9 DEF ReadFresh, Synced, Left, Fresh
<1>13. Moded'
  BY <1>1, <1>7, <1>9 DEF Inv, OpInv, Moded, Stepped, Left
<1>14. Ordered'
  BY <1>1, <1>2, <1>7, <1>9 DEF Inv, OpInv, Ordered, Stepped, Left, Flagged, Stopped
<1>15. UpToDate' /\ Handing'
  BY <1>1, <1>7, <1>9 DEF Inv, UpToDate, Handing, Stepped, Left, Flagged, Listens
<1> QED BY <1>9, <1>10, <1>11, <1>12, <1>13, <1>14, <1>15 DEF Inv, OpInv

\* Completing a quit clears what was pending: by then the daemon is up to date.
LEMMA StepDoneKeeps == ASSUME Inv, StepDone PROVE Inv'
<1>1. /\ At("done") /\ HeadFacts("done") /\ gui.up /\ UNCHANGED <<dm, loops, spent>>
      /\ Advance /\ op.kind = "quit"
  BY StepAt DEF Inv, OpInv, StepDone, HeadFacts
<1>2. ~Left("write") /\ ~Left("read") /\ ~Left("sync") /\ ~Left("proxy")
  BY <1>1 DEF HeadFacts, InOrder, Left, Early
<1>3. op \in OpType /\ gui \in GuiType /\ hist \in HistType /\ gui.cfg \in Configs /\ dm.cfg \in Configs
  BY TypeParts, DmFields DEF Inv, GuiType
<1>4. /\ gui' \in GuiType /\ gui'.up /\ gui'.cfg = gui.cfg /\ gui'.disk = gui.disk
      /\ gui'.inst = gui.inst /\ gui'.unmarked = gui.unmarked
      /\ (gui'.pending <=> gui.pending /\ op.moved)
  <2>1. PICK p \in BOOLEAN : p <=> gui.pending /\ op.moved
    OBVIOUS
  <2>2. gui.pending \in BOOLEAN /\ op.moved \in BOOLEAN
    BY <1>3 DEF GuiType, OpType
  <2>3. gui' = [gui EXCEPT !.pending = p]
    BY <2>1, <2>2 DEF StepDone
  <2> QED BY <1>1, <1>3, <2>1, <2>3 DEF GuiType
<1>5. /\ hist' \in HistType /\ hist'.raced = hist.raced /\ hist'.split = hist.split
      /\ hist'.halted = hist.halted /\ hist'.detached = hist.detached
      /\ (hist'.masked <=> op.owed \/ hist.masked)
  <2>1. op.owed \in BOOLEAN /\ hist.masked \in BOOLEAN
    BY <1>3 DEF OpType, HistType
  <2>2. PICK h \in BOOLEAN : h = Masks
    BY <1>1, <2>1 DEF Masks
  <2>3. hist' = [hist EXCEPT !.masked = h]
    BY <2>2 DEF StepDone
  <2> QED BY <1>1, <1>3, <2>1, <2>2, <2>3 DEF HistType, Masks
<1>6. /\ op' \in OpType /\ Stepped /\ op'.was = op.was /\ op'.moved = op.moved
      /\ op'.inst = op.inst /\ Deviates' = Deviates
  BY <1>1, AdvanceFields
<1>7. /\ Planned' /\ ~Free /\ ~Free' /\ Keeps' = Keeps
      /\ \A s : (s \in Rest(op.todo))' = (s \in Rest(op.todo) /\ s # "done")
      /\ ~op.err /\ ~op.back
  BY <1>1, <1>4, <1>6, SteppedFacts
<1>8. TypeOK' /\ DaemonSound'
  BY <1>1, <1>4, <1>5, <1>6, TypeParts, TypePrimed DEF Inv, DaemonSound
<1>9. Purposeful' /\ ReadFresh' /\ Synced'
  BY <1>1, <1>4, <1>5, <1>6, <1>7
     DEF Inv, OpInv, Purposeful, ReadFresh, Synced, Stepped, Left, Fresh
<1>10. Marked'
  BY <1>1, <1>4, <1>5, <1>6, <1>7 DEF Inv, OpInv, Marked, Stepped, Left
<1>11. Moded'
  BY <1>1, <1>4, <1>5, <1>6, <1>7 DEF Inv, OpInv, Moded, Stepped, Keeps
<1>12. Ordered'
  BY <1>1, <1>2, <1>4, <1>5, <1>6, <1>7 DEF Inv, OpInv, Ordered, Stepped, Left
<1>13. UpToDate'
  <2> SUFFICES ASSUME ~gui'.pending, ~op.owed, ~hist.masked
               PROVE  /\ dm.bg = gui.cfg.bg
                      /\ dm.inst = gui.inst \/ gui.unmarked
                      /\ ~Flagged => dm.cfg = gui.cfg /\ (~gui.cfg.on => ~Serving(dm))
    BY <1>1, <1>4, <1>5 DEF UpToDate, Flagged
  <2>1. dm.bg = gui.cfg.bg
    BY <1>1, <1>7 DEF Inv, OpInv, Moded, Keeps
  <2>2. ~op.moved
    BY <1>4 DEF Inv, OpInv, Marked
  <2>3. ~Deviates
    BY <1>7 DEF Deviates
  <2>4. /\ dm.cfg.addr = gui.cfg.addr /\ dm.cfg.bg = gui.cfg.bg
        /\ dm.cfg.on = gui.cfg.on \/ hist.raced
        /\ dm.inst = gui.inst \/ gui.unmarked
    BY <1>2, <1>7, <2>2, <2>3 DEF Inv, OpInv, Synced, Fresh
  <2>5. ~gui.cfg.on /\ ~hist.raced => ~Serving(dm)
    BY <1>1, <1>2, <1>7, <2>3 DEF Inv, OpInv, Ordered
  <2> QED BY <1>3, <2>1, <2>4, <2>5, ConfigEqual DEF Flagged
<1>14. Handing'
  BY <1>1, <1>4, <1>5, <1>6 DEF Inv, Handing, Stepped
<1> QED BY <1>7, <1>8, <1>9, <1>10, <1>11, <1>12, <1>13, <1>14 DEF Inv, OpInv

LEMMA StepSyncKeeps == ASSUME Inv, StepSync PROVE Inv'
<1>1. /\ At("sync") /\ HeadFacts("sync") /\ gui.up /\ UNCHANGED <<loops, hist>> /\ dm.up
      /\ spent' \in SpentType /\ hist' \in HistType
  BY StepAt, SpentTypes, TypeParts DEF Inv, OpInv, StepSync
<1>2. ~Left("write") /\ ~Left("read") /\ Left("sync")
  BY <1>1 DEF HeadFacts, InOrder, Left, Early
<1>3. /\ op \in OpType /\ gui \in GuiType /\ gui.cfg \in Configs /\ dm \in DmType
      /\ op.inst \in {1, 2}
  BY TypeParts DEF Inv, GuiType, OpType
<1>4. CASE Fail("sync") /\ UNCHANGED dm
  <2>1. Spared /\ Noted
    BY <1>1, <1>4 DEF Spared, Noted
  <2> QED BY <1>1, <1>4, <2>1, FailKeeps DEF Calls
<1>5. CASE op' = [op EXCEPT !.again = TRUE] /\ UNCHANGED <<gui, dm>>
  <2>1. op' \in OpType /\ SameOp
    BY <1>3, <1>5 DEF OpType, SameOp
  <2>2. TypeOK' /\ DaemonSound'
    BY <1>1, <1>3, <1>5, <2>1, TypeParts, TypePrimed DEF Inv, DaemonSound
  <2>3. DaemonMoves
    BY <1>1, <1>5 DEF DaemonMoves, Listens
  <2> QED BY <1>5, <2>1, <2>2, <2>3, DaemonMovesKeep, Unmoved
<1>6. CASE /\ ~Refused(dm, gui.cfg, op.inst) /\ Advance
           /\ dm' = SyncConfig(dm, gui.cfg, op.inst) /\ UNCHANGED gui
  <2>1. /\ dm' \in DmType /\ dm'.up /\ dm'.inst = op.inst /\ dm'.bg = dm.bg
        /\ dm'.cfg = gui.cfg /\ dm'.serving = dm.serving /\ (Serving(dm') <=> Serving(dm))
    BY <1>1, <1>3, <1>6, OtherEffects DEF Serving
  <2>2. /\ op' \in OpType /\ Stepped /\ op'.was = op.was /\ op'.moved = op.moved
        /\ op'.inst = op.inst /\ Deviates' = Deviates
    BY <1>1, <1>6, AdvanceFields
  <2>3. /\ Planned' /\ ~Free /\ ~Free' /\ Keeps' = Keeps
        /\ \A s : (s \in Rest(op.todo))' = (s \in Rest(op.todo) /\ s # "sync")
        /\ ~gui.pending => ~op.err
        /\ ~(op'.kind = "detach" /\ ~op'.back /\ op'.todo = <<>>)
    BY <1>1, <1>2, <1>6, <2>2, SteppedFacts
  <2>4. Serving(dm) => dm.serving = gui.cfg.addr
    BY <1>6 DEF Inv, DaemonSound, Refused, Matches
  <2>5. TypeOK' /\ DaemonSound'
    BY <1>1, <1>3, <1>6, <2>1, <2>2, <2>4, TypeParts, TypePrimed DEF Inv, DaemonSound
  <2>6. Purposeful' /\ Marked' /\ ReadFresh'
    BY <1>1, <1>6, <2>2, <2>3
       DEF Inv, OpInv, Purposeful, Marked, ReadFresh, Fresh, Stepped, Left
  <2>7. ~op.err => Fresh(op.inst)
    BY <1>2, <2>3 DEF Inv, OpInv, ReadFresh
  <2>8. Synced'
    BY <1>6, <2>1, <2>2, <2>7 DEF Synced, Fresh, Stepped
  <2>9. Moded'
    BY <1>1, <1>6, <2>1, <2>2, <2>3 DEF Inv, OpInv, Moded, Stepped, Left
  <2>10. Ordered'
    <3>1. op.kind \in {"start", "stop", "quit", "quiet", "bridge"} => Left("proxy")'
      BY <1>1, <2>3 DEF HeadFacts, Left
    <3>2. ASSUME ~gui.cfg.on, op.kind \in {"save", "detach"}, ~op.owed, ~hist.masked, ~Flagged
          PROVE  Stopped'
      BY <2>1, <2>3, <3>2 DEF Inv, OpInv, Ordered, Stopped
    <3> QED BY <1>1, <1>6, <2>2, <3>1, <3>2 DEF Ordered, Stepped, Flagged
  <2>11. UpToDate'
    <3> SUFFICES ASSUME ~gui.pending, ~hist.masked
                 PROVE  /\ dm'.bg = gui.cfg.bg
                        /\ dm'.inst = gui.inst \/ gui.unmarked
                        /\ ~Flagged /\ ~(op.kind = "restart" /\ ~Left("write"))
                             => dm'.cfg = gui.cfg /\ (~gui.cfg.on => ~Serving(dm'))
      BY <1>1, <1>6, <2>2, <2>3 DEF UpToDate, Stepped, Left, Flagged
    <3>1. dm.bg = gui.cfg.bg /\ (~Flagged /\ ~(op.kind = "restart" /\ ~Left("write"))
                                   => (~gui.cfg.on => ~Serving(dm)))
      BY <1>1 DEF Inv, UpToDate
    <3>2. op.inst = gui.inst \/ gui.unmarked
      BY <2>3, <2>7 DEF Inv, OpInv, Marked, Fresh
    <3> QED BY <2>1, <3>1, <3>2
  <2>12. Handing'
    BY <1>1, <1>6, <2>3 DEF Inv, Handing
  <2> QED BY <2>3, <2>5, <2>6, <2>8, <2>9, <2>10, <2>11, <2>12 DEF Inv, OpInv
<1> QED BY <1>4, <1>5, <1>6 DEF StepSync

LEMMA StepBackgroundKeeps == ASSUME Inv, StepBackground PROVE Inv'
<1>1. /\ At("bg") /\ HeadFacts("bg") /\ gui.up /\ UNCHANGED <<loops, hist>> /\ dm.up
      /\ spent' \in SpentType /\ hist' \in HistType
  BY StepAt, SpentTypes, TypeParts DEF Inv, OpInv, StepBackground
<1>2. ~Left("write") /\ ~Left("read") /\ ~Left("sync")
  BY <1>1 DEF HeadFacts, InOrder, Left, Early
<1>3. /\ op \in OpType /\ gui \in GuiType /\ gui.cfg \in Configs /\ dm \in DmType
      /\ gui.cfg.bg \in BOOLEAN /\ dm.cfg \in Configs
  BY TypeParts, ConfigTypes, DmFields DEF Inv, GuiType
<1>4. CASE Fail("bg") /\ UNCHANGED dm
  <2>1. Spared /\ Noted
    BY <1>1, <1>4 DEF Spared, Noted
  <2> QED BY <1>1, <1>4, <2>1, FailKeeps DEF Calls
<1>5. CASE /\ Skips \/ Verified
           /\ Advance /\ UNCHANGED gui
           /\ dm' = IF Skips THEN dm ELSE SetBackground(dm, AskedMode)
  <2>1. /\ dm' \in DmType /\ dm'.up = dm.up /\ dm'.inst = dm.inst /\ dm'.cfg = dm.cfg
        /\ dm'.serving = dm.serving /\ (Serving(dm') <=> Serving(dm))
        /\ dm'.bg = IF Skips THEN dm.bg ELSE gui.cfg.bg
    <3>1. CASE Skips
      BY <1>3, <1>5, <3>1
    <3>2. CASE ~Skips
      <4>1. dm' = SetBackground(dm, gui.cfg.bg)
        BY <1>5, <3>2 DEF AskedMode
      <4>2. PICK b \in BOOLEAN : b = gui.cfg.bg
        BY <1>3
      <4>3. /\ SetBackground(dm, b) \in DmType
            /\ SetBackground(dm, b).up = dm.up /\ SetBackground(dm, b).inst = dm.inst
            /\ SetBackground(dm, b).bg = b /\ SetBackground(dm, b).cfg = dm.cfg
            /\ SetBackground(dm, b).serving = dm.serving
        BY <1>3, ModeEffect
      <4> QED BY <3>2, <4>1, <4>2, <4>3, Zenon DEF Serving
    <3> QED BY <3>1, <3>2
  <2>2. /\ op' \in OpType /\ Stepped /\ op'.was = op.was /\ op'.moved = op.moved
        /\ op'.inst = op.inst /\ Deviates' = Deviates
    BY <1>1, <1>5, AdvanceFields
  <2>3. /\ Planned' /\ ~Free /\ ~Free' /\ Keeps' = Keeps
        /\ \A s : (s \in Rest(op.todo))' = (s \in Rest(op.todo) /\ s # "bg")
        /\ op.err => op.back \/ op.kind = "quiet"
    BY <1>1, <1>2, <1>5, <2>2, SteppedFacts
  <2>4. Skips => Keeps
    BY DEF Skips, Keeps
  <2>5. TypeOK' /\ DaemonSound'
    BY <1>1, <1>3, <1>5, <2>1, <2>2, TypeParts, TypePrimed DEF Inv, DaemonSound
  <2>6. Purposeful' /\ Marked' /\ ReadFresh'
    BY <1>1, <1>5, <2>2, <2>3
       DEF Inv, OpInv, Purposeful, Marked, ReadFresh, Fresh, Stepped, Left
  <2>7. Synced'
    BY <1>1, <1>2, <1>5, <2>1, <2>2, <2>3 DEF Inv, OpInv, Synced, Fresh, Stepped, Left
  <2>8. Moded'
    BY <1>1, <1>5, <2>1, <2>2, <2>3, <2>4 DEF Inv, OpInv, Moded, Stepped, Left
  <2>9. Ordered'
    BY <1>1, <1>5, <2>1, <2>2, <2>3 DEF Inv, OpInv, Ordered, Stepped, Flagged, Stopped, Left
  <2>10. UpToDate'
    BY <1>1, <1>5, <2>1, <2>2, <2>3 DEF Inv, UpToDate, Stepped, Flagged, Left
  <2>11. Handing'
    <3> SUFFICES ASSUME op.kind = "detach", ~op.back, ~hist.raced, dm.cfg.on
                 PROVE  Serving(dm)
      BY <1>1, <1>5, <2>1, <2>2 DEF Inv, Handing, Listens, Stepped
    <3>1. gui.cfg.on
      BY <1>2, <2>3 DEF Inv, OpInv, Synced, Deviates
    <3>2. dm.serving = gui.cfg.addr /\ gui.cfg.addr \in Addrs
      BY <1>3, <1>5, <3>1, ConfigTypes DEF Verified, Skips
    <3> QED BY <3>2, ControlAssumption DEF Serving
  <2> QED BY <2>3, <2>5, <2>6, <2>7, <2>8, <2>9, <2>10, <2>11 DEF Inv, OpInv
<1> QED BY <1>4, <1>5 DEF StepBackground

-----------------------------------------------------------------------------
(* What an operation asks of the router *)

\* Past its write an operation asks for the running state that is configured, unless it
\* is a rollback that restores another one.
LEMMA WantsConfigured ==
    ASSUME Inv, NEW step \in {"proxy", "exit"}, At(step)
    PROVE  /\ Wants = "start" => gui.cfg.on \/ Deviates
           /\ Wants = "stop" => ~gui.cfg.on \/ Deviates
           /\ op.kind = "detach" /\ Wants = "start" => gui.cfg.on
           /\ /\ op.kind \in {"start", "stop", "quit", "quiet", "bridge"}
              /\ ~gui.cfg.on /\ ~Deviates
              => Wants = "stop" \/ ~Serving(dm)
           /\ op.kind = "detach" /\ ~gui.cfg.on => Wants \in {"stop", "none"}
<1>1. /\ ~Free /\ HeadFacts(step) /\ op.back \in BOOLEAN /\ op.was \in BOOLEAN
      /\ op.prev \in Configs /\ op.prev.on \in BOOLEAN /\ op.kind \in Kinds
  BY StepAt, TypeParts, ConfigTypes DEF Inv, OpInv, OpType, Free
<1>2. ~Left("write")
  BY <1>1 DEF HeadFacts, InOrder, Left
<1>3. ~At("halt") /\ (At("proxy") <=> step = "proxy") /\ (At("exit") <=> step = "exit")
  BY AtOne
<1>4. /\ op.back => gui.cfg = op.prev
      /\ ~op.back => gui.cfg = op.want /\ Purpose(op.kind, op.prev, op.want)
  BY <1>1, <1>2 DEF Inv, OpInv, Purposeful
<1>5. CASE step = "exit"
  <2>1. op.kind = "quit" /\ ~op.back
    BY <1>1, <1>5, ProgramRests DEF HeadFacts, Inv, OpInv, Planned
  <2>2. ~gui.cfg.on
    BY <1>1, <1>4, <2>1 DEF Purpose, Configs
  <2>3. Wants = "stop"
    BY <1>3, <1>5 DEF Wants
  <2> QED BY <2>1, <2>2, <2>3
<1>6. CASE step = "proxy" /\ op.back
  <2>1. op.kind \in {"start", "stop"}
    BY <1>1, <1>6, ProgramRests DEF HeadFacts, Inv, OpInv, Planned
  <2>2. (op.was => Wants = "start") /\ (~op.was => Wants = "stop")
    <3>1. At("proxy") /\ ~At("exit") /\ ~At("halt")
      BY <1>3, <1>6
    <3>2. ASSUME op.was PROVE Wants = "start"
      BY <1>6, <2>1, <3>1, <3>2 DEF Wants
    <3>3. ASSUME ~op.was PROVE Wants = "stop"
      BY <1>6, <2>1, <3>1, <3>3 DEF Wants
    <3> QED BY <3>2, <3>3
  <2> QED BY <1>1, <1>4, <1>6, <2>1, <2>2 DEF Deviates
<1>7. CASE step = "proxy" /\ ~op.back
  <2>0. Purpose(op.kind, op.prev, op.want) /\ gui.cfg = op.want /\ ~Deviates
    BY <1>4, <1>7 DEF Deviates
  <2>1. CASE op.kind \in {"start", "restart"}
    <3>1. Wants = "start"
      BY <1>3, <1>7, <2>1 DEF Wants
    <3>2. gui.cfg.on
      BY <1>1, <2>0, <2>1 DEF Purpose, Configs
    <3> QED BY <2>1, <3>1, <3>2
  <2>2. CASE op.kind \in {"stop", "quit"}
    <3>1. Wants = "stop"
      BY <1>3, <1>7, <2>2 DEF Wants
    <3>2. ~gui.cfg.on
      BY <1>1, <2>0, <2>2 DEF Purpose, Configs
    <3> QED BY <2>2, <3>1, <3>2
  <2>3. CASE op.kind = "quiet"
    <3>1. Wants = IF Serving(dm) THEN "stop" ELSE "none"
      BY <1>3, <1>7, <2>3 DEF Wants
    <3>2. ~gui.cfg.on
      BY <1>1, <2>0, <2>3 DEF Purpose, Configs
    <3> QED BY <2>3, <3>1, <3>2
  <2>4. CASE op.kind \in {"bridge", "detach"}
    <3>1. Wants = Level
      BY <1>3, <1>7, <2>4 DEF Wants
    <3> QED BY <2>4, <3>1 DEF Level
  <2>5. op.kind # "save"
    BY <1>1, <1>7 DEF HeadFacts
  <2> QED BY <1>1, <2>1, <2>2, <2>3, <2>4, <2>5 DEF Kinds
<1> QED BY <1>5, <1>6, <1>7

LEMMA SettledTypes ==
    ASSUME TypeOK, hist' = Settled
    PROVE  /\ hist' \in HistType
           /\ hist'.raced <=> hist.raced /\ Wants # "stop"
           /\ hist'.halted <=> hist.halted /\ Wants # "start"
           /\ hist'.split = hist.split /\ hist'.detached = hist.detached
           /\ hist'.masked = hist.masked
<1>1. hist \in HistType /\ hist.raced \in BOOLEAN /\ hist.halted \in BOOLEAN
  BY TypeParts DEF HistType
<1>2. PICK r, h \in BOOLEAN : (r <=> hist.raced /\ Wants # "stop") /\ (h <=> hist.halted /\ Wants # "start")
  OBVIOUS
<1>3. hist' = [hist EXCEPT !.raced = r, !.halted = h]
  BY <1>1, <1>2 DEF Settled
<1> QED BY <1>1, <1>2, <1>3 DEF HistType

\* A daemon that has carried out what the operation asks of its router: the router agrees
\* with the configuration, unless a rollback deviates from it.
LEMMA AskedAgrees ==
    ASSUME Inv, NEW step \in {"halt", "proxy", "exit"}, At(step), hist' = Settled
    PROVE  /\ ~Left("sync") /\ ~op.err
                => /\ Asked.cfg.addr = gui.cfg.addr /\ Asked.cfg.bg = gui.cfg.bg
                   /\ Asked.cfg.on = gui.cfg.on \/ hist'.raced \/ Deviates
                   /\ Fresh(Asked.inst)
           /\ /\ ~gui.cfg.on /\ op.kind \in {"save", "detach"} /\ ~op.owed /\ ~hist.masked
              /\ ~Flagged'
              => ~Serving(Asked) /\ ~Asked.cfg.on
           /\ /\ ~gui.cfg.on /\ op.kind \in {"start", "stop", "quit", "quiet", "bridge"}
              /\ ~Deviates
              => ~Serving(Asked)
           /\ ~gui.pending /\ ~hist.masked
                => /\ Asked.bg = gui.cfg.bg
                   /\ Asked.inst = gui.inst \/ gui.unmarked
                   /\ ~Flagged' /\ ~(op.kind = "restart" /\ ~Left("write"))
                        => Asked.cfg = gui.cfg /\ (~gui.cfg.on => ~Serving(Asked))
<1>1. /\ gui.up /\ ~Free /\ HeadFacts(step) /\ dm \in DmType /\ dm.cfg \in Configs
      /\ gui.cfg \in Configs /\ dm.cfg.on \in BOOLEAN /\ gui.cfg.on \in BOOLEAN
      /\ op.todo # <<>>
  BY StepAt, TypeParts, DmFields, ConfigTypes DEF Inv, OpInv, GuiType
<1>2. /\ hist'.raced <=> hist.raced /\ Wants # "stop"
      /\ hist'.halted <=> hist.halted /\ Wants # "start"
      /\ hist'.split = hist.split
  BY SettledTypes DEF Inv
<1>3. /\ Asked \in DmType /\ Asked.inst = dm.inst /\ Asked.bg = dm.bg /\ Asked.cfg \in Configs
      /\ Wants \in {"start", "stop", "none"}
      /\ Wants = "none" => Asked = dm
      /\ Asked.cfg.addr = dm.cfg.addr /\ Asked.cfg.bg = dm.cfg.bg
      /\ Wants = "stop" => ~Serving(Asked) /\ ~Asked.cfg.on
      /\ Wants = "start" => Asked.cfg.on \/ Asked = dm
  <2>1. /\ Asked \in DmType /\ Asked.inst = dm.inst /\ Asked.bg = dm.bg
        /\ Wants \in {"start", "stop", "none"}
        /\ Asked = IF Wants = "start" THEN StartProxy(dm)
                   ELSE IF Wants = "stop" THEN StopProxy(dm) ELSE dm
    BY AskedEffect DEF Inv
  <2>2. CASE Wants = "start"
    <3>1. Asked = StartProxy(dm)
      BY <2>1, <2>2
    <3>2. CASE Serving(dm)
      <4>1. Asked = dm
        BY <1>1, <3>1, <3>2, StartEffect
      <4> QED BY <1>1, <2>1, <2>2, <4>1
    <3>3. CASE ~Serving(dm)
      <4>1. Asked.cfg = [dm.cfg EXCEPT !.on = TRUE]
        BY <1>1, <3>1, <3>3, StartEffect
      <4>2. Asked.cfg.on /\ Asked.cfg.addr = dm.cfg.addr /\ Asked.cfg.bg = dm.cfg.bg /\ Asked.cfg \in Configs
        BY <1>1, <4>1 DEF Configs
      <4> QED BY <2>1, <2>2, <4>2
    <3> QED BY <3>2, <3>3
  <2>3. CASE Wants = "stop"
    <3>1. Asked.cfg = [dm.cfg EXCEPT !.on = FALSE] /\ Asked.serving = NoAddr
      BY <1>1, <2>1, <2>3, StopEffect
    <3>2. ~Asked.cfg.on /\ Asked.cfg.addr = dm.cfg.addr /\ Asked.cfg.bg = dm.cfg.bg /\ Asked.cfg \in Configs
      BY <1>1, <3>1 DEF Configs
    <3> QED BY <2>1, <2>3, <3>1, <3>2 DEF Serving
  <2>4. CASE Wants = "none"
    BY <1>1, <2>1, <2>4
  <2> QED BY <2>1, <2>2, <2>3, <2>4
<1>4. step = "halt" => Left("sync") /\ op.kind = "restart" /\ ~Left("write")
  BY <1>1 DEF HeadFacts, InOrder, Left
<1>5. step \in {"proxy", "exit"} =>
        /\ Wants = "start" => gui.cfg.on \/ Deviates
        /\ Wants = "stop" => ~gui.cfg.on \/ Deviates
        /\ /\ op.kind \in {"start", "stop", "quit", "quiet", "bridge"}
           /\ ~gui.cfg.on /\ ~Deviates
           => Wants = "stop" \/ ~Serving(dm)
        /\ op.kind = "detach" /\ ~gui.cfg.on => Wants \in {"stop", "none"}
  BY WantsConfigured
<1>6. ~Left("sync") /\ ~op.err
        => /\ Asked.cfg.addr = gui.cfg.addr /\ Asked.cfg.bg = gui.cfg.bg
           /\ Asked.cfg.on = gui.cfg.on \/ hist'.raced \/ Deviates
           /\ Fresh(Asked.inst)
  <2> SUFFICES ASSUME ~Left("sync"), ~op.err
               PROVE  /\ Asked.cfg.addr = gui.cfg.addr /\ Asked.cfg.bg = gui.cfg.bg
                      /\ Asked.cfg.on = gui.cfg.on \/ hist'.raced \/ Deviates
                      /\ Fresh(Asked.inst)
    OBVIOUS
  <2>1. /\ dm.cfg.addr = gui.cfg.addr /\ dm.cfg.bg = gui.cfg.bg
        /\ dm.cfg.on = gui.cfg.on \/ hist.raced \/ Deviates
        /\ Fresh(dm.inst) /\ step \in {"proxy", "exit"}
    BY <1>1, <1>4 DEF Inv, OpInv, Synced
  <2>2. Asked.cfg.addr = gui.cfg.addr /\ Asked.cfg.bg = gui.cfg.bg /\ Fresh(Asked.inst)
    BY <1>3, <2>1
  <2>3. ASSUME ~Deviates, ~hist'.raced PROVE Asked.cfg.on = gui.cfg.on
    <3>1. CASE Wants = "stop"
      <4>1. ~Asked.cfg.on /\ ~gui.cfg.on
        BY <1>3, <1>5, <2>1, <2>3, <3>1
      <4>2. Asked.cfg.on \in BOOLEAN
        BY <1>3, ConfigTypes
      <4> QED BY <1>1, <4>1, <4>2
    <3>2. CASE Wants # "stop" /\ Asked = dm
      <4>1. dm.cfg.on = gui.cfg.on
        BY <1>2, <2>1, <2>3, <3>2
      <4> QED BY <3>2, <4>1
    <3>3. CASE Wants = "start" /\ Asked # dm
      <4>1. Asked.cfg.on /\ gui.cfg.on
        BY <1>3, <1>5, <2>1, <2>3, <3>3
      <4>2. Asked.cfg.on \in BOOLEAN
        BY <1>3, ConfigTypes
      <4> QED BY <1>1, <4>1, <4>2
    <3> QED BY <1>3, <3>1, <3>2, <3>3
  <2> QED BY <2>2, <2>3
<1>7. /\ ~gui.cfg.on /\ op.kind \in {"save", "detach"} /\ ~op.owed /\ ~hist.masked
      /\ ~Flagged'
      => ~Serving(Asked) /\ ~Asked.cfg.on
  <2> SUFFICES ASSUME ~gui.cfg.on, op.kind \in {"save", "detach"}, ~op.owed, ~hist.masked,
                      ~Flagged'
               PROVE  ~Serving(Asked) /\ ~Asked.cfg.on
    OBVIOUS
  <2>1. step = "proxy" /\ op.kind = "detach"
    BY <1>1, <1>4 DEF HeadFacts
  <2>2. CASE Wants = "stop"
    BY <1>3, <2>2
  <2>3. CASE Wants = "none"
    <3>1. ~Flagged
      BY <1>2, <2>3 DEF Flagged
    <3>2. Stopped
      BY <1>1, <2>1, <3>1 DEF Inv, OpInv, Ordered
    <3> QED BY <1>3, <2>3, <3>2 DEF Stopped
  <2> QED BY <1>5, <2>1, <2>2, <2>3
<1>8. /\ ~gui.cfg.on /\ op.kind \in {"start", "stop", "quit", "quiet", "bridge"}
      /\ ~Deviates
      => ~Serving(Asked)
  BY <1>3, <1>4, <1>5
<1>9. ~gui.pending /\ ~hist.masked
        => /\ Asked.bg = gui.cfg.bg
           /\ Asked.inst = gui.inst \/ gui.unmarked
           /\ ~Flagged' /\ ~(op.kind = "restart" /\ ~Left("write"))
                => Asked.cfg = gui.cfg /\ (~gui.cfg.on => ~Serving(Asked))
  <2> SUFFICES ASSUME ~gui.pending, ~hist.masked
               PROVE  /\ Asked.bg = gui.cfg.bg
                      /\ Asked.inst = gui.inst \/ gui.unmarked
                      /\ ~Flagged' /\ ~(op.kind = "restart" /\ ~Left("write"))
                           => Asked.cfg = gui.cfg /\ (~gui.cfg.on => ~Serving(Asked))
    OBVIOUS
  <2>1. dm.bg = gui.cfg.bg /\ (dm.inst = gui.inst \/ gui.unmarked)
    BY <1>1 DEF Inv, UpToDate
  <2>2. ASSUME ~Flagged', ~(op.kind = "restart" /\ ~Left("write"))
        PROVE  Asked.cfg = gui.cfg /\ (~gui.cfg.on => ~Serving(Asked))
    <3>1. step \in {"proxy", "exit"} /\ ~Left("write") /\ ~Left("sync")
      BY <1>1, <1>4, <2>2 DEF HeadFacts, InOrder, Left, Early
    <3>2. op.kind \in {"bridge", "quit"}
      BY <1>1, <2>2, <3>1 DEF Inv, OpInv, Marked
    <3>3. ~op.back /\ ~op.err /\ ~Deviates
      BY <1>1, <3>2, ProgramRests DEF Inv, OpInv, Planned, Deviates
    <3>4. Asked.cfg.on = gui.cfg.on
      BY <1>6, <2>2, <3>1, <3>3 DEF Flagged
    <3> QED BY <1>1, <1>3, <1>6, <1>8, <3>1, <3>2, <3>3, <3>4, ConfigEqual
  <2> QED BY <1>3, <2>1, <2>2
<1> QED BY <1>6, <1>7, <1>8, <1>9

LEMMA StepProxyKeeps == ASSUME Inv, StepProxy PROVE Inv'
<1>1. PICK step \in {"halt", "proxy"} : At(step)
  BY DEF StepProxy
<1>2. /\ dm.up /\ dm' = Asked /\ Advance /\ hist' = Settled /\ UNCHANGED <<gui, loops, spent>>
      /\ gui.up /\ HeadFacts(step) /\ spent' \in SpentType
  BY <1>1, StepAt, TypeParts DEF StepProxy, Inv, OpInv
<1>3. /\ op' \in OpType /\ Stepped /\ op'.was = op.was /\ op'.moved = op.moved
      /\ op'.inst = op.inst /\ Deviates' = Deviates
  BY <1>1, <1>2, AdvanceFields
<1>4. /\ Planned' /\ ~Free /\ ~Free' /\ Keeps' = Keeps
      /\ \A s : (s \in Rest(op.todo))' = (s \in Rest(op.todo) /\ s # step)
      /\ op.err => op.back \/ op.kind = "quiet"
      /\ op.back => op.kind \in {"save", "start", "stop", "detach"}
      /\ ~(op'.kind = "detach" /\ ~op'.back /\ op'.todo = <<>>)
  BY <1>1, <1>2, <1>3, SteppedFacts
<1>5. /\ hist' \in HistType
      /\ hist'.raced <=> hist.raced /\ Wants # "stop"
      /\ hist'.halted <=> hist.halted /\ Wants # "start"
      /\ hist'.split = hist.split /\ hist'.detached = hist.detached
      /\ hist'.masked = hist.masked
  BY <1>2, SettledTypes DEF Inv
<1>6. /\ Asked \in DmType /\ Asked.up = dm.up /\ Asked.inst = dm.inst /\ Asked.bg = dm.bg
      /\ Asked = IF Wants = "start" THEN StartProxy(dm)
                 ELSE IF Wants = "stop" THEN StopProxy(dm) ELSE dm
  BY AskedEffect DEF Inv
<1>7. TypeOK' /\ DaemonSound'
  <2>1. dm \in DmType /\ dm.cfg \in Configs
    BY TypeParts, DmFields DEF Inv
  <2>2. Serving(Asked) => Asked.serving = Asked.cfg.addr
    <3>1. CASE Asked = dm
      BY <3>1 DEF Inv, DaemonSound
    <3>2. CASE Wants = "start" /\ ~Serving(dm)
      <4>1. Asked.serving = dm.cfg.addr /\ Asked.cfg = [dm.cfg EXCEPT !.on = TRUE]
        BY <1>6, <2>1, <3>2, StartEffect
      <4> QED BY <2>1, <4>1 DEF Configs
    <3>3. CASE Wants = "stop"
      <4>1. Asked.serving = NoAddr
        BY <1>6, <2>1, <3>3, StopEffect
      <4> QED BY <4>1 DEF Serving
    <3> QED BY <1>6, <2>1, <3>1, <3>2, <3>3, StartEffect
  <2>3. dm'.up /\ (Serving(dm') => dm'.serving = dm'.cfg.addr)
    BY <1>2, <1>6, <2>2
  <2> QED BY <1>2, <1>3, <1>5, <1>6, <2>3, TypeParts, TypePrimed DEF Inv, DaemonSound
<1>8. /\ ~Left("sync") /\ ~op.err
           => /\ Asked.cfg.addr = gui.cfg.addr /\ Asked.cfg.bg = gui.cfg.bg
              /\ Asked.cfg.on = gui.cfg.on \/ hist'.raced \/ Deviates
              /\ Fresh(Asked.inst)
      /\ /\ ~gui.cfg.on /\ op.kind \in {"save", "detach"} /\ ~op.owed /\ ~hist.masked
         /\ ~Flagged'
         => ~Serving(Asked) /\ ~Asked.cfg.on
      /\ /\ ~gui.cfg.on /\ op.kind \in {"start", "stop", "quit", "quiet", "bridge"}
         /\ ~Deviates
         => ~Serving(Asked)
      /\ ~gui.pending /\ ~hist.masked
           => /\ Asked.bg = gui.cfg.bg
              /\ Asked.inst = gui.inst \/ gui.unmarked
              /\ ~Flagged' /\ ~(op.kind = "restart" /\ ~Left("write"))
                   => Asked.cfg = gui.cfg /\ (~gui.cfg.on => ~Serving(Asked))
  BY <1>1, <1>2, AskedAgrees
<1>9. Purposeful' /\ ReadFresh'
  BY <1>1, <1>2, <1>3, <1>4 DEF Inv, OpInv, Purposeful, ReadFresh, Fresh, Stepped, Left
<1>10. Marked'
  <2>1. op.kind = "restart" => ~op.err
    BY <1>4
  <2> QED BY <1>1, <1>2, <1>3, <1>4, <1>5, <2>1 DEF Inv, OpInv, Marked, Stepped, Left
<1>11. Synced'
  BY <1>1, <1>2, <1>3, <1>4, <1>8 DEF Synced, Fresh, Stepped, Left
<1>12. Moded'
  BY <1>1, <1>2, <1>3, <1>4, <1>5, <1>6 DEF Inv, OpInv, Moded, Stepped, Left
<1>13. Ordered'
  BY <1>2, <1>3, <1>5, <1>8 DEF Ordered, Stepped, Stopped
<1>14. UpToDate'
  BY <1>1, <1>2, <1>3, <1>4, <1>5, <1>8 DEF UpToDate, Stepped, Left
<1>15. Handing'
  BY <1>2, <1>4, <1>5 DEF Inv, Handing
<1> QED BY <1>4, <1>7, <1>9, <1>10, <1>11, <1>12, <1>13, <1>14, <1>15 DEF Inv, OpInv

\* A daemon that dies before it answers has carried out the command, or not; the
\* operation is where it was.
LEMMA LostKeeps ==
    ASSUME Inv, gui.up, ~Free, NEW d \in DmType, dm' = Dead(d), loops' = NoLoops,
           spent' \in SpentType, hist' \in HistType, UNCHANGED <<gui, op>>,
           op.todo # <<>>,
           hist'.masked = hist.masked, hist'.detached = hist.detached,
           hist'.halted => hist.halted,
           Left("mark") \/ op.kind # "restart" \/ ~op.err,
           ~Left("sync") /\ ~op.err
             => /\ d.cfg.addr = gui.cfg.addr /\ d.cfg.bg = gui.cfg.bg
                /\ d.cfg.on = gui.cfg.on \/ hist'.raced \/ Deviates
                /\ Fresh(d.inst),
           d.bg \in {dm.bg, gui.cfg.bg},
           ~Left("bg") => d.bg = dm.bg,
           ~gui.cfg.on /\ op.kind \in {"save", "detach"} /\ ~op.owed /\ ~hist.masked /\ ~Flagged'
             => ~d.cfg.on,
           ~gui.pending /\ ~hist.masked
             => /\ d.inst = gui.inst \/ gui.unmarked
                /\ ~Flagged' /\ ~(op.kind = "restart" /\ ~Left("write")) => d.cfg = gui.cfg
    PROVE  Inv'
<1>1. /\ dm' \in DmType /\ ~dm'.up /\ dm'.cfg = d.cfg /\ dm'.inst = d.inst
      /\ dm'.bg = d.bg /\ ~Serving(dm')
  BY OtherEffects DEF Serving
<1>2. TypeOK' /\ DaemonSound'
  BY <1>1, TypeParts, TypePrimed, LoopTypes DEF Inv, DaemonSound
<1>3. Planned' /\ Purposeful' /\ ReadFresh' /\ Free' = Free /\ Deviates' = Deviates /\ Keeps' = Keeps
  BY SameFacts, Unmoved DEF Inv, OpInv
<1>4. Marked'
  <2>1. op.kind = "restart" /\ op.err => Left("mark")
    OBVIOUS
  <2> QED BY <2>1 DEF Inv, OpInv, Marked, Left
<1>5. Synced'
  BY <1>1, <1>3 DEF Synced, Left, Fresh
<1>6. Moded'
  BY <1>1, <1>3 DEF Inv, OpInv, Moded, Left
<1>7. Ordered'
  BY <1>1, <1>3 DEF Ordered, Stopped
<1>8. UpToDate'
  BY <1>1 DEF Inv, UpToDate, Left
<1>9. Handing'
  BY DEF Inv, Handing
<1> QED BY <1>2, <1>3, <1>4, <1>5, <1>6, <1>7, <1>8, <1>9 DEF Inv, OpInv

LEMMA AnswerLostKeeps == ASSUME Inv, AnswerLost PROVE Inv'
<1>1. PICK step \in Calls \ {"status"} : At(step)
  BY DEF AnswerLost
<1>2. /\ dm' = Dead(Done) /\ loops' = NoLoops /\ hist' = Settled /\ UNCHANGED <<gui, op>>
      /\ gui.up /\ ~Free /\ op.todo # <<>> /\ HeadFacts(step) /\ spent' \in SpentType
      /\ dm \in DmType /\ gui.cfg \in Configs /\ op.inst \in {1, 2} /\ gui.cfg.bg \in BOOLEAN
  BY <1>1, StepAt, TypeParts, SpentTypes, ConfigTypes DEF AnswerLost, Inv, OpInv, GuiType, OpType
<1>3. /\ hist' \in HistType
      /\ hist'.raced <=> hist.raced /\ Wants # "stop"
      /\ hist'.halted <=> hist.halted /\ Wants # "start"
      /\ hist'.split = hist.split /\ hist'.detached = hist.detached
      /\ hist'.masked = hist.masked
  BY <1>2, SettledTypes DEF Inv
<1>4. op.kind = "restart" => ~op.err
  BY <1>2, ProgramRests DEF Inv, OpInv, Planned
<1>5. Left("write") => step \in {"status", "write"}
  BY <1>2 DEF HeadFacts, InOrder, Left
<1>6. ~Left("write") /\ (~gui.pending => ~op.err)
  <2>1. ~Left("write")
    BY <1>1, <1>5 DEF Calls
  <2>2. ~gui.pending => op.kind \in {"bridge", "restart", "quit"}
    BY <1>2, <2>1 DEF Inv, OpInv, Marked
  <2>3. op.kind \in {"bridge", "restart", "quit"} => ~op.err
    BY <1>2, ProgramRests DEF Inv, OpInv, Planned
  <2> QED BY <2>1, <2>2, <2>3
<1>7. CASE step \in {"halt", "proxy", "exit"}
  <2>1. Done = Asked
    <3>1. ~At("sync") /\ ~At("bg") /\ (At("halt") \/ At("proxy") \/ At("exit"))
      BY <1>1, <1>7, AtOne
    <3> QED BY <3>1 DEF Done
  <2>2. Asked \in DmType /\ Asked.bg = dm.bg
    BY AskedEffect DEF Inv
  <2>3. /\ ~Left("sync") /\ ~op.err
             => /\ Asked.cfg.addr = gui.cfg.addr /\ Asked.cfg.bg = gui.cfg.bg
                /\ Asked.cfg.on = gui.cfg.on \/ hist'.raced \/ Deviates
                /\ Fresh(Asked.inst)
        /\ /\ ~gui.cfg.on /\ op.kind \in {"save", "detach"} /\ ~op.owed /\ ~hist.masked
           /\ ~Flagged'
           => ~Asked.cfg.on
        /\ ~gui.pending /\ ~hist.masked
             => /\ Asked.inst = gui.inst \/ gui.unmarked
                /\ ~Flagged' /\ ~(op.kind = "restart" /\ ~Left("write")) => Asked.cfg = gui.cfg
    BY <1>1, <1>2, <1>7, AskedAgrees
  <2> QED BY <1>2, <1>3, <1>4, <2>1, <2>2, <2>3, LostKeeps
<1>8. CASE step \in {"sync", "bg"}
  <2>1. ~At("halt") /\ ~At("proxy") /\ ~At("exit")
    BY <1>1, <1>8, AtOne
  <2>2. Wants = "none"
    BY <2>1 DEF Wants
  <2>3. Flagged' = Flagged
    BY <1>3, <2>2 DEF Flagged
  <2>4. ~gui.cfg.on /\ op.kind \in {"save", "detach"} /\ ~op.owed /\ ~hist.masked /\ ~Flagged
          => ~dm.cfg.on
    BY <1>2 DEF Inv, OpInv, Ordered, Stopped
  <2>5. ~gui.pending /\ ~hist.masked
          => /\ dm.inst = gui.inst \/ gui.unmarked
             /\ ~Flagged /\ ~(op.kind = "restart" /\ ~Left("write")) => dm.cfg = gui.cfg
    BY <1>2 DEF Inv, UpToDate
  <2>6. ~Left("sync") /\ ~op.err
          => /\ dm.cfg.addr = gui.cfg.addr /\ dm.cfg.bg = gui.cfg.bg
             /\ dm.cfg.on = gui.cfg.on \/ hist'.raced \/ Deviates
             /\ Fresh(dm.inst)
    BY <1>2, <1>3, <2>2 DEF Inv, OpInv, Synced
  <2>7. CASE Done = dm
    BY <1>2, <1>3, <1>4, <2>2, <2>3, <2>4, <2>5, <2>6, <2>7, LostKeeps
  <2>8. CASE step = "sync" /\ Done # dm
    <3>1. Done = SyncConfig(dm, gui.cfg, op.inst)
      <4>1. At("sync") /\ ~At("bg")
        BY <1>1, <2>8, AtOne
      <4> QED BY <2>1, <2>8, <4>1 DEF Done
    <3>2. /\ Done \in DmType /\ Done.cfg = gui.cfg /\ Done.inst = op.inst /\ Done.bg = dm.bg
      <4>1. PICK c \in Configs, i \in {1, 2} : c = gui.cfg /\ i = op.inst
        BY <1>2
      <4>2. /\ SyncConfig(dm, c, i) \in DmType /\ SyncConfig(dm, c, i).cfg = c
            /\ SyncConfig(dm, c, i).inst = i /\ SyncConfig(dm, c, i).bg = dm.bg
        BY <1>2, OtherEffects
      <4> QED BY <3>1, <4>1, <4>2
    <3>3. Left("sync") /\ ~Left("read")
      BY <1>2, <2>8 DEF HeadFacts, InOrder, Left, Early
    <3>4. ~gui.pending => op.inst = gui.inst \/ gui.unmarked
      BY <1>2, <1>6, <3>3 DEF Inv, OpInv, ReadFresh, Marked, Fresh
    <3> QED BY <1>2, <1>3, <1>4, <2>2, <3>2, <3>3, <3>4, LostKeeps
  <2>9. CASE step = "bg" /\ Done # dm
    <3>1. Done = SetBackground(dm, AskedMode)
      <4>1. At("bg") /\ ~At("sync")
        BY <1>1, <2>9, AtOne
      <4> QED BY <2>1, <2>9, <4>1 DEF Done
    <3>2. PICK b \in BOOLEAN : b = gui.cfg.bg
      BY <1>2
    <3>3. Done = SetBackground(dm, b)
      BY <3>1, <3>2 DEF AskedMode
    <3>4. /\ Done \in DmType /\ Done.cfg = dm.cfg /\ Done.inst = dm.inst /\ Done.bg = b
      <4>1. /\ SetBackground(dm, b) \in DmType /\ SetBackground(dm, b).inst = dm.inst
            /\ SetBackground(dm, b).bg = b /\ SetBackground(dm, b).cfg = dm.cfg
        BY <1>2, ModeEffect
      <4> QED BY <3>3, <4>1, Zenon
    <3>5. Left("bg") /\ Done.bg \in {dm.bg, gui.cfg.bg}
      BY <1>2, <2>9, <3>2, <3>4 DEF HeadFacts, InOrder, Left
    <3> QED BY <1>2, <1>3, <1>4, <2>2, <2>3, <2>4, <2>5, <2>6, <3>4, <3>5, LostKeeps
  <2> QED BY <1>8, <2>7, <2>8, <2>9
<1> QED BY <1>1, <1>7, <1>8 DEF Calls

LEMMA StepExitKeeps == ASSUME Inv, StepExit PROVE Inv'
<1>1. /\ gui.up /\ dm' = Dead(StopProxy(dm)) /\ loops' = NoLoops /\ op' = Idle(gui.cfg)
      /\ gui' = [gui EXCEPT !.up = FALSE] /\ UNCHANGED <<spent, hist>>
      /\ gui \in GuiType /\ dm \in DmType /\ gui.cfg \in Configs /\ FALSE \in BOOLEAN
  BY StepAt, TypeParts DEF StepExit, Inv, OpInv, GuiType
<1>2. gui' \in GuiType /\ ~gui'.up
  BY <1>1 DEF GuiType
<1>3. dm' \in DmType /\ ~Serving(dm')
  BY <1>1, StopEffect, OtherEffects DEF Serving
<1>4. OpInv' /\ op'.kind = "idle" /\ op' \in OpType
  BY <1>1, IdleInv, IdleType
<1>5. TypeOK' /\ DaemonSound'
  BY <1>1, <1>2, <1>3, <1>4, TypeParts, TypePrimed, LoopTypes DEF Inv, DaemonSound
<1>6. UpToDate' /\ Handing'
  BY <1>1, <1>2, <1>4 DEF Inv, UpToDate, Handing
<1> QED BY <1>4, <1>5, <1>6 DEF Inv

LEMMA GuiCrashKeeps == ASSUME Inv, GuiCrash PROVE Inv'
<1>1. /\ gui.up /\ op' = Idle(gui.disk) /\ gui' = [gui EXCEPT !.up = FALSE, !.unmarked = FALSE]
      /\ UNCHANGED <<dm, loops, hist>> /\ spent' \in SpentType
      /\ gui \in GuiType /\ gui.disk \in Configs /\ FALSE \in BOOLEAN
  BY SpentTypes, TypeParts DEF GuiCrash, Inv, GuiType
<1>2. gui' \in GuiType /\ ~gui'.up
  BY <1>1 DEF GuiType
<1>3. OpInv' /\ op'.kind = "idle" /\ op' \in OpType
  BY <1>1, IdleInv, IdleType
<1>4. TypeOK' /\ DaemonSound'
  BY <1>1, <1>2, <1>3, TypeParts, TypePrimed DEF Inv, DaemonSound
<1>5. UpToDate' /\ Handing'
  BY <1>1, <1>2, <1>3 DEF Inv, UpToDate, Handing
<1> QED BY <1>3, <1>4, <1>5 DEF Inv

LEMMA GuiStartKeeps == ASSUME Inv, GuiStart PROVE Inv'
<1>1. PICK late \in BOOLEAN :
         /\ IF late THEN Fails ELSE NoFault
         /\ gui' = [gui EXCEPT !.up = TRUE, !.cfg = gui.disk, !.pending = TRUE,
                               !.resync = TRUE, !.unmarked = FALSE, !.behind = late]
  BY DEF GuiStart
<1>2. /\ op' = Idle(gui.disk) /\ hist' = [hist EXCEPT !.detached = FALSE]
      /\ UNCHANGED <<dm, loops>> /\ spent' \in SpentType
      /\ gui \in GuiType /\ hist \in HistType /\ gui.disk \in Configs
      /\ FALSE \in BOOLEAN /\ TRUE \in BOOLEAN
  BY <1>1, SpentTypes, TypeParts DEF GuiStart, Inv, GuiType
<1>3. gui' \in GuiType /\ gui'.pending
  BY <1>1, <1>2 DEF GuiType
<1>4. hist' \in HistType /\ ~hist'.detached
  BY <1>2 DEF HistType
<1>5. OpInv' /\ op'.kind = "idle" /\ op' \in OpType
  BY <1>2, IdleInv, IdleType
<1>6. TypeOK' /\ DaemonSound'
  BY <1>2, <1>3, <1>4, <1>5, TypeParts, TypePrimed DEF Inv, DaemonSound
<1>7. UpToDate' /\ Handing'
  BY <1>2, <1>3, <1>4, <1>5 DEF UpToDate, Handing
<1> QED BY <1>5, <1>6, <1>7 DEF Inv

-----------------------------------------------------------------------------
(* An operation ends *)

LEMMA JudgedTypes ==
    ASSUME TypeOK, hist' = Judged
    PROVE  /\ hist' \in HistType
           /\ hist'.raced = hist.raced /\ hist'.halted = hist.halted
           /\ hist'.detached <=> op.kind = "detach" /\ ~op.back
           /\ op.err => hist'.split = hist.split /\ hist'.masked = hist.masked
           /\ ~op.err => /\ hist'.split <=> Deviates \/ (hist.split /\ op.kind \in {"save", "detach"})
                         /\ hist'.masked <=> op.kind # "bridge" /\ (op.owed \/ hist.masked)
<1>1. /\ hist \in HistType /\ op \in OpType /\ hist.split \in BOOLEAN /\ hist.masked \in BOOLEAN
      /\ op.err \in BOOLEAN /\ op.owed \in BOOLEAN /\ op.back \in BOOLEAN
  BY TypeParts DEF HistType, OpType
<1>2. PICK s, d, m \in BOOLEAN : /\ s = IF op.err THEN hist.split ELSE Split
                                 /\ d = Exits
                                 /\ m = IF op.err THEN hist.masked ELSE Masks
  <2>1. Split \in BOOLEAN /\ Exits \in BOOLEAN /\ Masks \in BOOLEAN
    BY DEF Split, Exits, Masks
  <2> QED BY <1>1, <2>1
<1>3. hist' = [hist EXCEPT !.split = s, !.detached = d, !.masked = m]
  BY <1>2 DEF Judged
<1>4. /\ hist' \in HistType /\ hist'.split = s /\ hist'.detached = d /\ hist'.masked = m
      /\ hist'.raced = hist.raced /\ hist'.halted = hist.halted
  BY <1>1, <1>2, <1>3 DEF HistType
<1>5. Split <=> Deviates \/ (hist.split /\ op.kind \in {"save", "detach"})
  BY DEF Split, Deviates
<1> QED BY <1>2, <1>4, <1>5 DEF Exits, Masks

\* An operation that ends without an error has brought the daemon up to date.
LEMMA EndSound ==
    ASSUME Inv, gui.up, ~Free, op.todo = <<>>, ~op.err, hist' = Judged
    PROVE  /\ dm.cfg.addr = gui.cfg.addr /\ dm.cfg.bg = gui.cfg.bg
           /\ ~hist'.masked => dm.bg = gui.cfg.bg
           /\ Fresh(dm.inst)
           /\ ~hist'.masked /\ ~Flagged' => dm.cfg = gui.cfg /\ (~gui.cfg.on => ~Serving(dm))
<1>1. Rest(op.todo) = {}
  BY DEF Rest
<1>2. /\ ~Left("write") /\ ~Left("read") /\ ~Left("sync") /\ ~Left("bg") /\ ~Left("proxy")
      /\ dm.cfg \in Configs /\ gui.cfg \in Configs /\ op.kind \in Kinds
      /\ op.prev \in Configs
  BY <1>1, TypeParts, DmFields DEF Left, Inv, GuiType, OpType, Free
<1>3. /\ hist'.raced = hist.raced /\ hist'.halted = hist.halted
      /\ hist'.split <=> Deviates \/ (hist.split /\ op.kind \in {"save", "detach"})
      /\ hist'.masked <=> op.kind # "bridge" /\ (op.owed \/ hist.masked)
  BY JudgedTypes DEF Inv
<1>4. op.kind # "quit"
  BY DEF Inv, OpInv, Planned
<1>5. /\ dm.cfg.addr = gui.cfg.addr /\ dm.cfg.bg = gui.cfg.bg /\ Fresh(dm.inst)
      /\ dm.cfg.on = gui.cfg.on \/ hist.raced \/ Deviates
  BY <1>2 DEF Inv, OpInv, Synced
<1>6. ~hist'.masked => dm.bg = gui.cfg.bg
  <2>1. Keeps => op.kind # "bridge"
    BY DEF Keeps
  <2>2. (~op.owed /\ ~hist.masked /\ Keeps) \/ ~Keeps => dm.bg = gui.cfg.bg
    BY <1>2 DEF Inv, OpInv, Moded
  <2> QED BY <1>3, <2>1, <2>2
<1>7. ASSUME ~hist'.masked, ~Flagged' PROVE dm.cfg = gui.cfg /\ (~gui.cfg.on => ~Serving(dm))
  <2>1. ~hist.raced /\ ~hist.halted /\ ~Deviates /\ ~(hist.split /\ op.kind \in {"save", "detach"})
    BY <1>3, <1>7 DEF Flagged
  <2>2. dm.cfg = gui.cfg
    BY <1>2, <1>5, <2>1, ConfigEqual
  <2>3. ASSUME ~gui.cfg.on PROVE ~Serving(dm)
    <3>1. CASE op.kind \in {"start", "stop", "quiet", "bridge"}
      BY <1>2, <2>1, <2>3, <3>1 DEF Inv, OpInv, Ordered
    <3>2. CASE op.kind \in {"save", "detach"}
      BY <1>3, <1>7, <2>1, <2>3, <3>2 DEF Inv, OpInv, Ordered, Flagged, Stopped
    <3>3. op.kind # "restart"
      <4> SUFFICES ASSUME op.kind = "restart" PROVE FALSE
        OBVIOUS
      <4>1. ~op.back
        BY ProgramRests DEF Inv, OpInv, Planned
      <4>2. gui.cfg = op.want /\ op.want.on
        BY <1>2, <4>1 DEF Inv, OpInv, Purposeful, Purpose
      <4> QED BY <2>3, <4>2
    <3> QED BY <1>2, <1>4, <3>1, <3>2, <3>3 DEF Kinds
  <2> QED BY <2>2, <2>3
<1> QED BY <1>5, <1>6, <1>7

LEMMA OpEndsKeeps == ASSUME Inv, OpEnds PROVE Inv'
<1>1. /\ gui.up /\ ~Free /\ op.todo = <<>> /\ op' = Idle(gui.cfg) /\ hist' = Judged
      /\ UNCHANGED <<dm, loops, spent>>
      /\ gui \in GuiType /\ gui.cfg \in Configs /\ gui.pending \in BOOLEAN
      /\ op.err \in BOOLEAN /\ op.moved \in BOOLEAN /\ op.back \in BOOLEAN
      /\ dm.cfg \in Configs /\ op.prev \in Configs
  BY TypeParts, DmFields DEF OpEnds, Inv, GuiType, OpType
<1>2. /\ gui' \in GuiType /\ gui'.cfg = gui.cfg /\ gui'.disk = gui.disk
      /\ gui'.inst = gui.inst /\ gui'.unmarked = gui.unmarked
      /\ gui'.pending <=> gui.pending /\ (op.err \/ op.moved)
      /\ gui'.up <=> ~(op.kind = "detach" /\ ~op.back)
  <2>1. PICK p, u \in BOOLEAN : /\ p = (gui.pending /\ (op.err \/ op.moved))
                                /\ u = ~Exits
    BY DEF Exits
  <2>2. gui' = [gui EXCEPT !.pending = p, !.up = u]
    BY <1>1, <2>1 DEF OpEnds
  <2>3. /\ gui' \in GuiType /\ gui'.cfg = gui.cfg /\ gui'.disk = gui.disk
        /\ gui'.inst = gui.inst /\ gui'.unmarked = gui.unmarked
        /\ gui'.pending = p /\ gui'.up = u
    BY <1>1, <2>1, <2>2 DEF GuiType
  <2> QED BY <2>1, <2>3 DEF Exits
<1>3. /\ hist' \in HistType
      /\ hist'.raced = hist.raced /\ hist'.halted = hist.halted
      /\ hist'.detached <=> op.kind = "detach" /\ ~op.back
      /\ op.err => hist'.split = hist.split /\ hist'.masked = hist.masked
  BY <1>1, JudgedTypes DEF Inv
<1>4. OpInv' /\ op'.kind = "idle" /\ op' \in OpType
  BY <1>1, IdleInv, IdleType
<1>5. TypeOK' /\ DaemonSound'
  BY <1>1, <1>2, <1>3, <1>4, TypeParts, TypePrimed DEF Inv, DaemonSound
<1>6. ~Left("write") /\ ~Left("read") /\ ~Left("sync") /\ ~Left("bg") /\ ~Left("mark")
  BY <1>1 DEF Left, Rest
<1>7. ~op.err => /\ dm.cfg.addr = gui.cfg.addr /\ dm.cfg.bg = gui.cfg.bg
                 /\ ~hist'.masked => dm.bg = gui.cfg.bg
                 /\ Fresh(dm.inst)
                 /\ ~hist'.masked /\ ~Flagged'
                      => dm.cfg = gui.cfg /\ (~gui.cfg.on => ~Serving(dm))
  BY <1>1, EndSound
<1>8. UpToDate'
  <2> SUFFICES ASSUME ~gui'.pending, ~hist'.masked
               PROVE  /\ dm.bg = gui.cfg.bg
                      /\ dm.inst = gui.inst \/ gui.unmarked
                      /\ ~Flagged' => dm.cfg = gui.cfg /\ (~gui.cfg.on => ~Serving(dm))
    BY <1>1, <1>2, <1>4 DEF UpToDate
  <2>1. CASE ~op.err
    <3>1. ~op.moved
      BY <1>2, <2>1 DEF Inv, OpInv, Marked
    <3> QED BY <1>7, <2>1, <3>1 DEF Fresh
  <2>2. CASE op.err
    <3>1. ~gui.pending /\ ~hist.masked
      BY <1>2, <1>3, <2>2
    <3>2. ~Flagged' => ~Flagged
      BY <1>3, <2>2 DEF Flagged
    <3>3. ~Flagged' => op.kind # "restart"
      BY <1>1, <1>3, <1>6, <3>1 DEF Inv, OpInv, Marked, Flagged
    <3> QED BY <1>1, <3>1, <3>2, <3>3 DEF Inv, UpToDate
  <2> QED BY <1>1, <2>1, <2>2
<1>9. Handing'
  <2> SUFFICES ASSUME op.kind = "detach", ~op.back, ~hist.raced
               PROVE  dm.bg /\ dm.cfg = gui.disk /\ Listens
    BY <1>1, <1>2, <1>3, <1>4 DEF Handing, Listens
  <2>1. ~op.err
    BY <1>1, ProgramRests DEF Inv, OpInv, Planned
  <2>2. gui.cfg = op.want /\ gui.disk = op.want /\ op.want.bg
    <3>1. gui.cfg = op.want /\ gui.disk = op.want /\ op.want = [op.prev EXCEPT !.bg = TRUE]
      BY <1>1, <1>6 DEF Inv, OpInv, Purposeful, Purpose
    <3> QED BY <1>1, <3>1 DEF Configs
  <2>3. ~Deviates
    BY DEF Deviates
  <2>4. dm.cfg = gui.cfg
    BY <1>1, <1>6, <1>7, <2>1, <2>3, ConfigEqual DEF Inv, OpInv, Synced
  <2>5. dm.bg = gui.cfg.bg
    <3>1. ~Keeps
      BY DEF Keeps
    <3> QED BY <1>1, <1>6, <2>1, <3>1 DEF Inv, OpInv, Moded
  <2>6. Listens
    BY <1>1 DEF Inv, Handing
  <2> QED BY <2>2, <2>4, <2>5, <2>6
<1> QED BY <1>4, <1>5, <1>8, <1>9 DEF Inv

-----------------------------------------------------------------------------
(* The invariant, and what it says *)

LEMMA InitInv == Init => Inv
<1> SUFFICES ASSUME Init PROVE Inv
  OBVIOUS
<1>1. PICK c \in Configs, a \in BOOLEAN :
        /\ ~c.on /\ ~c.bg
        /\ gui = [up |-> TRUE, cfg |-> c, disk |-> c, inst |-> 1, pending |-> TRUE,
                  resync |-> TRUE, unmarked |-> FALSE, behind |-> a]
        /\ op = Idle(c)
        /\ dm = [up |-> FALSE, cfg |-> c, inst |-> 1, bg |-> FALSE, serving |-> NoAddr]
        /\ loops = NoLoops
        /\ spent = [ops |-> 0, faults |-> 0]
        /\ hist = [raced |-> FALSE, split |-> FALSE, halted |-> FALSE, detached |-> FALSE,
                  masked |-> FALSE]
  BY DEF Init
<1>2. gui \in GuiType /\ gui.pending
  BY <1>1 DEF GuiType
<1>3. dm \in DmType /\ ~Serving(dm)
  BY <1>1 DEF DmType, Serving
<1>4. loops \in LoopType /\ hist \in HistType /\ ~hist.detached
  BY <1>1 DEF LoopType, NoLoops, HistType
<1>5. spent \in SpentType
  BY <1>1, ControlAssumption DEF SpentType
<1>6. op \in OpType /\ op.kind = "idle" /\ op.todo = <<>> /\ ~op.moved
  BY <1>1, IdleType DEF Idle
<1>7. TypeOK /\ DaemonSound
  BY <1>1, <1>2, <1>3, <1>4, <1>5, <1>6, TypeParts DEF DaemonSound
<1>8. OpInv
  BY <1>6 DEF OpInv, Planned, Purposeful, Marked, ReadFresh, Synced, Moded, Ordered, Free
<1>9. UpToDate /\ Handing
  BY <1>2, <1>4, <1>6 DEF UpToDate, Handing
<1> QED BY <1>7, <1>8, <1>9 DEF Inv

LEMMA NextKeeps == Inv /\ [Next]_vars => Inv'
<1> SUFFICES ASSUME Inv, [Next]_vars PROVE Inv'
  OBVIOUS
<1>1. CASE User
  BY <1>1, UserKeeps, InstanceSavedKeeps DEF User
<1>2. CASE Faults
  BY <1>2, ServeErrorKeeps, LoopFailsKeeps, DeathsKeep, WriteFailsKeeps, RefusalsKeep,
     StopFailsKeeps, AnswerLostKeeps, GuiCrashKeeps DEF Faults
<1>3. CASE Daemon
  BY <1>3, LoopChecksKeeps, LoopStartsKeeps, DeathsKeep, LoginStartKeeps DEF Daemon
<1>4. CASE Desktop
  BY <1>4, BridgeBeginsKeeps, HeartbeatFailsKeeps, InstanceMarkedKeeps, OpEndsKeeps,
     StepStatusKeeps, StepWriteKeeps, StepMarkKeeps, StepDoneKeeps, StepReadKeeps,
     StepSyncKeeps, StepBackgroundKeeps, StepProxyKeeps, StepExitKeeps, RecoverKeeps,
     CallFailsKeeps, GuiStartKeeps DEF Desktop
<1>5. CASE UNCHANGED vars
  <2>1. SameGui /\ SameOp /\ DaemonMoves
    BY <1>5, Unmoved DEF vars, DaemonMoves, Listens
  <2>2. TypeOK' /\ DaemonSound'
    BY <1>5, TypeParts, TypePrimed DEF vars, Inv, DaemonSound
  <2> QED BY <2>1, <2>2, DaemonMovesKeep
<1> QED BY <1>1, <1>2, <1>3, <1>4, <1>5 DEF Next

LEMMA Invariance == Spec => []Inv
  BY InitInv, NextKeeps, PTL DEF Spec

\* However many operations overlap with changes, restarts of either process, lost
\* answers and failed writes: a desktop process that believes the daemon to be up to
\* date is right about its configuration, instances and background mode, and the
\* router is off where it is switched off, but for the four cases Exempt names
\* (sync_config, mark_config_sync_complete, start_app_bridge).
THEOREM StaysReconciled == Spec => []Reconciled
  BY InvReconciled, Invariance, PTL

\* However often the daemon or a command fails on the way, a desktop process that
\* exits through the hand-over leaves a daemon that stays, has the saved
\* configuration, and listens or is trying to (prepare_background_exit).
THEOREM HandOverHolds == Spec => []HandedOver
  BY InvHandedOver, Invariance, PTL

==============================================================================
