--------------------------- MODULE CheckpointStore ---------------------------
(***************************************************************************)
(* The on-disk checkpoint store of one instance (CheckpointStore in        *)
(* checkpoint.rs) and the two operations of the coordinator that use it:   *)
(* save_before_stop writes a new generation and prunes old ones, and       *)
(* restore_or_cold loads one and rejects it when the engine cannot restore *)
(* it.                                                                     *)
(*                                                                         *)
(* A generation is a directory with one payload per saved slot, a manifest *)
(* and perhaps a rejection marker; it is built as ".pending-<id>" and      *)
(* renamed.  Every file-system call that another run of the program could  *)
(* see half done is a step, and a crash may come between any two.  Removal *)
(* of a directory is not atomic (fs::remove_dir_all).  Saves and restores  *)
(* exclude each other (module CheckpointGate).                             *)
(*                                                                         *)
(* Generations are numbered in the order of their created_at.  A restore   *)
(* that succeeds only touches usage-v1.json, which holds the order of last *)
(* use and is left out (see Evictable).                                    *)
(***************************************************************************)
EXTENDS Naturals, FiniteSets

CONSTANTS
    Fingerprints,   \* launch configurations: digests of model, engine, options
    Slots,          \* slots of the instance
    MaxGen,         \* bound: generations created in one behaviour
    MaxTokens,      \* bound: prompt tokens in a slot; a token takes one byte
    MinTokens,      \* minimum_prompt_tokens
    PreserveLonger, \* preserve_longer
    Limit,          \* storage_limit_gib, in bytes
    MaxDamages,     \* bound: files damaged behind the program's back
    NoGen           \* a generation directory that does not exist

ASSUME StoreAssumption ==
    /\ IsFiniteSet(Fingerprints)
    /\ IsFiniteSet(Slots)
    /\ MaxGen \in Nat
    /\ MaxTokens \in Nat
    /\ MinTokens \in Nat
    /\ PreserveLonger \in BOOLEAN
    /\ Limit \in Nat
    /\ MaxDamages \in Nat

VARIABLES
    gens,       \* the generation directories
    latest,     \* latest.json of each fingerprint, 0 = no file
    created,    \* number of generations created so far
    pc,         \* where the operation in progress is
    cur,        \* the generation it saves
    junk,       \* prune_instance: pending and invalid directories to remove
    kept,       \* prune_instance: those it found valid and has not evicted
    victim,     \* prune_instance: the directory it is removing
    todo,       \* prune_instance: fingerprints to reconcile
    outcome,    \* how the last save ended: "saved", "refused", or otherwise
    acked,      \* history: the last generation of a fingerprint whose commit
                \* returned Ok; 0 = none, or it has since been damaged, rejected,
                \* cleared, or evicted by the save of another fingerprint
    rejected,   \* history: directories whose rejection was written
    torn,       \* history: directories damaged or whose removal has begun
    damages     \* number of damaged files so far

disk    == <<gens, latest, created>>
pruning == <<junk, kept, victim, todo>>
history == <<acked, rejected, torn, damages>>
vars == <<gens, latest, created, pc, cur, junk, kept, victim, todo,
          outcome, acked, rejected, torn, damages>>

Gens == 1 .. MaxGen
Present == { g \in Gens : gens[g] # NoGen }

\* tokens: the manifest's slots, 0 = slot not saved; payload, manifest, marker:
\* the intact files that are in the directory (a damaged one fails its checksum).
Generation == [dir : {"pending", "final"}, fp : Fingerprints,
               tokens : [Slots -> 0 .. MaxTokens], payload : SUBSET Slots,
               manifest : BOOLEAN, marker : BOOLEAN]

ASSUME NoGenAssumption == NoGen \notin Generation

Locations == {"idle", "move", "rename", "pointer", "usage", "sweep", "remove",
              "evict", "reconcile"}

TypeOK ==
    /\ gens \in [Gens -> Generation \cup {NoGen}]
    /\ latest \in [Fingerprints -> 0 .. MaxGen]
    /\ created \in 0 .. MaxGen
    /\ pc \in Locations
    /\ cur \in 0 .. MaxGen
    /\ junk \in SUBSET Gens
    /\ kept \in SUBSET Gens
    /\ victim \in 0 .. MaxGen
    /\ todo \in SUBSET Fingerprints
    /\ outcome \in {"other", "saved", "refused"}
    /\ acked \in [Fingerprints -> 0 .. MaxGen]
    /\ rejected \in SUBSET Present
    /\ torn \in SUBSET Present
    /\ damages \in 0 .. MaxDamages

-----------------------------------------------------------------------------
(* load_generation, load_latest *)

Saved(tokens) == { s \in Slots : tokens[s] > 0 }

Complete(g) == gens[g].manifest /\ Saved(gens[g].tokens) \subseteq gens[g].payload

\* load_generation succeeds.
Valid(g) ==
    /\ g \in Present
    /\ gens[g].dir = "final"
    /\ Complete(g)
    /\ ~gens[g].marker

ValidOf(fp) == { g \in Present : gens[g].fp = fp /\ Valid(g) }
Newest(G) == IF G = {} THEN 0 ELSE CHOOSE g \in G : \A h \in G : h <= g

\* The generation latest.json names if that is valid, else the newest valid one.
LoadLatest(fp) ==
    IF latest[fp] # 0 /\ Valid(latest[fp]) THEN latest[fp] ELSE Newest(ValidOf(fp))

\* load_latest returns the pointer's error when the scan finds nothing either.
LoadFails(fp) == latest[fp] # 0 /\ LoadLatest(fp) = 0

\* The directory g is gone.
Gone(g) ==
    /\ gens' = [gens EXCEPT ![g] = NoGen]
    /\ torn' = torn \ {g}
    /\ rejected' = rejected \ {g}

\* History: g need not survive any longer.
Excused(g) == [fp \in Fingerprints |-> IF acked[fp] = g THEN 0 ELSE acked[fp]]

\* The operation ends, or its process does.
ToIdle ==
    /\ pc' = "idle"
    /\ cur' = 0
    /\ junk' = {}
    /\ kept' = {}
    /\ victim' = 0
    /\ todo' = {}

-----------------------------------------------------------------------------
(* save_before_stop up to the commit *)

Longer(prev, s, n) == prev # 0 /\ gens[prev].tokens[s] > n

\* Mutant: a longer saved slot is not retained.
Merged_shorter(prev, saved) ==
    [s \in Slots |-> IF saved[s] > 0 /\ saved[s] >= MinTokens THEN saved[s] ELSE 0]

\* The slots of the new manifest: the previous payload where that is longer.
Merged(prev, saved) ==
    [s \in Slots |->
        IF Longer(prev, s, saved[s]) THEN gens[prev].tokens[s]
        ELSE IF saved[s] > 0 /\ saved[s] >= MinTokens THEN saved[s] ELSE 0]

Updated(prev, saved) ==
    \E s \in Slots : ~Longer(prev, s, saved[s]) /\ saved[s] > 0 /\ saved[s] >= MinTokens

\* The tokens of the slots, one by one, and how many bytes they take.
Data(tokens) == UNION { {s} \X (1 .. tokens[s]) : s \in Slots }
Bytes(tokens) == Cardinality(Data(tokens))

Previous(fp) == IF PreserveLonger THEN LoadLatest(fp) ELSE 0

\* The slots were saved to scratch files and commit_slots_with_fault has created
\* the pending directory.  load_latest records the use of the previous one.
SaveBegin(fp, saved) ==
    LET prev == Previous(fp)
        tokens == Merged(prev, saved)
    IN  /\ pc = "idle"
        /\ created < MaxGen
        /\ ~(PreserveLonger /\ LoadFails(fp))
        /\ Updated(prev, saved)
        /\ Bytes(tokens) <= Limit
        /\ created' = created + 1
        /\ cur' = created + 1
        /\ gens' = [gens EXCEPT ![created + 1] =
             [dir |-> "pending", fp |-> fp, tokens |-> tokens, payload |-> {},
              manifest |-> FALSE, marker |-> FALSE]]
        /\ pc' = "move"
        /\ outcome' = "other"
        /\ UNCHANGED <<latest, pruning, history>>

\* A slot could not be saved, no slot is to be updated, or together they exceed
\* the limit: nothing is committed.
SaveAbandoned(fp) ==
    /\ pc = "idle"
    /\ ~(PreserveLonger /\ LoadFails(fp))
    /\ outcome' = "other"
    /\ UNCHANGED <<gens, latest, created, pc, cur, pruning, history>>

\* preserve_longer asks load_latest for the previous generation and gets an error.
SaveRefused(fp) ==
    /\ pc = "idle"
    /\ PreserveLonger
    /\ LoadFails(fp)
    /\ outcome' = "refused"
    /\ UNCHANGED <<disk, pc, cur, pruning, history>>

-----------------------------------------------------------------------------
(* commit_slots_with_fault *)

MovePayload(s) ==
    /\ pc = "move"
    /\ s \in Saved(gens[cur].tokens) \ gens[cur].payload
    /\ gens' = [gens EXCEPT ![cur].payload = @ \cup {s}]
    /\ UNCHANGED <<latest, created, pc, cur, pruning, outcome, history>>

\* Mutant: the manifest does not wait for the payloads.
WriteManifest_early ==
    /\ pc = "move"
    /\ gens' = [gens EXCEPT ![cur].manifest = TRUE]
    /\ pc' = "rename"
    /\ UNCHANGED <<latest, created, cur, pruning, outcome, history>>

WriteManifest ==
    /\ pc = "move"
    /\ Saved(gens[cur].tokens) \subseteq gens[cur].payload
    /\ gens' = [gens EXCEPT ![cur].manifest = TRUE]
    /\ pc' = "rename"
    /\ UNCHANGED <<latest, created, cur, pruning, outcome, history>>

RenameGeneration ==
    /\ pc = "rename"
    /\ gens' = [gens EXCEPT ![cur].dir = "final"]
    /\ pc' = "pointer"
    /\ UNCHANGED <<latest, created, cur, pruning, outcome, history>>

UpdateLatest ==
    /\ pc = "pointer"
    /\ latest' = [latest EXCEPT ![gens[cur].fp] = cur]
    /\ pc' = "usage"
    /\ UNCHANGED <<gens, created, cur, pruning, outcome, history>>

\* touch_usage; the commit returns Ok and prune_instance scans the directories.
CommitOk ==
    /\ pc = "usage"
    /\ acked' = [acked EXCEPT ![gens[cur].fp] = cur]
    /\ pc' = "sweep"
    /\ kept' = { g \in Present : Valid(g) }
    /\ junk' = { g \in Present : ~Valid(g) }
    /\ UNCHANGED <<gens, latest, created, cur, victim, todo, outcome, rejected, torn, damages>>

Fail == outcome' = "other" /\ ToIdle

\* An error before the rename: the pending directory is removed if it can be.
CommitFails ==
    /\ pc \in {"move", "rename"}
    /\ Gone(cur) \/ UNCHANGED <<gens, torn, rejected>>
    /\ Fail
    /\ UNCHANGED <<latest, created, acked, damages>>

\* An error after the rename leaves everything; the pointer may be written even
\* though atomic_write reports an error (its directory sync comes last).
CommitFailsLate ==
    /\ pc \in {"pointer", "usage"}
    /\ \/ latest' = [latest EXCEPT ![gens[cur].fp] = cur]
       \/ UNCHANGED latest
    /\ Fail
    /\ UNCHANGED <<gens, created, history>>

-----------------------------------------------------------------------------
(* prune_instance *)

\* cleanup_pending: what an earlier crash left; an error is ignored.
SweepPending(g) ==
    /\ pc = "sweep"
    /\ g \in junk
    /\ gens[g].dir = "pending"
    /\ junk' = junk \ {g}
    /\ Gone(g) \/ UNCHANGED <<gens, torn, rejected>>
    /\ UNCHANGED <<latest, created, pc, cur, kept, victim, todo, outcome, acked, damages>>

\* load_generation failed: safe_remove_directory.
SweepInvalid(g) ==
    /\ pc = "sweep"
    /\ g \in junk
    /\ gens[g].dir = "final"
    /\ junk' = junk \ {g}
    /\ victim' = g
    /\ pc' = "remove"
    /\ torn' = torn \cup {g}
    /\ UNCHANGED <<disk, cur, kept, todo, outcome, acked, rejected, damages>>

\* One file of the directory is unlinked, in whatever order readdir gives ...
RemoveFile ==
    /\ pc = "remove"
    /\ \/ gens[victim].manifest /\ gens' = [gens EXCEPT ![victim].manifest = FALSE]
       \/ gens[victim].marker /\ gens' = [gens EXCEPT ![victim].marker = FALSE]
       \/ \E s \in gens[victim].payload : gens' = [gens EXCEPT ![victim].payload = @ \ {s}]
    /\ UNCHANGED <<latest, created, pc, cur, pruning, outcome, history>>

\* ... and the empty directory last.
RemoveDirectory ==
    /\ pc = "remove"
    /\ ~gens[victim].manifest /\ ~gens[victim].marker /\ gens[victim].payload = {}
    /\ Gone(victim)
    /\ victim' = 0
    /\ pc' = "sweep"
    /\ UNCHANGED <<latest, created, cur, junk, kept, todo, outcome, acked, damages>>

\* An unlink fails: the scan goes on.
RemoveFails ==
    /\ pc = "remove"
    /\ victim' = 0
    /\ pc' = "sweep"
    /\ UNCHANGED <<disk, cur, junk, kept, todo, outcome, history>>

SweepDone ==
    /\ pc = "sweep"
    /\ junk = {}
    /\ pc' = "evict"
    /\ UNCHANGED <<disk, cur, pruning, outcome, history>>

Contents(G) == UNION { {g} \X Data(gens[g].tokens) : g \in G }
TotalBytes(G) == Cardinality(Contents(G))

\* Mutant: eviction stops one byte late.
OverLimit_late == TotalBytes(kept) > Limit + 1

OverLimit == TotalBytes(kept) > Limit

\* Mutant: the new generation is not protected.
Evictable_any(g) == g \in kept

\* The new generation is explicitly protected.  The others go in the order of
\* their last use, by the wall clock and a file whose errors are ignored: here in
\* any order.
Evictable(g) == g \in kept \ {cur}

Evicted(g) == acked' = IF gens[g].fp = gens[cur].fp THEN acked ELSE Excused(g)

\* The directory goes; the first file unlinked has already made it invalid.
Evict(g) ==
    /\ pc = "evict"
    /\ OverLimit
    /\ Evictable(g)
    /\ Evicted(g)
    /\ Gone(g)
    /\ kept' = kept \ {g}
    /\ UNCHANGED <<latest, created, pc, cur, junk, victim, todo, outcome, damages>>

\* An unlink fails, after at least one file has gone: the whole prune fails.
EvictFails(g) ==
    /\ pc = "evict"
    /\ OverLimit
    /\ Evictable(g)
    /\ Evicted(g)
    /\ gens' = [gens EXCEPT ![g].manifest = FALSE]
    /\ torn' = torn \cup {g}
    /\ Fail
    /\ UNCHANGED <<latest, created, rejected, damages>>

EvictDone ==
    /\ pc = "evict"
    /\ ~OverLimit \/ \A g \in Gens : ~Evictable(g)
    /\ pc' = "reconcile"
    /\ todo' = Fingerprints
    /\ UNCHANGED <<disk, cur, junk, kept, victim, outcome, history>>

\* reconcile_latest_pointer, one fingerprint after the other.
Reconcile(fp) ==
    /\ pc = "reconcile"
    /\ fp \in todo
    /\ latest' = [latest EXCEPT ![fp] = Newest(ValidOf(fp))]
    /\ todo' = todo \ {fp}
    /\ UNCHANGED <<gens, created, pc, cur, junk, kept, victim, outcome, history>>

\* write_usage or a pointer update fails.
PruneFails ==
    /\ pc \in {"evict", "reconcile"}
    /\ Fail
    /\ UNCHANGED <<disk, history>>

SaveOk ==
    /\ pc = "reconcile"
    /\ todo = {}
    /\ outcome' = "saved"
    /\ ToIdle
    /\ UNCHANGED <<disk, history>>

-----------------------------------------------------------------------------
(* restore_or_cold *)

\* The engine could not restore it: reject_generation.
RestoreReject(fp) ==
    LET g == LoadLatest(fp)
    IN  /\ pc = "idle"
        /\ g # 0
        /\ gens' = [gens EXCEPT ![g].marker = TRUE]
        /\ rejected' = rejected \cup {g}
        /\ acked' = Excused(g)
        /\ UNCHANGED <<latest, created, pc, cur, pruning, outcome, torn, damages>>

-----------------------------------------------------------------------------
(* clear_instance, and the environment *)

Clear ==
    /\ pc = "idle"
    /\ gens' = [g \in Gens |-> NoGen]
    /\ latest' = [fp \in Fingerprints |-> 0]
    /\ acked' = [fp \in Fingerprints |-> 0]
    /\ rejected' = {}
    /\ torn' = {}
    /\ UNCHANGED <<created, pc, cur, pruning, outcome, damages>>

Crash ==
    /\ pc # "idle"
    /\ ToIdle
    /\ UNCHANGED <<disk, outcome, history>>

\* A finished generation is damaged while nothing uses the store; load_generation
\* does not tell a missing or changed payload from a missing or changed manifest.
Damage(g) ==
    /\ pc = "idle"
    /\ damages < MaxDamages
    /\ g \in Present
    /\ gens[g].dir = "final"
    /\ gens' = [gens EXCEPT ![g].manifest = FALSE]
    /\ acked' = Excused(g)
    /\ torn' = torn \cup {g}
    /\ damages' = damages + 1
    /\ UNCHANGED <<latest, created, pc, cur, pruning, outcome, rejected>>

-----------------------------------------------------------------------------

Init ==
    /\ gens = [g \in Gens |-> NoGen]
    /\ latest = [fp \in Fingerprints |-> 0]
    /\ created = 0
    /\ pc = "idle"
    /\ cur = 0
    /\ junk = {}
    /\ kept = {}
    /\ victim = 0
    /\ todo = {}
    /\ outcome = "other"
    /\ acked = [fp \in Fingerprints |-> 0]
    /\ rejected = {}
    /\ torn = {}
    /\ damages = 0

Save(fp) ==
    \/ \E saved \in [Slots -> 0 .. MaxTokens] : SaveBegin(fp, saved)
    \/ SaveAbandoned(fp)
    \/ SaveRefused(fp)

Commit ==
    \/ \E s \in Slots : MovePayload(s)
    \/ WriteManifest \/ RenameGeneration \/ UpdateLatest \/ CommitOk
    \/ CommitFails \/ CommitFailsLate

Prune ==
    \/ \E g \in Gens : SweepPending(g) \/ SweepInvalid(g)
    \/ RemoveFile \/ RemoveDirectory \/ RemoveFails \/ SweepDone
    \/ \E g \in Gens : Evict(g) \/ EvictFails(g)
    \/ EvictDone \/ PruneFails \/ SaveOk
    \/ \E fp \in Fingerprints : Reconcile(fp)

Next ==
    \/ \E fp \in Fingerprints : Save(fp)
    \/ Commit
    \/ Prune
    \/ \E fp \in Fingerprints : RestoreReject(fp)
    \/ Clear
    \/ Crash
    \/ \E g \in Gens : Damage(g)

Spec == Init /\ [][Next]_vars

-----------------------------------------------------------------------------
(* Properties *)

\* "A generation is published only after all selected payloads have been written
\* ... The latest pointer is replaced last": a renamed directory that nothing
\* has damaged or begun to remove is complete, and latest.json never names a
\* directory that is still being built, whatever crashed before.  The state on disk
\* keeps its type.
PublishedComplete ==
    /\ TypeOK
    /\ \A g \in Present : gens[g].dir = "final" /\ g \notin torn => Complete(g)
    /\ \A fp \in Fingerprints : latest[fp] \in Present => gens[latest[fp]].dir = "final"

\* A commit that returned Ok is durable: until it is damaged, rejected, cleared
\* or evicted for another fingerprint, the generation acknowledged last is valid
\* and load_latest returns it or a newer one - through failed and crashed saves
\* and half-finished prunes.
AckedSurvives ==
    \A fp \in Fingerprints :
        acked[fp] # 0 => Valid(acked[fp]) /\ LoadLatest(fp) >= acked[fp]

\* A save that reported success leaves the valid generations within the storage
\* limit; one the engine has rejected is only counted once it is removed.
StorageBounded ==
    pc = "idle" /\ outcome = "saved" =>
        TotalBytes({ g \in Present : Valid(g) } \ rejected) <= Limit

\* preserve_longer: whenever a newer generation becomes the one to restore, no
\* slot of it is shorter than in the one it replaces - also when it is published
\* late, by the reconciliation after a crash.  (For rejected ones that come back
\* see RejectedStaysOut.)
KeepsLonger ==
    [][ \A fp \in Fingerprints :
          LET g == LoadLatest(fp)
              h == LoadLatest(fp)'
          IN  PreserveLonger /\ g # 0 /\ h > g /\ {g, h} \cap rejected = {} =>
                \A s \in Slots : gens'[h].tokens[s] >= gens[g].tokens[s] ]_vars

\* "A rejected-generation marker prevents later retries of that file": between
\* operations a rejected generation is never valid again.
RejectedStaysOut == pc = "idle" => \A g \in rejected : ~Valid(g)

\* preserve_longer does "not replace a valid, compatible checkpoint": a save is
\* not refused where there is no valid checkpoint to keep.
SavesNotRefused == outcome # "refused"
==============================================================================
