---------------------------- MODULE KimiConcordia ----------------------------
(***************************************************************************)
(* The Kimi Concordia manager (zluda/src/impl/kimi_concordia.rs) with the  *)
(* hooks of the NVIDIA build that call it: allocations and frees           *)
(* (memory.rs), launches (function.rs) and the persistent router, which    *)
(* takes some launches away from it (persistent_router.rs).                *)
(*                                                                         *)
(* A tracked allocation is a region with a number, under which its pages   *)
(* go into the append-only log.  The manifest says which number belongs to *)
(* the n-th KV cache or the n-th adapter, and after a crash the new process*)
(* uses it to give a buffer its old number and its old contents back.      *)
(*                                                                         *)
(* A buffer is what the program means by an allocation, the same in every  *)
(* process.  All buffers have one page and one size, large enough to be    *)
(* tracked.  The contents of a page are the buffer it was written for and  *)
(* the time; of the log, only the last record of a region that a reader    *)
(* gets to counts, and whether a record is cut off, behind which no reader *)
(* gets.  One thread launches kernels, while others allocate, free and     *)
(* write.                                                                  *)
(* Regions with allocator metadata are not modelled.                       *)
(***************************************************************************)
EXTENDS Naturals, Sequences, FiniteSets

CONSTANTS Buffers,       \* the buffers of the program
          KernelsOf,     \* per buffer: the kernels launched on it
          Limits,        \* what max_regions may be set to
          Every,         \* checkpoint_every_launches
          MaxAllocs,     \* bound: regions in one process
          MaxWrites,     \* bound: writes to buffers, over all processes
          MaxCrashes,    \* bound: crashes
          MaxFaults      \* bound: crashes, restarts without restore_enabled, failures
                         \*   of the disk or the device, frees of regions and uses out
                         \*   of order, over all processes

\* Kernels as their names tell them apart.
Kernels == {"kv", "lora", "lora_kv"}

ASSUME KimiAssumption ==
    /\ KernelsOf \in [Buffers -> SUBSET Kernels]
    /\ Limits \subseteq Nat /\ Every \in Nat \ {0} /\ MaxAllocs \in Nat \ {0}
    /\ MaxWrites \in Nat /\ MaxCrashes \in Nat /\ MaxFaults \in Nat

VARIABLES
    mem,        \* per buffer: its page in device memory, NoPage when not allocated
    regions,    \* allocations, with what the manifest in memory says of each
    next,       \* next_region_id and next_allocation_index
    launches,   \* stateful_launches, up to multiples of Every
    max_regions, \* config: regions at a time, the same in every process
    restoring,  \* config: restore_enabled
    old,        \* restore_manifest
    call,       \* the thread that launches: where it is in launch_kernel
    file,       \* disk: the manifest
    log,        \* disk: per region number, the page of the last record of it that
                \*   read_committed returns
    torn,       \* disk: the log has a record that is cut off
    clock,      \* history: the writes so far
    ckpt,       \* history: per buffer, the time of its page at its last full checkpoint
    lost,       \* history: the buffers whose last page did not get into the log, or got
                \*   there behind a record that is cut off
    uses,       \* history: per kind, the buffers in the order of their first use as such
    before,     \* history: ckpt and uses at the death of the last process with regions
    spoiled,    \* history: what happened that a restore does not survive
    faults      \* history: the crashes, and the faults of any kind, so far

manager == <<regions, next, launches, max_regions, restoring, old>>
disk == <<file, log, torn>>
history == <<ckpt, lost, uses, before, spoiled>>
vars == <<mem, manager, call, disk, clock, history, faults>>

Kinds == {"KvCache", "Adapter"}
Ids == 1 .. MaxAllocs * (MaxCrashes + 1)
Times == 0 .. MaxWrites
Pages == [buf : Buffers, at : Times]
NoPage == [at |-> 0]
PagesOrNone == Pages \cup {NoPage}
NoRegion == [id |-> 0]
NoManifest == {NoRegion}
AtRest == [pc |-> "idle"]

Tracked(regs) == {b \in Buffers : regs[b] # NoRegion}

\* The manifest in memory follows allocations: upsert_manifest_for_ptr and
\* remove_ptr after every change.
Manifest(regs) ==
    {[id |-> regs[b].id, index |-> regs[b].index, kind |-> regs[b].kind,
      ordinal |-> regs[b].ordinal] : b \in Tracked(regs)}

NothingYet == [ckpt |-> [b \in Buffers |-> 0], uses |-> [k \in Kinds |-> <<>>]]

Init ==
    /\ mem = [b \in Buffers |-> NoPage]
    /\ regions = [b \in Buffers |-> NoRegion]
    /\ next = [id |-> 1, index |-> 1] /\ launches = 0
    /\ max_regions \in Limits /\ restoring \in BOOLEAN /\ old = NoManifest
    /\ call = AtRest
    /\ file = NoManifest /\ log = [i \in Ids |-> NoPage] /\ torn = FALSE
    /\ clock = 0
    /\ ckpt = NothingYet.ckpt /\ lost = {} /\ uses = NothingYet.uses
    /\ before = NothingYet
    /\ spoiled = {}
    /\ faults = [all |-> 0, crashes |-> 0]
-----------------------------------------------------------------------------
\* The faults F happen in a step.
Faults(F) ==
    /\ faults.all + Cardinality(F) <= MaxFaults
    /\ faults' = [faults EXCEPT !.all = @ + Cardinality(F)]

\* persist_manifest_best_effort: an error is logged, and the file is as it was
\* or cut off.  Cut off, it cannot be parsed and is no manifest.
Persist(regs, F) ==
    file' \in IF "manifest" \in F THEN {file, NoManifest} ELSE {Manifest(regs)}

\* restore_device_region writes the page of the last record of the region, if
\* there is one; otherwise the region still counts as not restored.  An error
\* is logged and the program goes on.
Restores(regs, b) == log[regs[b].id] # NoPage

Restore(regs, pages, b, wanted, F) ==
    IF wanted /\ Restores(regs, b) /\ "restore" \notin F
    THEN /\ regions' = [regs EXCEPT ![b].restored = TRUE]
         /\ mem' = [pages EXCEPT ![b] = log[regs[b].id]]
    ELSE regions' = regs /\ mem' = pages

\* The manager's lock is held all through a checkpoint.
Unlocked == call.pc \notin {"checkpoint", "scan", "stage"}

\* alloc_v2 and note_allocation.  A region whose number the manifest of the
\* last process could not say is restored at once, by its new number.
Alloc(b) ==
    /\ mem[b] = NoPage /\ Unlocked
    /\ LET pages == [mem EXCEPT ![b] = [buf |-> b, at |-> 0]]
       IN \/ /\ Cardinality(Tracked(regions)) >= max_regions
             /\ mem' = pages
             /\ UNCHANGED <<regions, next, file, spoiled, faults>>
          \/ /\ Cardinality(Tracked(regions)) < max_regions /\ next.index <= MaxAllocs
             /\ LET regs == [regions EXCEPT ![b] =
                                [id |-> next.id, index |-> next.index, kind |-> "Opaque",
                                 ordinal |-> next.index, init |-> FALSE,
                                 shadow |-> NoPage, restored |-> FALSE]]
                    wanted == restoring /\ old = NoManifest
                IN \E F \in SUBSET ({"manifest"} \cup IF wanted /\ Restores(regs, b)
                                                    THEN {"restore"} ELSE {}) :
                       /\ Faults(F)
                       /\ Persist(regs, F)
                       /\ Restore(regs, pages, b, wanted, F)
                       /\ spoiled' = spoiled \cup F
             /\ next' = [id |-> next.id + 1, index |-> next.index + 1]
    /\ UNCHANGED <<launches, max_regions, restoring, old, call, log, torn, clock, ckpt, lost,
                   uses, before>>

\* free_v2 and note_deallocation.  A buffer is not freed under a launch.
Free(b) ==
    /\ mem[b] # NoPage /\ Unlocked
    /\ call # AtRest => call.b # b
    /\ mem' = [mem EXCEPT ![b] = NoPage]
    /\ IF regions[b] = NoRegion
       THEN UNCHANGED <<regions, file, spoiled, faults>>
       ELSE \E F \in SUBSET {"manifest"} :
                /\ Faults(F \cup {"freed"})
                /\ regions' = [regions EXCEPT ![b] = NoRegion]
                /\ Persist(regions', F)
                /\ spoiled' = spoiled \cup F \cup {"freed"}
    /\ UNCHANGED <<next, launches, max_regions, restoring, old, call, log, torn, clock, ckpt, lost,
                   uses, before>>

\* A copy to the device, or a kernel: it runs on a stream and writes to its
\* buffer at any time after its launch, whoever is told of the launch.
Write(b) ==
    /\ mem[b] # NoPage /\ clock < MaxWrites
    /\ clock' = clock + 1
    /\ mem' = [mem EXCEPT ![b] = [buf |-> b, at |-> clock']]
    /\ UNCHANGED <<manager, call, disk, history, faults>>
-----------------------------------------------------------------------------
(* Launches.                                                               *)

\* region_kind_for_kernel and is_kimi_stateful_kernel_name
KindOf(kernel) == IF kernel = "kv" THEN "KvCache" ELSE "Adapter"
Stateful(kernel) == kernel # "lora"

OrdinalFromZero(b, kind) ==
    IF regions[b].kind = kind THEN regions[b].ordinal
    ELSE Cardinality({c \in Tracked(regions) \ {b} : regions[c].kind = kind})

OrdinalOfAllocation(b, kind) == regions[b].index

\* stable_key_for_region: a region keeps its place among those of its kind, and
\* a new one comes behind the others there are.
OrdinalOf(b, kind) ==
    IF regions[b].kind = kind THEN regions[b].ordinal
    ELSE Cardinality({c \in Tracked(regions) \ {b} : regions[c].kind = kind}) + 1

\* find_region_id: the first region of the old manifest with that key.
OldSpecs(kind, ordinal) == {s \in old \ NoManifest : s.kind = kind /\ s.ordinal = ordinal}
RegionIdOf(b, kind) ==
    LET specs == OldSpecs(kind, OrdinalOf(b, kind))
    IN IF specs = {} THEN regions[b].id
       ELSE (CHOOSE s \in specs : \A r \in specs : s.index <= r.index).id

\* note_kernel_pointers_inner
Noted(b, kernel) ==
    IF regions[b] = NoRegion THEN regions
    ELSE LET kind == KindOf(kernel)
         IN [regions EXCEPT ![b].kind = kind, ![b].ordinal = OrdinalOf(b, kind),
                            ![b].id = RegionIdOf(b, kind)]

\* What it means for the history.  Numbers and places are given by the order
\* of first use: a process must use its buffers in the order of the last one,
\* and each as one kind only.
Users(us) == {us[i] : i \in DOMAIN us}

Spoils(b, kernel) ==
    LET kind == KindOf(kernel)
        n == Len(uses[kind]) + 1
        reorders == n <= Len(before.uses[kind]) /\ before.uses[kind][n] # b
        others == {k \in Kinds \ {kind} : b \in Users(uses[k]) \cup Users(before.uses[k])}
    IN IF regions[b] = NoRegion \/ regions[b].kind = kind THEN {}
       ELSE (IF others # {} THEN {"kinds"} ELSE {})
            \cup (IF regions[b].kind = "Opaque" /\ reorders THEN {"order"} ELSE {})

NoteUse(b, kernel, regs, F) ==
    LET G == F \cup Spoils(b, kernel)
        renumbered == regions[b] # NoRegion /\ regions[b].init /\ regs[b].id # regions[b].id
    IN /\ Faults(G)
       /\ spoiled' = spoiled \cup G \cup (IF renumbered THEN {"number"} ELSE {})
       /\ lost' = IF renumbered THEN lost \cup {b} ELSE lost
       /\ uses' = IF regions[b] # NoRegion /\ regions[b].kind = "Opaque"
                  THEN [uses EXCEPT ![KindOf(kernel)] = Append(@, b)] ELSE uses

\* launch_kernel up to the launch: prepare_kernel_launch.
Prepare(b, kernel) ==
    /\ call.pc = "idle" /\ mem[b] # NoPage
    /\ LET regs == Noted(b, kernel)
           wanted == restoring /\ regs[b] # NoRegion /\ ~regs[b].restored
       IN \E F \in SUBSET ({"manifest"} \cup IF wanted /\ Restores(regs, b)
                                           THEN {"restore"} ELSE {}) :
              /\ NoteUse(b, kernel, regs, F)
              /\ Persist(regs, F)
              /\ Restore(regs, mem, b, wanted, F)
    /\ call' = [pc |-> "launch", b |-> b, kernel |-> kernel]
    /\ UNCHANGED <<next, launches, max_regions, restoring, old, log, torn, clock, ckpt, before>>

\* The launch fails, or try_route hands it to the persistent worker: the manager
\* hears no more of it.
Unobserved ==
    /\ call.pc = "launch"
    /\ call' = AtRest
    /\ UNCHANGED <<mem, manager, disk, clock, history, faults>>

\* observe_kernel_launch: every so many stateful launches a checkpoint of all
\* regions, unless the stream cannot be synchronized.
Observe ==
    LET regs == Noted(call.b, call.kernel)
        count == (launches + 1) % Every
        due == Stateful(call.kernel) /\ count = 0
    IN /\ call.pc = "launch"
       /\ launches' = IF Stateful(call.kernel) THEN count ELSE launches
       /\ \E F \in SUBSET {"manifest"} :
              /\ NoteUse(call.b, call.kernel, regs, F)
              /\ Persist(regs, F)
       /\ regions' = regs
       /\ \/ due /\ call' = [pc |-> "checkpoint", todo |-> Tracked(regs)]
          \/ call' = AtRest
       /\ UNCHANGED <<mem, next, max_regions, restoring, old, log, torn, clock, ckpt, before>>
-----------------------------------------------------------------------------
(* checkpoint_device_regions: region by region, an error ends it.          *)

Aborts == Faults({"checkpoint"}) /\ call' = AtRest

\* append_record writes the page of b, and the record is whole.  Behind a record
\* that is cut off read_committed does not find it.
Appends(b) ==
    IF torn
    THEN log' = log /\ lost' = lost \cup {b} /\ spoiled' = spoiled \cup {"hidden"}
    ELSE log' = [log EXCEPT ![regions[b].id] = mem[b]] /\ lost' = lost \ {b} /\ UNCHANGED spoiled

\* The next thing a checkpoint writes to the log may be on its way there.
Appending == \/ call.pc = "stage"
             \/ call.pc = "checkpoint" /\ \E b \in call.todo : ~regions[b].init

\* append_record, or what comes before it, fails, or the process dies: the file
\* is as it was or ends in a part of the record.
Tears == torn' \in IF Appending THEN {torn, TRUE} ELSE {torn}

InitializeEarly(b) ==
    /\ call.pc = "checkpoint" /\ b \in call.todo /\ ~regions[b].init
    /\ regions' = [regions EXCEPT ![b].init = TRUE, ![b].shadow = mem[b]]
    /\ \/ /\ Appends(b)
          /\ call' = [pc |-> "scan", b |-> b, todo |-> call.todo]
          /\ UNCHANGED <<torn, faults>>
       \/ Aborts /\ Tears /\ UNCHANGED <<log, lost, spoiled>>
    /\ UNCHANGED <<mem, next, launches, max_regions, restoring, old, file, clock, ckpt, uses,
                   before>>

\* initialize_device_region: the whole region into the shadow and the log.
Initialize(b) ==
    /\ call.pc = "checkpoint" /\ b \in call.todo /\ ~regions[b].init
    /\ \/ /\ Appends(b)
          /\ regions' = [regions EXCEPT ![b].init = TRUE, ![b].shadow = mem[b]]
          /\ call' = [pc |-> "scan", b |-> b, todo |-> call.todo]
          /\ UNCHANGED <<torn, faults>>
       \/ Aborts /\ Tears /\ UNCHANGED <<log, lost, spoiled, regions>>
    /\ UNCHANGED <<mem, next, launches, max_regions, restoring, old, file, clock, ckpt, uses,
                   before>>

\* scan_device_region, the scan by the worker: the shadow becomes what the page
\* is, and only a page that was different is staged.
Scan(b) ==
    /\ \/ call.pc = "checkpoint" /\ b \in call.todo /\ regions[b].init
       \/ call.pc = "scan" /\ call.b = b
    /\ \/ /\ regions' = [regions EXCEPT ![b].shadow = mem[b]]
          /\ call' = IF mem[b] = regions[b].shadow
                     THEN [pc |-> "checkpoint", todo |-> call.todo \ {b}]
                     ELSE [pc |-> "stage", b |-> b, todo |-> call.todo \ {b}]
          /\ UNCHANGED faults
       \/ Aborts /\ UNCHANGED regions
    /\ UNCHANGED <<mem, next, launches, max_regions, restoring, old, disk, clock, history>>

\* stage_aof_payload_via_worker copies the page again, as it is by then, and
\* append_record.
Stage ==
    /\ call.pc = "stage"
    /\ \/ /\ Appends(call.b)
          /\ call' = [pc |-> "checkpoint", todo |-> call.todo]
          /\ UNCHANGED <<torn, faults>>
       \/ /\ Aborts /\ Tears
          /\ lost' = lost \cup {call.b} /\ spoiled' = spoiled \cup {"delta"}
          /\ UNCHANGED log
    /\ UNCHANGED <<mem, manager, file, clock, ckpt, uses, before>>

Finish ==
    /\ call.pc = "checkpoint" /\ call.todo = {}
    /\ ckpt' = [b \in Buffers |-> IF regions[b] = NoRegion THEN ckpt[b]
                                   ELSE regions[b].shadow.at]
    /\ call' = AtRest
    /\ UNCHANGED <<mem, manager, disk, clock, lost, uses, before, spoiled, faults>>
-----------------------------------------------------------------------------
FirstIdAlwaysOne(manifest) == 1

\* KimiConcordiaManager::new: numbers go on behind the old ones.
FirstId(manifest) ==
    IF manifest = NoManifest THEN 1
    ELSE 1 + CHOOSE n \in {0} \cup {s.id : s \in manifest} : \A s \in manifest : s.id <= n

\* The process dies, perhaps while it writes the manifest or appends to the log,
\* and another one is started, with the same paths: open_append goes on behind
\* what is there.  Its new numbers may be in the log already, from a region that
\* was freed or from an earlier process.
Crash ==
    /\ faults.crashes < MaxCrashes
    /\ \E cut \in BOOLEAN, restore \in BOOLEAN :
           /\ cut => Unlocked
           /\ LET all == faults.all + 1 + (IF cut THEN 1 ELSE 0) + (IF restore THEN 0 ELSE 1)
              IN all <= MaxFaults /\ faults' = [all |-> all, crashes |-> faults.crashes + 1]
           /\ file' = IF cut THEN NoManifest ELSE file
           /\ restoring' = restore
           /\ old' = IF restore THEN file' ELSE NoManifest
           /\ next' = [id |-> FirstId(old'), index |-> 1]
           /\ spoiled' = spoiled \cup (IF cut THEN {"manifest"} ELSE {})
                                 \cup {"numbers" : i \in {j \in Ids : j >= next'.id
                                                                  /\ log[j] # NoPage}}
    /\ mem' = [b \in Buffers |-> NoPage] /\ regions' = [b \in Buffers |-> NoRegion]
    /\ launches' = 0 /\ call' = AtRest
    /\ before' = IF next.index = 1 THEN before ELSE [ckpt |-> ckpt, uses |-> uses]
    /\ ckpt' = NothingYet.ckpt /\ lost' = {} /\ uses' = NothingYet.uses
    /\ Tears
    /\ UNCHANGED <<max_regions, log, clock>>

Next ==
    \/ \E b \in Buffers : \/ Alloc(b) \/ Free(b) \/ Write(b) \/ Initialize(b) \/ Scan(b)
                          \/ \E kernel \in KernelsOf[b] : Prepare(b, kernel)
    \/ Unobserved \/ Observe \/ Stage \/ Finish \/ Crash

Spec == Init /\ [][Next]_vars
-----------------------------------------------------------------------------
TypeOK ==
    /\ mem \in [Buffers -> PagesOrNone]
    /\ \A b \in Tracked(regions) :
           /\ mem[b] # NoPage
           /\ regions[b].id \in Ids /\ regions[b].index \in 1 .. MaxAllocs
           /\ regions[b].kind \in Kinds \cup {"Opaque"}
           /\ regions[b].ordinal \in 1 .. MaxAllocs
           /\ regions[b].init <=> regions[b].shadow # NoPage
    /\ next.id \in 1 .. MaxAllocs * (MaxCrashes + 1) + 1 /\ next.index \in 1 .. MaxAllocs + 1
    /\ launches \in 0 .. Every - 1 /\ max_regions \in Limits /\ restoring \in BOOLEAN
    /\ call.pc \in {"idle", "launch", "checkpoint", "scan", "stage"}
    /\ log \in [Ids -> PagesOrNone] /\ torn \in BOOLEAN
    /\ clock \in Times /\ ckpt \in [Buffers -> Times]
    /\ lost \subseteq Buffers
    /\ spoiled \subseteq {"freed", "kinds", "order", "manifest", "restore", "delta", "number",
                          "numbers", "hidden"}

\* restore_device_region has written the region's last record to the device.
Restored(b) == regions[b] # NoRegion /\ regions[b].restored

\* The places of regions in the order of use are those of another process,
\* and some have been given twice: a free or a buffer of two kinds does that.
KeysMixed == old # NoManifest /\ spoiled \cap {"freed", "kinds"} # {}

\* Two regions of a process never share a number, so that the pages of one do
\* not pass for pages of the other.
RegionIdsDistinct ==
    \/ KeysMixed
    \/ \A b \in Tracked(regions) : \A c \in Buffers \ {b} : regions[b].id # regions[c].id

\* What the log says of a region is not older than its shadow: a page that a
\* scan takes for unchanged is in the log as it is, for read_committed to find.
\* Only a delta that could not be appended, a page appended behind a record that
\* is cut off, or a number that changed after the first snapshot leaves a shadow
\* that the log does not back, until the page changes again and is appended.
LogBacksShadow ==
    \/ KeysMixed
    \/ \A b \in Tracked(regions) \ lost :
           regions[b].init /\ ~(call.pc = "stage" /\ call.b = b)
           => log[regions[b].id].at >= regions[b].shadow.at

\* What a process gets back for a buffer is a page of that same buffer, and
\* where the process before it used the buffer too, one from its last completed
\* checkpoint or a later one, in whatever order the two processes made their
\* allocations.  Each thing in spoiled breaks this by itself: a region that is
\* freed, a buffer used as two kinds, a first use out of order, a manifest that
\* is not written, a restore or an append of a delta that fails, a number that
\* changes after the first snapshot, new numbers that are in the log already, a
\* record behind one that a failed append or a crash cut off.
RestoresOwnPages ==
    [][\A b \in Buffers :
           spoiled' = {} /\ Restored(b)' /\ ~Restored(b)
           => /\ mem'[b].buf = b
              /\ (\E k \in Kinds : b \in Users(before.uses[k]))
                 => mem'[b].at >= before.ckpt[b]]_vars
=============================================================================
