--------------------------- MODULE ConcordiaRuntime ---------------------------
(***************************************************************************)
(* The delta-checkpoint runtime: DeltaCheckpointState and AofDiskLog of    *)
(* zluda/src/impl/concordia_delta.rs as ConcordiaRuntime and its C entry   *)
(* points (zluda/src/impl/concordia_runtime.rs) drive them, over process   *)
(* crashes, restarts and failing writes.                                   *)
(*                                                                         *)
(* Every entry point but the C restore runs under the global mutex, so the *)
(* operations are atomic with respect to each other; `call' is the one     *)
(* checkpoint whose append_delta loop is under way, so that a crash, an    *)
(* I/O error or an unlocked reader can meet the file between two writes.   *)
(* The application's memory is an input of each call.                      *)
(***************************************************************************)
EXTENDS ConcordiaAof, FiniteSets

CONSTANTS PageSize,     \* DeltaCheckpointState::page_size
          Bytes,        \* the values a byte can have
          Lens,         \* the lengths of the buffers the application uses
          MaxRegions,   \* bound: regions registered by one process
          MaxEpoch,     \* bound: checkpoints by one process
          MaxCells,     \* bound: records in the log file
          MaxRestarts,  \* bound: crashes
          MaxIoErrors   \* bound: failed append_record calls

ASSUME ConstantsAssumption ==
    /\ PageSize \in Nat \ {0}
    /\ Lens \subseteq Nat
    /\ MaxRegions \in Nat
    /\ MaxEpoch \in Nat
    /\ MaxCells \in Nat
    /\ MaxRestarts \in Nat
    /\ MaxIoErrors \in Nat

Images == UNION {[0 .. n - 1 -> Bytes] : n \in Lens}

VARIABLES
    regions,          \* DeltaCheckpointState::regions; a region's id is its index
    next_epoch,       \* DeltaCheckpointState::next_epoch
    aof,              \* is ConcordiaRuntime::aof Some?
    file,             \* the cells of the AOF (ConcordiaAof)
    call,             \* NoCall, or the checkpoint whose append_delta loop runs
    ret,              \* the region and result of the last completed checkpoint
    restarts, ioErrors,
    track             \* per region, what the application may expect of a replay

(***************************************************************************)
(* track[r] is history, not program state:                                 *)
(*   base   the buffer a replay of region r starts from;                   *)
(*   saved  the newest content handed over for a checkpoint (a bitmap      *)
(*          region: the bytes of the pages its bitmap flagged);            *)
(*   lost   the bytes whose newest handed-over value is not readable: its  *)
(*          append failed, it follows a torn record, no log is open, or    *)
(*          the log holds an earlier process's value for the same id.      *)
(***************************************************************************)

vars == <<regions, next_epoch, aof, file, call, ret, restarts, ioErrors, track>>

Registered == 1 .. Len(regions)
NoCall == [region |-> 0, epoch |-> 0, data |-> << >>, todo |-> {}, writing |-> FALSE,
           before |-> << >>]
Idle == call.region = 0
BytesOf(r) == 0 .. regions[r].len - 1

\* The bytes of the pages of region r that start at offsets.
BytesAt(r, offsets) == UNION {PageBytes(o, regions[r].len, PageSize) : o \in offsets}

Init ==
    /\ regions = << >>
    /\ next_epoch = 1
    /\ aof \in BOOLEAN
    /\ file = << >>
    /\ call = NoCall
    /\ ret = [region |-> 0, ok |-> TRUE]
    /\ restarts = 0
    /\ ioErrors = 0
    /\ track = << >>
-----------------------------------------------------------------------------
(***************************************************************************)
(* Registration                                                            *)
(***************************************************************************)
Stale(r, initial) ==
    {b \in DOMAIN initial : ~ LogYields(file, r, b, initial, initial[b])}

\* register_opaque_host_region: the shadow is a copy of the initial content,
\* which is not logged.
RegisterOpaque(n, initial) ==
    /\ Idle
    /\ Len(regions) < MaxRegions
    /\ regions' = Append(regions, [kind |-> "OpaqueShadow", len |-> n, shadow |-> initial])
    /\ track' = Append(track, [base |-> initial, saved |-> initial,
                               lost |-> Stale(Len(regions) + 1, initial)])
    /\ UNCHANGED <<next_epoch, aof, file, call, ret, restarts, ioErrors>>

\* register_allocator_bitmap_region: the content is never seen before a bitmap
\* flags it.
RegisterBitmap(n) ==
    /\ Idle
    /\ Len(regions) < MaxRegions
    /\ regions' = Append(regions, [kind |-> "AllocatorBitmap", len |-> n, shadow |-> << >>])
    /\ track' = Append(track, [base |-> << >>, saved |-> << >>, lost |-> {}])
    /\ UNCHANGED <<next_epoch, aof, file, call, ret, restarts, ioErrors>>
-----------------------------------------------------------------------------
(***************************************************************************)
(* Checkpoints: create_host_delta or create_bitmap_delta, then append_delta*)
(* one record per dirty page.  Both are one call under the runtime's lock. *)
(***************************************************************************)
Accepts(r, kind, n) ==
    /\ r \in Registered
    /\ regions[r].kind = kind
    /\ regions[r].len = n

\* An unknown region, one of the other kind, or one of another size: Err, and
\* nothing changes.
RejectCheckpoint(r, kind, n) ==
    /\ Idle
    /\ ~ Accepts(r, kind, n)
    /\ ret' = [region |-> r, ok |-> FALSE]
    /\ UNCHANGED <<regions, next_epoch, aof, file, call, restarts, ioErrors, track>>

\* The content saved, with the bytes handed replaced by those of current.
Handed(saved, current, handed) ==
    [b \in DOMAIN saved \union handed |-> IF b \in handed THEN current[b] ELSE saved[b]]

StartAppendSameEpoch(r, current, dirty, handed) ==
    /\ next_epoch <= MaxEpoch
    /\ Len(file) + Cardinality(dirty) <= MaxCells
    /\ next_epoch' = next_epoch
    /\ call' = [region |-> r, epoch |-> next_epoch, data |-> current,
                todo |-> IF aof THEN dirty ELSE {}, writing |-> FALSE,
                before |-> track[r].saved]
    /\ UNCHANGED track

\* The delta goes to append_delta when a log is open and is dropped otherwise.
StartAppend(r, current, dirty, handed) ==
    /\ next_epoch <= MaxEpoch
    /\ Len(file) + Cardinality(dirty) <= MaxCells
    /\ next_epoch' = next_epoch + 1
    /\ call' = [region |-> r, epoch |-> next_epoch, data |-> current,
                todo |-> IF aof THEN dirty ELSE {}, writing |-> FALSE,
                before |-> track[r].saved]
    /\ track' = [track EXCEPT ![r] =
                    [base |-> track[r].base,
                     saved |-> Handed(track[r].saved, current, handed),
                     lost |-> track[r].lost \union IF aof THEN {} ELSE BytesAt(r, dirty)]]

DirtyByFirstByte(r, current) ==
    {o \in PageOffsets(regions[r].len, PageSize) : current[o] # regions[r].shadow[o]}

\* The pages that differ from the shadow.
DirtyPages(r, current) ==
    {o \in PageOffsets(regions[r].len, PageSize) :
        \E b \in PageBytes(o, regions[r].len, PageSize) :
            current[b] # regions[r].shadow[b]}

BeginKeepingShadow(r, n, current) ==
    /\ Idle
    /\ Accepts(r, "OpaqueShadow", n)
    /\ StartAppend(r, current, DirtyPages(r, current), DOMAIN current)
    /\ UNCHANGED <<regions, aof, file, ret, restarts, ioErrors>>

\* create_host_delta: the shadow takes the dirty pages before any is appended.
BeginHostCheckpoint(r, n, current) ==
    /\ Idle
    /\ Accepts(r, "OpaqueShadow", n)
    /\ LET dirty == DirtyPages(r, current)
       IN  /\ regions' = [regions EXCEPT ![r].shadow =
                             [b \in BytesOf(r) |-> IF b \in BytesAt(r, dirty)
                                                   THEN current[b] ELSE @[b]]]
           /\ StartAppend(r, current, dirty, DOMAIN current)
    /\ UNCHANGED <<aof, file, ret, restarts, ioErrors>>

\* create_bitmap_delta: the pages whose bit is set; pages beyond the end of the
\* bitmap count as clean, which the choice of the set includes.
BeginBitmapCheckpoint(r, n, current, dirty) ==
    /\ Idle
    /\ Accepts(r, "AllocatorBitmap", n)
    /\ dirty \subseteq PageOffsets(n, PageSize)
    /\ StartAppend(r, current, dirty, BytesAt(r, dirty))
    /\ UNCHANGED <<regions, aof, file, ret, restarts, ioErrors>>

\* append_record for the next page, in offset order, up to the commit marker.
WriteRecord ==
    /\ ~ Idle /\ call.todo # {} /\ ~ call.writing
    /\ file' = Append(file, Torn)
    /\ call' = [call EXCEPT !.writing = TRUE]
    /\ UNCHANGED <<regions, next_epoch, aof, ret, restarts, ioErrors, track>>

PageDataShort(r, o, current) ==
    [b \in PageBytes(o, regions[r].len - 1, PageSize) |-> current[b]]

PageData(r, o, current) ==
    [b \in PageBytes(o, regions[r].len, PageSize) |-> current[b]]

\* The commit marker reaches the file: append_record returns Ok.
CommitRecord ==
    /\ ~ Idle /\ call.writing
    /\ \E o \in call.todo :
          LET r == call.region
              page == PageBytes(o, regions[r].len, PageSize)
          IN  /\ \A p \in call.todo : o <= p
              /\ file' = [file EXCEPT ![Len(file)] =
                             Record(call.epoch, r, PageData(r, o, call.data))]
              /\ call' = [call EXCEPT !.todo = @ \ {o}, !.writing = FALSE]
              /\ track' = [track EXCEPT ![r].lost = IF Readable(file, Len(file) - 1)
                                                    THEN @ \ page ELSE @ \union page]
    /\ UNCHANGED <<regions, next_epoch, aof, ret, restarts, ioErrors>>

\* A write_all fails, with part of the record in the file (writing) or none of
\* it.  append_delta stops at the first error and the checkpoint returns Err;
\* the shadow keeps the pages that were not appended.
AppendError ==
    /\ ~ Idle /\ call.todo # {}
    /\ ioErrors < MaxIoErrors
    /\ ioErrors' = ioErrors + 1
    /\ ret' = [region |-> call.region, ok |-> FALSE]
    /\ call' = NoCall
    /\ track' = [track EXCEPT ![call.region].lost =
                    @ \union BytesAt(call.region, call.todo)]
    /\ UNCHANGED <<regions, next_epoch, aof, file, restarts>>

FinishCheckpoint ==
    /\ ~ Idle /\ call.todo = {}
    /\ ret' = [region |-> call.region, ok |-> TRUE]
    /\ call' = NoCall
    /\ UNCHANGED <<regions, next_epoch, aof, file, restarts, ioErrors, track>>
-----------------------------------------------------------------------------
(***************************************************************************)
(* Restore, crash and restart                                              *)
(***************************************************************************)

\* restore_host_region_from_aof_path on the runtime's own log: replay the
\* committed records onto target, then refresh the shadow from it.  From here on
\* the application's content is what the replay produced.
RestoreHostRegion(r, n, target) ==
    /\ Idle
    /\ Accepts(r, "OpaqueShadow", n)
    /\ ReplayFits(file, r, target)
    /\ LET restored == Replayed(file, r, target)
       IN  /\ regions' = [regions EXCEPT ![r].shadow = restored]
           /\ track' = [track EXCEPT ![r] = [base |-> target, saved |-> restored,
                                             lost |-> {}]]
    /\ UNCHANGED <<next_epoch, aof, file, call, ret, restarts, ioErrors>>

\* The process dies, in any state, and a new one starts.  global_runtime opens
\* the same log for appending (or runs without one when that fails), with no
\* region and with region ids and epochs counted from 1 again.
RestartTruncating ==
    /\ restarts < MaxRestarts
    /\ restarts' = restarts + 1
    /\ regions' = << >> /\ track' = << >>
    /\ next_epoch' = 1
    /\ aof' \in BOOLEAN
    /\ file' = << >>
    /\ call' = NoCall
    /\ ret' = [region |-> 0, ok |-> TRUE]
    /\ UNCHANGED ioErrors

CrashRestart ==
    /\ restarts < MaxRestarts
    /\ restarts' = restarts + 1
    /\ regions' = << >> /\ track' = << >>
    /\ next_epoch' = 1
    /\ aof' \in BOOLEAN
    /\ call' = NoCall
    /\ ret' = [region |-> 0, ok |-> TRUE]
    /\ UNCHANGED <<file, ioErrors>>
-----------------------------------------------------------------------------
Next ==
    \/ \E n \in Lens :
          \/ RegisterBitmap(n)
          \/ \E image \in [0 .. n - 1 -> Bytes] : RegisterOpaque(n, image)
          \/ \E r \in 1 .. MaxRegions :
                \/ \E kind \in {"OpaqueShadow", "AllocatorBitmap"} :
                      RejectCheckpoint(r, kind, n)
                \/ \E image \in [0 .. n - 1 -> Bytes] :
                      \/ BeginHostCheckpoint(r, n, image)
                      \/ RestoreHostRegion(r, n, image)
                      \/ \E dirty \in SUBSET PageOffsets(n, PageSize) :
                            BeginBitmapCheckpoint(r, n, image, dirty)
    \/ WriteRecord
    \/ CommitRecord
    \/ AppendError
    \/ FinishCheckpoint
    \/ CrashRestart

Spec == Init /\ [][Next]_vars
-----------------------------------------------------------------------------
(***************************************************************************)
(* Properties                                                              *)
(***************************************************************************)
Region == [kind : {"OpaqueShadow", "AllocatorBitmap"}, len : Lens,
           shadow : Images \union {<< >>}]

PageDomains == UNION {{PageBytes(o, n, PageSize) : o \in PageOffsets(n, PageSize)} : n \in Lens}
Pages == UNION {[page -> Bytes] : page \in PageDomains}

\* The types of the runtime's state: a shadow covers exactly its region, a record
\* holds a page, and a running append is for pages of a registered region, under
\* an epoch that no later checkpoint of the process gets.
TypeOK ==
    /\ regions \in Seq(Region)
    /\ \A r \in Registered :
          regions[r].kind = "OpaqueShadow" => regions[r].shadow \in [BytesOf(r) -> Bytes]
    /\ next_epoch \in Nat \ {0}
    /\ aof \in BOOLEAN
    /\ file \in Seq([whole : BOOLEAN, epoch : Nat, region : Nat,
                     data : Pages \union {<< >>}])
    /\ call.region \in Registered \union {0}
    /\ ~ Idle => /\ call.data \in [BytesOf(call.region) -> Bytes]
                 /\ call.todo \subseteq PageOffsets(regions[call.region].len, PageSize)
                 /\ aof \/ call.todo = {}
                 /\ call.epoch \in 1 .. next_epoch - 1
    /\ restarts \in Nat /\ ioErrors \in Nat
    /\ Len(track) = Len(regions)

\* The bytes of region r that the running append_delta still has to write.
Pending(r) == IF call.region = r THEN BytesAt(r, call.todo) ELSE {}

\* The promise of the log (append_delta, read_committed and
\* apply_records_to_region together): at every instant, so also wherever a crash
\* strikes, replaying the log onto the registered content of a region yields the
\* content last handed over for a checkpoint, except for the bytes still being
\* appended and the bytes that a failed append, a torn record in front of them, a
\* missing log or an unrelated earlier process made lost.
LogReproducesCheckpoint ==
    \A r \in Registered : \A b \in DOMAIN track[r].saved :
        b \notin track[r].lost \union Pending(r)
            => LogYields(file, r, b, track[r].base, track[r].saved[b])

\* While nothing fails nothing is lost: in the first process of a log, with no
\* write error, every byte of every region replays to the content last handed
\* over, but for the pages the running append_delta has not reached.
FaultFreeReplayIsExact ==
    aof /\ restarts = 0 /\ ioErrors = 0 =>
        \A r \in Registered : \A b \in DOMAIN track[r].saved \ Pending(r) :
            LogYields(file, r, b, track[r].base, track[r].saved[b])

\* A restore that meets a checkpoint half-way (a crash during append_delta, or the
\* C restore, which takes no lock) sees each page of an opaque region entirely as
\* it was before that checkpoint or entirely as the checkpoint saved it.
PagesReplayWhole ==
    ~ Idle /\ regions[call.region].kind = "OpaqueShadow" =>
        LET r == call.region
        IN  \A o \in PageOffsets(regions[r].len, PageSize) :
               LET page == PageBytes(o, regions[r].len, PageSize)
               IN  page \intersect track[r].lost = {} =>
                      \/ \A b \in page : LogYields(file, r, b, track[r].base, call.before[b])
                      \/ \A b \in page : LogYields(file, r, b, track[r].base, call.data[b])

\* No step takes a committed record away from read_committed or changes it: the
\* log is append-only, across restarts (open_append) and behind torn records.
CommittedRecordsStay ==
    [][\A i \in 1 .. Len(file) :
          Readable(file, i) => i <= Len(file') /\ file'[i] = file[i]]_vars

\* README.md: "committed-record replay and truncated-suffix tolerance".  Every
\* record whose append_record returned Ok is a record read_committed returns.
CommittedRecordsReplay ==
    \A i \in 1 .. Len(file) : file[i].whole => Readable(file, i)

\* README.md: "kernel/NCCL boundary -> delta checkpoint -> rank-scoped AOF log".
\* A checkpoint of a region with a shadow that returned Ok, with a log open, left
\* the region's content in the log: a replay would restore it.
OkCheckpointRestores ==
    (/\ Idle /\ ret.ok /\ aof
     /\ ret.region \in Registered
     /\ regions[ret.region].kind = "OpaqueShadow") =>
        \A b \in DOMAIN track[ret.region].saved :
            LogYields(file, ret.region, b, track[ret.region].base, track[ret.region].saved[b])
=============================================================================
