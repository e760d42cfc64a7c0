----------------------------- MODULE ConcordiaAof -----------------------------
(***************************************************************************)
(* The append-only file (AOF) of zluda/src/impl/concordia_delta.rs: what a *)
(* record is, what read_committed returns for a file, and what replaying   *)
(* the records onto a buffer does.  No state: the modules that own a log   *)
(* file (ConcordiaRuntime) keep it as a variable and use these operators.  *)
(*                                                                         *)
(* A byte string is a function from absolute byte offsets to byte values,  *)
(* so a page payload carries its own offset: DOMAIN data is the interval   *)
(* offset .. offset + payload.len() - 1.  The file is the sequence of what *)
(* the append_record calls left in it: a whole record, or Torn for a call  *)
(* whose write_all sequence stopped after at least one byte and before the *)
(* commit marker.  Field widths, magic numbers and the FNV-1a checksum are *)
(* abstracted to their purpose: whatever follows an incomplete record is   *)
(* read out of frame and fails the magic, length, checksum or commit test. *)
(***************************************************************************)
EXTENDS Integers, Sequences

\* AofRecord, with its commit marker.  The epoch is written to the file and never
\* used by a replay.
Record(epoch, region, data) ==
    [whole |-> TRUE, epoch |-> epoch, region |-> region, data |-> data]

\* An incomplete record: whatever its bytes are, no commit marker ends it.
Torn == [whole |-> FALSE, epoch |-> 0, region |-> 0, data |-> << >>]

\* The bytes of the page that starts at offset, in a buffer of len bytes: the
\* last page may be short.
PageBytes(offset, len, PageSize) ==
    {b \in 0 .. len - 1 : offset <= b /\ b < offset + PageSize}

PageOffsets(len, PageSize) == {o \in 0 .. len - 1 : o % PageSize = 0}

-----------------------------------------------------------------------------
(***************************************************************************)
(* The replay without its loops: the value of a byte is the one in the     *)
(* last readable record of the region that covers it, and the target's own *)
(* where no readable record does.  ConcordiaReplay has the loops and the   *)
(* property that they compute this.                                        *)
(***************************************************************************)
Readable(file, i) == \A j \in 1 .. i : file[j].whole

Covers(file, i, region, b) ==
    /\ Readable(file, i)
    /\ file[i].region = region
    /\ b \in DOMAIN file[i].data

LastCover(file, i, region, b) ==
    /\ Covers(file, i, region, b)
    /\ \A j \in i + 1 .. Len(file) : ~ Covers(file, j, region, b)

\* A replay onto a buffer holding base gives byte b this value.  Where base does
\* not say what b holds, only a record can.
LogYields(file, region, b, base, value) ==
    \/ \E i \in 1 .. Len(file) :
          LastCover(file, i, region, b) /\ file[i].data[b] = value
    \/ /\ \A i \in 1 .. Len(file) : ~ LastCover(file, i, region, b)
       /\ b \in DOMAIN base
       /\ base[b] = value

Replayed(file, region, target) ==
    [b \in DOMAIN target |->
        IF \E i \in 1 .. Len(file) : LastCover(file, i, region, b)
        THEN file[CHOOSE i \in 1 .. Len(file) : LastCover(file, i, region, b)].data[b]
        ELSE target[b]]

\* The bounds test of apply_records_to_region passes for every readable record.
ReplayFits(file, region, target) ==
    \A i \in 1 .. Len(file) :
        Readable(file, i) /\ file[i].region = region
            => DOMAIN file[i].data \subseteq DOMAIN target
=============================================================================
