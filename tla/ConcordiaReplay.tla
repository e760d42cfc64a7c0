--------------------------- MODULE ConcordiaReplay ----------------------------
(***************************************************************************)
(* The loops of a replay: read_committed and apply_records_to_region of    *)
(* zluda/src/impl/concordia_delta.rs, as recursive functions over the      *)
(* cells of the file, and the property that they compute the last-writer   *)
(* replay of ConcordiaAof, with which the actions and the invariants of    *)
(* ConcordiaRuntime are stated.                                            *)
(***************************************************************************)
EXTENDS ConcordiaRuntime

\* read_committed: every record up to the first one that is not whole.  read[n] is
\* what the loop has after n cells; one that is not whole has ended it.
ReadCommitted(cells) ==
    LET read[n \in 0 .. Len(cells)] ==
            IF n = 0 THEN << >>
            ELSE IF Len(read[n - 1]) = n - 1 /\ cells[n].whole
                 THEN Append(read[n - 1], cells[n])
                 ELSE read[n - 1]
    IN  read[Len(cells)]

\* The loop body of apply_records_to_region for one record of the region.
ApplyRecord(target, data) ==
    [b \in DOMAIN target |-> IF b \in DOMAIN data THEN data[b] ELSE target[b]]

\* The reverse of the file's order: what a replay must not do.
ApplyNewestFirst(region, target, records) ==
    LET buffer[n \in 1 .. Len(records) + 1] ==
            IF n > Len(records) THEN target
            ELSE IF records[n].region = region
                 THEN ApplyRecord(buffer[n + 1], records[n].data)
                 ELSE buffer[n + 1]
    IN  buffer[1]

\* apply_records_to_region on records that all fit: the records of the region in
\* file order, each one overwriting the bytes it covers.
ApplyRecords(region, target, records) ==
    LET buffer[n \in 0 .. Len(records)] ==
            IF n = 0 THEN target
            ELSE IF records[n].region = region
                 THEN ApplyRecord(buffer[n - 1], records[n].data)
                 ELSE buffer[n - 1]
    IN  buffer[Len(records)]

\* The bounds test of apply_records_to_region, over all its iterations.
RecordsFit(region, target, records) ==
    \A i \in DOMAIN records :
        records[i].region = region => DOMAIN records[i].data \subseteq DOMAIN target

-----------------------------------------------------------------------------
\* apply_records_to_region over read_committed computes the last-writer replay the
\* other properties are stated with, and its bounds test is the one they use.
ReplayIsLastWriter ==
    \A r \in 1 .. MaxRegions, n \in Lens, v \in Bytes :
        LET records == ReadCommitted(file)
            target == [b \in 0 .. n - 1 |-> v]
        IN  /\ RecordsFit(r, target, records) = ReplayFits(file, r, target)
            /\ RecordsFit(r, target, records)
                  => ApplyRecords(r, target, records) = Replayed(file, r, target)
=============================================================================
