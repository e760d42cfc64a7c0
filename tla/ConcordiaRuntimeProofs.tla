------------------------ MODULE ConcordiaRuntimeProofs ------------------------
(***************************************************************************)
(* Proofs about ConcordiaRuntime for every page size, byte alphabet, set   *)
(* of buffer lengths and every value of the bounds.                        *)
(***************************************************************************)
EXTENDS ConcordiaReplay, WellFoundedInduction, TLAPS

\* Most leaves are first-order reasoning; those with arithmetic cite SMT.
USE Zenon

\* Every byte of a buffer lies in one of the pages the loops step through.
LEMMA PagesCover ==
    ASSUME NEW len \in Nat, NEW b \in 0 .. len - 1
    PROVE  \E o \in PageOffsets(len, PageSize) : b \in PageBytes(o, len, PageSize)
<1> DEFINE o == b - (b % PageSize)
<1>1. PageSize \in Nat /\ PageSize > 0
  BY ConstantsAssumption, SMT
<1>2. b % PageSize \in 0 .. PageSize - 1
  BY <1>1, SMT
<1>3. b % PageSize <= b
  BY <1>1, SMT
<1>4. o % PageSize = 0
  BY <1>1, SMT
<1>5. QED
  BY <1>1, <1>2, <1>3, <1>4, SMT DEF PageOffsets, PageBytes

-----------------------------------------------------------------------------
(***************************************************************************)
(* What a change of the file does to a replay                              *)
(***************************************************************************)

\* An incomplete record at the end of the file changes no replay.
LEMMA TornEndIsIgnored ==
    ASSUME NEW S, NEW f \in Seq(S), NEW cell, ~ cell.whole,
           NEW r, NEW b, NEW base, NEW v
    PROVE  LogYields(Append(f, cell), r, b, base, v) <=> LogYields(f, r, b, base, v)
<1> DEFINE g == Append(f, cell)
<1>1. /\ Len(f) \in Nat /\ Len(g) = Len(f) + 1
      /\ \A i \in 1 .. Len(f) : g[i] = f[i]
      /\ g[Len(f) + 1] = cell
  BY SMT
<1> HIDE DEF g
<1>2. \A i \in 1 .. Len(f) : Readable(g, i) <=> Readable(f, i)
  BY <1>1, SMT DEF Readable
<1>3. ~ Covers(g, Len(f) + 1, r, b)
  BY <1>1, SMT DEF Covers, Readable
<1>4. \A i \in 1 .. Len(f) : Covers(g, i, r, b) <=> Covers(f, i, r, b)
  BY <1>1, <1>2 DEF Covers
<1>5. \A i \in 1 .. Len(f) : LastCover(g, i, r, b) <=> LastCover(f, i, r, b)
  BY <1>1, <1>3, <1>4, SMT DEF LastCover
<1>6. ~ LastCover(g, Len(f) + 1, r, b)
  BY <1>3 DEF LastCover
<1>7. LogYields(g, r, b, base, v) <=> LogYields(f, r, b, base, v)
  BY <1>1, <1>5, <1>6, SMT DEF LogYields
<1>8. QED
  BY <1>7 DEF g

\* Completing the incomplete record at the end of the file gives the bytes it
\* covers its values when everything before it is whole, and changes no other
\* byte and, behind a torn record, nothing at all.
LEMMA CommitAtEnd ==
    ASSUME NEW S, NEW f \in Seq(S), Len(f) > 0, ~ f[Len(f)].whole,
           NEW cell, cell.whole, NEW r, NEW b, NEW base, NEW v
    PROVE  LET g == [f EXCEPT ![Len(f)] = cell]
               covered == /\ Readable(f, Len(f) - 1)
                          /\ cell.region = r
                          /\ b \in DOMAIN cell.data
           IN  /\ ~ covered => (LogYields(g, r, b, base, v) <=> LogYields(f, r, b, base, v))
               /\ covered => LogYields(g, r, b, base, cell.data[b])
<1> DEFINE g == [f EXCEPT ![Len(f)] = cell]
           covered == /\ Readable(f, Len(f) - 1)
                      /\ cell.region = r
                      /\ b \in DOMAIN cell.data
           n == Len(f)
<1>1. /\ n \in Nat /\ n > 0 /\ Len(g) = n
      /\ \A i \in 1 .. n - 1 : g[i] = f[i]
      /\ g[n] = cell
  BY SMT
<1> HIDE DEF g, n
<1>2. \A i \in 1 .. n - 1 : Readable(g, i) <=> Readable(f, i)
  BY <1>1, SMT DEF Readable
<1>3. Readable(g, n) <=> Readable(f, n - 1)
  BY <1>1, SMT DEF Readable
<1>4. ~ Covers(f, n, r, b)
  BY <1>1, SMT DEF Covers, Readable, n
<1>5. Covers(g, n, r, b) <=> covered
  BY <1>1, <1>3 DEF Covers, n
<1>6. \A i \in 1 .. n - 1 : Covers(g, i, r, b) <=> Covers(f, i, r, b)
  BY <1>1, <1>2 DEF Covers
<1>7. ASSUME ~ covered PROVE LogYields(g, r, b, base, v) <=> LogYields(f, r, b, base, v)
  <2>1. Len(f) = n
    BY DEF n
  <2>2. ~ Covers(g, n, r, b)
    BY <1>5, <1>7
  <2>3. \A i \in 1 .. n - 1 : LastCover(g, i, r, b) <=> LastCover(f, i, r, b)
    BY <1>1, <1>4, <1>6, <2>1, <2>2, SMT DEF LastCover
  <2>4. ~ LastCover(g, n, r, b) /\ ~ LastCover(f, n, r, b)
    BY <1>4, <2>2 DEF LastCover
  <2> HIDE DEF covered
  <2>5. QED
    BY <1>1, <2>1, <2>3, <2>4, SMT DEF LogYields
<1>8. ASSUME covered PROVE LogYields(g, r, b, base, cell.data[b])
  <2>1. LastCover(g, n, r, b)
    BY <1>1, <1>5, <1>8, SMT DEF LastCover
  <2>2. QED
    BY <1>1, <2>1, SMT DEF LogYields
<1>9. QED
  BY <1>7, <1>8 DEF g, n

\* A replay is what LogYields describes.
LEMMA ReplayedYields ==
    ASSUME NEW f, NEW r, NEW target, NEW b \in DOMAIN target
    PROVE  LogYields(f, r, b, target, Replayed(f, r, target)[b])
<1>1. CASE \E i \in 1 .. Len(f) : LastCover(f, i, r, b)
  BY <1>1 DEF Replayed, LogYields
<1>2. CASE ~ \E i \in 1 .. Len(f) : LastCover(f, i, r, b)
  BY <1>2 DEF Replayed, LogYields
<1>3. QED
  BY <1>1, <1>2

-----------------------------------------------------------------------------
(***************************************************************************)
(* Type correctness.  TypeOK leaves out the shapes of the history variable *)
(* and of an idle call, which an induction needs.                          *)
(***************************************************************************)
ByteMaps == UNION {[B -> Bytes] : B \in SUBSET Nat}
Calls == [region : Nat, epoch : Nat, data : ByteMaps, todo : SUBSET Nat,
          writing : BOOLEAN, before : ByteMaps]
Tracks == [base : ByteMaps, saved : ByteMaps, lost : SUBSET Nat]

TypeInv ==
    /\ TypeOK
    /\ call \in Calls
    /\ track \in Seq(Tracks)

\* Buffers, and the empty buffer, map offsets to bytes.
LEMMA ImagesAreByteMaps ==
    /\ \A n \in Nat : [0 .. n - 1 -> Bytes] \subseteq ByteMaps
    /\ << >> \in ByteMaps
    /\ DOMAIN << >> = {}
<1>1. \A n \in Nat : [0 .. n - 1 -> Bytes] \subseteq ByteMaps
  <2>1. \A n \in Nat : 0 .. n - 1 \in SUBSET Nat
    BY SMT
  <2>2. QED
    BY <2>1 DEF ByteMaps
<1>2. << >> \in [{} -> Bytes] /\ DOMAIN << >> = {}
  BY SMT
<1>3. QED
  BY <1>1, <1>2 DEF ByteMaps

\* The fields of a registered region.
LEMMA RegionTyped ==
    ASSUME TypeInv, NEW r \in Registered
    PROVE  /\ r \in Nat /\ r > 0
           /\ r \in DOMAIN regions /\ regions[r] \in Region /\ regions[r].len \in Nat
           /\ r \in DOMAIN track /\ track[r] \in Tracks
<1>1. regions \in Seq(Region) /\ track \in Seq(Tracks) /\ Len(track) = Len(regions)
  BY DEF TypeInv, TypeOK
<1>2. r \in 1 .. Len(regions)
  BY DEF Registered
<1>3. /\ r \in Nat /\ r > 0
      /\ r \in DOMAIN regions /\ regions[r] \in Region
      /\ r \in DOMAIN track /\ track[r] \in Tracks
  BY <1>1, <1>2, SMT
<1>4. QED
  BY <1>3, ConstantsAssumption DEF Region

\* TypeInv holds initially.
LEMMA InitTyped == Init => TypeInv
<1> SUFFICES ASSUME Init PROVE TypeInv
  OBVIOUS
<1>1. NoCall \in Calls
  BY ImagesAreByteMaps DEF NoCall, Calls
<1>2. TypeOK
  BY SMT DEF Init, TypeOK, Registered, Idle, NoCall
<1>3. QED
  BY <1>1, <1>2, SMT DEF Init, TypeInv

\* Registering an opaque region keeps the types.
LEMMA RegisterOpaqueTyped ==
    ASSUME TypeInv, NEW n \in Lens, NEW image \in [0 .. n - 1 -> Bytes],
           RegisterOpaque(n, image)
    PROVE  TypeInv'
<1> DEFINE new == [kind |-> "OpaqueShadow", len |-> n, shadow |-> image]
           hist == [base |-> image, saved |-> image, lost |-> Stale(Len(regions) + 1, image)]
<1>1. n \in Nat /\ image \in Images
  BY ConstantsAssumption DEF Images
<1>2. new \in Region
  BY <1>1 DEF Region
<1>3. hist \in Tracks
  BY <1>1, ImagesAreByteMaps, SMT DEF Tracks, Stale
<1>4. /\ regions' = Append(regions, new) /\ regions' \in Seq(Region)
      /\ track' = Append(track, hist) /\ track' \in Seq(Tracks)
      /\ Len(regions') = Len(regions) + 1 /\ Len(track') = Len(regions')
  BY <1>2, <1>3, SMT DEF RegisterOpaque, TypeInv, TypeOK
<1>5. \A r \in Registered : regions'[r] = regions[r]
  BY <1>4, SMT DEF Registered, TypeInv, TypeOK
<1>6. \A r \in Registered' : regions'[r].kind = "OpaqueShadow"
         => regions'[r].shadow \in [BytesOf(r)' -> Bytes]
  <2> TAKE r \in Registered'
  <2>1. CASE r \in Registered
    BY <1>5, <2>1 DEF TypeInv, TypeOK, BytesOf
  <2>2. CASE r = Len(regions) + 1
    BY <1>4, <2>2, SMT DEF TypeInv, TypeOK, BytesOf
  <2>3. QED
    BY <1>4, <2>1, <2>2, SMT DEF Registered, TypeInv, TypeOK
<1>7. QED
  BY <1>4, <1>5, <1>6 DEF RegisterOpaque, TypeInv, TypeOK, Idle, Registered, BytesOf

\* Registering a bitmap region keeps the types.
LEMMA RegisterBitmapTyped ==
    ASSUME TypeInv, NEW n \in Lens, RegisterBitmap(n)
    PROVE  TypeInv'
<1> DEFINE new == [kind |-> "AllocatorBitmap", len |-> n, shadow |-> << >>]
           hist == [base |-> << >>, saved |-> << >>, lost |-> {}]
<1>1. new \in Region
  BY DEF Region
<1>2. hist \in Tracks
  BY ImagesAreByteMaps DEF Tracks
<1>3. /\ regions' = Append(regions, new) /\ regions' \in Seq(Region)
      /\ track' = Append(track, hist) /\ track' \in Seq(Tracks)
      /\ Len(regions') = Len(regions) + 1 /\ Len(track') = Len(regions')
  <2>1. /\ regions' = Append(regions, new) /\ track' = Append(track, hist)
        /\ regions \in Seq(Region) /\ track \in Seq(Tracks) /\ Len(track) = Len(regions)
    BY DEF RegisterBitmap, TypeInv, TypeOK
  <2> HIDE DEF new, hist
  <2> QED
    BY <1>1, <1>2, <2>1, SMT
<1>4. \A r \in Registered : regions'[r] = regions[r]
  BY <1>3, SMT DEF Registered, TypeInv, TypeOK
<1>5. \A r \in Registered' : regions'[r].kind = "OpaqueShadow"
         => regions'[r].shadow \in [BytesOf(r)' -> Bytes]
  <2> TAKE r \in Registered'
  <2>1. CASE r \in Registered
    BY <1>4, <2>1 DEF TypeInv, TypeOK, BytesOf
  <2>2. CASE r = Len(regions) + 1
    BY <1>3, <2>2, SMT DEF TypeInv, TypeOK, BytesOf
  <2>3. QED
    BY <1>3, <2>1, <2>2, SMT DEF Registered, TypeInv, TypeOK
<1>6. QED
  BY <1>3, <1>4, <1>5 DEF RegisterBitmap, TypeInv, TypeOK, Idle, Registered, BytesOf

\* StartAppend keeps the types of what it sets, for any pages of the region.
LEMMA StartAppendTyped ==
    ASSUME TypeInv, NEW r \in Registered, NEW image \in [BytesOf(r) -> Bytes],
           NEW dirty \in SUBSET PageOffsets(regions[r].len, PageSize),
           NEW handed \in SUBSET BytesOf(r),
           StartAppend(r, image, dirty, handed)
    PROVE  /\ call' \in Calls
           /\ track' \in Seq(Tracks)
           /\ Len(track') = Len(track)
           /\ call'.region = r /\ call'.data = image /\ ~ call'.writing
           /\ call'.todo \subseteq PageOffsets(regions[r].len, PageSize)
           /\ aof \/ call'.todo = {}
           /\ next_epoch' \in Nat \ {0}
           /\ call'.epoch \in 1 .. next_epoch' - 1
<1>1. regions[r] \in Region /\ regions[r].len \in Nat /\ r \in Nat
  BY RegionTyped
<1>2. image \in ByteMaps /\ handed \subseteq Nat
  BY <1>1, ImagesAreByteMaps, SMT DEF BytesOf
<1>3. dirty \subseteq Nat
  BY <1>1, SMT DEF PageOffsets
<1>4. track[r] \in Tracks /\ r \in DOMAIN track /\ track[r].saved \in ByteMaps
  BY RegionTyped DEF Tracks
<1>5. call' = [region |-> r, epoch |-> next_epoch, data |-> image,
               todo |-> IF aof THEN dirty ELSE {}, writing |-> FALSE,
               before |-> track[r].saved]
  BY DEF StartAppend
<1>6. call' \in Calls
  BY <1>1, <1>2, <1>3, <1>4, <1>5 DEF Calls, TypeInv, TypeOK
<1> DEFINE old == track[r].saved
           saved == Handed(old, image, handed)
           lost == track[r].lost \union IF aof THEN {} ELSE BytesAt(r, dirty)
           hist == [base |-> track[r].base, saved |-> saved, lost |-> lost]
<1>7. saved \in ByteMaps
  <2>1. PICK B \in SUBSET Nat : old \in [B -> Bytes]
    BY <1>4 DEF ByteMaps
  <2>2. saved \in [B \union handed -> Bytes] /\ B \union handed \in SUBSET Nat
    BY <1>1, <1>2, <2>1 DEF Handed
  <2>3. QED
    BY <2>2 DEF ByteMaps
<1>8. lost \in SUBSET Nat
  BY <1>1, <1>4, SMT DEF BytesAt, PageBytes, Tracks
<1>9. track' = [track EXCEPT ![r] = hist]
  BY DEF StartAppend
<1>10. track' \in Seq(Tracks) /\ Len(track') = Len(track)
  <2> HIDE DEF saved, lost
  <2>1. hist \in Tracks
    BY <1>4, <1>7, <1>8 DEF Tracks
  <2> HIDE DEF hist
  <2>2. QED
    BY <1>4, <1>9, <2>1, SMT DEF TypeInv
<1>11. next_epoch' \in Nat \ {0} /\ call'.epoch \in 1 .. next_epoch' - 1
  <2>1. call'.epoch = next_epoch
    BY <1>5
  <2>2. next_epoch' = next_epoch + 1
    BY DEF StartAppend
  <2>3. next_epoch \in Nat \ {0}
    BY DEF TypeInv, TypeOK
  <2> QED
    BY <2>1, <2>2, <2>3, SMT
<1>12. QED
  BY <1>5, <1>6, <1>10, <1>11

\* A host checkpoint keeps the types: the shadow still covers its region.
LEMMA BeginHostTyped ==
    ASSUME TypeInv, NEW r \in 1 .. MaxRegions, NEW n \in Lens,
           NEW image \in [0 .. n - 1 -> Bytes], BeginHostCheckpoint(r, n, image)
    PROVE  TypeInv'
<1> DEFINE dirty == DirtyPages(r, image)
           shadow == [b \in BytesOf(r) |->
                        IF b \in BytesAt(r, dirty) THEN image[b] ELSE regions[r].shadow[b]]
           new == [regions[r] EXCEPT !.shadow = shadow]
<1>1. /\ r \in Registered /\ regions[r].kind = "OpaqueShadow" /\ regions[r].len = n
      /\ regions[r] \in Region /\ r \in DOMAIN regions
  BY RegionTyped DEF BeginHostCheckpoint, Accepts
<1>2. image \in [BytesOf(r) -> Bytes]
  BY <1>1 DEF BytesOf
<1>3. shadow \in [BytesOf(r) -> Bytes]
  BY <1>1, <1>2 DEF TypeInv, TypeOK
<1>4. new \in Region
  BY <1>1, <1>3, SMT DEF Region, Images, BytesOf
<1>5. regions' = [regions EXCEPT ![r] = new]
  BY <1>1 DEF BeginHostCheckpoint, Region
<1>6. dirty \in SUBSET PageOffsets(regions[r].len, PageSize) /\ DOMAIN image \in SUBSET BytesOf(r)
  BY <1>2 DEF DirtyPages
<1>7. StartAppend(r, image, dirty, DOMAIN image)
  BY DEF BeginHostCheckpoint
<1> HIDE DEF shadow, dirty
<1>8. /\ regions' \in Seq(Region) /\ Len(regions') = Len(regions)
      /\ Registered' = Registered
      /\ \A q \in Registered : q # r => regions'[q] = regions[q]
      /\ regions'[r] = new
  <2> HIDE DEF new
  <2>1. regions \in Seq(Region)
    BY DEF TypeInv, TypeOK
  <2>2. QED
    BY <1>1, <1>4, <1>5, <2>1, SMT DEF Registered
<1>9. /\ regions'[r].kind = "OpaqueShadow" /\ regions'[r].len = n /\ regions'[r].shadow = shadow
      /\ \A q \in Registered : BytesOf(q)' = BytesOf(q)
  BY <1>1, <1>8 DEF BytesOf, Region
<1>10. \A q \in Registered' : regions'[q].kind = "OpaqueShadow"
         => regions'[q].shadow \in [BytesOf(q)' -> Bytes]
  <2>1. \A q \in Registered : regions[q].kind = "OpaqueShadow"
          => regions[q].shadow \in [BytesOf(q) -> Bytes]
    BY DEF TypeInv, TypeOK
  <2>2. QED
    BY <1>3, <1>8, <1>9, <2>1
<1>11. UNCHANGED <<aof, file, ret, restarts, ioErrors>>
  BY DEF BeginHostCheckpoint
<1>12. /\ call' \in Calls /\ track' \in Seq(Tracks) /\ Len(track') = Len(track)
       /\ call'.region = r /\ call'.data = image
       /\ call'.todo \subseteq PageOffsets(n, PageSize)
       /\ aof \/ call'.todo = {}
       /\ next_epoch' \in Nat \ {0} /\ call'.epoch \in 1 .. next_epoch' - 1
  BY <1>1, <1>2, <1>6, <1>7, StartAppendTyped
<1>13. /\ call'.region \in Registered' \union {0}
       /\ ~ Idle' => /\ call'.data \in [BytesOf(call.region)' -> Bytes]
                     /\ call'.todo \subseteq PageOffsets(regions'[call'.region].len, PageSize)
                     /\ aof' \/ call'.todo = {}
                     /\ call'.epoch \in 1 .. next_epoch' - 1
  BY <1>1, <1>2, <1>8, <1>9, <1>11, <1>12
<1>14. QED
  BY <1>8, <1>10, <1>11, <1>12, <1>13 DEF TypeInv, TypeOK

\* A bitmap checkpoint keeps the types.
LEMMA BeginBitmapTyped ==
    ASSUME TypeInv, NEW r \in 1 .. MaxRegions, NEW n \in Lens,
           NEW image \in [0 .. n - 1 -> Bytes],
           NEW dirty \in SUBSET PageOffsets(n, PageSize),
           BeginBitmapCheckpoint(r, n, image, dirty)
    PROVE  TypeInv'
<1>1. r \in Registered /\ regions[r].len = n
  BY DEF BeginBitmapCheckpoint, Accepts
<1>2. image \in [BytesOf(r) -> Bytes]
  BY <1>1 DEF BytesOf
<1>3. BytesAt(r, dirty) \in SUBSET BytesOf(r)
  BY DEF BytesAt, BytesOf, PageBytes
<1>4. /\ StartAppend(r, image, dirty, BytesAt(r, dirty))
      /\ UNCHANGED <<regions, aof, file, ret, restarts, ioErrors>>
  BY DEF BeginBitmapCheckpoint
<1>5. /\ call' \in Calls /\ track' \in Seq(Tracks) /\ Len(track') = Len(track)
      /\ call'.region = r /\ call'.data = image
      /\ call'.todo \subseteq PageOffsets(n, PageSize)
      /\ aof \/ call'.todo = {}
      /\ next_epoch' \in Nat \ {0} /\ call'.epoch \in 1 .. next_epoch' - 1
  BY <1>1, <1>2, <1>3, <1>4, StartAppendTyped
<1>6. Registered' = Registered /\ \A q : BytesOf(q)' = BytesOf(q)
  BY <1>4 DEF Registered, BytesOf
<1>7. /\ call'.region \in Registered' \union {0}
      /\ ~ Idle' => /\ call'.data \in [BytesOf(call.region)' -> Bytes]
                    /\ call'.todo \subseteq PageOffsets(regions'[call'.region].len, PageSize)
                    /\ aof' \/ call'.todo = {}
                    /\ call'.epoch \in 1 .. next_epoch' - 1
  BY <1>1, <1>2, <1>4, <1>5, <1>6
<1>8. QED
  BY <1>4, <1>5, <1>6, <1>7 DEF TypeInv, TypeOK

Cells == [whole : BOOLEAN, epoch : Nat, region : Nat, data : Pages \union {<< >>}]

\* Starting a record keeps the types.
LEMMA WriteRecordTyped ==
    ASSUME TypeInv, WriteRecord
    PROVE  TypeInv'
<1>1. Torn \in Cells
  BY DEF Torn, Cells
<1>2. file \in Seq(Cells)
  BY DEF TypeInv, TypeOK, Cells
<1>3. file' \in Seq(Cells)
  BY <1>1, <1>2, SMT DEF WriteRecord
<1>4. call' = [call EXCEPT !.writing = TRUE] /\ call \in Calls
  BY DEF WriteRecord, TypeInv
<1>5. /\ call' \in Calls
      /\ call'.region = call.region /\ call'.epoch = call.epoch
      /\ call'.data = call.data /\ call'.todo = call.todo
  BY <1>4 DEF Calls
<1>6. UNCHANGED <<regions, next_epoch, aof, ret, restarts, ioErrors, track>>
  BY DEF WriteRecord
<1>7. QED
  BY <1>3, <1>5, <1>6 DEF TypeInv, TypeOK, Cells, Idle, Registered, BytesOf

\* Replacing an element of a sequence keeps its type.
LEMMA ExceptTyped ==
    ASSUME NEW S, NEW s \in Seq(S), NEW i, NEW e \in S
    PROVE  [s EXCEPT ![i] = e] \in Seq(S)
<1>1. PICK n \in Nat : s \in [1 .. n -> S]
  <2>1. Len(s) \in Nat /\ s \in [1 .. Len(s) -> S]
    BY SMT
  <2>2. QED
    BY <2>1
<1>2. [s EXCEPT ![i] = e] \in [1 .. n -> S]
  BY <1>1
<1>3. QED
  BY <1>2, SMT

\* Committing a record keeps the types: its payload is a page.
LEMMA CommitRecordTyped ==
    ASSUME TypeInv, CommitRecord
    PROVE  TypeInv'
<1> DEFINE r == call.region
<1>1. /\ r \in Registered /\ ~ Idle
      /\ call \in Calls
      /\ call.data \in [BytesOf(r) -> Bytes]
      /\ call.todo \subseteq PageOffsets(regions[r].len, PageSize)
      /\ call.epoch \in 1 .. next_epoch - 1 /\ next_epoch \in Nat
  BY DEF CommitRecord, TypeInv, TypeOK, Idle
<1>2. /\ regions[r] \in Region /\ regions[r].len \in Lens /\ regions[r].len \in Nat
      /\ r \in DOMAIN track /\ track[r] \in Tracks /\ r \in Nat
  BY <1>1, RegionTyped DEF Region
<1>3. PICK o \in call.todo :
        LET page == PageBytes(o, regions[r].len, PageSize)
        IN  /\ file' = [file EXCEPT ![Len(file)] =
                           Record(call.epoch, r, PageData(r, o, call.data))]
            /\ call' = [call EXCEPT !.todo = @ \ {o}, !.writing = FALSE]
            /\ track' = [track EXCEPT ![r].lost = IF Readable(file, Len(file) - 1)
                                                  THEN @ \ page ELSE @ \union page]
  BY DEF CommitRecord
<1> DEFINE page == PageBytes(o, regions[r].len, PageSize)
           cell == Record(call.epoch, r, PageData(r, o, call.data))
<1>4. page \subseteq BytesOf(r) /\ page \subseteq Nat
  BY <1>1, <1>2, SMT DEF PageOffsets, PageBytes, BytesOf
<1>5. PageData(r, o, call.data) \in [page -> Bytes]
  BY <1>1, <1>4 DEF PageData
<1>6. PageData(r, o, call.data) \in Pages
  <2>1. page \in PageDomains
    BY <1>1, <1>2, SMT DEF PageDomains
  <2>2. QED
    BY <1>5, <2>1 DEF Pages
<1>7. cell \in Cells
  BY <1>1, <1>2, <1>6, SMT DEF Record, Cells
<1>8. file' \in Seq(Cells)
  <2>1. file \in Seq(Cells)
    BY DEF TypeInv, TypeOK, Cells
  <2>2. file' = [file EXCEPT ![Len(file)] = cell]
    BY <1>3
  <2> HIDE DEF cell
  <2>3. QED
    BY <1>7, <2>1, <2>2, ExceptTyped
<1>9. /\ call' \in Calls
      /\ call'.region = r /\ call'.epoch = call.epoch
      /\ call'.data = call.data /\ call'.todo = call.todo \ {o}
  <2> DEFINE rest == call.todo \ {o}
  <2>1. rest \in SUBSET Nat
    BY <1>1 DEF Calls
  <2>2. call' = [[call EXCEPT !.todo = rest] EXCEPT !.writing = FALSE]
    BY <1>3
  <2> HIDE DEF rest
  <2>3. QED
    BY <1>1, <2>1, <2>2 DEF Calls, rest
<1>10. track' \in Seq(Tracks) /\ Len(track') = Len(track)
  <2> DEFINE lost == IF Readable(file, Len(file) - 1)
                     THEN track[r].lost \ page ELSE track[r].lost \union page
             hist == [track[r] EXCEPT !.lost = lost]
  <2>1. track' = [track EXCEPT ![r] = hist]
    BY <1>3
  <2>2. lost \in SUBSET Nat
    BY <1>2, <1>4 DEF Tracks
  <2> HIDE DEF lost
  <2>3. hist \in Tracks
    BY <1>2, <2>2 DEF Tracks
  <2> HIDE DEF hist
  <2>4. QED
    BY <1>2, <2>1, <2>3, SMT DEF TypeInv
<1>11. UNCHANGED <<regions, next_epoch, aof, ret, restarts, ioErrors>>
  BY DEF CommitRecord
<1>12. QED
  BY <1>1, <1>8, <1>9, <1>10, <1>11 DEF TypeInv, TypeOK, Cells, Idle, Registered, BytesOf

\* A failing append keeps the types.
LEMMA AppendErrorTyped ==
    ASSUME TypeInv, AppendError
    PROVE  TypeInv'
<1> DEFINE r == call.region
           hist == [track[r] EXCEPT !.lost = @ \union BytesAt(r, call.todo)]
<1>1. r \in Registered
  BY DEF AppendError, TypeInv, TypeOK, Idle
<1>2. r \in DOMAIN track /\ track[r] \in Tracks /\ regions[r].len \in Nat
  BY <1>1, RegionTyped
<1>3. hist \in Tracks
  BY <1>2, SMT DEF Tracks, BytesAt, PageBytes
<1>4. track' = [track EXCEPT ![r] = hist]
  BY DEF AppendError
<1> HIDE DEF hist
<1>5. track' \in Seq(Tracks) /\ Len(track') = Len(track)
  BY <1>2, <1>3, <1>4, SMT DEF TypeInv
<1>6. call' \in Calls /\ call' = NoCall
  BY ImagesAreByteMaps DEF AppendError, NoCall, Calls
<1>7. UNCHANGED <<regions, next_epoch, aof, file, restarts>> /\ ioErrors' = ioErrors + 1
  BY DEF AppendError
<1>8. QED
  BY <1>5, <1>6, <1>7, SMT DEF TypeInv, TypeOK, Idle, NoCall, Registered, BytesOf

\* A restore keeps the types: the replayed buffer holds bytes.
LEMMA RestoreTyped ==
    ASSUME TypeInv, NEW r \in 1 .. MaxRegions, NEW n \in Lens,
           NEW image \in [0 .. n - 1 -> Bytes], RestoreHostRegion(r, n, image)
    PROVE  TypeInv'
<1> DEFINE restored == Replayed(file, r, image)
           new == [regions[r] EXCEPT !.shadow = restored]
           hist == [base |-> image, saved |-> restored, lost |-> {}]
<1>1. /\ r \in Registered /\ regions[r].kind = "OpaqueShadow" /\ regions[r].len = n
      /\ regions[r] \in Region /\ r \in DOMAIN regions /\ n \in Nat
      /\ r \in DOMAIN track
  BY RegionTyped DEF RestoreHostRegion, Accepts
<1>2. restored \in [BytesOf(r) -> Bytes]
  <2>1. \A i \in 1 .. Len(file), b \in BytesOf(r) :
           LastCover(file, i, r, b) => file[i].data[b] \in Bytes
    <3> TAKE i \in 1 .. Len(file), b \in BytesOf(r)
    <3> HAVE LastCover(file, i, r, b)
    <3>1. b \in DOMAIN file[i].data
      BY DEF LastCover, Covers
    <3>2. file \in Seq(Cells)
      BY DEF TypeInv, TypeOK, Cells
    <3>3. file[i] \in Cells
      BY <3>2, SMT
    <3>4. file[i].data \in Pages
      BY <3>1, <3>3, ImagesAreByteMaps DEF Cells
    <3>5. QED
      BY <3>1, <3>4 DEF Pages
  <2>2. DOMAIN image = BytesOf(r) /\ \A b \in BytesOf(r) : image[b] \in Bytes
    BY <1>1 DEF BytesOf
  <2>3. QED
    BY <2>1, <2>2 DEF Replayed
<1>3. restored \in Images /\ restored \in ByteMaps /\ image \in ByteMaps
  BY <1>1, <1>2, ImagesAreByteMaps DEF Images, BytesOf
<1>4. regions' = [regions EXCEPT ![r] = new] /\ track' = [track EXCEPT ![r] = hist]
  BY DEF RestoreHostRegion
<1> HIDE DEF restored
<1>5. new \in Region /\ hist \in Tracks
  BY <1>1, <1>3 DEF Region, Tracks
<1>6. /\ regions' \in Seq(Region) /\ Len(regions') = Len(regions)
      /\ track' \in Seq(Tracks) /\ Len(track') = Len(track)
      /\ Registered' = Registered
      /\ \A q \in Registered : q # r => regions'[q] = regions[q]
      /\ regions'[r] = new
  <2> HIDE DEF new, hist
  <2>1. regions \in Seq(Region) /\ track \in Seq(Tracks)
    BY DEF TypeInv, TypeOK
  <2>2. QED
    BY <1>1, <1>4, <1>5, <2>1, SMT DEF Registered
<1>7. /\ regions'[r].shadow = restored
      /\ \A q \in Registered : BytesOf(q)' = BytesOf(q)
  BY <1>1, <1>6 DEF BytesOf, Region
<1>8. \A q \in Registered' : regions'[q].kind = "OpaqueShadow"
         => regions'[q].shadow \in [BytesOf(q)' -> Bytes]
  <2>1. \A q \in Registered : regions[q].kind = "OpaqueShadow"
          => regions[q].shadow \in [BytesOf(q) -> Bytes]
    BY DEF TypeInv, TypeOK
  <2>2. QED
    BY <1>2, <1>6, <1>7, <2>1
<1>9. Idle /\ UNCHANGED <<next_epoch, aof, file, call, ret, restarts, ioErrors>>
  BY DEF RestoreHostRegion
<1>10. QED
  BY <1>6, <1>8, <1>9 DEF TypeInv, TypeOK, Idle, Registered

\* A crash and restart keeps the types.
LEMMA CrashRestartTyped ==
    ASSUME TypeInv, CrashRestart
    PROVE  TypeInv'
<1>1. call' \in Calls /\ call' = NoCall
  BY ImagesAreByteMaps DEF CrashRestart, NoCall, Calls
<1>2. /\ regions' = << >> /\ track' = << >> /\ next_epoch' = 1 /\ aof' \in BOOLEAN
      /\ restarts' = restarts + 1 /\ UNCHANGED <<file, ioErrors>>
  BY DEF CrashRestart
<1>3. QED
  BY <1>1, <1>2, SMT DEF TypeInv, TypeOK, Idle, NoCall, Registered

\* Every step keeps TypeInv.
LEMMA NextTyped ==
    ASSUME TypeInv, [Next]_vars
    PROVE  TypeInv'
<1>1. CASE UNCHANGED vars
  BY <1>1 DEF vars, TypeInv, TypeOK, Idle, Registered, BytesOf
<1>2. ASSUME NEW r \in 1 .. MaxRegions, NEW kind, NEW n, RejectCheckpoint(r, kind, n)
      PROVE  TypeInv'
  BY <1>2 DEF RejectCheckpoint, TypeInv, TypeOK, Idle, Registered, BytesOf
<1>3. CASE FinishCheckpoint
  <2>1. call' \in Calls /\ call' = NoCall
    BY <1>3, ImagesAreByteMaps DEF FinishCheckpoint, NoCall, Calls
  <2>2. QED
    BY <1>3, <2>1, SMT DEF FinishCheckpoint, TypeInv, TypeOK, Idle, NoCall, Registered, BytesOf
<1>4. QED
  BY <1>1, <1>2, <1>3, RegisterOpaqueTyped, RegisterBitmapTyped, BeginHostTyped,
     BeginBitmapTyped, WriteRecordTyped, CommitRecordTyped, AppendErrorTyped,
     RestoreTyped, CrashRestartTyped DEF Next

\* The types of the runtime's state hold for every page size, set of buffer
\* lengths and bound.
THEOREM TypeCorrect == Spec => []TypeOK
<1>1. TypeInv => TypeOK
  BY DEF TypeInv
<1>2. QED
  BY <1>1, InitTyped, NextTyped, PTL DEF Spec

-----------------------------------------------------------------------------
(***************************************************************************)
(* What the log promises.  LogReproducesCheckpoint is not inductive: it    *)
(* needs that the shadow, which decides what is dirty, is the content last *)
(* handed over; that the record being written is at the end of the file;   *)
(* and that what is still to be written is what was handed over.           *)
(***************************************************************************)
ShadowIsSaved ==
    \A r \in Registered :
        regions[r].kind = "OpaqueShadow" => track[r].saved = regions[r].shadow

WritingAtEnd ==
    call.writing => ~ Idle /\ Len(file) > 0 /\ ~ file[Len(file)].whole

PendingIsSaved ==
    ~ Idle => \A b \in BytesAt(call.region, call.todo) :
                 /\ b \in DOMAIN track[call.region].saved
                 /\ track[call.region].saved[b] = call.data[b]

LogInv ==
    /\ TypeInv
    /\ ShadowIsSaved
    /\ WritingAtEnd
    /\ PendingIsSaved
    /\ LogReproducesCheckpoint

\* LogInv holds initially.
LEMMA LogInit == Init => LogInv
<1> SUFFICES ASSUME Init PROVE LogInv
  OBVIOUS
<1>1. TypeInv
  BY InitTyped
<1>2. Registered = {} /\ Idle /\ ~ call.writing
  BY SMT DEF Init, Registered, Idle, NoCall
<1>3. QED
  BY <1>1, <1>2 DEF LogInv, ShadowIsSaved, WritingAtEnd, PendingIsSaved,
     LogReproducesCheckpoint

\* What registering a region does, whatever its kind.
LEMMA RegisterKeeps ==
    ASSUME LogInv, TypeInv', NEW new, NEW hist,
           Idle, UNCHANGED <<call, file>>,
           regions' = Append(regions, new), track' = Append(track, hist),
           new.kind = "OpaqueShadow" => hist.saved = new.shadow,
           \A b \in DOMAIN hist.saved : b \notin hist.lost =>
               LogYields(file, Len(regions) + 1, b, hist.base, hist.saved[b])
    PROVE  LogInv'
<1>1. /\ regions \in Seq(Region) /\ track \in Seq(Tracks) /\ Len(track) = Len(regions)
      /\ Len(regions) \in Nat
  BY SMTT(30) DEF LogInv, TypeInv, TypeOK
<1>2. /\ Registered' = Registered \union {Len(regions) + 1}
      /\ \A q \in Registered : regions'[q] = regions[q] /\ track'[q] = track[q]
      /\ regions'[Len(regions) + 1] = new /\ track'[Len(regions) + 1] = hist
  BY <1>1, SMT DEF Registered
<1>3. Idle' /\ call'.region = 0 /\ ~ call'.writing
  BY DEF Idle, LogInv, WritingAtEnd
<1>4. ShadowIsSaved'
  BY <1>2 DEF LogInv, ShadowIsSaved
<1>5. \A q \in Registered' : Pending(q)' = {} /\ (q \in Registered => Pending(q) = {})
  BY <1>1, <1>2, <1>3, SMT DEF Pending, Registered, Idle
<1>6. ASSUME NEW q \in Registered', NEW b \in DOMAIN track'[q].saved,
             b \notin track'[q].lost \union Pending(q)'
      PROVE  LogYields(file, q, b, track'[q].base, track'[q].saved[b])
  <2>1. CASE q \in Registered
    BY <1>2, <1>5, <1>6, <2>1 DEF LogInv, LogReproducesCheckpoint
  <2>2. CASE q = Len(regions) + 1
    BY <1>2, <1>6, <2>2
  <2>3. QED
    BY <1>2, <2>1, <2>2
<1>7. LogReproducesCheckpoint'
  BY <1>6 DEF LogReproducesCheckpoint
<1>8. QED
  BY <1>3, <1>4, <1>7 DEF LogInv, WritingAtEnd, PendingIsSaved

\* Registering an opaque region keeps LogInv: what the log contradicts is lost.
LEMMA RegisterOpaqueLog ==
    ASSUME LogInv, NEW n \in Lens, NEW image \in [0 .. n - 1 -> Bytes],
           RegisterOpaque(n, image)
    PROVE  LogInv'
<1> DEFINE new == [kind |-> "OpaqueShadow", len |-> n, shadow |-> image]
           hist == [base |-> image, saved |-> image, lost |-> Stale(Len(regions) + 1, image)]
<1>1. TypeInv'
  BY RegisterOpaqueTyped DEF LogInv
<1>2. /\ Idle /\ UNCHANGED <<call, file>>
      /\ regions' = Append(regions, new) /\ track' = Append(track, hist)
  BY DEF RegisterOpaque
<1>3. \A b \in DOMAIN hist.saved : b \notin hist.lost =>
        LogYields(file, Len(regions) + 1, b, hist.base, hist.saved[b])
  BY DEF Stale
<1>4. new.kind = "OpaqueShadow" => hist.saved = new.shadow
  OBVIOUS
<1> HIDE DEF new, hist
<1>5. QED
  BY <1>1, <1>2, <1>3, <1>4, RegisterKeeps

\* Registering a bitmap region keeps LogInv: nothing was handed over.
LEMMA RegisterBitmapLog ==
    ASSUME LogInv, NEW n \in Lens, RegisterBitmap(n)
    PROVE  LogInv'
<1> DEFINE new == [kind |-> "AllocatorBitmap", len |-> n, shadow |-> << >>]
           hist == [base |-> << >>, saved |-> << >>, lost |-> {}]
<1>1. TypeInv'
  BY RegisterBitmapTyped DEF LogInv
<1>2. /\ Idle /\ UNCHANGED <<call, file>>
      /\ regions' = Append(regions, new) /\ track' = Append(track, hist)
  BY DEF RegisterBitmap
<1>3. DOMAIN hist.saved = {} /\ new.kind # "OpaqueShadow"
  BY ImagesAreByteMaps
<1> HIDE DEF new, hist
<1>4. QED
  BY <1>1, <1>2, <1>3, RegisterKeeps

\* The bytes handed over outside the dirty pages are the ones already saved.
KeepsClean(r, image, dirty, handed) ==
    /\ BytesAt(r, dirty) \subseteq handed
    /\ \A b \in handed \ BytesAt(r, dirty) :
          b \in DOMAIN track[r].saved /\ track[r].saved[b] = image[b]

\* StartAppend keeps the promise when the bytes handed over outside the dirty
\* pages are the ones already saved.
LEMMA StartAppendLog ==
    ASSUME LogInv, Idle, NEW r \in Registered, NEW image, NEW dirty, NEW handed,
           StartAppend(r, image, dirty, handed),
           Len(regions') = Len(regions), regions'[r].len = regions[r].len,
           UNCHANGED <<aof, file>>,
           KeepsClean(r, image, dirty, handed)
    PROVE  /\ WritingAtEnd'
           /\ PendingIsSaved'
           /\ LogReproducesCheckpoint'
           /\ track'[r].saved = Handed(track[r].saved, image, handed)
           /\ \A q \in Registered : q # r => track'[q] = track[q]
<1>1. /\ r \in Nat /\ r > 0 /\ r \in DOMAIN track /\ aof \in BOOLEAN
      /\ track \in Seq(Tracks) /\ Len(track) = Len(regions)
  BY RegionTyped DEF LogInv, TypeInv, TypeOK
<1> DEFINE saved == Handed(track[r].saved, image, handed)
           lost == track[r].lost \union IF aof THEN {} ELSE BytesAt(r, dirty)
           hist == [base |-> track[r].base, saved |-> saved, lost |-> lost]
<1>2. track' = [track EXCEPT ![r] = hist]
  BY DEF StartAppend
<1>3. /\ track'[r].base = track[r].base /\ track'[r].saved = saved /\ track'[r].lost = lost
      /\ \A q \in Registered : q # r => track'[q] = track[q]
  <2> HIDE DEF saved, lost
  <2>1. \A q \in Registered : q \in DOMAIN track
    BY <1>1, SMTT(30) DEF Registered
  <2>2. QED
    BY <1>1, <1>2, <2>1
<1>4. /\ call'.region = r /\ call'.data = image /\ ~ call'.writing
      /\ call'.todo = IF aof THEN dirty ELSE {}
  BY DEF StartAppend
<1>5. /\ Registered' = Registered
      /\ \A offsets : BytesAt(r, offsets)' = BytesAt(r, offsets)
  BY DEF Registered, BytesAt
<1>6. /\ \A q : Pending(q)' = IF q = r /\ aof THEN BytesAt(r, dirty) ELSE {}
      /\ \A q \in Registered : Pending(q) = {}
  <2>1. BytesAt(r, {}) = {}
    BY DEF BytesAt
  <2>2. \A q \in Registered : Pending(q) = {}
    BY SMT DEF Idle, Pending, Registered
  <2>3. \A q : Pending(q)' = IF q = r THEN BytesAt(r, IF aof THEN dirty ELSE {}) ELSE {}
    <3>1. \A q : Pending(q)' = IF call'.region = q THEN BytesAt(q, call.todo)' ELSE {}
      BY DEF Pending
    <3>2. BytesAt(r, call.todo)' = BytesAt(r, IF aof THEN dirty ELSE {})
      BY <1>4 DEF BytesAt
    <3>3. QED
      BY <1>4, <3>1, <3>2
  <2>4. QED
    BY <1>4, <1>5, <2>1, <2>2, <2>3
<1>7. WritingAtEnd'
  BY <1>4 DEF WritingAtEnd
<1>8. PendingIsSaved'
  <2>1. \A b \in BytesAt(r, dirty) : b \in DOMAIN saved /\ saved[b] = image[b]
    BY DEF Handed, KeepsClean
  <2> HIDE DEF saved
  <2>2. BytesAt(call.region, call.todo)' \subseteq BytesAt(r, dirty)
    <3>1. BytesAt(call.region, call.todo)' = BytesAt(r, call'.todo)
      BY <1>4, <1>5
    <3>2. QED
      BY <1>4, <3>1 DEF BytesAt
  <2>3. QED
    BY <1>3, <1>4, <2>1, <2>2 DEF PendingIsSaved
<1>9. ASSUME NEW q \in Registered, NEW b \in DOMAIN track'[q].saved,
             b \notin track'[q].lost \union Pending(q)'
      PROVE  LogYields(file, q, b, track'[q].base, track'[q].saved[b])
  <2>1. CASE q # r
    BY <1>3, <1>6, <1>9, <2>1 DEF LogInv, LogReproducesCheckpoint
  <2>2. CASE q = r
    <3>1. b \notin BytesAt(r, dirty) /\ b \notin track[r].lost
      BY <1>1, <1>3, <1>6, <1>9, <2>2
    <3>2. b \in DOMAIN track[r].saved /\ saved[b] = track[r].saved[b]
      BY <1>3, <1>9, <2>2, <3>1 DEF Handed, KeepsClean
    <3> HIDE DEF saved
    <3>3. QED
      BY <1>3, <1>6, <2>2, <3>1, <3>2 DEF LogInv, LogReproducesCheckpoint
  <2>3. QED
    BY <2>1, <2>2
<1>10. LogReproducesCheckpoint'
  BY <1>5, <1>9 DEF LogReproducesCheckpoint
<1>11. QED
  BY <1>3, <1>7, <1>8, <1>10

\* The bytes outside the dirty pages are those of the shadow: every byte is in a
\* page, and a page that is not dirty equals its shadow.
LEMMA CleanBytes ==
    ASSUME TypeInv, NEW r \in Registered, NEW image,
           NEW b \in BytesOf(r), b \notin BytesAt(r, DirtyPages(r, image))
    PROVE  image[b] = regions[r].shadow[b]
<1>1. regions[r].len \in Nat
  BY RegionTyped
<1>2. PICK o \in PageOffsets(regions[r].len, PageSize) :
         b \in PageBytes(o, regions[r].len, PageSize)
  BY <1>1, PagesCover DEF BytesOf
<1>3. o \notin DirtyPages(r, image)
  BY <1>2 DEF BytesAt
<1>4. QED
  BY <1>2, <1>3 DEF DirtyPages

\* A host checkpoint keeps LogInv: what is clean equals the shadow.
LEMMA BeginHostLog ==
    ASSUME LogInv, NEW r \in 1 .. MaxRegions, NEW n \in Lens,
           NEW image \in [0 .. n - 1 -> Bytes], BeginHostCheckpoint(r, n, image)
    PROVE  LogInv'
<1> DEFINE dirty == DirtyPages(r, image)
           shadow == [b \in BytesOf(r) |->
                        IF b \in BytesAt(r, dirty) THEN image[b] ELSE regions[r].shadow[b]]
           new == [regions[r] EXCEPT !.shadow = shadow]
           saved == Handed(track[r].saved, image, DOMAIN image)
<1>1. TypeInv'
  BY BeginHostTyped DEF LogInv
<1>2. /\ r \in Registered /\ regions[r].kind = "OpaqueShadow" /\ regions[r].len = n
      /\ r \in DOMAIN regions /\ regions[r] \in Region
      /\ regions \in Seq(Region) /\ Idle
      /\ StartAppend(r, image, dirty, DOMAIN image)
      /\ UNCHANGED <<aof, file>>
  BY RegionTyped DEF BeginHostCheckpoint, Accepts, LogInv, TypeInv, TypeOK
<1>3. regions' = [regions EXCEPT ![r] = new]
  BY DEF BeginHostCheckpoint
<1>4. DOMAIN image = BytesOf(r) /\ BytesAt(r, dirty) \subseteq BytesOf(r)
  BY <1>2 DEF BytesOf, BytesAt, PageBytes
<1>5. track[r].saved = regions[r].shadow /\ DOMAIN track[r].saved = BytesOf(r)
  BY <1>2 DEF LogInv, ShadowIsSaved, TypeInv, TypeOK
<1>6. \A b \in DOMAIN image \ BytesAt(r, dirty) :
         b \in DOMAIN track[r].saved /\ track[r].saved[b] = image[b]
  <2> TAKE b \in DOMAIN image \ BytesAt(r, dirty)
  <2>1. b \in BytesOf(r) /\ b \notin BytesAt(r, DirtyPages(r, image))
    BY <1>4
  <2>2. TypeInv /\ r \in Registered
    BY <1>2 DEF LogInv
  <2>3. image[b] = regions[r].shadow[b]
    BY <2>1, <2>2, CleanBytes
  <2>4. QED
    BY <1>5, <2>1, <2>3
<1>7. saved = shadow
  <2>1. saved = [b \in BytesOf(r) |-> image[b]]
    BY <1>4, <1>5 DEF Handed
  <2>2. shadow = [b \in BytesOf(r) |-> image[b]]
    BY <1>4, <1>5, <1>6
  <2>3. QED
    BY <2>1, <2>2
<1> HIDE DEF shadow, dirty, saved, new
<1>8. /\ Len(regions') = Len(regions) /\ Registered' = Registered
      /\ regions'[r] = new /\ \A q \in Registered : q # r => regions'[q] = regions[q]
  BY <1>2, <1>3, SMT DEF Registered
<1>9. regions'[r].len = regions[r].len /\ regions'[r].shadow = shadow
  BY <1>2, <1>8 DEF Region, new
<1>10. /\ WritingAtEnd' /\ PendingIsSaved' /\ LogReproducesCheckpoint'
       /\ track'[r].saved = saved
       /\ \A q \in Registered : q # r => track'[q] = track[q]
  <2>1. PICK d, handed : d = dirty /\ handed = DOMAIN image
    OBVIOUS
  <2>2. /\ KeepsClean(r, image, d, handed)
        /\ StartAppend(r, image, d, handed)
        /\ saved = Handed(track[r].saved, image, handed)
    BY <1>2, <1>4, <1>6, <2>1 DEF saved, KeepsClean
  <2>3. /\ Idle /\ r \in Registered /\ UNCHANGED <<aof, file>>
        /\ Len(regions') = Len(regions) /\ regions'[r].len = regions[r].len
    BY <1>2, <1>8, <1>9
  <2>4. /\ WritingAtEnd' /\ PendingIsSaved' /\ LogReproducesCheckpoint'
        /\ track'[r].saved = Handed(track[r].saved, image, handed)
        /\ \A q \in Registered : q # r => track'[q] = track[q]
    BY <2>2, <2>3, StartAppendLog, SMTT(30)
  <2>5. QED
    BY <2>2, <2>4
<1>11. ShadowIsSaved'
  BY <1>7, <1>8, <1>9, <1>10 DEF LogInv, ShadowIsSaved
<1>12. QED
  BY <1>1, <1>10, <1>11 DEF LogInv

\* A bitmap checkpoint keeps LogInv: what it hands over is pending.
LEMMA BeginBitmapLog ==
    ASSUME LogInv, NEW r \in 1 .. MaxRegions, NEW n \in Lens,
           NEW image \in [0 .. n - 1 -> Bytes],
           NEW dirty \in SUBSET PageOffsets(n, PageSize),
           BeginBitmapCheckpoint(r, n, image, dirty)
    PROVE  LogInv'
<1>1. TypeInv'
  BY BeginBitmapTyped DEF LogInv
<1>2. /\ r \in Registered /\ regions[r].kind = "AllocatorBitmap" /\ Idle
      /\ StartAppend(r, image, dirty, BytesAt(r, dirty))
      /\ UNCHANGED <<regions, aof, file>>
  BY DEF BeginBitmapCheckpoint, Accepts
<1>3. /\ WritingAtEnd' /\ PendingIsSaved' /\ LogReproducesCheckpoint'
      /\ \A q \in Registered : q # r => track'[q] = track[q]
  <2>1. PICK handed : handed = BytesAt(r, dirty)
    OBVIOUS
  <2>2. KeepsClean(r, image, dirty, handed) /\ StartAppend(r, image, dirty, handed)
    BY <1>2, <2>1 DEF KeepsClean
  <2>3. QED
    BY <1>2, <2>2, StartAppendLog
<1>4. ShadowIsSaved'
  BY <1>2, <1>3 DEF LogInv, ShadowIsSaved, Registered
<1>5. QED
  BY <1>1, <1>3, <1>4 DEF LogInv

\* Starting a record keeps LogInv: it is incomplete and ignored.
LEMMA WriteRecordLog ==
    ASSUME LogInv, WriteRecord
    PROVE  LogInv'
<1>1. TypeInv'
  BY WriteRecordTyped DEF LogInv
<1>2. /\ file \in Seq(Cells) /\ file' = Append(file, Torn) /\ ~ Torn.whole
      /\ call' = [call EXCEPT !.writing = TRUE] /\ call \in Calls /\ ~ Idle
      /\ UNCHANGED <<regions, track>>
  BY DEF WriteRecord, LogInv, TypeInv, TypeOK, Cells, Torn
<1>3. call'.region = call.region /\ call'.data = call.data /\ call'.todo = call.todo
  BY <1>2 DEF Calls
<1>4. Len(file') > 0 /\ file'[Len(file')] = Torn
  BY <1>2, SMT
<1>5. ShadowIsSaved' /\ WritingAtEnd' /\ PendingIsSaved'
  BY <1>2, <1>3, <1>4, SMT DEF LogInv, ShadowIsSaved, WritingAtEnd, PendingIsSaved,
     Registered, Idle, BytesAt
<1>6. \A q : Pending(q)' = Pending(q)
  BY <1>2, <1>3 DEF Pending, BytesAt
<1>7. \A q, b, base, v : LogYields(file', q, b, base, v) <=> LogYields(file, q, b, base, v)
  BY <1>2, TornEndIsIgnored
<1>8. LogReproducesCheckpoint'
  BY <1>2, <1>6, <1>7 DEF LogInv, LogReproducesCheckpoint, Registered
<1>9. QED
  BY <1>1, <1>5, <1>8 DEF LogInv

\* Committing a record keeps LogInv: its page is no longer pending.
LEMMA CommitRecordLog ==
    ASSUME LogInv, CommitRecord
    PROVE  LogInv'
<1> DEFINE r == call.region
           n == Len(file)
<1>1. TypeInv'
  BY CommitRecordTyped DEF LogInv
<1>2. /\ r \in Registered /\ ~ Idle /\ call.writing /\ call \in Calls
      /\ file \in Seq(Cells) /\ n > 0 /\ ~ file[n].whole
      /\ UNCHANGED regions
  BY DEF CommitRecord, LogInv, TypeInv, TypeOK, Idle, Cells, WritingAtEnd
<1>3. r \in DOMAIN track /\ track[r] \in Tracks /\ r \in Nat /\ r > 0
  BY <1>2, RegionTyped DEF LogInv
<1>4. PICK o \in call.todo :
        LET page == PageBytes(o, regions[r].len, PageSize)
        IN  /\ file' = [file EXCEPT ![Len(file)] =
                           Record(call.epoch, r, PageData(r, o, call.data))]
            /\ call' = [call EXCEPT !.todo = @ \ {o}, !.writing = FALSE]
            /\ track' = [track EXCEPT ![r].lost = IF Readable(file, Len(file) - 1)
                                                  THEN @ \ page ELSE @ \union page]
  BY DEF CommitRecord
<1> DEFINE page == PageBytes(o, regions[r].len, PageSize)
           cell == Record(call.epoch, r, PageData(r, o, call.data))
           lost == IF Readable(file, n - 1) THEN track[r].lost \ page
                                            ELSE track[r].lost \union page
           hist == [track[r] EXCEPT !.lost = lost]
<1>5. /\ cell.whole /\ cell.region = r /\ DOMAIN cell.data = page
      /\ \A b \in page : cell.data[b] = call.data[b]
  BY DEF Record, PageData
<1>6. /\ hist.base = track[r].base /\ hist.saved = track[r].saved /\ hist.lost = lost
  BY <1>3 DEF Tracks
<1>7. track' = [track EXCEPT ![r] = hist]
  BY <1>4
<1>8. track'[r] = hist /\ \A q \in Registered : q # r => track'[q] = track[q]
  <2> HIDE DEF hist
  <2>1. \A q \in Registered : q \in DOMAIN track
    BY RegionTyped DEF LogInv
  <2>2. QED
    BY <1>3, <1>7, <2>1
<1>9. /\ call'.region = r /\ ~ call'.writing /\ call'.data = call.data
      /\ call'.todo = call.todo \ {o}
  <2> DEFINE rest == call.todo \ {o}
  <2>1. call' = [[call EXCEPT !.todo = rest] EXCEPT !.writing = FALSE]
    BY <1>4
  <2> HIDE DEF rest
  <2>2. QED
    BY <1>2, <2>1 DEF Calls, rest
<1>10. BytesAt(r, call.todo) = BytesAt(r, call.todo \ {o}) \union page
  BY DEF BytesAt
<1>11. \A q : Pending(q)' = IF q = r THEN BytesAt(r, call.todo \ {o}) ELSE {}
  BY <1>2, <1>9 DEF Pending, BytesAt
<1>12. \A q : Pending(q) = IF q = r THEN BytesAt(r, call.todo) ELSE {}
  BY DEF Pending
<1>13. file' = [file EXCEPT ![n] = cell]
  BY <1>4
<1> HIDE DEF page, cell, hist, lost
<1>14. ShadowIsSaved'
  BY <1>2, <1>6, <1>8 DEF LogInv, ShadowIsSaved, Registered
<1>15. WritingAtEnd'
  BY <1>9 DEF WritingAtEnd
<1>16. \A b \in BytesAt(r, call.todo) :
          b \in DOMAIN track[r].saved /\ track[r].saved[b] = call.data[b]
  BY <1>2 DEF LogInv, PendingIsSaved
<1>17. PendingIsSaved'
  <2>1. BytesAt(call.region, call.todo)' \subseteq BytesAt(r, call.todo)
    BY <1>2, <1>9 DEF BytesAt
  <2>2. QED
    BY <1>6, <1>8, <1>9, <1>16, <2>1 DEF PendingIsSaved
<1>18. ASSUME NEW q \in Registered, NEW b \in DOMAIN track'[q].saved,
              b \notin track'[q].lost \union Pending(q)'
       PROVE  LogYields(file', q, b, track'[q].base, track'[q].saved[b])
  <2>1. PICK base, v : base = track'[q].base /\ v = track'[q].saved[b]
    OBVIOUS
  <2>2. base = track[q].base /\ DOMAIN track'[q].saved = DOMAIN track[q].saved
        /\ v = track[q].saved[b]
    BY <1>6, <1>8, <2>1
  <2>3. PICK c : c = cell
    OBVIOUS
  <2> DEFINE covered == Readable(file, n - 1) /\ c.region = q /\ b \in DOMAIN c.data
  <2>4. /\ ~ covered => (LogYields(file', q, b, base, v) <=> LogYields(file, q, b, base, v))
        /\ covered => LogYields(file', q, b, base, c.data[b])
    BY <1>2, <1>5, <1>13, <2>3, CommitAtEnd
  <2>5. CASE q = r /\ b \in page
    <3>1. Readable(file, n - 1)
      BY <1>6, <1>8, <1>18, <2>5 DEF lost
    <3>2. covered /\ c.data[b] = call.data[b]
      BY <1>5, <2>3, <2>5, <3>1
    <3>3. b \in BytesAt(r, call.todo)
      BY <1>10, <2>5
    <3>4. QED
      BY <1>16, <2>1, <2>2, <2>4, <2>5, <3>2, <3>3
  <2>6. CASE ~ (q = r /\ b \in page)
    <3>1. ~ covered
      BY <1>5, <2>3, <2>6
    <3>2. b \notin track[q].lost \union Pending(q)
      BY <1>6, <1>8, <1>10, <1>11, <1>12, <1>18, <2>6 DEF lost
    <3>3. LogYields(file, q, b, base, v)
      BY <1>18, <2>2, <3>2 DEF LogInv, LogReproducesCheckpoint
    <3>4. QED
      BY <2>1, <2>4, <3>1, <3>3
  <2>7. QED
    BY <2>5, <2>6
<1>19. LogReproducesCheckpoint'
  BY <1>2, <1>18 DEF LogReproducesCheckpoint, Registered
<1>20. QED
  BY <1>1, <1>14, <1>15, <1>17, <1>19 DEF LogInv

\* A failing append keeps LogInv: what was pending is lost.
LEMMA AppendErrorLog ==
    ASSUME LogInv, AppendError
    PROVE  LogInv'
<1> DEFINE r == call.region
           lost == track[r].lost \union BytesAt(r, call.todo)
           hist == [track[r] EXCEPT !.lost = lost]
<1>1. TypeInv'
  BY AppendErrorTyped DEF LogInv
<1>2. r \in Registered /\ call' = NoCall /\ UNCHANGED <<regions, file>>
  BY DEF AppendError, LogInv, TypeInv, TypeOK, Idle
<1>3. r \in DOMAIN track /\ track[r] \in Tracks
  BY <1>2, RegionTyped DEF LogInv
<1>4. /\ hist.base = track[r].base /\ hist.saved = track[r].saved /\ hist.lost = lost
  BY <1>3 DEF Tracks
<1>5. track' = [track EXCEPT ![r] = hist]
  BY DEF AppendError
<1> HIDE DEF hist
<1>6. track'[r] = hist /\ \A q \in Registered : q # r => track'[q] = track[q]
  <2>1. \A q \in Registered : q \in DOMAIN track
    BY RegionTyped DEF LogInv
  <2>2. QED
    BY <1>3, <1>5, <2>1
<1>7. Idle' /\ ~ call'.writing /\ \A q \in Registered : Pending(q)' = {}
  BY <1>2, SMT DEF Idle, NoCall, Pending, Registered
<1>8. ShadowIsSaved' /\ WritingAtEnd' /\ PendingIsSaved'
  BY <1>2, <1>4, <1>6, <1>7 DEF LogInv, ShadowIsSaved, WritingAtEnd, PendingIsSaved, Registered
<1>9. ASSUME NEW q \in Registered, NEW b \in DOMAIN track'[q].saved, b \notin track'[q].lost
      PROVE  LogYields(file, q, b, track'[q].base, track'[q].saved[b])
  <2>1. b \notin track[q].lost \union Pending(q)
    BY <1>4, <1>6, <1>9 DEF Pending
  <2>2. track'[q].base = track[q].base /\ track'[q].saved = track[q].saved
    BY <1>4, <1>6
  <2>3. QED
    BY <1>9, <2>1, <2>2 DEF LogInv, LogReproducesCheckpoint
<1>10. LogReproducesCheckpoint'
  BY <1>2, <1>7, <1>9 DEF LogReproducesCheckpoint, Registered
<1>11. QED
  BY <1>1, <1>8, <1>10 DEF LogInv

\* Returning from a checkpoint keeps LogInv: nothing was pending.
LEMMA FinishLog ==
    ASSUME LogInv, FinishCheckpoint, TypeInv'
    PROVE  LogInv'
<1>1. call' = NoCall /\ call.todo = {} /\ UNCHANGED <<regions, file, track>>
  BY DEF FinishCheckpoint
<1>2. Idle' /\ ~ call'.writing /\ \A q \in Registered : Pending(q)' = {} /\ Pending(q) = {}
  BY <1>1 DEF Idle, NoCall, Pending, Registered, BytesAt
<1>3. ShadowIsSaved' /\ WritingAtEnd' /\ PendingIsSaved'
  BY <1>1, <1>2 DEF LogInv, ShadowIsSaved, WritingAtEnd, PendingIsSaved, Registered
<1>4. LogReproducesCheckpoint'
  BY <1>1, <1>2 DEF LogInv, LogReproducesCheckpoint, Registered
<1>5. QED
  BY <1>3, <1>4 DEF LogInv

\* A restore keeps LogInv: the application has what the log yields.
LEMMA RestoreLog ==
    ASSUME LogInv, NEW r \in 1 .. MaxRegions, NEW n \in Lens,
           NEW image \in [0 .. n - 1 -> Bytes], RestoreHostRegion(r, n, image)
    PROVE  LogInv'
<1> DEFINE restored == Replayed(file, r, image)
           new == [regions[r] EXCEPT !.shadow = restored]
           hist == [base |-> image, saved |-> restored, lost |-> {}]
<1>1. TypeInv'
  BY RestoreTyped DEF LogInv
<1>2. /\ r \in Registered /\ r \in DOMAIN regions /\ r \in DOMAIN track
      /\ regions[r] \in Region /\ Idle /\ UNCHANGED <<call, file>>
  BY RegionTyped DEF RestoreHostRegion, Accepts, LogInv
<1>3. regions' = [regions EXCEPT ![r] = new] /\ track' = [track EXCEPT ![r] = hist]
  BY DEF RestoreHostRegion
<1>4. \A b \in DOMAIN restored : LogYields(file, r, b, image, restored[b])
  <2>1. DOMAIN restored = DOMAIN image
    BY DEF Replayed
  <2>2. QED
    BY <2>1, ReplayedYields
<1> HIDE DEF restored
<1>5. new.shadow = restored /\ hist.base = image /\ hist.saved = restored
  BY <1>2 DEF Region
<1> HIDE DEF new, hist
<1>6. /\ Registered' = Registered
      /\ regions'[r] = new /\ track'[r] = hist
      /\ \A q \in Registered : q # r => regions'[q] = regions[q] /\ track'[q] = track[q]
  <2>1. \A q \in Registered : q \in DOMAIN regions /\ q \in DOMAIN track
    BY RegionTyped DEF LogInv
  <2>2. regions \in Seq(Region)
    BY DEF LogInv, TypeInv, TypeOK
  <2>3. Len(regions') = Len(regions)
    BY <1>2, <1>3, <2>2, SMT
  <2>4. QED
    BY <1>2, <1>3, <2>1, <2>3 DEF Registered
<1>7. /\ Idle' /\ ~ call'.writing
      /\ \A q \in Registered : Pending(q)' = {} /\ Pending(q) = {}
  BY <1>2, SMT DEF Idle, Pending, Registered, LogInv, WritingAtEnd
<1>8. ShadowIsSaved' /\ WritingAtEnd' /\ PendingIsSaved'
  BY <1>5, <1>6, <1>7 DEF LogInv, ShadowIsSaved, WritingAtEnd, PendingIsSaved
<1>9. ASSUME NEW q \in Registered, NEW b \in DOMAIN track'[q].saved, b \notin track'[q].lost
      PROVE  LogYields(file, q, b, track'[q].base, track'[q].saved[b])
  <2>1. CASE q # r
    BY <1>6, <1>7, <1>9, <2>1 DEF LogInv, LogReproducesCheckpoint
  <2>2. CASE q = r
    BY <1>4, <1>5, <1>6, <1>9, <2>2
  <2>3. QED
    BY <2>1, <2>2
<1>10. LogReproducesCheckpoint'
  BY <1>2, <1>6, <1>7, <1>9 DEF LogReproducesCheckpoint
<1>11. QED
  BY <1>1, <1>8, <1>10 DEF LogInv

\* Every step keeps LogInv.
LEMMA LogNext ==
    ASSUME LogInv, [Next]_vars
    PROVE  LogInv'
<1>1. TypeInv'
  BY NextTyped DEF LogInv
<1>2. ASSUME UNCHANGED <<regions, file, call, track>> PROVE LogInv'
  <2>1. Registered' = Registered /\ (Idle' <=> Idle)
        /\ \A r, o : BytesAt(r, o)' = BytesAt(r, o)
    BY <1>2 DEF Registered, Idle, BytesAt
  <2>2. \A r : Pending(r)' = Pending(r)
    BY <1>2, <2>1 DEF Pending
  <2>3. ShadowIsSaved'
    BY <1>2, <2>1 DEF LogInv, ShadowIsSaved
  <2>4. WritingAtEnd'
    BY <1>2, <2>1 DEF LogInv, WritingAtEnd
  <2>5. PendingIsSaved'
    BY <1>2, <2>1 DEF LogInv, PendingIsSaved
  <2>6. LogReproducesCheckpoint'
    BY <1>2, <2>1, <2>2 DEF LogInv, LogReproducesCheckpoint
  <2>7. QED
    BY <1>1, <2>3, <2>4, <2>5, <2>6 DEF LogInv
<1>3. CASE CrashRestart
  <2>1. Registered' = {} /\ Idle' /\ ~ call'.writing
    BY <1>3, SMT DEF CrashRestart, Registered, Idle, NoCall
  <2>2. QED
    BY <1>1, <2>1 DEF LogInv, ShadowIsSaved, WritingAtEnd, PendingIsSaved,
       LogReproducesCheckpoint
<1>4. CASE UNCHANGED vars
  BY <1>2, <1>4 DEF vars
<1>5. ASSUME NEW r \in 1 .. MaxRegions, NEW kind, NEW n, RejectCheckpoint(r, kind, n)
      PROVE  LogInv'
  BY <1>2, <1>5 DEF RejectCheckpoint
<1>6. CASE FinishCheckpoint
  BY <1>1, <1>6, FinishLog
<1>7. QED
  BY <1>3, <1>4, <1>5, <1>6, RegisterOpaqueLog, RegisterBitmapLog, BeginHostLog,
     BeginBitmapLog, WriteRecordLog, CommitRecordLog, AppendErrorLog, RestoreLog DEF Next

\* In every reachable state, wherever a crash may strike, a replay of the log
\* gives each registered byte the value last handed over for a checkpoint, but for
\* the bytes still to be appended and the ones a failure made lost.
THEOREM LogReproducesCheckpointAlways == Spec => []LogReproducesCheckpoint
<1>1. LogInv => LogReproducesCheckpoint
  BY DEF LogInv
<1>2. QED
  BY <1>1, LogInit, LogNext, PTL DEF Spec

\* No step takes a record away from read_committed or changes one: what is
\* rewritten is only the record at the end of the file, before its commit marker.
THEOREM CommittedRecordsStayAlways == Spec => CommittedRecordsStay
<1> DEFINE Stay == \A i \in 1 .. Len(file) :
                      Readable(file, i) => i <= Len(file') /\ file'[i] = file[i]
<1>1. LogInv /\ [Next]_vars => [Stay]_vars
  <2> SUFFICES ASSUME LogInv, Next PROVE Stay
    OBVIOUS
  <2>1. file \in Seq(Cells)
    BY DEF LogInv, TypeInv, TypeOK, Cells
  <2>2. CASE WriteRecord
    BY <2>1, <2>2, SMT DEF WriteRecord
  <2>3. CASE CommitRecord
    <3>1. Len(file) > 0 /\ ~ file[Len(file)].whole
      BY <2>3 DEF LogInv, WritingAtEnd, CommitRecord
    <3>2. PICK cell : file' = [file EXCEPT ![Len(file)] = cell]
      BY <2>3 DEF CommitRecord
    <3>3. \A i \in 1 .. Len(file) : Readable(file, i) => i # Len(file)
      BY <2>1, <3>1 DEF Readable
    <3>4. QED
      BY <2>1, <3>2, <3>3, SMT
  <2>4. ASSUME UNCHANGED file PROVE Stay
    BY <2>1, <2>4, SMT
  <2>5. CASE ~ WriteRecord /\ ~ CommitRecord
    <3>1. \A n : RegisterBitmap(n) => UNCHANGED file
      BY DEF RegisterBitmap
    <3>2. \A n, image : RegisterOpaque(n, image) => UNCHANGED file
      BY DEF RegisterOpaque
    <3>3. \A r, kind, n : RejectCheckpoint(r, kind, n) => UNCHANGED file
      BY DEF RejectCheckpoint
    <3>4. \A r, n, image : BeginHostCheckpoint(r, n, image) => UNCHANGED file
      BY DEF BeginHostCheckpoint
    <3>5. \A r, n, image : RestoreHostRegion(r, n, image) => UNCHANGED file
      BY DEF RestoreHostRegion
    <3>6. \A r, n, image, dirty : BeginBitmapCheckpoint(r, n, image, dirty) => UNCHANGED file
      BY DEF BeginBitmapCheckpoint
    <3>7. AppendError \/ FinishCheckpoint \/ CrashRestart => UNCHANGED file
      BY DEF AppendError, FinishCheckpoint, CrashRestart
    <3>8. UNCHANGED file
      BY <2>5, <3>1, <3>2, <3>3, <3>4, <3>5, <3>6, <3>7 DEF Next
    <3>9. QED
      BY <2>4, <3>8
  <2>6. QED
    BY <2>2, <2>3, <2>5
<1>2. QED
  BY <1>1, LogInit, LogNext, PTL DEF Spec, CommittedRecordsStay
-----------------------------------------------------------------------------
(***************************************************************************)
(* In the first process of a log, while no write fails, the log is exact:  *)
(* the exceptions of LogReproducesCheckpoint never arise.                  *)
(***************************************************************************)

FaultFree == aof /\ restarts = 0 /\ ioErrors = 0

NothingLost == \A r \in Registered : track[r].lost = {}

\* The only record that is not whole is the one being written.
WholeLog == \A i \in 1 .. Len(file) : file[i].whole \/ (i = Len(file) /\ call.writing)

\* No record is for a region that is not registered yet.
OwnRecords == \A i \in 1 .. Len(file) : file[i].region <= Len(regions)

WritingHasPage == call.writing => call.todo # {}

ExactInv ==
    /\ LogInv
    /\ WritingHasPage
    /\ FaultFree => NothingLost /\ WholeLog /\ OwnRecords

\* A file without records of a region leaves the buffer of its replay alone.
LEMMA NoRecordYieldsBase ==
    ASSUME NEW f, NEW r, NEW base, NEW b \in DOMAIN base,
           \A i \in 1 .. Len(f) : f[i].region # r
    PROVE  LogYields(f, r, b, base, base[b])
BY DEF LogYields, LastCover, Covers

\* ExactInv holds initially.
LEMMA ExactInit == Init => ExactInv
<1> SUFFICES ASSUME Init PROVE ExactInv
  OBVIOUS
<1>1. Registered = {} /\ Len(file) = 0 /\ ~ call.writing
  BY SMT DEF Init, Registered, NoCall
<1>2. QED
  BY <1>1, LogInit, SMT DEF ExactInv, NothingLost, WholeLog, OwnRecords, WritingHasPage

\* Registering a region of which the log has no record loses nothing.
LEMMA RegisterExact ==
    ASSUME ExactInv, NEW new, NEW hist, hist.lost = {},
           regions' = Append(regions, new), track' = Append(track, hist),
           UNCHANGED <<file, call>>, FaultFree
    PROVE  (NothingLost /\ WholeLog /\ OwnRecords)'
<1>1. /\ regions \in Seq(Region) /\ track \in Seq(Tracks) /\ Len(track) = Len(regions)
      /\ Len(regions) \in Nat /\ file \in Seq(Cells)
  BY SMT DEF ExactInv, LogInv, TypeInv, TypeOK, Cells
<1>2. /\ Registered' = Registered \union {Len(regions) + 1}
      /\ Len(regions') = Len(regions) + 1
      /\ \A q \in Registered : track'[q] = track[q]
      /\ track'[Len(regions) + 1] = hist
  BY <1>1, SMT DEF Registered
<1>3. NothingLost'
  BY <1>2 DEF ExactInv, NothingLost
<1>4. WholeLog'
  BY DEF ExactInv, WholeLog
<1>5. \A i \in 1 .. Len(file) : file[i].region \in Nat /\ file[i].region <= Len(regions)
  <2>1. \A i \in 1 .. Len(file) : file[i] \in Cells
    BY <1>1, SMT
  <2>2. QED
    BY <2>1 DEF ExactInv, OwnRecords, Cells
<1>6. OwnRecords'
  BY <1>1, <1>2, <1>5, SMT DEF OwnRecords
<1>7. QED
  BY <1>3, <1>4, <1>6

\* Registering an opaque region keeps the log exact.
LEMMA RegisterOpaqueExact ==
    ASSUME ExactInv, NEW n \in Lens, NEW image \in [0 .. n - 1 -> Bytes],
           RegisterOpaque(n, image), FaultFree
    PROVE  (NothingLost /\ WholeLog /\ OwnRecords)'
<1> DEFINE new == [kind |-> "OpaqueShadow", len |-> n, shadow |-> image]
           hist == [base |-> image, saved |-> image, lost |-> Stale(Len(regions) + 1, image)]
<1>1. \A i \in 1 .. Len(file) : file[i].region # Len(regions) + 1
  <2>1. Len(regions) \in Nat /\ file \in Seq(Cells)
    BY SMT DEF ExactInv, LogInv, TypeInv, TypeOK, Cells
  <2>2. \A i \in 1 .. Len(file) : file[i] \in Cells
    BY <2>1, SMT
  <2>3. QED
    BY <2>1, <2>2, SMT DEF ExactInv, OwnRecords, Cells
<1>2. Stale(Len(regions) + 1, image) = {}
  <2>1. \A b \in DOMAIN image : LogYields(file, Len(regions) + 1, b, image, image[b])
    BY <1>1, NoRecordYieldsBase
  <2>2. QED
    BY <2>1 DEF Stale
<1>3. /\ regions' = Append(regions, new) /\ track' = Append(track, hist)
      /\ UNCHANGED <<file, call>> /\ hist.lost = {}
  BY <1>2 DEF RegisterOpaque
<1>4. PICK x, y : x = new /\ y = hist
  OBVIOUS
<1> HIDE DEF new, hist
<1>5. QED
  BY <1>3, <1>4, RegisterExact

\* A step that leaves the file and the number of regions alone, that ends or
\* starts no write, and that loses nothing.
LEMMA SameFileExact ==
    ASSUME ExactInv, FaultFree, ~ call.writing, Len(regions') = Len(regions), UNCHANGED file,
           \A q \in Registered : track'[q].lost = {}
    PROVE  (NothingLost /\ WholeLog /\ OwnRecords)'
<1>1. NothingLost /\ WholeLog /\ OwnRecords /\ Registered' = Registered
  BY DEF ExactInv, Registered
<1>2. QED
  BY <1>1 DEF NothingLost, WholeLog, OwnRecords

\* Starting an append does: what it hands over is pending.
LEMMA BeginExact ==
    ASSUME ExactInv, FaultFree, Idle, NEW r \in Registered, NEW image, NEW dirty, NEW handed,
           StartAppend(r, image, dirty, handed),
           Len(regions') = Len(regions), UNCHANGED file
    PROVE  (NothingLost /\ WholeLog /\ OwnRecords)' /\ ~ call'.writing
<1> DEFINE saved == Handed(track[r].saved, image, handed)
           lost == track[r].lost \union IF aof THEN {} ELSE BytesAt(r, dirty)
           hist == [base |-> track[r].base, saved |-> saved, lost |-> lost]
<1>1. NothingLost /\ ~ call.writing /\ aof
  BY DEF ExactInv, LogInv, WritingAtEnd, FaultFree
<1>2. track' = [track EXCEPT ![r] = hist] /\ ~ call'.writing
  BY DEF StartAppend
<1>3. hist.lost = {}
  BY <1>1 DEF NothingLost
<1> HIDE DEF hist
<1>4. \A q \in Registered : q \in DOMAIN track
  BY RegionTyped DEF ExactInv, LogInv
<1>5. \A q \in Registered : track'[q].lost = {}
  BY <1>1, <1>2, <1>3, <1>4 DEF NothingLost
<1>6. QED
  BY <1>1, <1>2, <1>5, SameFileExact

\* So does a host checkpoint,
LEMMA BeginHostExact ==
    ASSUME ExactInv, FaultFree, NEW r, NEW n, NEW image, BeginHostCheckpoint(r, n, image)
    PROVE  (NothingLost /\ WholeLog /\ OwnRecords)' /\ ~ call'.writing
<1>1. PICK dirty, handed : StartAppend(r, image, dirty, handed)
  BY DEF BeginHostCheckpoint
<1>2. PICK new : regions' = [regions EXCEPT ![r] = new]
  BY DEF BeginHostCheckpoint
<1>3. /\ r \in Registered /\ Idle /\ UNCHANGED file
      /\ regions \in Seq(Region)
  BY DEF BeginHostCheckpoint, Accepts, ExactInv, LogInv, TypeInv, TypeOK
<1>4. Len(regions') = Len(regions)
  BY <1>2, <1>3, SMT
<1>5. QED
  BY <1>1, <1>3, <1>4, BeginExact

\* and a bitmap checkpoint.
LEMMA BeginBitmapExact ==
    ASSUME ExactInv, FaultFree, NEW r, NEW n, NEW image, NEW dirty,
           BeginBitmapCheckpoint(r, n, image, dirty)
    PROVE  (NothingLost /\ WholeLog /\ OwnRecords)' /\ ~ call'.writing
<1>1. PICK handed : StartAppend(r, image, dirty, handed)
  BY DEF BeginBitmapCheckpoint
<1>2. r \in Registered /\ Idle /\ UNCHANGED file /\ Len(regions') = Len(regions)
  BY DEF BeginBitmapCheckpoint, Accepts
<1>3. QED
  BY <1>1, <1>2, BeginExact

\* A record under way is the one that may be incomplete.
LEMMA WriteRecordExact ==
    ASSUME ExactInv, FaultFree, WriteRecord
    PROVE  (NothingLost /\ WholeLog /\ OwnRecords)'
<1>1. /\ NothingLost /\ WholeLog /\ OwnRecords /\ ~ call.writing
      /\ UNCHANGED <<regions, track>>
      /\ file' = Append(file, Torn) /\ file \in Seq(Cells) /\ Len(regions) \in Nat
      /\ call \in Calls /\ call' = [call EXCEPT !.writing = TRUE]
  BY SMT DEF ExactInv, WriteRecord, LogInv, TypeInv, TypeOK, Cells
<1>2. call'.writing
  BY <1>1 DEF Calls
<1>3. /\ Len(file') = Len(file) + 1 /\ Len(file) \in Nat
      /\ \A i \in 1 .. Len(file) : file'[i] = file[i]
      /\ file'[Len(file) + 1] = Torn
  BY <1>1, SMT
<1>4. WholeLog'
  BY <1>1, <1>2, <1>3, SMT DEF WholeLog
<1>5. OwnRecords'
  BY <1>1, <1>3, SMT DEF OwnRecords, Torn
<1>6. NothingLost'
  BY <1>1 DEF NothingLost, Registered
<1>7. QED
  BY <1>4, <1>5, <1>6

\* With the commit marker every record is whole again, and nothing is lost.
LEMMA CommitRecordExact ==
    ASSUME ExactInv, FaultFree, CommitRecord
    PROVE  (NothingLost /\ WholeLog /\ OwnRecords)' /\ ~ call'.writing
<1> DEFINE r == call.region
           n == Len(file)
<1>1. /\ NothingLost /\ WholeLog /\ OwnRecords
      /\ r \in Registered /\ call \in Calls
      /\ file \in Seq(Cells) /\ n > 0 /\ n \in Nat
      /\ UNCHANGED regions /\ Len(regions) \in Nat
  BY SMT DEF ExactInv, CommitRecord, LogInv, TypeInv, TypeOK, Idle, Cells, WritingAtEnd
<1>2. PICK page, cell, todo :
        /\ file' = [file EXCEPT ![n] = cell] /\ cell.whole /\ cell.region = r
        /\ call' = [[call EXCEPT !.todo = todo] EXCEPT !.writing = FALSE]
        /\ track' = [track EXCEPT ![r].lost = IF Readable(file, n - 1)
                                              THEN @ \ page ELSE @ \union page]
  <2>1. PICK o \in call.todo :
          LET page == PageBytes(o, regions[r].len, PageSize)
          IN  /\ file' = [file EXCEPT ![Len(file)] =
                             Record(call.epoch, r, PageData(r, o, call.data))]
              /\ call' = [call EXCEPT !.todo = @ \ {o}, !.writing = FALSE]
              /\ track' = [track EXCEPT ![r].lost = IF Readable(file, Len(file) - 1)
                                                    THEN @ \ page ELSE @ \union page]
    BY DEF CommitRecord
  <2> WITNESS PageBytes(o, regions[r].len, PageSize),
              Record(call.epoch, r, PageData(r, o, call.data)), call.todo \ {o}
  <2>2. QED
    BY <2>1 DEF Record
<1>3. Readable(file, n - 1)
  BY <1>1, SMT DEF WholeLog, Readable
<1>4. /\ Len(file') = n /\ file'[n] = cell
      /\ \A i \in 1 .. n - 1 : file'[i] = file[i]
  BY <1>1, <1>2, SMT
<1>5. WholeLog'
  BY <1>1, <1>2, <1>4, SMT DEF WholeLog
<1>6. OwnRecords'
  BY <1>1, <1>2, <1>4, SMT DEF OwnRecords, Registered
<1>7. NothingLost'
  <2> DEFINE hist == [track[r] EXCEPT !.lost = track[r].lost \ page]
  <2>1. track' = [track EXCEPT ![r] = hist]
    BY <1>2, <1>3
  <2>2. \A q \in Registered : q \in DOMAIN track /\ track[q] \in Tracks
    BY RegionTyped DEF ExactInv, LogInv
  <2>3. hist.lost = {}
    BY <1>1, <2>2 DEF NothingLost, Tracks
  <2> HIDE DEF hist
  <2>4. QED
    BY <1>1, <2>1, <2>2, <2>3 DEF NothingLost, Registered
<1>8. ~ call'.writing
  BY <1>1, <1>2 DEF Calls
<1>9. QED
  BY <1>5, <1>6, <1>7, <1>8

\* A restore starts from what the log yields.
LEMMA RestoreExact ==
    ASSUME ExactInv, FaultFree, NEW r, NEW n, NEW image, RestoreHostRegion(r, n, image)
    PROVE  (NothingLost /\ WholeLog /\ OwnRecords)'
<1> DEFINE restored == Replayed(file, r, image)
           new == [regions[r] EXCEPT !.shadow = restored]
           hist == [base |-> image, saved |-> restored, lost |-> {}]
<1>1. /\ regions' = [regions EXCEPT ![r] = new]
      /\ track' = [track EXCEPT ![r] = hist] /\ hist.lost = {}
  BY DEF RestoreHostRegion
<1> HIDE DEF new, hist
<1>2. /\ r \in Registered /\ Idle /\ UNCHANGED file /\ regions \in Seq(Region) /\ NothingLost
  BY DEF RestoreHostRegion, Accepts, ExactInv, LogInv, TypeInv, TypeOK
<1>3. Len(regions') = Len(regions)
  BY <1>1, <1>2, SMT
<1>4. \A q \in Registered : q \in DOMAIN track
  BY RegionTyped DEF ExactInv, LogInv
<1>5. \A q \in Registered : track'[q].lost = {}
  BY <1>1, <1>2, <1>4 DEF NothingLost
<1>6. ~ call.writing
  BY <1>2 DEF ExactInv, LogInv, WritingAtEnd
<1>7. QED
  BY <1>2, <1>3, <1>5, <1>6, SameFileExact

\* Registering a bitmap region keeps the log exact.
LEMMA RegisterBitmapExact ==
    ASSUME ExactInv, NEW n, RegisterBitmap(n), FaultFree
    PROVE  (NothingLost /\ WholeLog /\ OwnRecords)'
<1>1. PICK new, hist : /\ regions' = Append(regions, new)
                       /\ track' = Append(track, hist) /\ hist.lost = {}
  BY SMT DEF RegisterBitmap
<1>2. UNCHANGED <<file, call>>
  BY DEF RegisterBitmap
<1>3. QED
  BY <1>1, <1>2, RegisterExact

Exact == NothingLost /\ WholeLog /\ OwnRecords

\* Every step keeps ExactInv.
LEMMA ExactNext ==
    ASSUME ExactInv, [Next]_vars
    PROVE  ExactInv'
<1>1. LogInv'
  BY LogNext DEF ExactInv
<1>2. WritingHasPage'
  <2>1. ASSUME UNCHANGED call PROVE WritingHasPage'
    BY <2>1 DEF ExactInv, WritingHasPage
  <2>2. ASSUME ~ call'.writing PROVE WritingHasPage'
    BY <2>2 DEF WritingHasPage
  <2>3. CASE WriteRecord
    <3>1. call.todo # {} /\ call \in Calls /\ call' = [call EXCEPT !.writing = TRUE]
      BY <2>3 DEF WriteRecord, ExactInv, LogInv, TypeInv
    <3>2. QED
      BY <3>1 DEF WritingHasPage, Calls
  <2>4. CASE AppendError \/ FinishCheckpoint \/ CrashRestart
    BY <2>2, <2>4, SMT DEF AppendError, FinishCheckpoint, CrashRestart, NoCall
  <2>5. CASE CommitRecord
    <3>1. call \in Calls
      BY DEF ExactInv, LogInv, TypeInv
    <3>2. PICK todo : call' = [[call EXCEPT !.todo = todo] EXCEPT !.writing = FALSE]
      BY <2>5 DEF CommitRecord
    <3>3. QED
      BY <2>2, <3>1, <3>2 DEF Calls
  <2>6. \A r, n, image : BeginHostCheckpoint(r, n, image) => ~ call'.writing
    BY SMT DEF BeginHostCheckpoint, StartAppend
  <2>7. \A r, n, image, dirty : BeginBitmapCheckpoint(r, n, image, dirty) => ~ call'.writing
    BY SMT DEF BeginBitmapCheckpoint, StartAppend
  <2>8. /\ \A n : RegisterBitmap(n) => UNCHANGED call
        /\ \A n, image : RegisterOpaque(n, image) => UNCHANGED call
        /\ \A r, kind, n : RejectCheckpoint(r, kind, n) => UNCHANGED call
        /\ \A r, n, image : RestoreHostRegion(r, n, image) => UNCHANGED call
    BY DEF RegisterBitmap, RegisterOpaque, RejectCheckpoint, RestoreHostRegion
  <2>9. CASE UNCHANGED vars
    BY <2>1, <2>9 DEF vars
  <2>10. QED
    BY <2>1, <2>2, <2>3, <2>4, <2>5, <2>6, <2>7, <2>8, <2>9 DEF Next
<1>3. ASSUME FaultFree' PROVE Exact'
  <2>1. FaultFree /\ ~ AppendError /\ ~ CrashRestart
    <3>1. restarts \in Nat /\ ioErrors \in Nat
      BY DEF ExactInv, LogInv, TypeInv, TypeOK
    <3>2. ~ AppendError /\ ~ CrashRestart
      <4>1. AppendError => ioErrors' = ioErrors + 1
        BY DEF AppendError
      <4>2. CrashRestart => restarts' = restarts + 1
        BY DEF CrashRestart
      <4>3. restarts' = 0 /\ ioErrors' = 0
        BY <1>3 DEF FaultFree
      <4>4. QED
        BY <3>1, <4>1, <4>2, <4>3, SMT
    <3>3. UNCHANGED <<aof, restarts, ioErrors>>
      <4>1. /\ \A n : RegisterBitmap(n) => UNCHANGED <<aof, restarts, ioErrors>>
            /\ \A n, image : RegisterOpaque(n, image) => UNCHANGED <<aof, restarts, ioErrors>>
            /\ \A r, kind, n : RejectCheckpoint(r, kind, n) => UNCHANGED <<aof, restarts, ioErrors>>
            /\ \A r, n, image : RestoreHostRegion(r, n, image)
                                   => UNCHANGED <<aof, restarts, ioErrors>>
        BY DEF RegisterBitmap, RegisterOpaque, RejectCheckpoint, RestoreHostRegion
      <4>2. /\ \A r, n, image : BeginHostCheckpoint(r, n, image)
                                   => UNCHANGED <<aof, restarts, ioErrors>>
            /\ \A r, n, image, dirty : BeginBitmapCheckpoint(r, n, image, dirty)
                                   => UNCHANGED <<aof, restarts, ioErrors>>
        BY DEF BeginHostCheckpoint, BeginBitmapCheckpoint
      <4>3. WriteRecord \/ CommitRecord \/ FinishCheckpoint \/ UNCHANGED vars
               => UNCHANGED <<aof, restarts, ioErrors>>
        BY DEF WriteRecord, CommitRecord, FinishCheckpoint, vars
      <4>4. QED
        BY <3>2, <4>1, <4>2, <4>3 DEF Next
    <3>4. QED
      BY <1>3, <3>2, <3>3 DEF FaultFree
  <2>2. ASSUME UNCHANGED <<regions, file, track, call>> PROVE Exact'
    BY <2>1, <2>2 DEF ExactInv, Exact, NothingLost, WholeLog, OwnRecords, Registered
  <2>3. CASE FinishCheckpoint
    <3>1. ~ call.writing /\ Len(regions') = Len(regions) /\ UNCHANGED <<file, track>>
      BY <2>3 DEF FinishCheckpoint, ExactInv, WritingHasPage
    <3>2. \A q \in Registered : track'[q].lost = {}
      BY <2>1, <3>1 DEF ExactInv, NothingLost
    <3>3. QED
      BY <2>1, <3>1, <3>2, SameFileExact DEF Exact
  <2>4. \A r, kind, n : RejectCheckpoint(r, kind, n) => UNCHANGED <<regions, file, track, call>>
    BY DEF RejectCheckpoint
  <2>5. CASE UNCHANGED vars
    BY <2>2, <2>5 DEF vars
  <2>6. QED
    BY <2>1, <2>2, <2>3, <2>4, <2>5, RegisterOpaqueExact, RegisterBitmapExact, BeginHostExact,
       BeginBitmapExact, WriteRecordExact, CommitRecordExact, RestoreExact DEF Next, Exact
<1>4. QED
  BY <1>1, <1>2, <1>3 DEF ExactInv, Exact

\* While no write fails and no process has restarted on the log, a replay gives
\* every byte of every region the content last handed over, but for the pages
\* the running append has not reached.
THEOREM FaultFreeReplayIsExactAlways == Spec => []FaultFreeReplayIsExact
<1>1. ExactInv => FaultFreeReplayIsExact
  <2> SUFFICES ASSUME ExactInv, FaultFree,
                      NEW r \in Registered, NEW b \in DOMAIN track[r].saved \ Pending(r)
               PROVE  LogYields(file, r, b, track[r].base, track[r].saved[b])
    BY DEF FaultFreeReplayIsExact, FaultFree
  <2>1. track[r].lost = {}
    BY DEF ExactInv, NothingLost
  <2>2. QED
    BY <2>1 DEF ExactInv, LogInv, LogReproducesCheckpoint
<1>2. QED
  BY <1>1, ExactInit, ExactNext, PTL DEF Spec
-----------------------------------------------------------------------------
(***************************************************************************)
(* A replay in the middle of a checkpoint.  The pages still to be written  *)
(* replay as before the checkpoint, the others as it saved them.           *)
(***************************************************************************)
RunsOnOpaque == ~ Idle /\ regions[call.region].kind = "OpaqueShadow"

PendingAsBefore ==
    RunsOnOpaque =>
        \A b \in BytesAt(call.region, call.todo) : b \notin track[call.region].lost =>
            LogYields(file, call.region, b, track[call.region].base, call.before[b])

DataIsSaved == RunsOnOpaque => track[call.region].saved = call.data

PagesInv == LogInv /\ PendingAsBefore /\ DataIsSaved

\* Multiples of a number that differ do so by at least that number.
LEMMA OffsetsApart ==
    ASSUME NEW c \in Nat \ {0}, NEW a \in Nat, NEW d \in Nat, a % c = 0, d % c = 0, a < d
    PROVE  a + c <= d
<1>1. PICK p \in Int : a = c * p
  BY SMT
<1>2. PICK q \in Int : d = c * q
  BY SMT
<1>3. p + 1 <= q
  BY <1>1, <1>2, SMT
<1>4. c * q \in Int /\ c * p \in Int /\ c * (p + 1) <= c * q /\ c * (p + 1) = c * p + c
  BY <1>3, SMT
<1> QED
  BY <1>1, <1>2, <1>4, SMT

\* A byte is in one page only.
LEMMA PagesDisjoint ==
    ASSUME NEW len \in Nat, NEW o \in PageOffsets(len, PageSize),
           NEW p \in PageOffsets(len, PageSize), o # p,
           NEW b \in PageBytes(o, len, PageSize)
    PROVE  b \notin PageBytes(p, len, PageSize)
<1>1. PageSize \in Nat \ {0}
  BY ConstantsAssumption
<1>2. o \in Nat /\ p \in Nat /\ o % PageSize = 0 /\ p % PageSize = 0
  BY SMT DEF PageOffsets
<1>3. o + PageSize <= p \/ p + PageSize <= o
  <2>1. o < p \/ p < o
    BY <1>2, SMT
  <2> QED
    BY <1>1, <1>2, <2>1, OffsetsApart
<1>4. b \in Int /\ o <= b /\ b < o + PageSize
  BY SMT DEF PageBytes
<1> QED
  BY <1>1, <1>2, <1>3, <1>4, SMT DEF PageBytes

\* A byte of a page that is not among the offsets is not in their pages.
LEMMA NotInOtherPages ==
    ASSUME TypeInv, NEW r \in Registered,
           NEW offsets \in SUBSET PageOffsets(regions[r].len, PageSize),
           NEW o \in PageOffsets(regions[r].len, PageSize), o \notin offsets,
           NEW b \in PageBytes(o, regions[r].len, PageSize)
    PROVE  b \notin BytesAt(r, offsets)
<1>1. regions[r].len \in Nat
  BY RegionTyped
<1>2. ASSUME NEW p \in offsets PROVE b \notin PageBytes(p, regions[r].len, PageSize)
  BY <1>1, <1>2, PagesDisjoint
<1> QED
  BY <1>2 DEF BytesAt

\* A host checkpoint begins: nothing is written yet, and the log still yields what
\* was saved before.
LEMMA BeginHostPages ==
    ASSUME LogInv, NEW r \in 1 .. MaxRegions, NEW n \in Lens,
           NEW image \in [0 .. n - 1 -> Bytes], BeginHostCheckpoint(r, n, image)
    PROVE  PendingAsBefore' /\ DataIsSaved'
<1> DEFINE dirty == DirtyPages(r, image)
           saved == Handed(track[r].saved, image, DOMAIN image)
           lost == track[r].lost \union IF aof THEN {} ELSE BytesAt(r, dirty)
           hist == [base |-> track[r].base, saved |-> saved, lost |-> lost]
<1>1. /\ r \in Registered /\ regions[r].kind = "OpaqueShadow" /\ regions[r].len = n
      /\ r \in DOMAIN track /\ Idle /\ file' = file
  BY RegionTyped DEF BeginHostCheckpoint, Accepts, LogInv
<1>2. StartAppend(r, image, dirty, DOMAIN image)
  BY DEF BeginHostCheckpoint
<1>3. track' = [track EXCEPT ![r] = hist]
  BY <1>2 DEF StartAppend
<1>4. /\ call'.region = r /\ call'.data = image /\ call'.before = track[r].saved
  BY <1>2 DEF StartAppend
<1>5. track[r].saved \in [BytesOf(r) -> Bytes] /\ DOMAIN image = BytesOf(r)
  BY <1>1 DEF LogInv, ShadowIsSaved, TypeInv, TypeOK, BytesOf
<1>6. saved = image
  <2>1. saved = [b \in BytesOf(r) |-> image[b]]
    BY <1>5 DEF Handed
  <2> QED
    BY <1>1, <2>1 DEF BytesOf
<1> HIDE DEF saved, lost, dirty
<1>7. /\ track'[r].base = track[r].base /\ track'[r].saved = image
      /\ \A b : b \notin track'[r].lost => b \notin track[r].lost
  BY <1>1, <1>3, <1>6 DEF lost
<1>8. DataIsSaved'
  BY <1>4, <1>7 DEF DataIsSaved
<1>9. r # 0
  BY <1>1, SMT DEF Registered
<1>10. \A b \in BytesOf(r) : b \notin track[r].lost =>
          LogYields(file, r, b, track[r].base, track[r].saved[b])
  <2>1. Pending(r) = {}
    BY <1>1, <1>9 DEF Pending, Idle
  <2> QED
    BY <1>1, <1>5, <2>1 DEF LogInv, LogReproducesCheckpoint
<1>11. \A offsets : BytesAt(r, offsets)' \subseteq BytesOf(r)
  <2>1. regions'[r].len = regions[r].len
    <3>1. /\ r \in DOMAIN regions /\ regions[r] \in Region
      BY <1>1, RegionTyped DEF LogInv
    <3>2. PICK s : regions' = [regions EXCEPT ![r] = [@ EXCEPT !.shadow = s]]
      BY DEF BeginHostCheckpoint
    <3> QED
      BY <3>1, <3>2 DEF Region
  <2> QED
    BY <2>1 DEF BytesAt, BytesOf, PageBytes
<1>12. ASSUME NEW b \in BytesAt(call.region, call.todo)', b \notin track'[call'.region].lost
       PROVE  LogYields(file', call'.region, b, track'[call'.region].base, call'.before[b])
  <2>1. b \in BytesOf(r)
    <3>1. BytesAt(call.region, call.todo)' = BytesAt(r, call.todo)'
      BY <1>4 DEF BytesAt
    <3> QED
      BY <1>11, <1>12, <3>1
  <2> QED
    BY <1>1, <1>4, <1>7, <1>10, <1>12, <2>1
<1> QED
  BY <1>8, <1>12 DEF PendingAsBefore

\* Starting a record changes no replay.
LEMMA WriteRecordPages ==
    ASSUME PagesInv, WriteRecord
    PROVE  PendingAsBefore' /\ DataIsSaved'
<1>1. /\ file \in Seq(Cells) /\ file' = Append(file, Torn) /\ ~ Torn.whole
      /\ call' = [call EXCEPT !.writing = TRUE] /\ call \in Calls
      /\ regions' = regions /\ track' = track
  BY DEF WriteRecord, PagesInv, LogInv, TypeInv, TypeOK, Cells, Torn
<1>2. /\ call'.region = call.region /\ call'.data = call.data /\ call'.todo = call.todo
      /\ call'.before = call.before
  BY <1>1 DEF Calls
<1>3. \A q, b, base, v : LogYields(file', q, b, base, v) <=> LogYields(file, q, b, base, v)
  BY <1>1, TornEndIsIgnored
<1>4. RunsOnOpaque' <=> RunsOnOpaque
  BY <1>1, <1>2 DEF RunsOnOpaque, Idle
<1>5. DataIsSaved'
  BY <1>1, <1>2, <1>4 DEF PagesInv, DataIsSaved
<1>6. BytesAt(call.region, call.todo)' = BytesAt(call.region, call.todo)
  BY <1>1, <1>2 DEF BytesAt
<1>7. PendingAsBefore'
  BY <1>1, <1>2, <1>3, <1>4, <1>6 DEF PagesInv, PendingAsBefore
<1> QED
  BY <1>5, <1>7

\* Committing a record changes the replay of its own page only, and that page is no
\* longer pending.
LEMMA CommitRecordPages ==
    ASSUME PagesInv, CommitRecord
    PROVE  PendingAsBefore' /\ DataIsSaved'
<1>0. PICK r : r = call.region
  OBVIOUS
<1>1. /\ r \in Registered /\ r \in DOMAIN track /\ track[r] \in Tracks /\ call \in Calls
      /\ file \in Seq(Cells) /\ Len(file) > 0 /\ ~ file[Len(file)].whole
      /\ call.todo \subseteq PageOffsets(regions[r].len, PageSize)
      /\ regions' = regions /\ TypeInv
  <2>1. r \in Registered /\ TypeInv
    BY <1>0 DEF CommitRecord, PagesInv, LogInv, TypeInv, TypeOK, Idle
  <2>2. r \in DOMAIN track /\ track[r] \in Tracks
    BY <2>1, RegionTyped
  <2> QED
    BY <1>0, <2>1, <2>2 DEF CommitRecord, PagesInv, LogInv, TypeInv, TypeOK, Idle, Cells,
                            WritingAtEnd
<1>2. PICK o \in call.todo :
        LET page == PageBytes(o, regions[r].len, PageSize)
        IN  /\ file' = [file EXCEPT ![Len(file)] =
                           Record(call.epoch, r, PageData(r, o, call.data))]
            /\ call' = [call EXCEPT !.todo = @ \ {o}, !.writing = FALSE]
            /\ track' = [track EXCEPT ![r].lost = IF Readable(file, Len(file) - 1)
                                                  THEN @ \ page ELSE @ \union page]
  BY <1>0 DEF CommitRecord
<1> DEFINE page == PageBytes(o, regions[r].len, PageSize)
<1>3. PICK cell : cell = Record(call.epoch, r, PageData(r, o, call.data))
  OBVIOUS
<1>4. cell.whole /\ cell.region = r /\ DOMAIN cell.data = page
  BY <1>3 DEF Record, PageData
<1>5. file' = [file EXCEPT ![Len(file)] = cell]
  BY <1>2, <1>3
<1>6. PICK lost : lost = IF Readable(file, Len(file) - 1)
                         THEN track[r].lost \ page ELSE track[r].lost \union page
  OBVIOUS
<1>7. track' = [track EXCEPT ![r] = [@ EXCEPT !.lost = lost]]
  BY <1>2, <1>6
<1>8. /\ track'[r].base = track[r].base /\ track'[r].saved = track[r].saved
      /\ track'[r].lost = lost
  BY <1>1, <1>7 DEF Tracks
<1>9. /\ call'.region = r /\ call'.data = call.data /\ call'.before = call.before
      /\ call'.todo = call.todo \ {o}
  <2>1. PICK rest : rest = call.todo \ {o}
    OBVIOUS
  <2>2. call' = [[call EXCEPT !.todo = rest] EXCEPT !.writing = FALSE]
    BY <1>2, <2>1
  <2> QED
    BY <1>0, <1>1, <2>1, <2>2 DEF Calls
<1>10. RunsOnOpaque' => RunsOnOpaque
  BY <1>0, <1>1, <1>9 DEF RunsOnOpaque, Idle
<1>11. DataIsSaved'
  BY <1>0, <1>8, <1>9, <1>10 DEF PagesInv, DataIsSaved
<1>12. ASSUME RunsOnOpaque, NEW b \in BytesAt(r, call.todo \ {o}), b \notin lost
       PROVE  LogYields(file', r, b, track[r].base, call.before[b])
  <2>1. b \notin page
    <3>1. PICK p \in call.todo \ {o} : b \in PageBytes(p, regions[r].len, PageSize)
      BY <1>12 DEF BytesAt
    <3>2. regions[r].len \in Nat
      BY <1>1, RegionTyped
    <3>3. /\ p \in PageOffsets(regions[r].len, PageSize)
          /\ o \in PageOffsets(regions[r].len, PageSize) /\ p # o
      BY <1>1
    <3> QED
      BY <3>1, <3>2, <3>3, PagesDisjoint
  <2>2. b \notin track[r].lost /\ b \in BytesAt(r, call.todo)
    BY <1>6, <1>12, <2>1 DEF BytesAt
  <2>3. PICK base, v : base = track[r].base /\ v = call.before[b]
    OBVIOUS
  <2>4. LogYields(file, r, b, base, v)
    BY <1>0, <1>12, <2>2, <2>3 DEF PagesInv, PendingAsBefore
  <2>5. LogYields(file', r, b, base, v) <=> LogYields(file, r, b, base, v)
    <3>1. b \notin DOMAIN cell.data
      BY <1>4, <2>1
    <3> QED
      BY <1>1, <1>4, <1>5, <3>1, CommitAtEnd
  <2> QED
    BY <2>3, <2>4, <2>5
<1>13. BytesAt(call.region, call.todo)' = BytesAt(r, call.todo \ {o})
  BY <1>1, <1>9 DEF BytesAt
<1>14. PendingAsBefore'
  BY <1>8, <1>9, <1>10, <1>12, <1>13 DEF PendingAsBefore
<1> QED
  BY <1>11, <1>14

\* Every step keeps PagesInv.
LEMMA PagesNext ==
    ASSUME PagesInv, [Next]_vars
    PROVE  PagesInv'
<1>1. LogInv'
  BY LogNext DEF PagesInv
<1>2. ASSUME ~ RunsOnOpaque' PROVE PendingAsBefore' /\ DataIsSaved'
  BY <1>2 DEF PendingAsBefore, DataIsSaved
<1>3. ASSUME Idle, call' = call PROVE ~ RunsOnOpaque'
  BY <1>3 DEF RunsOnOpaque, Idle
<1>4. ASSUME call' = NoCall PROVE ~ RunsOnOpaque'
  BY <1>4 DEF RunsOnOpaque, Idle, NoCall
<1>5. CASE UNCHANGED vars
  <2>1. regions' = regions /\ call' = call /\ track' = track /\ file' = file
    BY <1>5 DEF vars
  <2>2. /\ RunsOnOpaque' <=> RunsOnOpaque
        /\ BytesAt(call.region, call.todo)' = BytesAt(call.region, call.todo)
    BY <2>1 DEF RunsOnOpaque, Idle, BytesAt
  <2> QED
    BY <1>1, <2>1, <2>2 DEF PagesInv, PendingAsBefore, DataIsSaved
<1>6. ASSUME NEW n, NEW image, RegisterBitmap(n) \/ RegisterOpaque(n, image)
      PROVE  ~ RunsOnOpaque'
  BY <1>3, <1>6 DEF RegisterBitmap, RegisterOpaque
<1>7. ASSUME NEW r, NEW n, NEW image, NEW kind,
             RejectCheckpoint(r, kind, n) \/ RestoreHostRegion(r, n, image)
      PROVE  ~ RunsOnOpaque'
  BY <1>3, <1>7 DEF RejectCheckpoint, RestoreHostRegion
<1>8. ASSUME AppendError \/ FinishCheckpoint \/ CrashRestart PROVE ~ RunsOnOpaque'
  BY <1>4, <1>8 DEF AppendError, FinishCheckpoint, CrashRestart
<1>9. ASSUME NEW r, NEW n, NEW image, NEW dirty, BeginBitmapCheckpoint(r, n, image, dirty)
      PROVE  ~ RunsOnOpaque'
  <2>1. regions[r].kind = "AllocatorBitmap" /\ regions' = regions
    BY <1>9 DEF BeginBitmapCheckpoint, Accepts
  <2>2. call'.region = r
    BY <1>9 DEF BeginBitmapCheckpoint, StartAppend
  <2> QED
    BY <2>1, <2>2 DEF RunsOnOpaque
<1>10. ASSUME NEW n \in Lens, NEW image \in [0 .. n - 1 -> Bytes], NEW r \in 1 .. MaxRegions,
              BeginHostCheckpoint(r, n, image)
       PROVE  PendingAsBefore' /\ DataIsSaved'
  BY <1>10, BeginHostPages DEF PagesInv
<1>11. CASE WriteRecord
  BY <1>1, <1>11, WriteRecordPages DEF PagesInv
<1>12. CASE CommitRecord
  BY <1>1, <1>12, CommitRecordPages DEF PagesInv
<1> QED
  BY <1>1, <1>2, <1>5, <1>6, <1>7, <1>8, <1>9, <1>10, <1>11, <1>12 DEF Next, PagesInv

\* At every instant, for every page size and buffer, each page of a region under a
\* host checkpoint replays entirely as before it or entirely as it saved the page,
\* unless some of its bytes were lost.
THEOREM PagesReplayWholeAlways == Spec => []PagesReplayWhole
<1>1. Init => PagesInv
  <2>1. Init => ~ RunsOnOpaque
    BY SMT DEF Init, NoCall, RunsOnOpaque, Idle
  <2> QED
    BY <2>1, LogInit DEF PagesInv, PendingAsBefore, DataIsSaved
<1>2. PagesInv => PagesReplayWhole
  <2> SUFFICES ASSUME PagesInv, RunsOnOpaque PROVE PagesReplayWhole
    BY DEF PagesReplayWhole, RunsOnOpaque
  <2>1. PICK r : r = call.region
    OBVIOUS
  <2>2. /\ r \in Registered /\ TypeInv
        /\ call.todo \subseteq PageOffsets(regions[r].len, PageSize)
        /\ call.data \in [BytesOf(r) -> Bytes]
        /\ track[r].saved = call.data
    BY <2>1 DEF PagesInv, DataIsSaved, LogInv, TypeInv, TypeOK, RunsOnOpaque, Idle
  <2>3. ASSUME NEW o \in PageOffsets(regions[r].len, PageSize),
               PageBytes(o, regions[r].len, PageSize) \intersect track[r].lost = {}
        PROVE  \/ \A b \in PageBytes(o, regions[r].len, PageSize) :
                     LogYields(file, r, b, track[r].base, call.before[b])
               \/ \A b \in PageBytes(o, regions[r].len, PageSize) :
                     LogYields(file, r, b, track[r].base, call.data[b])
    <3>1. CASE o \in call.todo
      <4>1. \A b \in PageBytes(o, regions[r].len, PageSize) :
               b \in BytesAt(r, call.todo) /\ b \notin track[r].lost
        BY <2>3, <3>1 DEF BytesAt
      <4> QED
        BY <2>1, <4>1 DEF PagesInv, PendingAsBefore
    <3>2. CASE o \notin call.todo
      <4>1. ASSUME NEW b \in PageBytes(o, regions[r].len, PageSize)
            PROVE  b \in DOMAIN track[r].saved /\ b \notin track[r].lost \union Pending(r)
        <5>1. b \notin BytesAt(r, call.todo)
          BY <2>2, <3>2, NotInOtherPages
        <5>2. b \in BytesOf(r)
          BY DEF PageBytes, BytesOf
        <5> QED
          BY <2>1, <2>2, <2>3, <5>1, <5>2 DEF Pending
      <4> QED
        BY <2>2, <4>1 DEF PagesInv, LogInv, LogReproducesCheckpoint
    <3> QED
      BY <3>1, <3>2
  <2> QED
    BY <2>1, <2>3 DEF PagesReplayWhole
<1> QED
  BY <1>1, <1>2, PagesNext, PTL DEF Spec
-----------------------------------------------------------------------------
(***************************************************************************)
(* The loops of a replay compute the last-writer replay.  The induction on *)
(* the number of iterations is an argument about the least iteration for   *)
(* which the claim fails.                                                  *)
(***************************************************************************)

\* Induction up to N, for a set of natural numbers.
LEMMA UpTo ==
    ASSUME NEW N \in Nat, NEW G, 0 \in G, \A n \in 1 .. N : n - 1 \in G => n \in G
    PROVE  0 .. N \subseteq G
<1> DEFINE T == {n \in 0 .. N : n \notin G}
<1> SUFFICES ASSUME T # {} PROVE FALSE
  OBVIOUS
<1>1. PICK R : R = OpToRel(<, Nat)
  OBVIOUS
<1>2. IsWellFoundedOn(R, Nat)
  BY <1>1, NatLessThanWellFounded
<1>3. T \subseteq Nat
  BY SMT
<1>4. PICK n \in T : \A m \in T : ~ (<<m, n>> \in R)
  BY <1>2, <1>3, WFMin
<1>5. n # 0 /\ n \in 0 .. N
  OBVIOUS
<1>6. n \in 1 .. N /\ n - 1 \in 0 .. N /\ n - 1 < n /\ n - 1 \in Nat /\ n \in Nat
  BY <1>5, SMT
<1>7. <<n - 1, n>> \in R
  BY <1>1, <1>6, SMT DEF OpToRel
<1>8. n - 1 \in G
  BY <1>4, <1>6, <1>7
<1> QED
  BY <1>6, <1>8

\* The values of a loop that starts with x: D says what iteration n makes of what the
\* one before left.
Loop(f, N, X, x, D) ==
    f \in [0 .. N -> X] /\ f[0] = x /\ \A n \in 1 .. N : f[n] = D[<<f[n - 1], n>>]

\* A loop of N iterations has such values.
LEMMA LoopRuns ==
    ASSUME NEW N \in Nat, NEW X, NEW x \in X, NEW D \in [X \X (1 .. N) -> X]
    PROVE  \E f : Loop(f, N, X, x, D)
<1> DEFINE Run(m, f) == /\ f \in [0 .. m -> X] /\ f[0] = x
                        /\ \A n \in 1 .. m : f[n] = D[<<f[n - 1], n>>]
           G == {m \in 0 .. N : \E f : Run(m, f)}
<1>1. 0 \in G
  <2>1. PICK f : f = [n \in 0 .. 0 |-> x]
    OBVIOUS
  <2>2. f \in [0 .. 0 -> X] /\ f[0] = x /\ 0 \in 0 .. N /\ 1 .. 0 = {}
    BY <2>1, SMT
  <2>3. Run(0, f)
    BY <2>2
  <2> QED
    BY <2>2, <2>3
<1>2. ASSUME NEW m \in 1 .. N, m - 1 \in G PROVE m \in G
  <2>1. PICK f : Run(m - 1, f)
    BY <1>2
  <2>2. PICK k \in Nat : k = m - 1 /\ m = k + 1 /\ m \in 0 .. N
    BY SMT
  <2>3. f \in [0 .. k -> X] /\ f[0] = x /\ \A n \in 1 .. k : f[n] = D[<<f[n - 1], n>>]
    BY <2>1, <2>2
  <2>4. PICK y \in X : y = D[<<f[k], m>>]
    <3>1. f[k] \in X
      BY <2>2, <2>3, SMT
    <3> QED
      BY <3>1
  <2>5. PICK g : g = [n \in 0 .. m |-> IF n = m THEN y ELSE f[n]]
    OBVIOUS
  <2>6. \A n \in 0 .. m : n # m => n \in 0 .. k
    BY <2>2, SMT
  <2>7. g \in [0 .. m -> X]
    BY <2>3, <2>5, <2>6
  <2>8. 0 \in 0 .. m /\ 0 # m /\ \A n \in 1 .. m : /\ n - 1 \in 0 .. m /\ n - 1 # m
                                                   /\ n \in 0 .. m
                                                   /\ n # m => n \in 1 .. k
    BY <2>2, SMT
  <2>9. g[0] = x
    BY <2>3, <2>5, <2>8
  <2>10. ASSUME NEW n \in 1 .. m PROVE g[n] = D[<<g[n - 1], n>>]
    <3>1. g[n - 1] = f[n - 1]
      BY <2>5, <2>8
    <3>2. CASE n = m
      <4>1. g[n] = y /\ n - 1 = k
        BY <2>2, <2>5, <2>8, <3>2
      <4> QED
        BY <2>4, <3>1, <3>2, <4>1
    <3>3. CASE n # m
      BY <2>3, <2>5, <2>8, <3>1, <3>3
    <3> QED
      BY <3>2, <3>3
  <2>11. Run(m, g)
    BY <2>7, <2>9, <2>10
  <2> QED
    BY <2>2, <2>11
<1> HIDE DEF G
<1>3. 0 .. N \subseteq G
  BY <1>1, <1>2, UpTo
<1>4. N \in 0 .. N
  BY SMT
<1>5. PICK f : Run(N, f)
  BY <1>3, <1>4 DEF G
<1> QED
  BY <1>5 DEF Loop

\* read_committed returns the records up to the first that is not whole.
LEMMA ReadsPrefix ==
    ASSUME NEW S, NEW f \in Seq(S)
    PROVE  \E k \in 0 .. Len(f) :
               /\ ReadCommitted(f) \in Seq(S) /\ Len(ReadCommitted(f)) = k
               /\ \A i \in 1 .. k : ReadCommitted(f)[i] = f[i] /\ f[i].whole
               /\ k # Len(f) => ~ f[k + 1].whole
<1> DEFINE N == Len(f)
           Step(g, n) == IF Len(g[n - 1]) = n - 1 /\ f[n].whole
                         THEN Append(g[n - 1], f[n]) ELSE g[n - 1]
           IsRead(g) == g = [n \in 0 .. N |-> IF n = 0 THEN << >> ELSE Step(g, n)]
<1>n. N \in Nat /\ << >> \in Seq(S) /\ \A n \in 1 .. N : f[n] \in S
  BY SMT
<1>1. \E g : IsRead(g)
  <2> DEFINE D == [p \in Seq(S) \X (1 .. N) |->
                       IF Len(p[1]) = p[2] - 1 /\ f[p[2]].whole
                       THEN Append(p[1], f[p[2]]) ELSE p[1]]
  <2>1. D \in [Seq(S) \X (1 .. N) -> Seq(S)]
    <3>1. ASSUME NEW p \in Seq(S) \X (1 .. N) PROVE D[p] \in Seq(S)
      <4>1. p[1] \in Seq(S) /\ p[2] \in 1 .. N
        BY <3>1
      <4>2. f[p[2]] \in S
        BY <1>n, <4>1
      <4>3. Append(p[1], f[p[2]]) \in Seq(S)
        BY <4>1, <4>2, SMT
      <4> QED
        BY <4>1, <4>3
    <3> QED
      BY <3>1
  <2>2. \A x \in Seq(S), n \in 1 .. N :
            D[<<x, n>>] = IF Len(x) = n - 1 /\ f[n].whole THEN Append(x, f[n]) ELSE x
    BY SMT
  <2> HIDE DEF N, D
  <2>g. PICK g : Loop(g, N, Seq(S), << >>, D)
    BY <1>n, <2>1, LoopRuns
  <2>3. /\ g \in [0 .. N -> Seq(S)] /\ g[0] = << >>
        /\ \A n \in 1 .. N : g[n] = D[<<g[n - 1], n>>]
    BY <2>g DEF Loop
  <2>4. \A n \in 0 .. N : n # 0 => n \in 1 .. N /\ n - 1 \in 0 .. N
    BY <1>n, SMT
  <2>5. ASSUME NEW n \in 0 .. N, n # 0 PROVE g[n] = Step(g, n)
    <3>1. PICK x \in Seq(S) : x = g[n - 1]
      BY <2>3, <2>4, <2>5
    <3>2. n \in 1 .. N /\ g[n] = D[<<x, n>>]
      BY <2>3, <2>4, <2>5, <3>1
    <3>3. g[n] = IF Len(x) = n - 1 /\ f[n].whole THEN Append(x, f[n]) ELSE x
      BY <2>2, <3>2
    <3> QED
      BY <3>1, <3>3
  <2>6. \A n \in 0 .. N : g[n] = IF n = 0 THEN << >> ELSE Step(g, n)
    BY <2>3, <2>5
  <2>7. g = [n \in 0 .. N |-> g[n]]
    BY <2>3
  <2>8. IsRead(g)
    BY <2>6, <2>7
  <2> QED
    BY <2>8
<1>2. PICK read : read = CHOOSE g : IsRead(g)
  OBVIOUS
<1>3. ReadCommitted(f) = read[N]
  BY <1>2 DEF ReadCommitted
<1>4. IsRead(read)
  BY <1>1, <1>2
<1>5. /\ read[0] = << >>
      /\ \A n \in 1 .. N : read[n] = Step(read, n)
  <2>1. 0 \in 0 .. N /\ \A n \in 1 .. N : n \in 0 .. N /\ n # 0
    BY <1>n, SMT
  <2> HIDE DEF N, Step
  <2> QED
    BY <1>4, <2>1
<1> DEFINE Prefix(n, k) ==
               /\ read[n] \in Seq(S) /\ Len(read[n]) = k
               /\ \A i \in 1 .. k : read[n][i] = f[i] /\ f[i].whole
               /\ k # n => ~ f[k + 1].whole
           G == {n \in 0 .. N : \E k \in 0 .. n : Prefix(n, k)}
<1>6. 0 \in G
  <2>1. 0 \in 0 .. N /\ 0 \in 0 .. 0 /\ 1 .. 0 = {}
    BY <1>n, SMT
  <2>2. << >> \in Seq(S) /\ Len(<< >>) = 0
    BY SMT
  <2>3. Prefix(0, 0)
    BY <1>5, <2>1, <2>2
  <2> QED
    BY <2>1, <2>3
<1>7. ASSUME NEW n \in 1 .. N, n - 1 \in G PROVE n \in G
  <2>1. PICK k \in 0 .. n - 1 : Prefix(n - 1, k)
    BY <1>7
  <2>2. PICK r \in Seq(S) : r = read[n - 1]
    BY <2>1
  <2>3. /\ Len(r) = k /\ \A i \in 1 .. k : r[i] = f[i] /\ f[i].whole
        /\ k # n - 1 => ~ f[k + 1].whole
    BY <2>1, <2>2
  <2>4. n \in 0 .. N /\ k \in 0 .. n /\ n \in 0 .. n /\ k \in Nat
    BY <1>n, SMT
  <2>5. read[n] = IF k = n - 1 /\ f[n].whole THEN Append(r, f[n]) ELSE r
    BY <1>5, <2>2, <2>3
  <2>6. CASE k = n - 1 /\ f[n].whole
    <3>1. PICK q : q = Append(r, f[n])
      OBVIOUS
    <3>2. q \in Seq(S) /\ Len(q) = n /\ \A i \in 1 .. n : q[i] = IF i = n THEN f[n] ELSE r[i]
      BY <1>n, <2>3, <2>6, <3>1, SMT
    <3>3. \A i \in 1 .. n : i # n => i \in 1 .. k
      BY <1>n, <2>6, SMT
    <3>4. \A i \in 1 .. n : q[i] = f[i] /\ f[i].whole
      BY <2>3, <2>6, <3>2, <3>3
    <3>5. Prefix(n, n)
      BY <2>5, <2>6, <3>1, <3>2, <3>4
    <3> QED
      BY <2>4, <3>5
  <2>7. CASE ~ (k = n - 1 /\ f[n].whole)
    <3>1. read[n] = r
      BY <2>5, <2>7
    <3>2. k = n - 1 => k + 1 = n
      BY <1>n, SMT
    <3>3. ~ f[k + 1].whole
      BY <2>3, <2>7, <3>2
    <3>4. Prefix(n, k)
      BY <2>3, <3>1, <3>3
    <3> QED
      BY <2>4, <3>4
  <2> QED
    BY <2>6, <2>7
<1>8. 0 .. N \subseteq G
  <2> HIDE DEF N, G
  <2> QED
    BY <1>n, <1>6, <1>7, UpTo
<1>9. PICK k \in 0 .. N : Prefix(N, k)
  <2>1. N \in 0 .. N
    BY <1>n, SMT
  <2> QED
    BY <1>8, <2>1
<1> QED
  BY <1>3, <1>9

\* The cells of S hold bytes of B.
HoldBytes(S, B) == \A c \in S : \A b \in DOMAIN c.data : c.data[b] \in B

\* Each byte of result is that of the last of the records that covers it, or target's.
Hits(recs, i, r, b) == recs[i].region = r /\ b \in DOMAIN recs[i].data
LastOf(recs, n, i, r, b) ==
    Hits(recs, i, r, b) /\ \A j \in i + 1 .. n : ~ Hits(recs, j, r, b)
HoldsLast(recs, n, r, target, result, b) ==
    \/ \E i \in 1 .. n : LastOf(recs, n, i, r, b) /\ result[b] = recs[i].data[b]
    \/ (\A i \in 1 .. n : ~ Hits(recs, i, r, b)) /\ result[b] = target[b]

\* apply_records_to_region leaves in every byte of the target the value of the last
\* record of the region that covers it, and the byte's own where none does.
LEMMA AppliesLast ==
    ASSUME NEW S, NEW recs \in Seq(S), NEW B, NEW A, NEW target \in [A -> B], NEW r,
           HoldBytes(S, B)
    PROVE  /\ ApplyRecords(r, target, recs) \in [A -> B]
           /\ \A b \in A :
                 HoldsLast(recs, Len(recs), r, target, ApplyRecords(r, target, recs), b)
<1> DEFINE N == Len(recs)
           Step(g, n) == IF recs[n].region = r THEN ApplyRecord(g[n - 1], recs[n].data)
                         ELSE g[n - 1]
           IsLoop(g) == g = [n \in 0 .. N |-> IF n = 0 THEN target ELSE Step(g, n)]
<1>n. N \in Nat /\ \A n \in 1 .. N : recs[n] \in S
  BY SMT
<1>a. ASSUME NEW x \in [A -> B], NEW n \in 1 .. N
      PROVE  /\ ApplyRecord(x, recs[n].data) \in [A -> B]
             /\ \A b \in A : ApplyRecord(x, recs[n].data)[b] =
                    IF b \in DOMAIN recs[n].data THEN recs[n].data[b] ELSE x[b]
  <2>1. recs[n] \in S
    BY <1>n
  <2>2. PICK d : d = recs[n].data
    OBVIOUS
  <2>3. \A b \in DOMAIN d : d[b] \in B
    BY <2>1, <2>2 DEF HoldBytes
  <2>4. DOMAIN x = A /\ \A b \in A : x[b] \in B
    OBVIOUS
  <2>5. ApplyRecord(x, d) = [b \in A |-> IF b \in DOMAIN d THEN d[b] ELSE x[b]]
    BY <2>4 DEF ApplyRecord
  <2> QED
    BY <2>2, <2>3, <2>4, <2>5
<1>1. \E g : IsLoop(g)
  <2> DEFINE D == [p \in [A -> B] \X (1 .. N) |->
                       IF recs[p[2]].region = r THEN ApplyRecord(p[1], recs[p[2]].data)
                       ELSE p[1]]
  <2>1. D \in [[A -> B] \X (1 .. N) -> [A -> B]]
    <3>1. ASSUME NEW p \in [A -> B] \X (1 .. N) PROVE D[p] \in [A -> B]
      <4>1. PICK x \in [A -> B], n \in 1 .. N : x = p[1] /\ n = p[2]
        BY <3>1
      <4>2. D[p] = IF recs[n].region = r THEN ApplyRecord(x, recs[n].data) ELSE x
        BY <3>1, <4>1
      <4> QED
        BY <1>a, <4>2
    <3> QED
      BY <3>1
  <2>2. \A x \in [A -> B], n \in 1 .. N :
            D[<<x, n>>] = IF recs[n].region = r THEN ApplyRecord(x, recs[n].data) ELSE x
    BY SMT
  <2> HIDE DEF N, D
  <2>g. PICK g : Loop(g, N, [A -> B], target, D)
    BY <1>n, <2>1, LoopRuns
  <2>3. /\ g \in [0 .. N -> [A -> B]] /\ g[0] = target
        /\ \A n \in 1 .. N : g[n] = D[<<g[n - 1], n>>]
    BY <2>g DEF Loop
  <2>4. \A n \in 0 .. N : n # 0 => n \in 1 .. N /\ n - 1 \in 0 .. N
    BY <1>n, SMT
  <2>5. ASSUME NEW n \in 0 .. N, n # 0 PROVE g[n] = Step(g, n)
    <3>1. PICK x \in [A -> B] : x = g[n - 1]
      BY <2>3, <2>4, <2>5
    <3>2. n \in 1 .. N /\ g[n] = D[<<x, n>>]
      BY <2>3, <2>4, <2>5, <3>1
    <3>3. g[n] = IF recs[n].region = r THEN ApplyRecord(x, recs[n].data) ELSE x
      BY <2>2, <3>2
    <3> QED
      BY <3>1, <3>3
  <2>6. \A n \in 0 .. N : g[n] = IF n = 0 THEN target ELSE Step(g, n)
    BY <2>3, <2>5
  <2>7. g = [n \in 0 .. N |-> g[n]]
    BY <2>3
  <2>8. IsLoop(g)
    BY <2>6, <2>7
  <2> QED
    BY <2>8
<1>2. PICK buffer : buffer = CHOOSE g : IsLoop(g)
  OBVIOUS
<1>3. ApplyRecords(r, target, recs) = buffer[N]
  BY <1>2 DEF ApplyRecords
<1>4. IsLoop(buffer)
  BY <1>1, <1>2
<1>5. /\ buffer[0] = target
      /\ \A n \in 1 .. N : buffer[n] = Step(buffer, n)
  <2>1. 0 \in 0 .. N /\ \A n \in 1 .. N : n \in 0 .. N /\ n # 0
    BY <1>n, SMT
  <2> HIDE DEF N, Step
  <2> QED
    BY <1>4, <2>1
<1> DEFINE Byte(n, b) == HoldsLast(recs, n, r, target, buffer[n], b)
           G == {n \in 0 .. N : buffer[n] \in [A -> B] /\ \A b \in A : Byte(n, b)}
<1>6. 0 \in G
  <2>1. 0 \in 0 .. N /\ 1 .. 0 = {}
    BY <1>n, SMT
  <2> HIDE DEF N
  <2> QED
    BY <1>5, <2>1 DEF HoldsLast
<1>7. ASSUME NEW n \in 1 .. N, n - 1 \in G PROVE n \in G
  <2>1. PICK x \in [A -> B] : x = buffer[n - 1]
    BY <1>7
  <2>2. n \in 0 .. N /\ n \in 1 .. n /\ n + 1 .. n = {}
    BY <1>n, SMT
  <2>3. \A i \in 1 .. n : i # n => i \in 1 .. n - 1
    BY <1>n, SMT
  <2>4. \A i \in 1 .. n - 1 : /\ i \in 1 .. n
                              /\ \A j \in i + 1 .. n : j # n => j \in i + 1 .. n - 1
    BY <1>n, SMT
  <2>5. buffer[n] = IF recs[n].region = r THEN ApplyRecord(x, recs[n].data) ELSE x
    BY <1>5, <2>1
  <2>6. /\ buffer[n] \in [A -> B]
        /\ \A b \in A : buffer[n][b] = IF Hits(recs, n, r, b) THEN recs[n].data[b] ELSE x[b]
    <3>1. CASE recs[n].region = r
      <4>1. PICK y : y = ApplyRecord(x, recs[n].data)
        OBVIOUS
      <4>2. /\ y \in [A -> B]
            /\ \A b \in A : y[b] = IF b \in DOMAIN recs[n].data THEN recs[n].data[b] ELSE x[b]
        BY <1>a, <4>1
      <4>3. buffer[n] = y
        BY <2>5, <3>1, <4>1
      <4> QED
        BY <3>1, <4>2, <4>3 DEF Hits
    <3>2. CASE recs[n].region # r
      BY <2>5, <3>2 DEF Hits
    <3> QED
      BY <3>1, <3>2
  <2>7. ASSUME NEW b \in A PROVE Byte(n, b)
    <3>0. HoldsLast(recs, n - 1, r, target, x, b)
      BY <1>7, <2>1
    <3>1. CASE Hits(recs, n, r, b)
      <4>1. LastOf(recs, n, n, r, b)
        BY <2>2, <3>1 DEF LastOf
      <4> QED
        BY <2>2, <2>6, <3>1, <4>1 DEF HoldsLast
    <3>2. CASE ~ Hits(recs, n, r, b)
      <4>0. buffer[n][b] = x[b]
        BY <2>6, <3>2
      <4>1. CASE \E i \in 1 .. n - 1 : /\ LastOf(recs, n - 1, i, r, b)
                                       /\ x[b] = recs[i].data[b]
        <5>1. PICK i \in 1 .. n - 1 : LastOf(recs, n - 1, i, r, b) /\ x[b] = recs[i].data[b]
          BY <4>1
        <5>2. LastOf(recs, n, i, r, b)
          BY <2>4, <3>2, <5>1 DEF LastOf
        <5> QED
          BY <2>4, <4>0, <5>1, <5>2 DEF HoldsLast
      <4>2. CASE (\A i \in 1 .. n - 1 : ~ Hits(recs, i, r, b)) /\ x[b] = target[b]
        BY <2>3, <3>2, <4>0, <4>2 DEF HoldsLast
      <4> QED
        BY <3>0, <4>1, <4>2 DEF HoldsLast
    <3> QED
      BY <3>1, <3>2
  <2> QED
    BY <2>2, <2>6, <2>7
<1>8. 0 .. N \subseteq G
  <2> HIDE DEF N, G
  <2> QED
    BY <1>n, <1>6, <1>7, UpTo
<1>9. buffer[N] \in [A -> B] /\ \A b \in A : Byte(N, b)
  <2>1. N \in 0 .. N
    BY <1>n, SMT
  <2> HIDE DEF Byte
  <2> QED
    BY <1>8, <2>1
<1> QED
  BY <1>3, <1>9

\* The loops of a replay find the last writer of every byte, for any target.
LEMMA LoopsFindLastWriter ==
    ASSUME NEW S, NEW f \in Seq(S), NEW B, NEW A, NEW target \in [A -> B], NEW r,
           HoldBytes(S, B)
    PROVE  /\ RecordsFit(r, target, ReadCommitted(f)) <=> ReplayFits(f, r, target)
           /\ ApplyRecords(r, target, ReadCommitted(f)) = Replayed(f, r, target)
<1>1. PICK recs \in Seq(S) : recs = ReadCommitted(f)
  BY ReadsPrefix
<1>2. PICK k \in 0 .. Len(f) :
          /\ Len(recs) = k
          /\ \A i \in 1 .. k : recs[i] = f[i] /\ f[i].whole
          /\ k # Len(f) => ~ f[k + 1].whole
  BY <1>1, ReadsPrefix
<1>n. Len(f) \in Nat /\ k \in Nat /\ DOMAIN recs = 1 .. k
  BY <1>1, <1>2, SMT
<1>3. \A i \in 1 .. k : i \in 1 .. Len(f) /\ Readable(f, i)
  <2>1. \A i \in 1 .. k : i \in 1 .. Len(f) /\ \A j \in 1 .. i : j \in 1 .. k
    BY <1>n, SMT
  <2> QED
    BY <1>2, <2>1 DEF Readable
<1>4. ASSUME NEW i \in 1 .. Len(f), Readable(f, i) PROVE i \in 1 .. k
  <2>1. i \notin 1 .. k => k # Len(f) /\ k + 1 \in 1 .. i
    BY <1>n, SMT
  <2> QED
    BY <1>2, <1>4, <2>1 DEF Readable
<1>5. RecordsFit(r, target, recs) <=> ReplayFits(f, r, target)
  BY <1>n, <1>2, <1>3, <1>4 DEF RecordsFit, ReplayFits
<1> DEFINE result == ApplyRecords(r, target, recs)
<1>6. result \in [A -> B] /\ \A b \in A : HoldsLast(recs, k, r, target, result, b)
  <2>1. result \in [A -> B] /\ \A b \in A : HoldsLast(recs, Len(recs), r, target, result, b)
    BY AppliesLast
  <2> QED
    BY <1>2, <2>1
<1>7. ASSUME NEW i \in 1 .. Len(f), NEW b
      PROVE  Covers(f, i, r, b) <=> i \in 1 .. k /\ Hits(recs, i, r, b)
  BY <1>2, <1>3, <1>4 DEF Covers, Hits
<1>8. ASSUME NEW b \in A PROVE Replayed(f, r, target)[b] = result[b]
  <2> HIDE DEF result
  <2> DEFINE Found == \E i \in 1 .. Len(f) : LastCover(f, i, r, b)
             At == CHOOSE i \in 1 .. Len(f) : LastCover(f, i, r, b)
  <2>0. Replayed(f, r, target)[b] = IF Found THEN f[At].data[b] ELSE target[b]
    BY DEF Replayed
  <2>1. CASE \E i \in 1 .. k : LastOf(recs, k, i, r, b) /\ result[b] = recs[i].data[b]
    <3>1. PICK i \in 1 .. k : LastOf(recs, k, i, r, b) /\ result[b] = recs[i].data[b]
      BY <2>1
    <3>2. i \in 1 .. Len(f)
      BY <1>3
    <3>3. \A j \in i + 1 .. Len(f) : /\ j \in 1 .. Len(f)
                                     /\ j \in 1 .. k => j \in i + 1 .. k
      BY <1>n, SMT
    <3>4. LastCover(f, i, r, b)
      BY <1>7, <3>1, <3>2, <3>3 DEF LastCover, LastOf
    <3>5. ASSUME NEW m \in 1 .. Len(f), LastCover(f, m, r, b) PROVE m = i
      <4>1. Covers(f, m, r, b) /\ Covers(f, i, r, b)
        BY <3>4, <3>5 DEF LastCover
      <4>2. m \notin i + 1 .. Len(f) /\ i \notin m + 1 .. Len(f)
        BY <3>4, <3>5, <4>1 DEF LastCover
      <4> QED
        BY <1>n, <3>2, <4>2, SMT
    <3>6. Found /\ At = i
      BY <3>2, <3>4, <3>5
    <3> QED
      BY <1>2, <2>0, <3>1, <3>6
  <2>2. CASE (\A i \in 1 .. k : ~ Hits(recs, i, r, b)) /\ result[b] = target[b]
    <3>1. ~ Found
      BY <1>7, <2>2 DEF LastCover
    <3> QED
      BY <2>0, <2>2, <3>1
  <2> QED
    BY <1>6, <2>1, <2>2 DEF HoldsLast
<1>9. result = Replayed(f, r, target)
  <2>1. Replayed(f, r, target) = [b \in A |-> Replayed(f, r, target)[b]]
    BY DEF Replayed
  <2>2. result = [b \in A |-> result[b]]
    BY <1>6
  <2> HIDE DEF result
  <2> QED
    BY <1>8, <2>1, <2>2
<1> QED
  BY <1>1, <1>5, <1>9

\* In every state the loops of read_committed and apply_records_to_region accept the
\* records that the last-writer replay accepts and leave the same bytes, so what is
\* proved of LogYields and Replayed is proved of the code's loops.
THEOREM ReplayIsLastWriterAlways == Spec => []ReplayIsLastWriter
<1> DEFINE Cell == [whole : BOOLEAN, epoch : Nat, region : Nat, data : Pages \union {<< >>}]
<1>1. HoldBytes(Cell, Bytes)
  <2> SUFFICES ASSUME NEW c \in Cell, NEW b \in DOMAIN c.data PROVE c.data[b] \in Bytes
    BY DEF HoldBytes
  <2>1. PICK d \in Pages \union {<< >>} : d = c.data
    OBVIOUS
  <2>2. d # << >>
    BY <2>1, SMT
  <2> QED
    BY <2>1, <2>2 DEF Pages
<1>2. ASSUME file \in Seq(Cell), NEW r, NEW n \in Lens, NEW v \in Bytes, NEW target,
             target = [b \in 0 .. n - 1 |-> v]
      PROVE  /\ RecordsFit(r, target, ReadCommitted(file)) = ReplayFits(file, r, target)
             /\ ApplyRecords(r, target, ReadCommitted(file)) = Replayed(file, r, target)
  <2>1. target \in [0 .. n - 1 -> Bytes]
    BY <1>2
  <2> HIDE DEF Cell
  <2>2. /\ RecordsFit(r, target, ReadCommitted(file)) <=> ReplayFits(file, r, target)
        /\ ApplyRecords(r, target, ReadCommitted(file)) = Replayed(file, r, target)
    BY <1>1, <1>2, <2>1, LoopsFindLastWriter
  <2>3. RecordsFit(r, target, ReadCommitted(file)) = ReplayFits(file, r, target)
    BY <2>2 DEF RecordsFit, ReplayFits
  <2> QED
    BY <2>2, <2>3
<1>3. TypeOK => ReplayIsLastWriter
  <2> SUFFICES ASSUME TypeOK PROVE ReplayIsLastWriter
    OBVIOUS
  <2>1. file \in Seq(Cell)
    BY DEF TypeOK
  <2> QED
    BY <1>2, <2>1 DEF ReplayIsLastWriter
<1> QED
  BY <1>3, TypeCorrect, PTL
=============================================================================
