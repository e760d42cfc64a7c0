-------------------------- MODULE KimiRestoreProofs --------------------------
(***************************************************************************)
(* A restart that nothing has spoiled gives every buffer its own page      *)
(* back, and none older than the last full checkpoint.  Here is the        *)
(* invariant this needs, and that every action but Prepare keeps it.       *)
(***************************************************************************)
EXTENDS KimiConcordiaProofs

\* Most leaves are first-order reasoning; those with arithmetic cite SMT.
USE Zenon

-----------------------------------------------------------------------------
(***************************************************************************)
(* The invariant.  Regions, pages, uses and manifests are arguments, so    *)
(* that the lemmas can be about what a step makes of them.                 *)
(***************************************************************************)
Histories == [ckpt : [Buffers -> Times], uses : [Kinds -> Seq(Buffers)]]

\* Under the numbers of the manifest m are pages of the buffers that were used
\* in the places it names, not older than the checkpoint ck.
Keeps(lg, m, us, ck) ==
    \A s \in m \ NoManifest : s.kind # "Opaque" =>
        /\ s.ordinal \in DOMAIN us[s.kind]
        /\ lg[s.id] # NoPage => lg[s.id].buf = us[s.kind][s.ordinal]
        /\ lg[s.id].at >= ck[us[s.kind][s.ordinal]]

\* Every use has its entry in the manifest m.
Lists(m, us) ==
    \A k \in Kinds : \A i \in DOMAIN us[k] : SpecsIn(m, k, i) # {}

OwnMem(pages) == \A b \in Buffers : pages[b] # NoPage => pages[b].buf = b

\* The numbers that are still to be given are not in the log.
Fresh(lg, n) == \A i \in Ids : i >= n => lg[i] = NoPage

\* The page of a region in the log is its own, not newer than the one in memory
\* and not older than the last full checkpoint.
OwnLog(regs, lg, pages, ck) ==
    \A b \in Tracked(regs) :
        /\ lg[regs[b].id] # NoPage => lg[regs[b].id].buf = b
        /\ pages[b].at >= lg[regs[b].id].at
        /\ lg[regs[b].id].at >= ck[b]

\* Only a region with a snapshot has been in a checkpoint.
Unchecked(regs, ck) == \A b \in Buffers : (b \in Tracked(regs) /\ regs[b].init) \/ ck[b] = 0

\* The n-th use as a kind is the region with the n-th place in it.
UsesPlaced(regs, us) ==
    \A k \in Kinds :
        /\ Len(us[k]) = Cardinality(OfKind(regs, k))
        /\ \A i \in DOMAIN us[k] : /\ us[k][i] \in Tracked(regs)
                                   /\ regs[us[k][i]].kind = k
                                   /\ regs[us[k][i]].ordinal = i

PlacesUsed(regs, us) ==
    \A b \in Tracked(regs) : regs[b].kind # "Opaque" =>
        /\ regs[b].ordinal \in DOMAIN us[regs[b].kind]
        /\ us[regs[b].kind][regs[b].ordinal] = b

InOrder(regs, us) == UsesPlaced(regs, us) /\ PlacesUsed(regs, us)

\* The buffers are used as in vs, as far as they have been used.
SameOrder(regs, us, vs) ==
    /\ \A k \in Kinds : \A i \in DOMAIN us[k] \cap DOMAIN vs[k] : us[k][i] = vs[k][i]
    /\ \A b \in Tracked(regs) : regs[b].kind # "Opaque" =>
          \A k \in Kinds \ {regs[b].kind} : b \notin Users(vs[k])

\* Only a region that has been used is restored.
AfterUse(regs, want) == \A b \in Tracked(regs) : regs[b].restored => want /\ regs[b].kind # "Opaque"

Launched ==
    call.pc = "launch" =>
        /\ mem[call.b] # NoPage
        /\ call.b \in Tracked(regions) => regions[call.b].kind = KindOf(call.kernel)

\* What the next process will read, and what this one has read.  Without a region
\* so far the file is that of an earlier process.
Handed ==
    /\ next.index # 1 => file = Manifest(regions)
    /\ next.index = 1 => Keeps(log, file, before.uses, before.ckpt) /\ Lists(file, before.uses)
    /\ restoring => Keeps(log, old, before.uses, before.ckpt) /\ Lists(old, before.uses)
    /\ ~ restoring => old = NoManifest
    /\ max_regions = 0 => next.index = 1 /\ \A k \in Kinds : before.uses[k] = <<>>
    /\ max_regions # 0 /\ next.index = 1 => \A b \in Buffers : mem[b] = NoPage

Whole ==
    /\ lost = {} /\ OwnMem(mem) /\ Fresh(log, next.id)
    /\ OwnLog(regions, log, mem, ckpt) /\ Unchecked(regions, ckpt)
    /\ InOrder(regions, uses) /\ SameOrder(regions, uses, before.uses)
    /\ AfterUse(regions, restoring) /\ Launched /\ Handed

RestoreInv == Inv /\ before \in Histories /\ (spoiled = {} => Whole)

-----------------------------------------------------------------------------
(***************************************************************************)
(* Steps that change no key                                                *)
(***************************************************************************)
\* Keys are all that these predicates look at.
LEMMA SameKeysOwn ==
    ASSUME NEW regs, NEW new, SameKeys(regs, new), NEW lg, NEW pages, NEW ck, NEW us, NEW vs
    PROVE  /\ OwnLog(regs, lg, pages, ck) => OwnLog(new, lg, pages, ck)
           /\ InOrder(regs, us) => InOrder(new, us)
           /\ SameOrder(regs, us, vs) => SameOrder(new, us, vs)
           /\ Manifest(new) = Manifest(regs)
PROOF
<1>1. \A k : OfKind(new, k) = OfKind(regs, k)
    BY DEF SameKeys, OfKind
<1>2. OwnLog(regs, lg, pages, ck) => OwnLog(new, lg, pages, ck)
    BY DEF SameKeys, OwnLog
<1>4. ASSUME InOrder(regs, us)
      PROVE  InOrder(new, us)
    <2>1. ASSUME NEW k \in Kinds
          PROVE  /\ Len(us[k]) = Cardinality(OfKind(new, k))
                 /\ \A i \in DOMAIN us[k] : /\ us[k][i] \in Tracked(new)
                                            /\ new[us[k][i]].kind = k
                                            /\ new[us[k][i]].ordinal = i
        <3>1. Len(us[k]) = Cardinality(OfKind(new, k))
            BY <1>1, <1>4, <2>1 DEF InOrder, UsesPlaced, PlacesUsed
        <3>2. ASSUME NEW i \in DOMAIN us[k]
              PROVE  us[k][i] \in Tracked(new) /\ new[us[k][i]].kind = k
                     /\ new[us[k][i]].ordinal = i
            <4>1. us[k][i] \in Tracked(regs) /\ regs[us[k][i]].kind = k
                  /\ regs[us[k][i]].ordinal = i
                <5>1. \A j \in DOMAIN us[k] : /\ us[k][j] \in Tracked(regs)
                                               /\ regs[us[k][j]].kind = k
                                               /\ regs[us[k][j]].ordinal = j
                    BY <1>4, <2>1, SMT DEF InOrder, UsesPlaced, PlacesUsed
                <5> QED
                    BY <3>2, <5>1
            <4> QED
                BY <4>1 DEF SameKeys
        <3> QED
            BY <3>1, <3>2
    <2>2. ASSUME NEW b \in Tracked(new), new[b].kind # "Opaque"
          PROVE  /\ new[b].ordinal \in DOMAIN us[new[b].kind]
                 /\ us[new[b].kind][new[b].ordinal] = b
        <3>1. b \in Tracked(regs) /\ new[b].kind = regs[b].kind /\ new[b].ordinal = regs[b].ordinal
            BY <2>2 DEF SameKeys
        <3> QED
            BY <1>4, <2>2, <3>1 DEF InOrder, UsesPlaced, PlacesUsed
    <2> QED
        BY <2>1, <2>2 DEF InOrder, UsesPlaced, PlacesUsed
<1>5. SameOrder(regs, us, vs) => SameOrder(new, us, vs)
    BY DEF SameKeys, SameOrder
<1>6. Manifest(new) = Manifest(regs)
    BY DEF SameKeys, Manifest
<1> QED
    BY <1>2, <1>4, <1>5, <1>6

\* The numbers in use are behind the next one.
LEMMA KnownIds ==
    ASSUME Inv, spoiled = {}, NEW b \in Tracked(regions)
    PROVE  /\ regions[b].id \in Ids /\ regions[b].id < next.id
           /\ regions[b].id <= Base => Recovers(old, regions[b].kind, regions[b].ordinal)
PROOF
<1>1. ~ KeysMixed
    BY DEF KeysMixed
<1>2. regions[b] \in Region /\ Numbered(regions, Base, old) /\ Counted(regions, next.index)
      /\ next \in [id : Nat \ {0}, index : Nat \ {0}] /\ regions[b].id <= Top
      /\ \A s \in old : s.id <= Base
      /\ (old \subseteq Specs \/ old = NoManifest)
    BY <1>1, TrackedFacts DEF Inv, Shape, Assignments, Numbers, IdBounds
<1>3. regions[b].id \in Nat \ {0} /\ regions[b].index \in Nat /\ regions[b].index < next.index
      /\ regions[b].index \in Nat \ {0}
    BY <1>2 DEF Region, Counted
<1>4. regions[b].id \in Ids
    BY <1>2, <1>3, InLog DEF Inv
<1>5. Base = next.id - next.index /\ next.id \in Nat /\ next.index \in Nat
    BY <1>2 DEF Base
<1>6. CASE Recovers(old, regions[b].kind, regions[b].ordinal)
    <2>1. regions[b].id = IdIn(old, regions[b].kind, regions[b].ordinal)
        BY <1>2, <1>6 DEF Numbered
    <2>2. SpecsIn(old, regions[b].kind, regions[b].ordinal) # {}
        BY <1>6 DEF Recovers
    <2>3. PICK s \in SpecsIn(old, regions[b].kind, regions[b].ordinal) :
                  IdIn(old, regions[b].kind, regions[b].ordinal) = s.id
        BY <1>2, <2>2, IdFound
    <2>4. s \in old
        BY DEF SpecsIn
    <2>5. regions[b].id <= Base
        BY <1>2, <2>1, <2>3, <2>4
    <2>6. regions[b].id < next.id
        BY <1>2, <1>3, <1>5, <2>5, SMT
    <2> QED
        BY <1>4, <1>6, <2>6
<1>7. CASE ~ Recovers(old, regions[b].kind, regions[b].ordinal)
    <2>1. regions[b].id = Base + regions[b].index
        BY <1>2, <1>7 DEF Numbered
    <2>2. regions[b].id < next.id /\ ~ (regions[b].id <= Base)
        BY <1>3, <1>5, <2>1, SMT
    <2> QED
        BY <1>4, <2>2
<1> QED
    BY <1>6, <1>7

\* A region whose number is in the old manifest is the buffer that had it.
LEMMA OldKey ==
    ASSUME Inv, spoiled = {}, InOrder(regions, uses), SameOrder(regions, uses, before.uses),
           NEW b \in Tracked(regions), NEW s \in old, s # NoRegion, s.id = regions[b].id,
           s.kind # "Opaque" => s.ordinal \in DOMAIN before.uses[s.kind]
    PROVE  s.kind \in Kinds /\ before.uses[s.kind][s.ordinal] = b
PROOF
<1>1. ~ KeysMixed /\ Clean
    BY DEF KeysMixed, Clean
<1>2. /\ \A r \in old : r.id <= Base
      /\ old \subseteq Specs \/ old = NoManifest
      /\ DistinctSpecs(old) /\ Numbered(regions, Base, old) /\ regions[b] \in Region
    BY <1>1, TrackedFacts DEF Inv, Shape, Assignments, Numbers, IdBounds
<1>3. Recovers(old, regions[b].kind, regions[b].ordinal)
    BY <1>2, KnownIds
<1>4. SpecsIn(old, regions[b].kind, regions[b].ordinal) # {} /\ regions[b].kind # "Opaque"
    BY <1>3 DEF Recovers
<1>5. PICK r \in SpecsIn(old, regions[b].kind, regions[b].ordinal) :
              IdIn(old, regions[b].kind, regions[b].ordinal) = r.id
    BY <1>2, <1>4, IdFound
<1>6. regions[b].id = r.id
    BY <1>2, <1>3, <1>5 DEF Numbered
<1>7. r \in old /\ r.kind = regions[b].kind /\ r.ordinal = regions[b].ordinal
    BY DEF SpecsIn
<1>8. s = r
    BY <1>2, <1>6, <1>7 DEF DistinctSpecs
<1>9. regions[b].kind \in Kinds
    BY <1>2, <1>4 DEF Region
<1>10. /\ regions[b].ordinal \in DOMAIN uses[regions[b].kind]
       /\ uses[regions[b].kind][regions[b].ordinal] = b
    BY <1>4 DEF InOrder, UsesPlaced, PlacesUsed
<1>11. s.kind = regions[b].kind /\ s.ordinal = regions[b].ordinal
    BY <1>7, <1>8
<1>12. s.ordinal \in DOMAIN uses[s.kind] \cap DOMAIN before.uses[s.kind]
    BY <1>4, <1>10, <1>11
<1>13. uses[s.kind][s.ordinal] = before.uses[s.kind][s.ordinal]
    BY <1>9, <1>11, <1>12 DEF SameOrder
<1> QED
    BY <1>9, <1>10, <1>11, <1>13

\* A record in the log is of its region, and newer than what was there.
LEMMA RecordOwn ==
    ASSUME Inv, spoiled = {}, Whole, before \in Histories,
           NEW b \in Tracked(regions), log' = [log EXCEPT ![regions[b].id] = mem[b]]
    PROVE  /\ Fresh(log', next.id) /\ OwnLog(regions, log', mem, ckpt)
           /\ restoring => Keeps(log', old, before.uses, before.ckpt)
PROOF
<1>1. /\ log' \in [Ids -> PagesOrNone] /\ log'[regions[b].id] = mem[b]
      /\ \A c \in Tracked(regions) \ {b} : log'[regions[c].id] = log[regions[c].id]
    BY RecordFacts DEF KeysMixed
<1>2. log \in [Ids -> PagesOrNone] /\ mem \in [Buffers -> PagesOrNone] /\ b \in Buffers
      /\ ckpt \in [Buffers -> Times] /\ next.id \in Nat /\ mem[b] # NoPage
      /\ (old \subseteq Specs \/ old = NoManifest)
    BY DEF Inv, Shape, Scalars, Tracked, Backed
<1>3. \A i \in Ids \ {regions[b].id} : log'[i] = log[i]
    BY <1>2
<1>4. regions[b].id \in Ids /\ regions[b].id < next.id
    BY KnownIds
<1>5. Fresh(log', next.id)
    <2> SUFFICES ASSUME NEW i \in Ids, i >= next.id
                 PROVE  log'[i] = NoPage
        BY DEF Fresh
    <2>1. i # regions[b].id
        BY <1>2, <1>4, KimiAssumption, SMT DEF Ids
    <2> QED
        BY <1>3, <2>1 DEF Whole, Fresh
<1>6. /\ mem[b].buf = b /\ mem[b].at >= log[regions[b].id].at
      /\ log[regions[b].id].at >= ckpt[b]
    BY <1>2 DEF Whole, OwnMem, OwnLog
<1>7. mem[b].at \in Nat /\ ckpt[b] \in Nat /\ \A i \in Ids : log[i].at \in Nat
    <2>1. Times \subseteq Nat
        BY Nothing, SMT DEF Times
    <2> QED
        BY <1>2, <2>1, Nothing
<1>8. OwnLog(regions, log', mem, ckpt)
    <2> SUFFICES ASSUME NEW c \in Tracked(regions)
                 PROVE  /\ log'[regions[c].id] # NoPage => log'[regions[c].id].buf = c
                        /\ mem[c].at >= log'[regions[c].id].at
                        /\ log'[regions[c].id].at >= ckpt[c]
        BY DEF OwnLog
    <2>1. CASE c = b
        <3>1. mem[b].at >= mem[b].at /\ mem[b].at >= ckpt[b]
            BY <1>4, <1>6, <1>7, SMT
        <3> QED
            BY <1>1, <1>6, <2>1, <3>1
    <2>2. CASE c # b
        BY <1>1, <2>2 DEF Whole, OwnLog
    <2> QED
        BY <2>1, <2>2
<1>9. ASSUME restoring
      PROVE  Keeps(log', old, before.uses, before.ckpt)
    <2>a. Keeps(log, old, before.uses, before.ckpt)
        BY <1>9 DEF Whole, Handed
    <2> SUFFICES ASSUME NEW s \in old \ NoManifest, s.kind # "Opaque"
                 PROVE  /\ s.ordinal \in DOMAIN before.uses[s.kind]
                        /\ log'[s.id] # NoPage
                              => log'[s.id].buf = before.uses[s.kind][s.ordinal]
                        /\ log'[s.id].at >= before.ckpt[before.uses[s.kind][s.ordinal]]
        BY DEF Keeps
    <2>1. /\ s.ordinal \in DOMAIN before.uses[s.kind]
          /\ log[s.id] # NoPage => log[s.id].buf = before.uses[s.kind][s.ordinal]
          /\ log[s.id].at >= before.ckpt[before.uses[s.kind][s.ordinal]]
        BY <2>a DEF Keeps
    <2>2. s \in old /\ s # NoRegion
        BY DEF NoManifest
    <2>3. CASE s.id = regions[b].id
        <3>1. before.uses[s.kind][s.ordinal] = b
            BY <2>1, <2>2, <2>3, OldKey DEF Whole
        <3>2. before.ckpt[b] \in Nat
            <4>1. Times \subseteq Nat
                BY Nothing, SMT DEF Times
            <4>2. before.ckpt \in [Buffers -> Times]
                BY DEF Histories
            <4> QED
                BY <1>2, <4>1, <4>2
        <3>3. log[regions[b].id].at >= before.ckpt[b]
            BY <2>1, <2>3, <3>1
        <3>4. mem[b].at >= before.ckpt[b]
            BY <1>4, <1>6, <1>7, <3>2, <3>3, SMT
        <3> QED
            BY <1>1, <1>6, <2>1, <2>3, <3>1, <3>4
    <2>4. CASE s.id # regions[b].id
        <3>1. s \in Specs /\ s.id \in Nat \ {0} /\ s.id <= Base
            BY <1>2, <2>2 DEF NoManifest, Specs, Inv, IdBounds
        <3>2. s.id \in Ids
            <4>1. Base \in Int /\ Base <= Top /\ Top \in Int
                <5>1. PICK c \in 0 .. MaxCrashes : c = faults.crashes
                    BY DEF Inv, Shape
                <5>2. Top \in Nat
                    BY <5>1, TopFacts DEF Top
                <5>3. next.id \in Nat /\ next.index \in Nat /\ Base + MaxAllocs <= Top
                    BY DEF Inv, Shape, IdBounds
                <5> HIDE DEF Top
                <5> QED
                    BY <5>2, <5>3, KimiAssumption, SMT DEF Base
            <4> HIDE DEF Base, Top
            <4>2. s.id <= Top
                BY <3>1, <4>1, SMT
            <4> QED
                BY <3>1, <4>2, InLog DEF Inv
        <3>3. log'[s.id] = log[s.id]
            BY <1>3, <2>4, <3>2
        <3> QED
            BY <2>1, <3>3
    <2> QED
        BY <2>3, <2>4
<1> QED
    BY <1>5, <1>8, <1>9

\* A step that leaves keys, numbers and uses as they are, and the manifest up to
\* date.
Still ==
    /\ UNCHANGED <<next, max_regions, restoring, old, uses, before>>
    /\ SameKeys(regions, regions')
    /\ \A b \in Tracked(regions) : /\ regions[b].init => regions'[b].init
                                   /\ \/ regions'[b].restored => regions[b].restored
                                      \/ restoring /\ regions[b].kind # "Opaque"
    /\ file' = file \/ (file' = Manifest(regions) /\ (next.index = 1 => max_regions = 0))
    /\ log' = log \/ next.index # 1
    /\ max_regions # 0 /\ next.index = 1 => mem' = mem

\* A step that moves no region, no use and no manifest entry keeps Whole once the
\* pages, the log and the checkpoints it does change are shown to be in order.
LEMMA StillWhole ==
    ASSUME Inv, Whole, Still, lost' = {}, OwnMem(mem'), Fresh(log', next.id),
           OwnLog(regions, log', mem', ckpt'), Unchecked(regions', ckpt'),
           restoring => Keeps(log', old, before.uses, before.ckpt), Launched'
    PROVE  Whole'
PROOF
<1>1. /\ next' = next /\ max_regions' = max_regions /\ restoring' = restoring /\ old' = old
      /\ uses' = uses /\ before' = before /\ SameKeys(regions, regions')
    BY DEF Still
<1>2. PICK new : new = regions'
    OBVIOUS
<1>3. SameKeys(regions, new)
    BY <1>1, <1>2
<1>4. /\ OwnLog(new, log', mem', ckpt') /\ InOrder(new, uses)
      /\ SameOrder(new, uses, before.uses) /\ Manifest(new) = Manifest(regions)
    <2>1. PICK lg : lg = log'
        OBVIOUS
    <2>2. PICK pages : pages = mem'
        OBVIOUS
    <2>3. PICK ck : ck = ckpt'
        OBVIOUS
    <2> QED
        BY <1>3, <2>1, <2>2, <2>3, SameKeysOwn DEF Whole
<1>5. AfterUse(new, restoring)
    <2>1. \A b \in Tracked(new) : b \in Tracked(regions) /\ new[b].kind = regions[b].kind
                                  /\ \/ new[b].restored => regions[b].restored
                                     \/ restoring /\ regions[b].kind # "Opaque"
        BY <1>2, <1>3 DEF SameKeys, Still
    <2> QED
        BY <2>1 DEF AfterUse, Whole
<1>6. Handed'
    <2>1. next.index # 1 => file' = Manifest(new)
        BY <1>2, <1>4 DEF Still, Whole, Handed
    <2>2. ASSUME next.index = 1
          PROVE  Keeps(log', file', before.uses, before.ckpt) /\ Lists(file', before.uses)
        <3>1. log' = log
            BY <2>2 DEF Still
        <3>2. CASE file' = file
            BY <2>2, <3>1, <3>2 DEF Whole, Handed
        <3>3. CASE file' = Manifest(regions) /\ max_regions = 0
            <4>1. Tracked(regions) = {}
                <5>1. IsFiniteSet(Tracked(regions)) /\ Cardinality(Tracked(regions)) < 1
                    BY <2>2 DEF Inv, Numbers, Counted
                <5>2. Cardinality(Tracked(regions)) = 0
                    BY <5>1, FS_CardinalityType, SMT
                <5> QED
                    BY <5>1, <5>2, FS_EmptySet
            <4>2. file' = {}
                BY <3>3, <4>1 DEF Manifest
            <4>3. \A k \in Kinds : before.uses[k] = <<>>
                BY <3>3 DEF Whole, Handed
            <4>4. \A k \in Kinds : DOMAIN before.uses[k] = {}
                BY <4>3, SMT
            <4>5. Lists(file', before.uses)
                BY <4>4 DEF Lists
            <4>6. Keeps(log', file', before.uses, before.ckpt)
                BY <4>2 DEF Keeps
            <4> QED
                BY <4>5, <4>6
        <3> QED
            BY <2>2, <3>2, <3>3 DEF Still
    <2>3. (restoring => Lists(old, before.uses)) /\ (~ restoring => old = NoManifest)
        BY DEF Whole, Handed
    <2>4. max_regions = 0 => next.index = 1 /\ \A k \in Kinds : before.uses[k] = <<>>
        BY DEF Whole, Handed
    <2>5. max_regions # 0 /\ next.index = 1 => \A b \in Buffers : mem'[b] = NoPage
        BY DEF Whole, Handed, Still
    <2> QED
        BY <1>1, <1>2, <2>1, <2>2, <2>3, <2>4, <2>5 DEF Handed
<1> QED
    BY <1>1, <1>2, <1>4, <1>5, <1>6 DEF Whole

\* What a checkpoint makes of a region: it counts as restored if it did before.
LEMMA KeepsRestored ==
    ASSUME Shape, NEW b \in Tracked(regions),
           \/ regions' = [regions EXCEPT ![b].init = TRUE, ![b].shadow = mem[b]]
           \/ regions' = [regions EXCEPT ![b].shadow = mem[b]]
    PROVE  \A c \in Tracked(regions) : /\ regions'[c].restored = regions[c].restored
                                       /\ regions[c].init => regions'[c].init
PROOF
<1>1. regions \in Assignments /\ b \in Buffers /\ regions[b] \in Region
    BY TrackedFacts DEF Shape, Assignments
<1>2. DOMAIN regions = Buffers
    BY <1>1 DEF Assignments
<1>3. PICK r : r = regions[b]
    OBVIOUS
<1>4. "restored" \in DOMAIN r /\ "init" \in DOMAIN r
    BY <1>1, <1>3 DEF Region
<1>5. PICK q : q = [r EXCEPT !.init = TRUE]
    OBVIOUS
<1>6. q.restored = r.restored /\ "restored" \in DOMAIN q /\ q.init /\ "init" \in DOMAIN q
    BY <1>4, <1>5
<1>7. /\ [q EXCEPT !.shadow = mem[b]].restored = r.restored
      /\ [r EXCEPT !.shadow = mem[b]].restored = r.restored
      /\ [q EXCEPT !.shadow = mem[b]].init /\ [r EXCEPT !.shadow = mem[b]].init = r.init
    BY <1>4, <1>6
<1>8. regions' = [regions EXCEPT ![b] = [q EXCEPT !.shadow = mem[b]]]
      \/ regions' = [regions EXCEPT ![b] = [r EXCEPT !.shadow = mem[b]]]
    BY <1>1, <1>2, <1>3, <1>5
<1>9. regions'[b].restored = regions[b].restored /\ (regions[b].init => regions'[b].init)
      /\ \A c \in Buffers \ {b} : regions'[c] = regions[c]
    BY <1>1, <1>2, <1>3, <1>7, <1>8
<1> QED
    BY <1>9 DEF Tracked

\* Nothing that spoils a restart is forgotten.
LEMMA StaysSpoiled ==
    ASSUME Next
    PROVE  spoiled \subseteq spoiled'
PROOF
<1>1. ASSUME NEW b \in Buffers, NEW kernel, NEW regs, NEW F, NoteUse(b, kernel, regs, F)
      PROVE  spoiled \subseteq spoiled'
    BY <1>1 DEF NoteUse
<1>2. ASSUME NEW b \in Buffers, Alloc(b) \/ Free(b)
      PROVE  spoiled \subseteq spoiled'
    BY <1>2 DEF Alloc, Free
<1>3. ASSUME NEW b \in Buffers, Write(b) \/ Initialize(b) \/ Scan(b)
      PROVE  spoiled \subseteq spoiled'
    BY <1>3 DEF Write, Initialize, Scan, Appends, history
<1>4. ASSUME NEW b \in Buffers, NEW kernel, Prepare(b, kernel)
      PROVE  spoiled \subseteq spoiled'
    BY <1>4 DEF Prepare, NoteUse
<1>5. Unobserved \/ Stage \/ Finish \/ Crash => spoiled \subseteq spoiled'
    BY DEF Unobserved, Stage, Finish, Crash, Appends, history
<1>6. Observe => spoiled \subseteq spoiled'
    BY DEF Observe, NoteUse
<1> QED
    BY <1>2, <1>3, <1>4, <1>5, <1>6 DEF Next

\* What holds before a step that spoils nothing.
Before == Inv /\ before \in Histories /\ spoiled = {} /\ Whole

\* A table of regions has the same keys as itself.
LEMMA NoKeys ==
    SameKeys(regions, regions)
PROOF BY DEF SameKeys

\* Freeing a buffer that has no region keeps Whole; freeing one that has spoils it.
LEMMA FreeWhole ==
    ASSUME Before, NEW b \in Buffers, Free(b), spoiled' = {}
    PROVE  Whole'
PROOF
<1>1. regions[b] = NoRegion
    BY DEF Free
<1>2. /\ UNCHANGED <<regions, file, next, max_regions, restoring, old, call, log, ckpt, lost, uses,
                      before>>
      /\ mem' = [mem EXCEPT ![b] = NoPage] /\ Unlocked /\ (call # AtRest => call.b # b)
    BY <1>1 DEF Free
<1>3. mem \in [Buffers -> PagesOrNone] /\ call \in Calls
    BY DEF Before, Inv, Shape
<1>4. mem'[b] = NoPage /\ \A c \in Buffers \ {b} : mem'[c] = mem[c]
    BY <1>2, <1>3
<1>5. Still
    <2>1. max_regions # 0 /\ next.index = 1 => mem[b] = NoPage
        BY DEF Before, Whole, Handed
    <2> QED
        BY <1>2, <2>1, NoKeys DEF Still, Free
<1>6. OwnMem(mem')
    BY <1>4 DEF Before, Whole, OwnMem
<1>7. OwnLog(regions, log, mem', ckpt)
    BY <1>1, <1>4 DEF Before, Whole, OwnLog, Tracked
<1>8. Launched'
    <2>1. call.pc = "launch" => call.b # b /\ call.b \in Buffers
        BY <1>2, <1>3, AtRestFacts, CallFacts
    <2> QED
        BY <1>2, <1>4, <2>1 DEF Before, Whole, Launched
<1> QED
    BY <1>2, <1>5, <1>6, <1>7, <1>8, StillWhole DEF Before, Whole, Handed

\* A write to a buffer only makes its page newer: Whole is kept.
LEMMA WriteWhole ==
    ASSUME Before, NEW b \in Buffers, Write(b), spoiled' = {}
    PROVE  Whole'
PROOF
<1>1. /\ UNCHANGED <<regions, file, next, max_regions, restoring, old, call, log, ckpt, lost, uses,
                      before>>
      /\ mem' = [mem EXCEPT ![b] = [buf |-> b, at |-> clock + 1]] /\ mem[b] # NoPage
    BY DEF Write, manager, disk, history
<1>2. mem \in [Buffers -> PagesOrNone] /\ clock \in Times /\ log \in [Ids -> PagesOrNone]
    BY DEF Before, Inv, Shape, Scalars
<1>3. PICK p : p = [buf |-> b, at |-> clock + 1]
    OBVIOUS
<1>4. p.buf = b /\ p.at = clock + 1 /\ p # NoPage
    BY <1>3, SMT DEF NoPage
<1>5. mem'[b] = p /\ \A c \in Buffers \ {b} : mem'[c] = mem[c]
    BY <1>1, <1>2, <1>3
<1>6. Still
    <2>1. max_regions # 0 /\ next.index = 1 => mem[b] = NoPage
        BY DEF Before, Whole, Handed
    <2> QED
        BY <1>1, <2>1, NoKeys DEF Still
<1>7. OwnMem(mem')
    BY <1>4, <1>5 DEF Before, Whole, OwnMem
<1>8. OwnLog(regions, log, mem', ckpt)
    <2> SUFFICES ASSUME NEW c \in Tracked(regions)
                 PROVE  mem'[c].at >= log[regions[c].id].at
        BY DEF Before, Whole, OwnLog
    <2>1. CASE c = b
        <3>1. regions[c].id \in Ids
            BY KnownIds DEF Before
        <3>2. log[regions[c].id].at <= clock /\ log[regions[c].id].at \in Times
            BY <1>2, <3>1, Nothing DEF Before, Inv, Past
        <3>3. clock + 1 >= log[regions[c].id].at
            BY <1>2, <3>2, Nothing, SMT DEF Times
        <3> QED
            BY <1>4, <1>5, <2>1, <3>3
    <2>2. CASE c # b
        BY <1>5, <2>2 DEF Before, Whole, OwnLog, Tracked
    <2> QED
        BY <2>1, <2>2
<1>9. Launched'
    <2>1. call.pc = "launch" => call.b \in Buffers
        BY CallFacts DEF Before, Inv, Shape
    <2>2. \A c \in Buffers : mem[c] # NoPage => mem'[c] # NoPage
        BY <1>4, <1>5
    <2> QED
        BY <1>1, <2>1, <2>2 DEF Before, Whole, Launched
<1> QED
    BY <1>1, <1>6, <1>7, <1>8, <1>9, StillWhole DEF Before, Whole, Handed

\* A launch the manager hears no more of changes only the call: Whole is kept.
LEMMA UnobservedWhole ==
    ASSUME Before, Unobserved, spoiled' = {}
    PROVE  Whole'
PROOF
<1>1. /\ UNCHANGED <<mem, regions, file, next, max_regions, restoring, old, log, ckpt, lost, uses,
                      before>>
      /\ call' = AtRest
    BY DEF Unobserved, manager, disk, history
<1>2. Still
    BY <1>1, NoKeys DEF Still
<1>3. Launched'
    BY <1>1, AtRestFacts DEF Launched
<1> QED
    BY <1>1, <1>2, <1>3, StillWhole DEF Before, Whole, Handed

\* In a checkpoint.
LEMMA LogStill ==
    ASSUME Before, NEW b \in Tracked(regions),
           UNCHANGED <<mem, file, next, max_regions, restoring, old, ckpt, uses, before>>,
           SameKeys(regions, regions'), lost' = {}, call'.pc # "launch",
           \A c \in Tracked(regions) : /\ regions'[c].restored = regions[c].restored
                                       /\ regions[c].init => regions'[c].init,
           log' = log \/ log' = [log EXCEPT ![regions[b].id] = mem[b]]
    PROVE  Whole'
PROOF
<1>1. next.index # 1
    <2>1. next.index \in Nat /\ Counted(regions, next.index)
        BY DEF Before, Inv, Shape, Numbers
    <2>2. regions[b].index \in Nat \ {0} /\ regions[b].index < next.index
        BY <2>1, TrackedFacts DEF Before, Inv, Shape, Assignments, Region, Counted
    <2> QED
        BY <2>1, <2>2, SMT
<1>2. Still
    BY <1>1 DEF Still
<1>3. Launched'
    BY DEF Launched
<1>6. Unchecked(regions', ckpt)
    BY DEF Before, Whole, Unchecked, SameKeys
<1>4. CASE log' = log
    BY <1>2, <1>3, <1>6, <1>4, StillWhole DEF Before, Whole, Handed
<1>5. CASE log' = [log EXCEPT ![regions[b].id] = mem[b]]
    <2>1. /\ Fresh(log', next.id) /\ OwnLog(regions, log', mem, ckpt)
          /\ restoring => Keeps(log', old, before.uses, before.ckpt)
        BY <1>5, RecordOwn DEF Before
    <2> QED
        BY <1>2, <1>3, <1>6, <2>1, StillWhole DEF Before, Whole
<1> QED
    BY <1>4, <1>5

\* Without anything spoiled, what is appended is where read_committed finds it.
LEMMA AppendInSight ==
    ASSUME NEW b, Appends(b), spoiled' = {}
    PROVE  log' = [log EXCEPT ![regions[b].id] = mem[b]] /\ lost' = lost \ {b}
PROOF
<1>1. ~ torn
    BY DEF Appends
<1> QED
    BY <1>1 DEF Appends

\* The first snapshot of a region (its shadow and its first log page) keeps Whole.
LEMMA InitializeWhole ==
    ASSUME Before, NEW b \in Buffers, Initialize(b), spoiled' = {}
    PROVE  Whole'
PROOF
<1>1. b \in Tracked(regions)
    BY DEF Before, Inv, CallView, Initialize
<1>2. /\ UNCHANGED <<mem, file, next, max_regions, restoring, old, ckpt, uses, before>>
      /\ \/ /\ Appends(b)
            /\ regions' = [regions EXCEPT ![b].init = TRUE, ![b].shadow = mem[b]]
            /\ call' = [pc |-> "scan", b |-> b, todo |-> call.todo]
         \/ UNCHANGED <<log, lost, regions>> /\ call' = AtRest
    BY DEF Initialize, Aborts
<1>3. lost' = {} /\ call'.pc # "launch"
    <2>1. call'.pc # "launch"
        BY <1>2, AtRestFacts, SMT
    <2>2. lost' \subseteq lost
        BY <1>2, AppendInSight
    <2> QED
        BY <2>1, <2>2 DEF Before, Whole
<1>4. CASE regions' = regions /\ log' = log
    BY <1>1, <1>2, <1>3, <1>4, NoKeys, LogStill
<1>5. CASE /\ log' = [log EXCEPT ![regions[b].id] = mem[b]]
           /\ regions' = [regions EXCEPT ![b].init = TRUE, ![b].shadow = mem[b]]
    <2>1. SameKeys(regions, regions')
        BY <1>1, <1>5, ShadowFacts DEF Before, Inv
    <2>2. \A c \in Tracked(regions) : /\ regions'[c].restored = regions[c].restored
                                      /\ regions[c].init => regions'[c].init
        BY <1>1, <1>5, KeepsRestored DEF Before, Inv
    <2> QED
        BY <1>1, <1>2, <1>3, <1>5, <2>1, <2>2, LogStill
<1> QED
    BY <1>2, <1>4, <1>5, AppendInSight

\* A scan changes only the shadow of a region: Whole is kept.
LEMMA ScanWhole ==
    ASSUME Before, NEW b \in Buffers, Scan(b), spoiled' = {}
    PROVE  Whole'
PROOF
<1>1. b \in Tracked(regions) /\ regions[b].init
    BY DEF Before, Inv, CallView, Scan
<1>2. /\ UNCHANGED <<mem, file, log, next, max_regions, restoring, old, ckpt, uses, before, lost>>
      /\ \/ /\ regions' = [regions EXCEPT ![b].shadow = mem[b]]
            /\ call' = IF mem[b] = regions[b].shadow
                       THEN [pc |-> "checkpoint", todo |-> call.todo \ {b}]
                       ELSE [pc |-> "stage", b |-> b, todo |-> call.todo \ {b}]
         \/ regions' = regions /\ call' = AtRest
    BY DEF Scan, history, Aborts, disk
<1>3. lost' = {} /\ call'.pc # "launch"
    <2>1. call'.pc # "launch"
        BY <1>2, AtRestFacts, SMT
    <2> QED
        BY <1>2, <2>1 DEF Before, Whole
<1>4. CASE regions' = regions
    BY <1>1, <1>2, <1>3, <1>4, NoKeys, LogStill
<1>5. CASE regions' = [regions EXCEPT ![b].shadow = mem[b]]
    <2>1. SameKeys(regions, regions')
        BY <1>1, <1>5, ShadowFacts DEF Before, Inv
    <2>2. \A c \in Tracked(regions) : /\ regions'[c].restored = regions[c].restored
                                      /\ regions[c].init => regions'[c].init
        BY <1>1, <1>5, KeepsRestored DEF Before, Inv
    <2> QED
        BY <1>1, <1>2, <1>3, <2>1, <2>2, LogStill
<1> QED
    BY <1>2, <1>4, <1>5

\* Staging puts the page of the buffer into the log as it is by then: its own, and
\* no older than the one it replaces.  Whole is kept.
LEMMA StageWhole ==
    ASSUME Before, Stage, spoiled' = {}
    PROVE  Whole'
PROOF
<1>1. /\ UNCHANGED <<mem, regions, file, next, max_regions, restoring, old, ckpt, uses, before>>
      /\ log' = [log EXCEPT ![regions[call.b].id] = mem[call.b]]
      /\ lost' = lost \ {call.b} /\ call' = [pc |-> "checkpoint", todo |-> call.todo]
    <2>1. ~ (spoiled' = spoiled \cup {"delta"})
        OBVIOUS
    <2>2. Appends(call.b) /\ call' = [pc |-> "checkpoint", todo |-> call.todo]
        BY <2>1 DEF Stage
    <2> QED
        BY <2>2, AppendInSight DEF Stage, manager
<1>2. PICK b \in Tracked(regions) : b = call.b
    BY DEF Before, Inv, CallView, Stage
<1>3. lost' = {} /\ call'.pc # "launch"
    BY <1>1 DEF Before, Whole
<1> QED
    BY <1>1, <1>2, <1>3, NoKeys, LogStill

\* The end of a checkpoint keeps Whole: the log holds for every region a page no
\* older than the shadow that becomes its checkpoint.
LEMMA FinishWhole ==
    ASSUME Before, Finish, spoiled' = {}
    PROVE  Whole'
PROOF
<1>1. /\ UNCHANGED <<mem, regions, file, next, max_regions, restoring, old, log, lost>>
      /\ UNCHANGED <<uses, before>>
      /\ ckpt' = [b \in Buffers |-> IF regions[b] = NoRegion THEN ckpt[b]
                                     ELSE regions[b].shadow.at]
      /\ call' = AtRest /\ call.pc = "checkpoint"
    BY DEF Finish, manager, disk
<1>2. Still
    BY <1>1, NoKeys DEF Still
<1>3. Launched'
    BY <1>1, AtRestFacts DEF Launched
<1>4. Unchecked(regions, ckpt')
    <2> SUFFICES ASSUME NEW b \in Buffers, ~ (b \in Tracked(regions) /\ regions[b].init)
                 PROVE  ckpt'[b] = 0
        BY DEF Unchecked
    <2>1. CASE b \notin Tracked(regions)
        BY <1>1, <2>1 DEF Before, Whole, Unchecked, Tracked
    <2>2. CASE b \in Tracked(regions)
        <3>1. regions[b].shadow = NoPage /\ regions[b] # NoRegion
            BY <2>2 DEF Before, Inv, Backed, Tracked
        <3> QED
            BY <1>1, <3>1, Nothing
    <2> QED
        BY <2>1, <2>2
<1>5. OwnLog(regions, log, mem, ckpt')
    <2> SUFFICES ASSUME NEW b \in Tracked(regions)
                 PROVE  log[regions[b].id].at >= ckpt'[b]
        BY DEF Before, Whole, OwnLog
    <2>1. b \in Buffers /\ regions[b] # NoRegion
        BY DEF Tracked
    <2>2. ckpt'[b] = regions[b].shadow.at
        BY <1>1, <2>1
    <2>3. CASE regions[b].init
        <3>1. b \in Tracked(regions) \ lost /\ ~ KeysMixed
            BY DEF Before, Whole, KeysMixed
        <3>2. ~ (call.pc = "stage" /\ call.b = b)
            BY <1>1
        <3> QED
            BY <2>2, <2>3, <3>1, <3>2 DEF Before, Inv, LogBacksShadow
    <2>4. CASE ~ regions[b].init
        <3>1. regions[b].shadow = NoPage
            BY <2>4 DEF Before, Inv, Backed
        <3>2. regions[b].id \in Ids /\ log \in [Ids -> PagesOrNone]
            BY KnownIds DEF Before, Inv, Shape
        <3>3. log[regions[b].id].at \in Times
            BY <3>2, Nothing
        <3>4. log[regions[b].id].at >= 0
            BY <3>3, Nothing, SMT DEF Times
        <3> QED
            BY <2>2, <3>1, <3>4, Nothing
    <2> QED
        BY <2>3, <2>4
<1> QED
    BY <1>1, <1>2, <1>3, <1>4, <1>5, StillWhole DEF Before, Whole, Handed

-----------------------------------------------------------------------------
(***************************************************************************)
(* Uses                                                                    *)
(***************************************************************************)
\* A region that is used again as what it is keeps its key.
LEMMA UsedAgain ==
    ASSUME Inv, spoiled = {}, NEW b \in Buffers, NEW kernel \in Kernels,
           b \in Tracked(regions) => regions[b].kind = KindOf(kernel)
    PROVE  Noted(b, kernel) = regions
PROOF
<1>1. CASE b \notin Tracked(regions)
    BY <1>1 DEF Tracked, Noted
<1>2. CASE b \in Tracked(regions)
    <2>1. PICK r \in Region : /\ Noted(b, kernel) = [regions EXCEPT ![b] = r]
                              /\ Becomes(regions, b, KindOf(kernel), old, r)
                              /\ r.init = regions[b].init /\ r.shadow = regions[b].shadow
                              /\ r.restored = regions[b].restored
        BY <1>2, NotedBecomes DEF Inv
    <2>2. regions[b] \in Region /\ Numbered(regions, Base, old) /\ regions \in Assignments
        BY <1>2, TrackedFacts DEF Inv, Shape, Assignments, Numbers, KeysMixed
    <2>3. KindOf(kernel) # "Opaque"
        BY DEF KindOf
    <2>4. r.index = regions[b].index /\ r.kind = regions[b].kind /\ r.ordinal = regions[b].ordinal
        BY <1>2, <2>1 DEF Becomes
    <2>5. r.id = regions[b].id
        <3>1. CASE SpecsIn(old, regions[b].kind, regions[b].ordinal) = {}
            BY <1>2, <2>1, <2>4, <3>1 DEF Becomes
        <3>2. CASE SpecsIn(old, regions[b].kind, regions[b].ordinal) # {}
            <4>1. Recovers(old, regions[b].kind, regions[b].ordinal)
                BY <1>2, <2>3, <3>2 DEF Recovers
            <4>2. regions[b].id = IdIn(old, regions[b].kind, regions[b].ordinal)
                BY <1>2, <2>2, <4>1 DEF Numbered
            <4>3. r.id = IdIn(old, r.kind, r.ordinal)
                BY <1>2, <2>1, <2>4, <3>2 DEF Becomes
            <4> QED
                BY <2>4, <4>2, <4>3
        <3> QED
            BY <3>1, <3>2
    <2>6. r = regions[b]
        <3>1. PICK q \in Region : q = regions[b]
            BY <2>2
        <3>2. /\ r.id = q.id /\ r.index = q.index /\ r.kind = q.kind /\ r.ordinal = q.ordinal
              /\ r.init = q.init /\ r.shadow = q.shadow /\ r.restored = q.restored
            BY <2>1, <2>4, <2>5, <3>1
        <3>3. ASSUME NEW t \in Region
              PROVE  t = [id |-> t.id, index |-> t.index, kind |-> t.kind, ordinal |-> t.ordinal,
                          init |-> t.init, shadow |-> t.shadow, restored |-> t.restored]
            BY DEF Region
        <3>4. r = q
            BY <3>2, <3>3
        <3> QED
            BY <3>1, <3>4
    <2> QED
        BY <2>1, <2>2, <2>6 DEF Assignments
<1> QED
    BY <1>1, <1>2

\* The observation of a launch notes no first use that Prepare has not noted, and may
\* start a checkpoint: Whole is kept.
LEMMA ObserveWhole ==
    ASSUME Before, Observe, spoiled' = {}
    PROVE  Whole'
PROOF
<1>1. call.pc = "launch" /\ call.b \in Buffers /\ call.kernel \in Kernels
    BY CallFacts DEF Observe, Before, Inv, Shape
<1>2. mem[call.b] # NoPage
      /\ (call.b \in Tracked(regions) => regions[call.b].kind = KindOf(call.kernel))
    BY <1>1 DEF Before, Whole, Launched
<1>3. PICK b \in Buffers : b = call.b
    BY <1>1
<1>4. PICK kernel \in Kernels : kernel = call.kernel
    BY <1>1
<1>5. Noted(b, kernel) = regions
    BY <1>2, <1>3, <1>4, UsedAgain DEF Before
<1>6. PICK F \in SUBSET {"manifest"} :
             NoteUse(b, kernel, regions, F) /\ Persist(regions, F)
    BY <1>3, <1>4, <1>5 DEF Observe
<1>7. regions' = regions /\ call'.pc # "launch"
    <2>1. call' = [pc |-> "checkpoint", todo |-> Tracked(Noted(call.b, call.kernel))]
          \/ call' = AtRest
        BY DEF Observe
    <2>2. call'.pc # "launch"
        BY <2>1, AtRestFacts, SMT
    <2> QED
        BY <1>3, <1>4, <1>5, <2>2 DEF Observe
<1>8. "manifest" \notin F
    BY <1>6 DEF NoteUse
<1>9. file' = Manifest(regions)
    BY <1>6, <1>8 DEF Persist
<1>10. lost' = lost
    BY <1>6 DEF NoteUse
<1>11. uses' = uses
    <2>1. KindOf(kernel) # "Opaque"
        BY DEF KindOf
    <2> QED
        BY <1>2, <1>3, <1>4, <1>6, <2>1 DEF NoteUse, Tracked
<1>12. UNCHANGED <<mem, next, max_regions, restoring, old, log, ckpt, before>>
    BY DEF Observe
<1>13. next.index = 1 => max_regions = 0
    BY <1>1, <1>2 DEF Before, Whole, Handed
<1>14. Still
    BY <1>7, <1>9, <1>11, <1>12, <1>13, NoKeys DEF Still
<1>15. Launched'
    BY <1>7 DEF Launched
<1> QED
    BY <1>7, <1>10, <1>12, <1>14, <1>15, StillWhole DEF Before, Whole, Handed

-----------------------------------------------------------------------------
(***************************************************************************)
(* Allocations                                                             *)
(***************************************************************************)
\* As long as no region has been allocated there is none.
LEMMA NoneYet ==
    ASSUME Inv
    PROVE  /\ next.index = 1 => Tracked(regions) = {} /\ Cardinality(Tracked(regions)) = 0
           /\ Cardinality(Tracked(regions)) \in Nat /\ max_regions \in Nat
           /\ \A b \in Tracked(regions) : next.index # 1
PROOF
<1>1. IsFiniteSet(Tracked(regions)) /\ Cardinality(Tracked(regions)) < next.index
    BY DEF Inv, Numbers, Counted
<1>2. Cardinality(Tracked(regions)) \in Nat /\ max_regions \in Nat
    BY <1>1, FS_CardinalityType, KimiAssumption DEF Inv, Scalars
<1>3. next.index = 1 => Cardinality(Tracked(regions)) = 0
    BY <1>1, <1>2, SMT
<1>4. next.index = 1 => Tracked(regions) = {}
    BY <1>1, <1>3, FS_EmptySet
<1> QED
    BY <1>2, <1>3, <1>4

\* A new region is of no kind yet.
LEMMA NewInOrder ==
    ASSUME NEW regs, NEW b, NEW new, Tracked(new) = Tracked(regs) \cup {b}, b \notin Tracked(regs),
           \A c \in Tracked(regs) : new[c] = regs[c], new[b].kind = "Opaque",
           NEW us, InOrder(regs, us), NEW vs, SameOrder(regs, us, vs)
    PROVE  InOrder(new, us) /\ SameOrder(new, us, vs)
PROOF
<1>1. "Opaque" \notin Kinds
    BY DEF Kinds
<1>2. ASSUME NEW k \in Kinds
      PROVE  OfKind(new, k) = OfKind(regs, k)
    BY <1>1, <1>2 DEF OfKind
<1>3. \A k \in Kinds : Len(us[k]) = Cardinality(OfKind(new, k))
    BY <1>2 DEF InOrder, UsesPlaced, PlacesUsed
<1>4. ASSUME NEW k \in Kinds, NEW i \in DOMAIN us[k]
      PROVE  us[k][i] \in Tracked(new) /\ new[us[k][i]].kind = k /\ new[us[k][i]].ordinal = i
    <2>1. us[k][i] \in Tracked(regs) /\ regs[us[k][i]].kind = k /\ regs[us[k][i]].ordinal = i
        BY <1>4, SMT DEF InOrder, UsesPlaced, PlacesUsed
    <2> QED
        BY <2>1
<1>5. ASSUME NEW c \in Tracked(new), new[c].kind # "Opaque"
      PROVE  c \in Tracked(regs) /\ new[c] = regs[c]
    BY <1>5
<1>6. InOrder(new, us)
    <2>1. \A c \in Tracked(new) : new[c].kind # "Opaque" =>
              new[c].ordinal \in DOMAIN us[new[c].kind] /\ us[new[c].kind][new[c].ordinal] = c
        BY <1>5 DEF InOrder, UsesPlaced, PlacesUsed
    <2> QED
        BY <1>3, <1>4, <2>1, SMT DEF InOrder, UsesPlaced, PlacesUsed
<1>7. SameOrder(new, us, vs)
    BY <1>5 DEF SameOrder
<1> QED
    BY <1>6, <1>7

\* The memory after an allocation of b, whose page is still its first.
NewPage(b, pages) ==
    /\ b \notin Tracked(regions) /\ pages = [mem EXCEPT ![b] = [buf |-> b, at |-> 0]]
    /\ pages[b].at = 0 /\ \A c \in Buffers \ {b} : pages[c] = mem[c]
    /\ OwnMem(pages)
    /\ call.pc = "launch" => call.b \in Buffers \ {b} /\ pages[call.b] # NoPage

\* An allocation is a page of its own buffer, not written yet.
LEMMA AllocPage ==
    ASSUME Before, NEW b \in Buffers, mem[b] = NoPage
    PROVE  \E pages : NewPage(b, pages)
PROOF
<1>1. PICK p : p = [buf |-> b, at |-> 0]
    OBVIOUS
<1>2. p.buf = b /\ p.at = 0 /\ p # NoPage
    BY <1>1, SMT DEF NoPage
<1>3. PICK pages : pages = [mem EXCEPT ![b] = p]
    OBVIOUS
<1>4. pages[b] = p /\ \A c \in Buffers \ {b} : pages[c] = mem[c]
    BY <1>3 DEF Before, Inv, Shape
<1>5. OwnMem(pages)
    BY <1>2, <1>4 DEF Before, Whole, OwnMem
<1>6. call.pc = "launch" => call.b \in Buffers /\ mem[call.b] # NoPage
    BY CallFacts DEF Before, Inv, Shape, Whole, Launched
<1>7. b \notin Tracked(regions)
    BY DEF Before, Inv, Backed
<1>8. NewPage(b, pages)
    BY <1>1, <1>2, <1>3, <1>4, <1>5, <1>6, <1>7 DEF NewPage
<1> QED
    BY <1>8

\* An allocation that is not tracked.
LEMMA AllocUntracked ==
    ASSUME Before, NEW b \in Buffers, Alloc(b), spoiled' = {}, NEW pages, NewPage(b, pages),
           Cardinality(Tracked(regions)) >= max_regions, mem' = pages,
           UNCHANGED <<regions, next, file>>
    PROVE  Whole'
PROOF
<1>1. UNCHANGED <<max_regions, restoring, old, call, log, ckpt, lost, uses, before>>
    BY DEF Alloc
<1>2. next.index = 1 => max_regions = 0
    BY NoneYet, SMT DEF Before
<1>3. Still
    BY <1>1, <1>2, NoKeys DEF Still
<1>4. OwnLog(regions, log, pages, ckpt)
    BY DEF Before, Whole, OwnLog, Tracked, NewPage
<1>5. Launched'
    BY <1>1 DEF Before, Whole, Launched, NewPage
<1> QED
    BY <1>1, <1>3, <1>4, <1>5, StillWhole DEF Before, Whole, Handed, NewPage

\* The new region of b, which has no page in the log.
AddsRegion(b, r, regs) ==
    /\ r.id = next.id /\ r.kind = "Opaque" /\ ~ r.init /\ ~ r.restored
    /\ regs[b] = r /\ Tracked(regs) = Tracked(regions) \cup {b}
    /\ \A c \in Tracked(regions) : regs[c] = regions[c]
    /\ next.id \in Ids /\ log[next.id] = NoPage

\* note_allocation makes one region more, under a number the log does not hold.
LEMMA AllocRegion ==
    ASSUME Before, NEW b \in Buffers, b \notin Tracked(regions), next.index <= MaxAllocs,
           NEW r, r = [id |-> next.id, index |-> next.index, kind |-> "Opaque",
                       ordinal |-> next.index, init |-> FALSE,
                       shadow |-> NoPage, restored |-> FALSE],
           NEW regs, regs = [regions EXCEPT ![b] = r]
    PROVE  AddsRegion(b, r, regs)
PROOF
<1>1. r.id = next.id /\ r.kind = "Opaque" /\ r.init = FALSE /\ r.restored = FALSE
    OBVIOUS
<1>2. r # NoRegion
    BY SMT DEF NoRegion
<1>3. regs[b] = r /\ \A c \in Buffers \ {b} : regs[c] = regions[c]
    BY DEF Before, Inv, Shape, Assignments
<1>4. Tracked(regs) = Tracked(regions) \cup {b} /\ \A c \in Tracked(regions) : regs[c] = regions[c]
    BY <1>2, <1>3, SMT DEF Tracked
<1>5. next \in [id : Nat \ {0}, index : Nat \ {0}]
    BY DEF Before, Inv, Shape, Scalars
<1>6. next.id \in Ids
    <2>1. PICK c \in 0 .. MaxCrashes : c = faults.crashes
        BY DEF Before, Inv, Shape
    <2>2. Top \in Nat
        BY <2>1, TopFacts DEF Top
    <2>3. Base + MaxAllocs <= Top /\ Base = next.id - next.index
        BY DEF Before, Inv, IdBounds, Base
    <2> HIDE DEF Base, Top
    <2>4. next.id <= Top /\ next.id \in Nat \ {0}
        BY <1>5, <2>2, <2>3, KimiAssumption, SMT
    <2> QED
        BY <2>4, InLog DEF Before, Inv
<1>7. log[next.id] = NoPage
    <2>1. next.id >= next.id
        BY <1>5, SMT
    <2> QED
        BY <1>6, <2>1 DEF Before, Whole, Fresh
<1> QED
    BY <1>1, <1>3, <1>4, <1>6, <1>7 DEF AddsRegion

\* The new region has no log page and no place of use yet, so what Whole says of the
\* other regions still holds of all.
LEMMA AllocOwn ==
    ASSUME Before, NEW b \in Buffers, NEW pages, NewPage(b, pages),
           NEW r, NEW regs, AddsRegion(b, r, regs)
    PROVE  /\ OwnLog(regs, log, pages, ckpt) /\ Unchecked(regs, ckpt)
           /\ InOrder(regs, uses) /\ SameOrder(regs, uses, before.uses)
           /\ AfterUse(regs, restoring)
PROOF
<1>1. ASSUME NEW c \in Tracked(regs)
      PROVE  /\ log[regs[c].id] # NoPage => log[regs[c].id].buf = c
             /\ pages[c].at >= log[regs[c].id].at
             /\ log[regs[c].id].at >= ckpt[c]
    <2>1. CASE c = b
        <3>1. ckpt[b] = 0
            BY DEF Before, Whole, Unchecked, NewPage
        <3>2. 0 >= 0
            BY SMT
        <3> QED
            BY <2>1, <3>1, <3>2, Nothing DEF NewPage, AddsRegion
    <2>2. CASE c # b
        <3>1. c \in Tracked(regions) /\ regs[c] = regions[c] /\ pages[c] = mem[c]
            BY <1>1, <2>2 DEF NewPage, AddsRegion, Tracked
        <3> QED
            BY <3>1 DEF Before, Whole, OwnLog
    <2> QED
        BY <2>1, <2>2
<1>2. Unchecked(regs, ckpt)
    BY DEF Before, Whole, Unchecked, NewPage, AddsRegion
<1>3. InOrder(regs, uses) /\ SameOrder(regs, uses, before.uses)
    BY NewInOrder DEF Before, Whole, NewPage, AddsRegion
<1>4. AfterUse(regs, restoring)
    BY DEF Before, Whole, AfterUse, AddsRegion
<1> QED
    BY <1>1, <1>2, <1>3, <1>4 DEF OwnLog

\* An allocation that is tracked: its region has no page to be restored to.
LEMMA AllocTracked ==
    ASSUME Before, NEW b \in Buffers, Alloc(b), spoiled' = {}, NEW pages, NewPage(b, pages),
           NEW r, NEW regs, AddsRegion(b, r, regs), Cardinality(Tracked(regions)) < max_regions,
           NEW F, Persist(regs, F), spoiled' = spoiled \cup F,
           Restore(regs, pages, b, restoring /\ old = NoManifest, F),
           next' = [id |-> next.id + 1, index |-> next.index + 1]
    PROVE  Whole'
PROOF
<1>1. UNCHANGED <<max_regions, restoring, old, call, log, ckpt, lost, uses, before>>
    BY DEF Alloc
<1>2. regions' = regs /\ mem' = pages
    BY DEF Restore, Restores, AddsRegion
<1>3. file' = Manifest(regs)
    BY DEF Persist
<1>4. next \in [id : Nat \ {0}, index : Nat \ {0}]
    BY DEF Before, Inv, Shape, Scalars
<1>5. Fresh(log, next'.id)
    <2>1. next'.id = next.id + 1
        OBVIOUS
    <2>2. \A i \in Ids : i >= next.id + 1 => i >= next.id
        BY <1>4, KimiAssumption, SMT DEF Ids
    <2> QED
        BY <2>1, <2>2 DEF Before, Whole, Fresh
<1>6. Launched'
    <2>1. call.pc = "launch" /\ call.b \in Tracked(regs) => call.b \in Tracked(regions)
        BY DEF NewPage, AddsRegion
    <2> QED
        BY <1>1, <1>2, <2>1 DEF Before, Whole, Launched, NewPage, AddsRegion
<1>7. Handed'
    <2>1. next'.index # 1
        BY <1>4, SMT
    <2>2. max_regions # 0
        BY NoneYet, SMT DEF Before
    <2> QED
        BY <1>1, <1>2, <1>3, <2>1, <2>2 DEF Before, Whole, Handed
<1>8. /\ OwnLog(regs, log, pages, ckpt) /\ Unchecked(regs, ckpt)
      /\ InOrder(regs, uses) /\ SameOrder(regs, uses, before.uses)
      /\ AfterUse(regs, restoring)
    BY AllocOwn
<1> QED
    BY <1>1, <1>2, <1>5, <1>6, <1>7, <1>8 DEF Before, Whole, NewPage

\* An allocation, with the manifest it saves, keeps Whole.
LEMMA AllocWhole ==
    ASSUME Before, NEW b \in Buffers, Alloc(b), spoiled' = {}
    PROVE  Whole'
PROOF
<1>1. PICK pages : NewPage(b, pages)
    BY AllocPage DEF Alloc
<1>2. pages = [mem EXCEPT ![b] = [buf |-> b, at |-> 0]] /\ b \notin Tracked(regions)
    BY <1>1 DEF NewPage
<1>3. CASE /\ Cardinality(Tracked(regions)) >= max_regions /\ mem' = pages
           /\ UNCHANGED <<regions, next, file>>
    BY <1>1, <1>3, AllocUntracked
<1>4. ASSUME NEW r, r = [id |-> next.id, index |-> next.index, kind |-> "Opaque",
                         ordinal |-> next.index, init |-> FALSE,
                         shadow |-> NoPage, restored |-> FALSE],
             NEW regs, regs = [regions EXCEPT ![b] = r],
             Cardinality(Tracked(regions)) < max_regions, next.index <= MaxAllocs,
             NEW F, Persist(regs, F), spoiled' = spoiled \cup F,
             Restore(regs, pages, b, restoring /\ old = NoManifest, F),
             next' = [id |-> next.id + 1, index |-> next.index + 1]
      PROVE  Whole'
    <2>1. AddsRegion(b, r, regs)
        BY <1>2, <1>4, AllocRegion
    <2> QED
        BY <1>1, <1>4, <2>1, AllocTracked
<1> QED
    BY <1>2, <1>3, <1>4 DEF Alloc

-----------------------------------------------------------------------------
(***************************************************************************)
(* Restarts                                                                *)
(***************************************************************************)
\* What holds of a process that has done nothing.
LEMMA NothingDone ==
    ASSUME NEW regs, regs = [b \in Buffers |-> NoRegion], NEW lg, NEW pages, NEW vs, NEW want,
           pages = [b \in Buffers |-> NoPage]
    PROVE  /\ OwnMem(pages) /\ OwnLog(regs, lg, pages, NothingYet.ckpt)
           /\ Unchecked(regs, NothingYet.ckpt)
           /\ InOrder(regs, NothingYet.uses) /\ SameOrder(regs, NothingYet.uses, vs)
           /\ AfterUse(regs, want)
PROOF
<1>1. Tracked(regs) = {}
    BY DEF Tracked
<1>2. OwnMem(pages)
    BY DEF OwnMem
<1>3. OwnLog(regs, lg, pages, NothingYet.ckpt) /\ AfterUse(regs, want)
    BY <1>1 DEF OwnLog, AfterUse
<1>4. Unchecked(regs, NothingYet.ckpt)
    BY DEF Unchecked, NothingYet
<1>5. \A k \in Kinds : NothingYet.uses[k] = <<>>
    BY DEF NothingYet
<1>6. \A k \in Kinds : Len(NothingYet.uses[k]) = 0 /\ DOMAIN NothingYet.uses[k] = {}
    BY <1>5, SMT
<1>7. \A k : Cardinality(OfKind(regs, k)) = 0
    <2>1. \A k : OfKind(regs, k) = {}
        BY <1>1 DEF OfKind
    <2> QED
        BY <2>1, FS_EmptySet
<1>8. InOrder(regs, NothingYet.uses)
    BY <1>1, <1>6, <1>7 DEF InOrder, UsesPlaced, PlacesUsed
<1>9. SameOrder(regs, NothingYet.uses, vs)
    BY <1>1, <1>6 DEF SameOrder
<1> QED
    BY <1>2, <1>3, <1>4, <1>8, <1>9

\* A manifest says where the pages of its regions are.
LEMMA ManifestKeeps ==
    ASSUME NEW regs \in Assignments, NEW lg, NEW pages, NEW ck, NEW us,
           OwnLog(regs, lg, pages, ck), InOrder(regs, us)
    PROVE  Keeps(lg, Manifest(regs), us, ck) /\ Lists(Manifest(regs), us)
PROOF
<1>1. ASSUME NEW b \in Tracked(regs)
      PROVE  \E s \in Manifest(regs) : s.id = regs[b].id /\ s.kind = regs[b].kind
                                       /\ s.ordinal = regs[b].ordinal
    <2>1. PICK s : s = [id |-> regs[b].id, index |-> regs[b].index, kind |-> regs[b].kind,
                        ordinal |-> regs[b].ordinal]
        OBVIOUS
    <2>2. s \in Manifest(regs)
        BY <1>1, <2>1 DEF Manifest
    <2>3. s.id = regs[b].id /\ s.kind = regs[b].kind /\ s.ordinal = regs[b].ordinal
        BY <2>1
    <2> QED
        BY <2>2, <2>3
<1>2. ASSUME NEW s \in Manifest(regs)
      PROVE  \E b \in Tracked(regs) : s.id = regs[b].id /\ s.kind = regs[b].kind
                                      /\ s.ordinal = regs[b].ordinal
    <2>1. PICK b \in Tracked(regs) :
                  s = [id |-> regs[b].id, index |-> regs[b].index, kind |-> regs[b].kind,
                       ordinal |-> regs[b].ordinal]
        BY <1>2 DEF Manifest
    <2>2. s.id = regs[b].id /\ s.kind = regs[b].kind /\ s.ordinal = regs[b].ordinal
        BY <2>1
    <2> QED
        BY <2>2
<1>3. Manifest(regs) \subseteq Specs /\ NoRegion \notin Specs
    BY ManifestFacts, Nothing
<1>4. Keeps(lg, Manifest(regs), us, ck)
    <2> SUFFICES ASSUME NEW s \in Manifest(regs), s.kind # "Opaque"
                 PROVE  /\ s.ordinal \in DOMAIN us[s.kind]
                        /\ lg[s.id] # NoPage => lg[s.id].buf = us[s.kind][s.ordinal]
                        /\ lg[s.id].at >= ck[us[s.kind][s.ordinal]]
        BY DEF Keeps
    <2>1. PICK b \in Tracked(regs) : s.id = regs[b].id /\ s.kind = regs[b].kind
                                     /\ s.ordinal = regs[b].ordinal
        BY <1>2
    <2>2. s.ordinal \in DOMAIN us[s.kind] /\ us[s.kind][s.ordinal] = b
        BY <2>1 DEF InOrder, UsesPlaced, PlacesUsed
    <2>3. (lg[s.id] # NoPage => lg[s.id].buf = b) /\ lg[s.id].at >= ck[b]
        BY <2>1 DEF OwnLog
    <2> QED
        BY <2>2, <2>3
<1>5. Lists(Manifest(regs), us)
    <2> SUFFICES ASSUME NEW k \in Kinds, NEW i \in DOMAIN us[k]
                 PROVE  SpecsIn(Manifest(regs), k, i) # {}
        BY DEF Lists
    <2>1. PICK b : b = us[k][i]
        OBVIOUS
    <2>2. b \in Tracked(regs) /\ regs[b].kind = k /\ regs[b].ordinal = i
        BY <2>1, SMT DEF InOrder, UsesPlaced, PlacesUsed
    <2>3. PICK s \in Manifest(regs) : s.id = regs[b].id /\ s.kind = regs[b].kind
                                      /\ s.ordinal = regs[b].ordinal
        BY <1>1, <2>2
    <2>4. s \in Manifest(regs) \ NoManifest /\ s.kind = k /\ s.ordinal = i
        BY <1>3, <2>2, <2>3 DEF NoManifest
    <2> QED
        BY <2>4 DEF SpecsIn
<1> QED
    BY <1>4, <1>5

\* A crash hands the next process the log and the manifest: Whole holds of the empty
\* table of regions it starts with.
LEMMA CrashWhole ==
    ASSUME Before, Crash, spoiled' = {}
    PROVE  Whole'
PROOF
<1>1. /\ mem' = [b \in Buffers |-> NoPage] /\ regions' = [b \in Buffers |-> NoRegion]
      /\ call' = AtRest /\ max_regions' = max_regions /\ log' = log
      /\ before' = IF next.index = 1 THEN before ELSE [ckpt |-> ckpt, uses |-> uses]
      /\ ckpt' = NothingYet.ckpt /\ lost' = {} /\ uses' = NothingYet.uses
    BY DEF Crash
<1>2. PICK cut \in BOOLEAN, restore \in BOOLEAN :
             /\ file' = IF cut THEN NoManifest ELSE file
             /\ restoring' = restore
             /\ old' = IF restore THEN file' ELSE NoManifest
             /\ next' = [id |-> FirstId(old'), index |-> 1]
             /\ spoiled' = spoiled \cup (IF cut THEN {"manifest"} ELSE {})
                                   \cup {"numbers" : i \in {j \in Ids : j >= next'.id
                                                                    /\ log[j] # NoPage}}
    BY DEF Crash
<1>3. ~ cut /\ file' = file
    BY <1>2
<1>4. Fresh(log, next'.id)
    <2>1. {"numbers" : i \in {j \in Ids : j >= next'.id /\ log[j] # NoPage}} = {}
        BY <1>2
    <2> QED
        BY <2>1 DEF Fresh
<1>5. PICK regs : regs = regions'
    OBVIOUS
<1>6. PICK pages : pages = mem'
    OBVIOUS
<1>7. /\ OwnMem(pages) /\ OwnLog(regs, log, pages, NothingYet.ckpt)
      /\ Unchecked(regs, NothingYet.ckpt) /\ InOrder(regs, NothingYet.uses)
      /\ SameOrder(regs, NothingYet.uses, before'.uses) /\ AfterUse(regs, restoring')
    BY <1>1, <1>5, <1>6, NothingDone
<1>8. Launched'
    BY <1>1, AtRestFacts DEF Launched
<1>9. next'.index = 1
    BY <1>2
<1>10. Keeps(log, file, before'.uses, before'.ckpt) /\ Lists(file, before'.uses)
    <2>1. CASE next.index = 1
        BY <1>1, <2>1 DEF Before, Whole, Handed
    <2>2. CASE next.index # 1
        <3>1. before'.uses = uses /\ before'.ckpt = ckpt /\ file = Manifest(regions)
            BY <1>1, <2>2 DEF Before, Whole, Handed
        <3>2. Keeps(log, Manifest(regions), uses, ckpt) /\ Lists(Manifest(regions), uses)
            <4>1. regions \in Assignments
                BY DEF Before, Inv, Shape, Assignments
            <4> QED
                BY <4>1, ManifestKeeps DEF Before, Whole
        <3> QED
            BY <3>1, <3>2
    <2> QED
        BY <2>1, <2>2
<1>11. Handed'
    <2>1. restoring' => old' = file
        BY <1>2, <1>3
    <2>2. ~ restoring' => old' = NoManifest
        BY <1>2
    <2>3. max_regions = 0 => \A k \in Kinds : before'.uses[k] = <<>>
        BY <1>1 DEF Before, Whole, Handed
    <2>4. \A b \in Buffers : mem'[b] = NoPage
        BY <1>1
    <2> QED
        BY <1>1, <1>3, <1>9, <1>10, <2>1, <2>2, <2>3, <2>4 DEF Handed
<1> QED
    BY <1>1, <1>4, <1>5, <1>6, <1>7, <1>8, <1>11 DEF Whole

\* The invariant holds of the first process, which finds no manifest and no log.
LEMMA InitRestores == Init => RestoreInv
PROOF
<1> SUFFICES ASSUME Init
             PROVE  RestoreInv
    OBVIOUS
<1>1. before \in Histories
    <2>1. [b \in Buffers |-> 0] \in [Buffers -> Times]
        BY Nothing, SMT DEF Times
    <2>2. <<>> \in Seq(Buffers)
        BY SMT
    <2> QED
        BY <2>1, <2>2 DEF Init, NothingYet, Histories
<1>2. /\ OwnMem(mem) /\ OwnLog(regions, log, mem, ckpt) /\ Unchecked(regions, ckpt)
      /\ InOrder(regions, uses) /\ SameOrder(regions, uses, before.uses)
      /\ AfterUse(regions, restoring)
    BY NothingDone DEF Init
<1>3. Fresh(log, next.id)
    BY DEF Init, Fresh
<1>4. \A k \in Kinds : before.uses[k] = <<>>
    BY DEF Init, NothingYet
<1>5. Lists(NoManifest, before.uses)
    <2>1. \A k \in Kinds : DOMAIN before.uses[k] = {}
        BY <1>4, SMT
    <2> QED
        BY <2>1 DEF Lists
<1>6. Keeps(log, NoManifest, before.uses, before.ckpt)
    BY DEF Keeps
<1>7. Handed
    <2>1. /\ next.index = 1 /\ file = NoManifest /\ old = NoManifest
          /\ \A b \in Buffers : mem[b] = NoPage
        BY DEF Init
    <2> QED
        BY <1>4, <1>5, <1>6, <2>1 DEF Handed
<1>8. Launched
    BY AtRestFacts DEF Init, Launched
<1>9. Whole
    BY <1>2, <1>3, <1>7, <1>8 DEF Init, Whole
<1> QED
    BY <1>1, <1>9, InitHolds DEF RestoreInv

=============================================================================
