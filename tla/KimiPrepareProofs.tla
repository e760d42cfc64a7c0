-------------------------- MODULE KimiPrepareProofs --------------------------
(***************************************************************************)
(* The first use of a buffer gives its region the place, the number and    *)
(* the page that the process before had for it: the last step that keeps   *)
(* RestoreInv, and the theorem about restarts that rests on it.            *)
(***************************************************************************)
EXTENDS KimiRestoreProofs

\* Most leaves are first-order reasoning; those with arithmetic cite SMT.
USE Zenon

-----------------------------------------------------------------------------
(***************************************************************************)
(* First uses                                                              *)
(***************************************************************************)
\* The uses of a kind, and one more.
OneMore(us, kind, b, ordinal, vs) ==
    /\ ordinal = Len(us[kind]) + 1 /\ Len(vs[kind]) = ordinal
    /\ \A k \in Kinds \ {kind} : vs[k] = us[k]
    /\ DOMAIN vs[kind] = DOMAIN us[kind] \cup {ordinal}
    /\ vs[kind][ordinal] = b /\ \A i \in DOMAIN us[kind] : vs[kind][i] = us[kind][i]

\* Appending a first use to the uses of a kind is one use more, in the last place.
LEMMA OneMoreUse ==
    ASSUME NEW us \in [Kinds -> Seq(Buffers)], NEW kind \in Kinds, NEW b \in Buffers,
           NEW vs, vs = [us EXCEPT ![kind] = Append(us[kind], b)]
    PROVE  OneMore(us, kind, b, Len(us[kind]) + 1, vs)
PROOF
<1>1. us[kind] \in Seq(Buffers)
    OBVIOUS
<1>2. ASSUME NEW s \in Seq(Buffers)
      PROVE  /\ Len(Append(s, b)) = Len(s) + 1
             /\ DOMAIN Append(s, b) = DOMAIN s \cup {Len(s) + 1}
             /\ Append(s, b)[Len(s) + 1] = b
             /\ \A i \in DOMAIN s : Append(s, b)[i] = s[i]
    BY <1>2, SMT
<1>3. vs[kind] = Append(us[kind], b) /\ \A k \in Kinds \ {kind} : vs[k] = us[k]
    OBVIOUS
<1> QED
    BY <1>1, <1>2, <1>3 DEF OneMore

\* The region of b becomes r, the last one of that kind, and that is its use.
Joins(regs, b, kind, r, new, us, vs) ==
    /\ regs \in Assignments /\ IsFiniteSet(Tracked(regs)) /\ b \in Tracked(regs)
    /\ kind \in Kinds /\ regs[b].kind = "Opaque" /\ r.kind = kind
    /\ r.ordinal = Cardinality({c \in Tracked(regs) \ {b} : regs[c].kind = kind}) + 1
    /\ Tracked(new) = Tracked(regs) /\ new[b] = r
    /\ \A c \in Tracked(regs) \ {b} : new[c] = regs[c]
    /\ us \in [Kinds -> Seq(Buffers)] /\ InOrder(regs, us)
    /\ vs = [us EXCEPT ![kind] = Append(us[kind], b)]

\* There are as many uses of each kind as there are regions of it.
Sized(new, vs) == \A k \in Kinds : Len(vs[k]) = Cardinality(OfKind(new, k))

\* A region that joins a kind takes the place after the last one, and the uses of
\* that kind are again as many as its regions.
LEMMA JoinsLast ==
    ASSUME NEW regs, NEW b, NEW kind, NEW r, NEW new, NEW us, NEW vs,
           Joins(regs, b, kind, r, new, us, vs)
    PROVE  /\ OneMore(us, kind, b, r.ordinal, vs)
           /\ Sized(new, vs)
PROOF
<1>1. kind \in Kinds /\ kind # "Opaque" /\ b \in Buffers /\ b \in Tracked(regs)
    BY DEF Joins, Kinds, Tracked
<1>2. OfKind(regs, kind) = {c \in Tracked(regs) \ {b} : regs[c].kind = kind}
    BY <1>1 DEF OfKind, Joins
<1>3. b \notin OfKind(regs, kind) /\ OfKind(new, kind) = OfKind(regs, kind) \cup {b}
    BY <1>1 DEF OfKind, Joins
<1>4. \A k \in Kinds \ {kind} : OfKind(new, k) = OfKind(regs, k)
    BY DEF OfKind, Kinds, Joins
<1>5. IsFiniteSet(OfKind(regs, kind))
    BY FS_Subset DEF OfKind, Joins
<1>6. Cardinality(OfKind(new, kind)) = Cardinality(OfKind(regs, kind)) + 1
    BY <1>3, <1>5, FS_AddElement
<1>7. \A k \in Kinds : Len(us[k]) = Cardinality(OfKind(regs, k))
    BY DEF InOrder, UsesPlaced, Joins
<1>8. OneMore(us, kind, b, Len(us[kind]) + 1, vs)
    BY <1>1, OneMoreUse DEF Joins
<1>9. r.ordinal = Len(us[kind]) + 1
    BY <1>1, <1>2, <1>7 DEF Joins
<1> QED
    BY <1>1, <1>4, <1>6, <1>7, <1>8, <1>9 DEF OneMore, Sized

\* After a region joins, every use is still that of the region in its place.
LEMMA JoinsUses ==
    ASSUME NEW regs, NEW b, NEW kind, NEW r, NEW new, NEW us, NEW vs,
           Joins(regs, b, kind, r, new, us, vs)
    PROVE  UsesPlaced(new, vs)
PROOF
<1>1. OneMore(us, kind, b, r.ordinal, vs)
    BY JoinsLast
<1>2. ASSUME NEW k \in Kinds, NEW i \in DOMAIN us[k]
      PROVE  us[k][i] \in Tracked(new) /\ new[us[k][i]].kind = k /\ new[us[k][i]].ordinal = i
    <2>1. us[k][i] \in Tracked(regs) /\ regs[us[k][i]].kind = k /\ regs[us[k][i]].ordinal = i
        BY <1>2, SMT DEF InOrder, UsesPlaced, Joins
    <2>2. us[k][i] # b
        BY <1>2, <2>1 DEF Kinds, Joins
    <2> QED
        BY <2>1, <2>2 DEF Joins
<1>3. ASSUME NEW k \in Kinds, NEW i \in DOMAIN vs[k]
      PROVE  vs[k][i] \in Tracked(new) /\ new[vs[k][i]].kind = k /\ new[vs[k][i]].ordinal = i
    <2>1. CASE k = kind /\ i = r.ordinal
        BY <1>1, <2>1 DEF OneMore, Joins
    <2>2. CASE ~ (k = kind /\ i = r.ordinal)
        <3>1. i \in DOMAIN us[k] /\ vs[k][i] = us[k][i]
            BY <1>1, <1>3, <2>2 DEF OneMore
        <3>2. us[k][i] \in Tracked(new) /\ new[us[k][i]].kind = k /\ new[us[k][i]].ordinal = i
            BY <1>2, <1>3, <3>1
        <3> QED
            BY <3>1, <3>2
    <2> QED
        BY <2>1, <2>2
<1>4. Sized(new, vs)
    BY JoinsLast
<1> QED
    BY <1>3, <1>4, SMT DEF UsesPlaced, Sized

\* After a region joins, every region is still in the place of its use.
LEMMA JoinsPlaces ==
    ASSUME NEW regs, NEW b, NEW kind, NEW r, NEW new, NEW us, NEW vs,
           Joins(regs, b, kind, r, new, us, vs)
    PROVE  PlacesUsed(new, vs)
PROOF
<1>1. OneMore(us, kind, b, r.ordinal, vs)
    BY JoinsLast
<1> SUFFICES ASSUME NEW c \in Tracked(new), new[c].kind # "Opaque"
             PROVE  /\ new[c].ordinal \in DOMAIN vs[new[c].kind]
                    /\ vs[new[c].kind][new[c].ordinal] = c
    BY DEF PlacesUsed
<1>2. CASE c = b
    BY <1>1, <1>2 DEF OneMore, Joins
<1>3. CASE c # b
    <2>1. c \in Tracked(regs) /\ new[c] = regs[c] /\ regs \in Assignments
        BY <1>3 DEF Joins
    <2>2. regs[c].kind \in Kinds \cup {"Opaque"}
        BY <2>1, TrackedFacts DEF Region
    <2>3. /\ regs[c].kind \in Kinds /\ regs[c].ordinal \in DOMAIN us[regs[c].kind]
          /\ us[regs[c].kind][regs[c].ordinal] = c
        BY <2>1, <2>2 DEF InOrder, PlacesUsed, Joins
    <2>4. CASE regs[c].kind = kind
        BY <1>1, <2>1, <2>3, <2>4 DEF OneMore
    <2>5. CASE regs[c].kind # kind
        <3>1. vs[regs[c].kind] = us[regs[c].kind]
            BY <1>1, <2>3, <2>5 DEF OneMore
        <3> QED
            BY <2>1, <2>3, <3>1
    <2> QED
        BY <2>4, <2>5
<1> QED
    BY <1>2, <1>3

\* A first use where the last process had the buffer, or behind its uses.
JoinsAgain(b, kind, ordinal, ws) ==
    /\ ordinal \in DOMAIN ws[kind] => ws[kind][ordinal] = b
    /\ \A k \in Kinds \ {kind} : b \notin Users(ws[k])

\* A region that joins where it joined in the process before keeps the two orders
\* of first uses in agreement.
LEMMA JoinsSameOrder ==
    ASSUME NEW regs, NEW b, NEW kind, NEW r, NEW new, NEW us, NEW vs,
           Joins(regs, b, kind, r, new, us, vs),
           NEW ws, SameOrder(regs, us, ws), JoinsAgain(b, kind, r.ordinal, ws)
    PROVE  SameOrder(new, vs, ws)
PROOF
<1>1. OneMore(us, kind, b, r.ordinal, vs)
    BY JoinsLast
<1>2. ASSUME NEW k \in Kinds, NEW i \in DOMAIN vs[k] \cap DOMAIN ws[k]
      PROVE  vs[k][i] = ws[k][i]
    <2>1. CASE k = kind /\ i = r.ordinal
        BY <1>1, <1>2, <2>1 DEF OneMore, JoinsAgain
    <2>2. CASE ~ (k = kind /\ i = r.ordinal)
        <3>1. i \in DOMAIN us[k] /\ vs[k][i] = us[k][i]
            BY <1>1, <1>2, <2>2 DEF OneMore
        <3>2. us[k][i] = ws[k][i]
            BY <1>2, <3>1 DEF SameOrder
        <3> QED
            BY <3>1, <3>2
    <2> QED
        BY <2>1, <2>2
<1>3. ASSUME NEW c \in Tracked(new), new[c].kind # "Opaque", NEW k \in Kinds \ {new[c].kind}
      PROVE  c \notin Users(ws[k])
    <2>1. CASE c = b
        BY <1>3, <2>1 DEF Joins, JoinsAgain
    <2>2. CASE c # b
        BY <1>3, <2>2 DEF SameOrder, Joins
    <2> QED
        BY <2>1, <2>2
<1> QED
    BY <1>2, <1>3 DEF SameOrder

\* The first use of b, as kernel has it, gives it the region r.  A new number is
\* one that the last process had for the buffer.
TakesPlace(b, kernel, r, regs) ==
    /\ r \in Region /\ regs \in Assignments
    /\ regs = Noted(b, kernel) /\ regs = [regions EXCEPT ![b] = r] /\ regs[b] = r
    /\ Tracked(regs) = Tracked(regions)
    /\ \A c \in Tracked(regions) \ {b} : regs[c] = regions[c]
    /\ InOrder(regs, uses') /\ SameOrder(regs, uses', before.uses)
    /\ r.kind = KindOf(kernel) /\ r.restored = regions[b].restored /\ r.init = regions[b].init
    /\ r.id = regions[b].id \/ (~ regions[b].init /\ restoring)
    /\ \/ r.id = regions[b].id
       \/ \E s \in old \ NoManifest :
             /\ s.id = r.id /\ s.kind = r.kind /\ s.ordinal = r.ordinal
             /\ s.ordinal \in DOMAIN before.uses[s.kind] => before.uses[s.kind][s.ordinal] = b

\* What a first use that spoils nothing is like.
Again(b, kind, id, vs) ==
    /\ vs = [uses EXCEPT ![kind] = Append(uses[kind], b)]
    /\ regions[b].init => id = regions[b].id
    /\ JoinsAgain(b, kind, Len(uses[kind]) + 1, before.uses)

\* A first use that spoils nothing is in the place this buffer had in the process
\* before, whenever that place was taken.
LEMMA SpoilsNothing ==
    ASSUME Before, NEW b \in Tracked(regions), regions[b].kind = "Opaque",
           NEW kernel \in Kernels, NEW F, NEW regs, NoteUse(b, kernel, regs, F), spoiled' = {}
    PROVE  Again(b, KindOf(kernel), regs[b].id, uses')
PROOF
<1>0. PICK kind \in Kinds : kind = KindOf(kernel)
    BY DEF KindOf, Kinds
<1>1. regions[b] # NoRegion /\ kind # "Opaque"
    BY DEF Tracked, Kinds
<1>2. uses' = [uses EXCEPT ![kind] = Append(uses[kind], b)]
    BY <1>0, <1>1 DEF NoteUse
<1>3. Spoils(b, kernel) = {} /\ ~ (regions[b].init /\ regs[b].id # regions[b].id)
    BY <1>1 DEF NoteUse
<1>4. /\ \A k \in Kinds \ {kind} : b \notin Users(before.uses[k])
      /\ ~ (Len(uses[kind]) + 1 <= Len(before.uses[kind])
            /\ before.uses[kind][Len(uses[kind]) + 1] # b)
    BY <1>0, <1>1, <1>3 DEF Spoils
<1>5. before.uses[kind] \in Seq(Buffers) /\ uses[kind] \in Seq(Buffers)
    BY DEF Before, Histories, Inv, Shape
<1>6. \A s, t \in Seq(Buffers) : Len(s) + 1 \in DOMAIN t => Len(s) + 1 <= Len(t)
    BY SMT
<1> QED
    BY <1>0, <1>2, <1>3, <1>4, <1>5, <1>6 DEF Again, JoinsAgain

\* The first use of an opaque region (note_launch_use) gives it a kind, an ordinal
\* and the number that the manifest holds for them.
LEMMA FirstUse ==
    ASSUME Before, NEW b \in Tracked(regions), regions[b].kind = "Opaque",
           NEW kernel \in Kernels, NEW F, NoteUse(b, kernel, Noted(b, kernel), F), spoiled' = {}
    PROVE  \E r, regs : TakesPlace(b, kernel, r, regs)
PROOF
<1>1. PICK r \in Region : /\ Noted(b, kernel) = [regions EXCEPT ![b] = r]
                          /\ Becomes(regions, b, KindOf(kernel), old, r)
                          /\ r.init = regions[b].init
                          /\ r.restored = regions[b].restored
    BY NotedBecomes DEF Before, Inv
<1>2. PICK regs : regs = [regions EXCEPT ![b] = r]
    OBVIOUS
<1>3. /\ regions \in Assignments /\ Counted(regions, next.index) /\ next.index \in Nat
      /\ uses \in [Kinds -> Seq(Buffers)] /\ IsFiniteSet(Tracked(regions))
      /\ old \subseteq Specs \/ old = NoManifest
    BY DEF Before, Inv, Shape, Assignments, Numbers, Counted
<1>4. PICK kind \in Kinds : kind = KindOf(kernel)
    BY DEF KindOf, Kinds
<1>5. Takes(regions, b, kind, r, regs, next.index)
    BY <1>1, <1>2, <1>3, <1>4, NotedPlace
<1>6. PICK us : us = uses' /\ Again(b, kind, r.id, us)
    <2>1. Noted(b, kernel) = regs /\ regs[b].id = r.id
        BY <1>1, <1>2, <1>5 DEF Takes
    <2>2. Again(b, KindOf(kernel), Noted(b, kernel)[b].id, uses')
        BY SpoilsNothing
    <2> QED
        BY <1>4, <2>1, <2>2
<1>7. /\ r.kind = kind
      /\ r.ordinal = Cardinality({c \in Tracked(regions) \ {b} : regions[c].kind = kind}) + 1
      /\ r.id = IF SpecsIn(old, kind, r.ordinal) = {} THEN regions[b].id
                ELSE IdIn(old, kind, r.ordinal)
    BY <1>1, <1>4 DEF Becomes, Kinds
<1>8. Joins(regions, b, kind, r, regs, uses, us)
    BY <1>3, <1>5, <1>6, <1>7 DEF Joins, Takes, Before, Whole, Again
<1>9. JoinsAgain(b, kind, r.ordinal, before.uses)
    <2>1. OneMore(uses, kind, b, r.ordinal, us)
        BY <1>8, JoinsLast
    <2> QED
        BY <1>6, <2>1 DEF OneMore, Again
<1>10. SameOrder(regs, us, before.uses)
    <2>1. SameOrder(regions, uses, before.uses)
        BY DEF Before, Whole
    <2> QED
        BY <1>8, <1>9, <2>1, JoinsSameOrder
<1>11. InOrder(regs, us)
    BY <1>8, JoinsUses, JoinsPlaces DEF InOrder
<1>12. \/ r.id = regions[b].id
       \/ \E s \in old \ NoManifest :
             /\ s.id = r.id /\ s.kind = r.kind /\ s.ordinal = r.ordinal
             /\ s.ordinal \in DOMAIN before.uses[s.kind] => before.uses[s.kind][s.ordinal] = b
    <2>1. CASE SpecsIn(old, kind, r.ordinal) = {}
        BY <1>7, <2>1
    <2>2. CASE SpecsIn(old, kind, r.ordinal) # {}
        <3>1. PICK s \in SpecsIn(old, kind, r.ordinal) : IdIn(old, kind, r.ordinal) = s.id
            BY <1>3, <2>2, IdFound
        <3>2. s \in old \ NoManifest /\ s.kind = kind /\ s.ordinal = r.ordinal
            BY DEF SpecsIn
        <3> QED
            BY <1>7, <1>9, <2>2, <3>1, <3>2 DEF JoinsAgain
    <2> QED
        BY <2>1, <2>2
<1>13. r.id = regions[b].id \/ (~ regions[b].init /\ restoring)
    <2>1. old = NoManifest => r.id = regions[b].id
        BY <1>7 DEF SpecsIn
    <2> QED
        BY <1>6, <2>1 DEF Before, Whole, Handed, Again
<1> QED
    BY <1>1, <1>2, <1>4, <1>5, <1>6, <1>7, <1>10, <1>11, <1>12, <1>13 DEF TakesPlace, Takes

\* Another use as the same kind, or of a buffer that is not tracked: the region
\* may be restored, to the page that it has in the log.
LEMMA PrepareAgain ==
    ASSUME Before, NEW b \in Buffers, NEW kernel \in Kernels, Prepare(b, kernel), spoiled' = {},
           b \in Tracked(regions) => regions[b].kind = KindOf(kernel)
    PROVE  Whole'
PROOF
<1>1. Noted(b, kernel) = regions
    BY UsedAgain DEF Before
<1>2. PICK wanted : wanted = (restoring /\ regions[b] # NoRegion /\ ~regions[b].restored)
    OBVIOUS
<1>3. PICK F : /\ NoteUse(b, kernel, regions, F) /\ Persist(regions, F)
               /\ Restore(regions, mem, b, wanted, F)
    BY <1>1, <1>2 DEF Prepare
<1>4. /\ UNCHANGED <<next, max_regions, restoring, old, log, ckpt, before>>
      /\ call' = [pc |-> "launch", b |-> b, kernel |-> kernel] /\ mem[b] # NoPage
    BY DEF Prepare
<1>5. "manifest" \notin F /\ "restore" \notin F
    BY <1>3 DEF NoteUse
<1>6. file' = Manifest(regions)
    BY <1>3, <1>5 DEF Persist
<1>7. lost' = lost
    BY <1>3 DEF NoteUse
<1>8. KindOf(kernel) # "Opaque"
    BY DEF KindOf
<1>9. uses' = uses
    BY <1>3, <1>8 DEF NoteUse, Tracked
<1>10. next.index = 1 => max_regions = 0
    BY <1>4 DEF Before, Whole, Handed
<1>11. mem \in [Buffers -> PagesOrNone] /\ regions \in Assignments
    BY DEF Before, Inv, Shape, Assignments
<1>12. call'.pc = "launch" /\ call'.b = b /\ call'.kernel = kernel
    BY <1>4
<1>13. CASE regions' = regions /\ mem' = mem
    <2>1. Still
        BY <1>4, <1>6, <1>9, <1>10, <1>13, NoKeys DEF Still
    <2>2. Launched'
        BY <1>4, <1>12, <1>13 DEF Launched
    <2> QED
        BY <1>4, <1>7, <1>13, <2>1, <2>2, StillWhole DEF Before, Whole, Handed
<1>14. CASE /\ wanted /\ log[regions[b].id] # NoPage
            /\ regions' = [regions EXCEPT ![b].restored = TRUE]
            /\ mem' = [mem EXCEPT ![b] = log[regions[b].id]]
    <2>1. b \in Tracked(regions) /\ restoring
        BY <1>2, <1>14 DEF Tracked
    <2>2. regions[b] \in Region
        BY <1>11, <2>1, TrackedFacts
    <2>3. PICK q \in Region : q = regions[b]
        BY <2>2
    <2>4. PICK r : r = [q EXCEPT !.restored = TRUE]
        OBVIOUS
    <2>5. /\ r.id = q.id /\ r.index = q.index /\ r.kind = q.kind /\ r.ordinal = q.ordinal
          /\ r.init = q.init
        BY <2>4 DEF Region
    <2>6. regions'[b] = r /\ \A c \in Buffers \ {b} : regions'[c] = regions[c]
        BY <1>11, <1>14, <2>3, <2>4 DEF Assignments
    <2>7. mem'[b] = log[regions[b].id] /\ \A c \in Buffers \ {b} : mem'[c] = mem[c]
        BY <1>11, <1>14
    <2>8. SameKeys(regions, regions')
        BY <1>3, <1>11, RestoreFacts, <2>1, KnownIds DEF Before, Inv
    <2>9. \A c \in Tracked(regions) : /\ regions[c].init => regions'[c].init
                                      /\ \/ regions'[c].restored => regions[c].restored
                                         \/ restoring /\ regions[c].kind # "Opaque"
        BY <1>8, <2>1, <2>3, <2>5, <2>6 DEF Tracked
    <2>10. next.index # 1
        BY <2>1, NoneYet DEF Before
    <2>11. Still
        BY <1>4, <1>6, <1>9, <2>8, <2>9, <2>10 DEF Still
    <2>12. OwnMem(mem')
        BY <1>14, <2>1, <2>7 DEF Before, Whole, OwnMem, OwnLog
    <2>13. OwnLog(regions, log, mem', ckpt)
        <3>1. log[regions[b].id].at >= log[regions[b].id].at
            <4>1. log \in [Ids -> PagesOrNone] /\ regions[b].id \in Ids
                BY <2>1, KnownIds DEF Before, Inv, Shape
            <4>2. log[regions[b].id].at \in Times
                BY <4>1, Nothing
            <4> QED
                BY <4>2, Nothing, SMT DEF Times
        <3> SUFFICES ASSUME NEW c \in Tracked(regions)
                     PROVE  mem'[c].at >= log[regions[c].id].at
            BY DEF Before, Whole, OwnLog
        <3>2. CASE c = b
            BY <2>7, <3>1, <3>2
        <3>3. CASE c # b
            BY <2>7, <3>3 DEF Before, Whole, OwnLog, Tracked
        <3> QED
            BY <3>2, <3>3
    <2>14. Unchecked(regions', ckpt)
        BY <2>8, <2>9 DEF Before, Whole, Unchecked, SameKeys
    <2>15. Launched'
        BY <1>12, <1>14, <2>1, <2>3, <2>5, <2>6, <2>7 DEF Launched
    <2> QED
        BY <1>4, <1>7, <2>11, <2>12, <2>13, <2>14, <2>15, StillWhole DEF Before, Whole, Handed
<1> QED
    BY <1>3, <1>5, <1>13, <1>14 DEF Restore, Restores

\* The page that the log has for the region b takes is one of b, and no older than
\* the last full checkpoint of b.
HasPage(b, id) ==
    /\ id \in Ids /\ (log[id] # NoPage => log[id].buf = b) /\ log[id].at >= ckpt[b]
    /\ log[id].at \in Nat /\ ckpt[b] \in Nat /\ mem[b].at \in Nat

\* The page the log holds under that number is this buffer's own page, and no older
\* than its last checkpoint.
LEMMA FirstPage ==
    ASSUME Before, NEW b \in Tracked(regions), NEW kernel \in Kernels,
           NEW r, NEW regs, TakesPlace(b, kernel, r, regs)
    PROVE  HasPage(b, r.id)
PROOF
<1>1. /\ mem \in [Buffers -> PagesOrNone] /\ log \in [Ids -> PagesOrNone]
      /\ ckpt \in [Buffers -> Times] /\ b \in Buffers
    BY DEF Before, Inv, Shape, Scalars, Tracked
<1>2. r.id \in Ids
    BY NotedInLog DEF Before, Inv, TakesPlace
<1>3. \A t \in Times : t \in Nat
    BY Nothing, SMT DEF Times
<1>4. log[r.id].at \in Nat /\ ckpt[b] \in Nat /\ mem[b].at \in Nat
    BY <1>1, <1>2, <1>3, Nothing
<1>5. (log[r.id] # NoPage => log[r.id].buf = b) /\ log[r.id].at >= ckpt[b]
    <2>1. CASE r.id = regions[b].id
        BY <2>1 DEF Before, Whole, OwnLog
    <2>2. CASE r.id # regions[b].id
        <3>1. PICK s \in old \ NoManifest :
                      /\ s.id = r.id /\ s.kind = r.kind /\ s.ordinal = r.ordinal
                      /\ s.ordinal \in DOMAIN before.uses[s.kind]
                            => before.uses[s.kind][s.ordinal] = b
            BY <2>2 DEF TakesPlace
        <3>2. restoring /\ ~ regions[b].init /\ r.kind # "Opaque"
            BY <2>2 DEF TakesPlace, KindOf
        <3>3. Keeps(log, old, before.uses, before.ckpt)
            BY <3>2 DEF Before, Whole, Handed
        <3>4. /\ s.ordinal \in DOMAIN before.uses[s.kind]
              /\ log[s.id] # NoPage => log[s.id].buf = before.uses[s.kind][s.ordinal]
            BY <3>1, <3>2, <3>3 DEF Keeps
        <3>5. ckpt[b] = 0
            BY <1>1, <3>2 DEF Before, Whole, Unchecked
        <3>6. log[r.id].at >= 0
            BY <1>4, SMT
        <3> QED
            BY <3>1, <3>4, <3>5, <3>6
    <2> QED
        BY <2>1, <2>2
<1> QED
    BY <1>2, <1>4, <1>5 DEF HasPage

\* The regions and the memory after a first use of b, as kernel has it.
Restarts(b, kernel, r, regs, new, pages) ==
    /\ TakesPlace(b, kernel, r, regs) /\ new = regions' /\ pages = mem'
    /\ new \in Assignments /\ SameKeys(regs, new)
    /\ \A c \in Tracked(regs) : new[c].init = regs[c].init
    /\ \A c \in Tracked(regs) \ {b} : new[c] = regs[c]
    /\ ~ restoring => new = regs
    /\ \A c \in Buffers \ {b} : pages[c] = mem[c]
    /\ pages[b] = IF restoring /\ log[r.id] # NoPage THEN log[r.id] ELSE mem[b]
    /\ file' = Manifest(regs) /\ lost' = lost

\* Prepare's effect at a first use: the region takes its place, its page is restored
\* from the log when there is one, and the manifest is saved.
LEMMA FirstRestarts ==
    ASSUME Before, NEW b \in Tracked(regions), regions[b].kind = "Opaque",
           NEW kernel \in Kernels, Prepare(b, kernel), spoiled' = {}
    PROVE  \E r, regs, new, pages : Restarts(b, kernel, r, regs, new, pages)
PROOF
<1>1. PICK F : /\ NoteUse(b, kernel, Noted(b, kernel), F) /\ Persist(Noted(b, kernel), F)
               /\ LET regs == Noted(b, kernel)
                  IN Restore(regs, mem, b,
                             restoring /\ regs[b] # NoRegion /\ ~regs[b].restored, F)
    BY DEF Prepare
<1>2. PICK r, regs : TakesPlace(b, kernel, r, regs)
    BY <1>1, FirstUse
<1>3. /\ r \in Region /\ regs \in Assignments /\ regs = Noted(b, kernel) /\ regs[b] = r
      /\ Tracked(regs) = Tracked(regions) /\ r.restored = regions[b].restored
    BY <1>2 DEF TakesPlace
<1>4. "manifest" \notin F /\ "restore" \notin F
    BY <1>1 DEF NoteUse
<1>5. file' = Manifest(regs) /\ lost' = lost
    BY <1>1, <1>3, <1>4 DEF Persist, NoteUse
<1>6. ~ regions[b].restored /\ b \in Buffers /\ r # NoRegion
    BY <1>3, Nothing DEF Before, Whole, AfterUse, Tracked
<1>7. PICK wanted \in BOOLEAN : wanted = restoring /\ Restore(regs, mem, b, wanted, F)
    BY <1>1, <1>3, <1>6 DEF Before, Inv, Scalars
<1>8. PICK now \in [Buffers -> PagesOrNone] : now = mem
    BY DEF Before, Inv, Shape
<1>9. r.id \in Ids
    BY <1>3, NotedInLog DEF Before, Inv
<1>10. /\ regions' \in Assignments /\ SameKeys(regs, regions')
       /\ \A c \in Tracked(regs) : regions'[c].init = regs[c].init
    <2>1. regs \in Assignments /\ b \in Tracked(regs) /\ regs[b].id \in Ids /\ Shape
        BY <1>3, <1>9 DEF Before, Inv
    <2>2. Restore(regs, now, b, wanted, F)
        BY <1>7, <1>8
    <2> QED
        BY <1>6, <2>1, <2>2, RestoreFacts
<1>11. /\ \A c \in Buffers \ {b} : mem'[c] = mem[c]
       /\ \A c \in Tracked(regs) \ {b} : regions'[c] = regs[c]
       /\ mem'[b] = IF restoring /\ log[r.id] # NoPage THEN log[r.id] ELSE mem[b]
       /\ ~ restoring => regions' = regs
    BY <1>3, <1>4, <1>7, <1>8 DEF Restore, Restores, Tracked, Assignments
<1>12. PICK new, pages : new = regions' /\ pages = mem'
    OBVIOUS
<1>13. Restarts(b, kernel, r, regs, new, pages)
    BY <1>2, <1>5, <1>10, <1>11, <1>12 DEF Restarts
<1> QED
    BY <1>13

\* What is restored into the buffer is a page of that buffer.
LEMMA FirstOwn ==
    ASSUME Before, NEW b \in Tracked(regions), NEW kernel \in Kernels,
           NEW r, NEW regs, NEW new, NEW pages, Restarts(b, kernel, r, regs, new, pages)
    PROVE  OwnMem(pages) /\ OwnLog(regs, log, pages, ckpt)
PROOF
<1>1. HasPage(b, r.id)
    BY FirstPage DEF Restarts
<1>2. /\ regs[b] = r /\ Tracked(regs) = Tracked(regions)
      /\ \A c \in Tracked(regions) \ {b} : regs[c] = regions[c]
      /\ r.id = regions[b].id \/ restoring
    BY DEF Restarts, TakesPlace
<1>3. OwnMem(pages)
    <2>1. /\ \A c \in Buffers \ {b} : pages[c] = mem[c]
          /\ pages[b] = mem[b] \/ (log[r.id] # NoPage /\ pages[b] = log[r.id])
        BY DEF Restarts
    <2> QED
        BY <1>1, <2>1 DEF Before, Whole, OwnMem, HasPage
<1>4. pages[b].at >= log[r.id].at
    <2>1. CASE log[r.id] = NoPage
        <3>1. mem[b].at >= 0
            BY <1>1, SMT DEF HasPage
        <3> QED
            BY <2>1, <3>1, Nothing DEF Restarts
    <2>2. CASE log[r.id] # NoPage /\ restoring
        <3>1. log[r.id].at >= log[r.id].at
            BY <1>1, SMT DEF HasPage
        <3> QED
            BY <2>2, <3>1 DEF Restarts
    <2>3. CASE ~ restoring
        BY <1>2, <2>3 DEF Before, Whole, OwnLog, Restarts
    <2> QED
        BY <2>1, <2>2, <2>3
<1>5. ASSUME NEW c \in Tracked(regs)
      PROVE  /\ log[regs[c].id] # NoPage => log[regs[c].id].buf = c
             /\ pages[c].at >= log[regs[c].id].at
             /\ log[regs[c].id].at >= ckpt[c]
    <2>1. CASE c = b
        BY <1>1, <1>2, <1>4, <2>1 DEF HasPage
    <2>2. CASE c # b
        <3>1. c \in Tracked(regions) /\ regs[c] = regions[c] /\ pages[c] = mem[c]
            BY <1>2, <1>5, <2>2 DEF Tracked, Restarts
        <3> QED
            BY <3>1 DEF Before, Whole, OwnLog
    <2> QED
        BY <2>1, <2>2
<1> QED
    BY <1>3, <1>5 DEF OwnLog

\* Preparing a launch that uses an opaque region for the first time keeps Whole.
LEMMA PrepareFirst ==
    ASSUME Before, NEW b \in Tracked(regions), regions[b].kind = "Opaque",
           NEW kernel \in Kernels, Prepare(b, kernel), spoiled' = {}
    PROVE  Whole'
PROOF
<1>1. PICK r, regs, new, pages : Restarts(b, kernel, r, regs, new, pages)
    BY FirstRestarts
<1>2. /\ regs \in Assignments /\ regs[b] = r /\ Tracked(regs) = Tracked(regions)
      /\ \A c \in Tracked(regions) \ {b} : regs[c] = regions[c]
      /\ InOrder(regs, uses') /\ SameOrder(regs, uses', before.uses)
      /\ r.kind = KindOf(kernel) /\ r.init = regions[b].init
    BY <1>1 DEF Restarts, TakesPlace
<1>3. /\ new \in Assignments /\ SameKeys(regs, new) /\ new = regions' /\ pages = mem'
      /\ \A c \in Tracked(regs) : new[c].init = regs[c].init
      /\ file' = Manifest(regs) /\ lost' = lost
    BY <1>1 DEF Restarts
<1>4. /\ UNCHANGED <<next, max_regions, restoring, old, log, ckpt, before>>
      /\ call' = [pc |-> "launch", b |-> b, kernel |-> kernel] /\ mem[b] # NoPage
    BY DEF Prepare
<1>5. Tracked(new) = Tracked(regs) /\ new[b].kind = r.kind /\ r.kind # "Opaque"
    BY <1>2, <1>3 DEF SameKeys, KindOf
<1>6. OwnMem(pages) /\ OwnLog(regs, log, pages, ckpt)
    BY <1>1, FirstOwn
<1>7. /\ OwnLog(new, log, pages, ckpt) /\ InOrder(new, uses')
      /\ SameOrder(new, uses', before.uses) /\ Manifest(new) = Manifest(regs)
    <2>1. PICK us : us = uses'
        OBVIOUS
    <2> QED
        BY <1>2, <1>3, <1>6, <2>1, SameKeysOwn
<1>8. Unchecked(new, ckpt)
    <2>1. \A c \in Tracked(regions) : regs[c].init = regions[c].init
        BY <1>2
    <2>2. \A c \in Tracked(regions) : c \in Tracked(new) /\ (regions[c].init => new[c].init)
        BY <1>2, <1>3, <1>5, <2>1
    <2> QED
        BY <2>2 DEF Before, Whole, Unchecked
<1>9. AfterUse(new, restoring)
    <2> SUFFICES ASSUME NEW c \in Tracked(new), new[c].restored
                 PROVE  restoring /\ new[c].kind # "Opaque"
        BY DEF AfterUse
    <2>1. CASE c = b
        BY <1>1, <1>2, <1>5, <2>1 DEF Restarts, TakesPlace, Before, Whole, AfterUse
    <2>2. CASE c # b
        <3>1. c \in Tracked(regions) /\ new[c] = regs[c] /\ regs[c] = regions[c]
            BY <1>1, <1>2, <1>5, <2>2 DEF Restarts
        <3> QED
            BY <3>1 DEF Before, Whole, AfterUse
    <2> QED
        BY <2>1, <2>2
<1>10. Launched'
    <2>1. call'.b = b /\ call'.kernel = kernel
        BY <1>4
    <2>2. pages[b] # NoPage
        BY <1>1, <1>4 DEF Restarts
    <2> QED
        BY <1>2, <1>3, <1>5, <2>1, <2>2 DEF Launched
<1>11. Handed'
    <2>1. next.index # 1
        BY NoneYet DEF Before
    <2> QED
        BY <1>3, <1>4, <1>7, <2>1 DEF Before, Whole, Handed
<1> QED
    BY <1>3, <1>4, <1>6, <1>7, <1>8, <1>9, <1>10, <1>11 DEF Before, Whole

\* A use as a second kind spoils a restart.
LEMMA PrepareWhole ==
    ASSUME Before, NEW b \in Buffers, NEW kernel \in KernelsOf[b], Prepare(b, kernel), spoiled' = {}
    PROVE  Whole'
PROOF
<1>1. kernel \in Kernels
    BY KimiAssumption
<1>2. CASE b \in Tracked(regions) => regions[b].kind = KindOf(kernel)
    BY <1>1, <1>2, PrepareAgain
<1>3. CASE b \in Tracked(regions) /\ regions[b].kind = "Opaque"
    BY <1>1, <1>3, PrepareFirst
<1>4. ASSUME b \in Tracked(regions), regions[b].kind # "Opaque", regions[b].kind # KindOf(kernel)
      PROVE  FALSE
    <2>1. PICK k \in Kinds : k = regions[b].kind
        <3>1. regions[b] \in Region
            BY <1>4, TrackedFacts DEF Before, Inv, Shape, Assignments
        <3>2. regions[b].kind \in Kinds \cup {"Opaque"}
            BY <3>1 DEF Region
        <3> QED
            BY <1>4, <3>2
    <2>2. b \in Users(uses[k])
        BY <1>4, <2>1 DEF Before, Inv, Numbers, Clean, UsedAs
    <2>3. "kinds" \in Spoils(b, kernel)
        <3>1. k \in {j \in Kinds \ {KindOf(kernel)} :
                         b \in Users(uses[j]) \cup Users(before.uses[j])}
            BY <1>4, <2>1, <2>2
        <3>2. regions[b] # NoRegion
            BY <1>4 DEF Tracked
        <3> QED
            BY <1>4, <3>1, <3>2 DEF Spoils
    <2>4. Spoils(b, kernel) \subseteq spoiled'
        BY DEF Prepare, NoteUse
    <2> QED
        BY <2>3, <2>4
<1> QED
    BY <1>2, <1>3, <1>4

-----------------------------------------------------------------------------
(***************************************************************************)
(* The theorem                                                             *)
(***************************************************************************)
LEMMA BeforeTyped ==
    ASSUME Inv, before \in Histories, Next
    PROVE  before' \in Histories
PROOF
<1>1. CASE Crash
    <2>1. ckpt \in [Buffers -> Times] /\ uses \in [Kinds -> Seq(Buffers)]
        BY DEF Inv, Shape, Scalars
    <2>2. before' = before \/ before' = [ckpt |-> ckpt, uses |-> uses]
        BY <1>1 DEF Crash
    <2> QED
        BY <2>1, <2>2, SMT DEF Histories
<1>2. CASE ~ Crash
    <2>1. before' = before
        BY <1>2 DEF Next, Alloc, Free, Write, Initialize, Scan, Prepare, Unobserved, Observe, Stage,
                    Finish, history
    <2> QED
        BY <2>1
<1> QED
    BY <1>1, <1>2

\* The invariant is inductive: one case per action.
LEMMA StepRestores ==
    ASSUME RestoreInv, [Next]_vars
    PROVE  RestoreInv'
PROOF
<1>1. Inv'
    BY NextKeeps DEF RestoreInv
<1>2. CASE Next
    <2>1. before' \in Histories
        BY <1>2, BeforeTyped DEF RestoreInv
    <2>2. ASSUME spoiled' = {}
          PROVE  Whole'
        <3>1. Before
            BY <1>2, <2>2, StaysSpoiled DEF RestoreInv, Before
        <3> QED
            BY <1>2, <2>2, <3>1, AllocWhole, FreeWhole, WriteWhole, InitializeWhole, ScanWhole,
               PrepareWhole, UnobservedWhole, ObserveWhole, StageWhole, FinishWhole, CrashWhole
               DEF Next
    <2> QED
        BY <1>1, <2>1, <2>2 DEF RestoreInv
<1>3. CASE UNCHANGED vars
    <2>1. /\ UNCHANGED <<mem, regions, next, max_regions, restoring, old, call, file, log, ckpt>>
          /\ UNCHANGED <<lost, uses, before, spoiled>>
        BY <1>3 DEF vars, manager, disk, history
    <2>2. before' \in Histories
        BY <2>1 DEF RestoreInv
    <2>3. spoiled' = {} => Whole'
        <3>1. Launched => Launched'
            BY <2>1 DEF Launched
        <3>2. Handed => Handed'
            BY <2>1 DEF Handed
        <3> QED
            BY <2>1, <3>1, <3>2 DEF RestoreInv, Whole
    <2> QED
        BY <1>1, <2>2, <2>3 DEF RestoreInv
<1> QED
    BY <1>2, <1>3

\* A region that has been restored holds a page of its buffer, and where the
\* process before used the buffer too, none older than its last full checkpoint.
InPlace ==
    \A b \in Buffers : Restored(b) =>
        /\ mem[b].buf = b
        /\ (\E k \in Kinds : b \in Users(before.uses[k])) => mem[b].at >= before.ckpt[b]

\* A buffer that both processes have used has the same place in both.
LEMMA SamePlace ==
    ASSUME Before, NEW b \in Tracked(regions), regions[b].kind # "Opaque",
           NEW k \in Kinds, b \in Users(before.uses[k])
    PROVE  /\ regions[b].kind = k /\ regions[b].ordinal \in DOMAIN before.uses[k]
           /\ before.uses[k][regions[b].ordinal] = b
PROOF
<1>1. regions[b] \in Region
    BY TrackedFacts DEF Before, Inv, Shape, Assignments
<1>2. PICK o \in Nat \ {0} : o = regions[b].ordinal
    BY <1>1 DEF Region
<1>3. k = regions[b].kind
    BY DEF Before, Whole, SameOrder
<1>4. o \in DOMAIN uses[k] /\ uses[k][o] = b
    BY <1>2, <1>3 DEF Before, Whole, InOrder, PlacesUsed
<1>5. PICK j \in DOMAIN before.uses[k] : before.uses[k][j] = b
    BY DEF Users
<1>6. PICK us \in Seq(Buffers) : us = uses[k]
    BY DEF Before, Inv, Shape
<1>7. PICK vs \in Seq(Buffers) : vs = before.uses[k]
    BY DEF Before, Histories
<1>8. ASSUME o \notin DOMAIN vs
      PROVE  FALSE
    <2>1. j \in DOMAIN us /\ j # o
        BY <1>2, <1>4, <1>5, <1>6, <1>7, <1>8, SMT
    <2>2. uses[k][j] = b
        BY <1>5, <1>6, <1>7, <2>1 DEF Before, Whole, SameOrder
    <2>3. \A i \in DOMAIN uses[k] : regions[uses[k][i]].ordinal = i
        BY SMT DEF Before, Whole, InOrder, UsesPlaced
    <2>4. regions[uses[k][j]].ordinal = j
        BY <1>6, <2>1, <2>3
    <2> QED
        BY <1>2, <2>1, <2>2, <2>4
<1>9. before.uses[k][o] = b
    BY <1>4, <1>7, <1>8 DEF Before, Whole, SameOrder
<1> QED
    BY <1>2, <1>3, <1>7, <1>8, <1>9

\* The region of such a buffer has the number that it had, and its page.
LEMMA SamePage ==
    ASSUME Before, NEW b \in Tracked(regions), regions[b].kind # "Opaque", restoring,
           NEW k \in Kinds, b \in Users(before.uses[k])
    PROVE  log[regions[b].id].at >= before.ckpt[b]
PROOF
<1>1. PICK o : o = regions[b].ordinal
    OBVIOUS
<1>2. regions[b].kind = k /\ o \in DOMAIN before.uses[k] /\ before.uses[k][o] = b
    BY <1>1, SamePlace
<1>3. SpecsIn(old, k, o) # {}
    BY <1>2 DEF Before, Whole, Handed, Lists
<1>4. PICK s \in SpecsIn(old, k, o) : IdIn(old, k, o) = s.id
    <2>1. old \subseteq Specs \/ old = NoManifest
        BY DEF Before, Inv, Shape
    <2> QED
        BY <1>3, <2>1, IdFound
<1>5. s \in old \ NoManifest /\ s.kind = k /\ s.ordinal = o
    BY DEF SpecsIn
<1>6. regions[b].id = s.id
    <2>1. Numbered(regions, Base, old)
        BY DEF Before, Inv, Numbers, KeysMixed
    <2>2. Recovers(old, regions[b].kind, regions[b].ordinal)
        BY <1>1, <1>2, <1>3 DEF Recovers
    <2> QED
        BY <1>1, <1>2, <1>4, <2>1, <2>2 DEF Numbered
<1>7. Keeps(log, old, before.uses, before.ckpt)
    BY DEF Before, Whole, Handed
<1>8. log[s.id].at >= before.ckpt[before.uses[s.kind][s.ordinal]]
    BY <1>2, <1>5, <1>7 DEF Keeps
<1> QED
    BY <1>2, <1>5, <1>6, <1>8

\* The invariant says of every restored region what the theorem is about.
LEMMA RestoredInPlace == Before => InPlace
PROOF
<1> SUFFICES ASSUME Before, NEW b \in Buffers, Restored(b)
             PROVE  /\ mem[b].buf = b
                    /\ (\E k \in Kinds : b \in Users(before.uses[k]))
                          => mem[b].at >= before.ckpt[b]
    BY DEF InPlace
<1>1. b \in Tracked(regions) /\ regions[b].restored
    BY DEF Restored, Tracked
<1>2. mem[b].buf = b
    BY <1>1 DEF Before, Whole, OwnMem, Inv, Backed
<1>3. restoring /\ regions[b].kind # "Opaque"
    BY <1>1 DEF Before, Whole, AfterUse
<1>4. mem[b].at >= log[regions[b].id].at
    BY <1>1 DEF Before, Whole, OwnLog
<1>5. mem[b].at \in Nat /\ log[regions[b].id].at \in Nat /\ before.ckpt[b] \in Nat
    <2>1. \A t \in Times : t \in Nat
        BY Nothing, SMT DEF Times
    <2>2. mem[b] \in PagesOrNone /\ before.ckpt[b] \in Times
        BY DEF Before, Histories, Inv, Shape
    <2>3. regions[b].id \in Ids /\ log \in [Ids -> PagesOrNone]
        BY <1>1, KnownIds DEF Before, Inv, Shape
    <2> QED
        BY <2>1, <2>2, <2>3, Nothing
<1>6. ASSUME NEW k \in Kinds, b \in Users(before.uses[k])
      PROVE  mem[b].at >= before.ckpt[b]
    <2>1. log[regions[b].id].at >= before.ckpt[b]
        BY <1>1, <1>3, <1>6, SamePage
    <2> QED
        BY <1>4, <1>5, <2>1, SMT
<1> QED
    BY <1>2, <1>6

\* restore_device_region gives a buffer a page of that same buffer, and where the
\* process before used the buffer too, one from its last completed checkpoint or a
\* later one, as long as nothing in spoiled has happened: for any number of buffers,
\* launches, crashes and restarts.
THEOREM RestoresOwnPagesAlways == Spec => RestoresOwnPages
PROOF
<1>1. ASSUME RestoreInv, RestoreInv', [Next]_vars
      PROVE  [\A b \in Buffers :
                 spoiled' = {} /\ Restored(b)' /\ ~Restored(b)
                 => /\ mem'[b].buf = b
                    /\ (\E k \in Kinds : b \in Users(before.uses[k]))
                       => mem'[b].at >= before.ckpt[b]]_vars
    <2> SUFFICES ASSUME Next, NEW b \in Buffers, spoiled' = {}, Restored(b)', ~Restored(b)
                 PROVE  /\ mem'[b].buf = b
                        /\ (\E k \in Kinds : b \in Users(before.uses[k]))
                           => mem'[b].at >= before.ckpt[b]
        BY <1>1
    <2>1. Before'
        BY <1>1 DEF RestoreInv, Before
    <2>2. /\ mem'[b].buf = b
          /\ (\E k \in Kinds : b \in Users(before'.uses[k])) => mem'[b].at >= before'.ckpt[b]
        <3>1. InPlace'
            BY <2>1, RestoredInPlace, PTL
        <3> QED
            BY <3>1 DEF InPlace
    <2>3. before' = before
        <3>1. ~ Crash
            BY DEF Crash, Restored
        <3> QED
            BY <3>1 DEF Next, Alloc, Free, Write, Initialize, Scan, Prepare, Unobserved, Observe,
                        Stage, Finish, history
    <2> QED
        BY <2>2, <2>3
<1> QED
    BY <1>1, InitRestores, StepRestores, PTL DEF Spec, RestoresOwnPages

=============================================================================
