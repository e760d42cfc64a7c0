------------------------- MODULE KimiConcordiaProofs -------------------------
(***************************************************************************)
(* Proofs about the Kimi Concordia manager for any number of buffers,      *)
(* kernels, allocations, writes, crashes and faults.                       *)
(***************************************************************************)
EXTENDS KimiConcordia, Integers, FiniteSetTheorems, TLAPS

\* Most leaves are first-order reasoning; those with arithmetic cite SMT.
USE Zenon

(***************************************************************************)
(* What the variables are.                                                 *)
(***************************************************************************)
Region == [id : Nat \ {0}, index : Nat \ {0}, kind : Kinds \cup {"Opaque"},
           ordinal : Nat \ {0}, init : BOOLEAN, shadow : PagesOrNone, restored : BOOLEAN]
Specs == [id : Nat \ {0}, index : Nat \ {0}, kind : Kinds \cup {"Opaque"},
          ordinal : Nat \ {0}]
Calls == [pc : {"idle"}]
         \cup [pc : {"launch"}, b : Buffers, kernel : Kernels]
         \cup [pc : {"checkpoint"}, todo : SUBSET Buffers]
         \cup [pc : {"scan", "stage"}, b : Buffers, todo : SUBSET Buffers]
Spoilers == {"freed", "kinds", "order", "manifest", "restore", "delta", "number", "numbers",
             "hidden"}

Shape ==
    /\ mem \in [Buffers -> PagesOrNone]
    /\ regions \in [Buffers -> Region \cup {NoRegion}]
    /\ next \in [id : Nat \ {0}, index : Nat \ {0}]
    /\ old \subseteq Specs \/ old = NoManifest
    /\ file \subseteq Specs \/ file = NoManifest
    /\ call \in Calls
    /\ log \in [Ids -> PagesOrNone]
    /\ DOMAIN faults = {"all", "crashes"} /\ faults.crashes \in 0 .. MaxCrashes
    /\ uses \in [Kinds -> Seq(Buffers)]

Scalars ==
    /\ launches \in 0 .. Every - 1 /\ max_regions \in Limits /\ restoring \in BOOLEAN
    /\ clock \in Times /\ ckpt \in [Buffers -> Times]
    /\ lost \subseteq Buffers /\ spoiled \subseteq Spoilers

(***************************************************************************)
(* Numbers and places, for any assignment regs of regions to buffers.      *)
(***************************************************************************)
OfKind(regs, kind) == {b \in Tracked(regs) : regs[b].kind = kind}

\* Allocations are counted: as many are tracked as were made, or fewer.
Counted(regs, n) ==
    /\ IsFiniteSet(Tracked(regs)) /\ Cardinality(Tracked(regs)) < n
    /\ \A b \in Tracked(regs) : regs[b].index < n
    /\ \A b, c \in Tracked(regs) : b # c => regs[b].index # regs[c].index

\* The regions of a kind have different places, none beyond their number.
Placed(regs) ==
    \A b \in Tracked(regs) : regs[b].kind # "Opaque" =>
        /\ regs[b].ordinal <= Cardinality(OfKind(regs, regs[b].kind))
        /\ \A c \in Tracked(regs) \ {b} :
              regs[c].kind = regs[b].kind => regs[c].ordinal # regs[b].ordinal

\* What the manifest m says of a key.
SpecsIn(m, kind, ordinal) == {s \in m \ NoManifest : s.kind = kind /\ s.ordinal = ordinal}
IdIn(m, kind, ordinal) ==
    (CHOOSE s \in SpecsIn(m, kind, ordinal) :
        \A r \in SpecsIn(m, kind, ordinal) : s.index <= r.index).id
Recovers(m, kind, ordinal) == kind # "Opaque" /\ SpecsIn(m, kind, ordinal) # {}

\* A region has the number its key had in m, and otherwise the one of its
\* allocation, which is behind base.
Numbered(regs, base, m) ==
    \A b \in Tracked(regs) :
        regs[b].id = IF Recovers(m, regs[b].kind, regs[b].ordinal)
                     THEN IdIn(m, regs[b].kind, regs[b].ordinal)
                     ELSE base + regs[b].index

UsedAs(regs, us) ==
    \A b \in Tracked(regs) : regs[b].kind # "Opaque" => b \in Users(us[regs[b].kind])

DistinctSpecs(m) == \A s, r \in m : s.id = r.id => s = r
DistinctIds(regs) == \A b, c \in Tracked(regs) : regs[b].id = regs[c].id => b = c

Clean == spoiled \cap {"freed", "kinds"} = {}
Base == next.id - next.index
Top == MaxAllocs * (faults.crashes + 1)

IdBounds ==
    /\ next.index <= MaxAllocs + 1
    /\ Base >= 0 /\ Base + MaxAllocs <= Top
    /\ \A s \in old : s.id <= Base
    /\ \A s \in file : s.id <= Top
    /\ \A b \in Tracked(regions) : regions[b].id <= Top /\ regions[b].ordinal <= MaxAllocs

Numbers ==
    /\ Counted(regions, next.index)
    /\ ~ KeysMixed => Numbered(regions, Base, old)
    /\ Clean => /\ Placed(regions) /\ UsedAs(regions, uses)
                /\ DistinctSpecs(old) /\ DistinctSpecs(file)

(***************************************************************************)
(* Pages                                                                   *)
(***************************************************************************)
Past ==
    /\ \A b \in Buffers : mem[b].at <= clock
    /\ \A i \in Ids : log[i].at <= clock

Backed ==
    \A b \in Tracked(regions) :
        mem[b] # NoPage /\ (regions[b].init <=> regions[b].shadow # NoPage)

\* A checkpoint is about regions, and the page it stages is not older than the
\* shadow that the scan left.
CallView ==
    /\ call.pc \in {"checkpoint", "scan", "stage"} => call.todo \subseteq Tracked(regions)
    /\ call.pc \in {"scan", "stage"} => call.b \in Tracked(regions) /\ regions[call.b].init
    /\ call.pc = "stage" => mem[call.b].at >= regions[call.b].shadow.at

Inv ==
    /\ Shape /\ Scalars /\ IdBounds /\ Numbers
    /\ Past /\ Backed /\ CallView
    /\ LogBacksShadow
-----------------------------------------------------------------------------
(***************************************************************************)
(* Numbers                                                                 *)
(***************************************************************************)

\* A set of natural numbers has a least one.
LEMMA Least ==
    ASSUME NEW T, T \subseteq Nat, T # {}
    PROVE  \E n \in T : \A m \in T : n <= m
<1>1. PICK R : R = OpToRel(<, Nat)
  OBVIOUS
<1>2. IsWellFoundedOn(R, Nat)
  BY <1>1, NatLessThanWellFounded
<1>3. PICK n \in T : \A m \in T : ~ (<<m, n>> \in R)
  BY <1>2, WFMin
<1>4. ASSUME NEW m \in T PROVE n <= m
  <2>1. <<m, n>> \notin R /\ <<m, n>> \in Nat \X Nat
    BY <1>3
  <2>2. ~ (m < n)
    BY <1>1, <2>1, SMT DEF OpToRel
  <2> QED
    BY <2>2, SMT
<1> QED
  BY <1>4

\* And, when it is bounded, a greatest one.
LEMMA Greatest ==
    ASSUME NEW T, T \subseteq Nat, T # {}, NEW N \in Nat, \A m \in T : m <= N
    PROVE  \E n \in T : \A m \in T : m <= n
<1> DEFINE U == {n \in Nat : \A m \in T : m <= n}
<1>1. U \subseteq Nat /\ U # {}
  OBVIOUS
<1>2. PICK n \in U : \A u \in U : n <= u
  BY <1>1, Least
<1>3. ASSUME n \notin T PROVE FALSE
  <2>1. n \in Nat /\ \A m \in T : m \in Nat /\ m <= n /\ m # n
    BY <1>3
  <2>2. PICK k \in T : TRUE
    OBVIOUS
  <2>3. \A m \in T : m <= n - 1
    BY <2>1, SMT
  <2>4. n - 1 \in Nat
    BY <2>1, <2>2, SMT
  <2>5. n - 1 \in U
    BY <2>3, <2>4
  <2> QED
    BY <1>2, <2>1, <2>5, SMT
<1> QED
  BY <1>3

\* The numbers of the processes so far.
LEMMA TopFacts ==
    ASSUME NEW c \in 0 .. MaxCrashes
    PROVE  /\ MaxAllocs * (c + 1) \in Nat
           /\ MaxAllocs * (c + 1) <= MaxAllocs * (MaxCrashes + 1)
           /\ MaxAllocs * (c + 1 + 1) = MaxAllocs * (c + 1) + MaxAllocs
<1>1. MaxAllocs \in Nat \ {0} /\ MaxCrashes \in Nat
  BY KimiAssumption
<1> QED
  BY <1>1, SMT

\* A page is something, and no region is none.
LEMMA Nothing ==
    /\ NoPage \notin Pages /\ NoPage.at = 0
    /\ NoRegion \notin Region /\ NoRegion \notin Specs /\ NoRegion.id = 0
    /\ \A p \in PagesOrNone : p.at \in Times
    /\ MaxWrites \in Nat
<1>1. MaxWrites \in Nat
  BY KimiAssumption
<1>2. NoPage.at = 0 /\ NoRegion.id = 0
  BY DEF NoPage, NoRegion
<1>3. NoRegion \notin Region /\ NoRegion \notin Specs
  BY <1>2 DEF Region, Specs
<1>4. NoPage \notin Pages
  <2>1. \A p \in Pages : "buf" \in DOMAIN p
    BY DEF Pages
  <2>2. "buf" \notin DOMAIN NoPage
    BY DEF NoPage
  <2> QED
    BY <2>1, <2>2
<1>5. \A p \in PagesOrNone : p.at \in Times
  BY <1>1, <1>2, SMT DEF PagesOrNone, Pages, Times
<1> QED
  BY <1>1, <1>2, <1>3, <1>4, <1>5

Assignments == [Buffers -> Region \cup {NoRegion}]

\* The tracked buffers are those with a region.
LEMMA TrackedFacts ==
    ASSUME NEW regs \in Assignments
    PROVE  /\ \A b \in Tracked(regs) : b \in Buffers /\ regs[b] \in Region
           /\ \A b \in Buffers : regs[b] \in Region => b \in Tracked(regs)
           /\ Tracked(regs) \subseteq Buffers
BY Nothing DEF Assignments, Tracked

\* find_region_id finds a region of the manifest.
LEMMA IdFound ==
    ASSUME NEW m, m \subseteq Specs \/ m = NoManifest, NEW kind, NEW ordinal,
           SpecsIn(m, kind, ordinal) # {}
    PROVE  \E s \in SpecsIn(m, kind, ordinal) : IdIn(m, kind, ordinal) = s.id
<1> DEFINE S == SpecsIn(m, kind, ordinal)
           T == {s.index : s \in S}
<1>1. \A s \in S : s \in Specs /\ s.index \in Nat
  BY DEF SpecsIn, Specs, NoManifest
<1>2. T \subseteq Nat /\ T # {}
  BY <1>1
<1>3. PICK n \in T : \A k \in T : n <= k
  BY <1>2, Least
<1>4. PICK s \in S : s.index = n
  OBVIOUS
<1>5. \A r \in S : s.index <= r.index
  BY <1>3, <1>4
<1> HIDE DEF S
<1>6. (CHOOSE x \in S : \A r \in S : x.index <= r.index) \in S
  BY <1>4, <1>5
<1> QED
  BY <1>6 DEF IdIn, S

\* The first number of a process is behind all numbers of the old manifest.
LEMMA FirstIdFacts ==
    ASSUME NEW m, m \subseteq Specs \/ m = NoManifest,
           NEW N \in Nat, \A s \in m : s.id <= N
    PROVE  /\ FirstId(m) \in Nat \ {0} /\ FirstId(m) <= N + 1
           /\ \A s \in m : s.id <= FirstId(m) - 1
<1>1. CASE m = NoManifest
  <2>1. FirstId(m) = 1 /\ \A s \in m : s.id = 0
    BY <1>1, Nothing DEF FirstId, NoManifest
  <2> QED
    BY <2>1, SMT
<1>2. CASE m # NoManifest
  <2> DEFINE T == {0} \cup {s.id : s \in m}
  <2>1. \A s \in m : s.id \in Nat
    BY <1>2 DEF Specs
  <2>2. T \subseteq Nat /\ T # {}
    BY <2>1, SMT
  <2>3. \A k \in T : k <= N
    BY SMT
  <2> HIDE DEF T
  <2>4. PICK n \in T : \A k \in T : k <= n
    BY <2>2, <2>3, Greatest
  <2>5. \A s \in m : s.id \in T
    BY DEF T
  <2>6. PICK g : g = CHOOSE x \in T : \A s \in m : s.id <= x
    OBVIOUS
  <2>7. g \in T /\ \A s \in m : s.id <= g
    BY <2>4, <2>5, <2>6
  <2>8. FirstId(m) = 1 + g
    BY <1>2, <2>6 DEF FirstId, T
  <2> QED
    BY <2>1, <2>2, <2>3, <2>7, <2>8, SMT
<1> QED
  BY <1>1, <1>2
-----------------------------------------------------------------------------
(***************************************************************************)
(* How numbers and places change with an assignment of regions.            *)
(***************************************************************************)
SameKeys(regs, new) ==
    /\ Tracked(new) = Tracked(regs)
    /\ \A b \in Tracked(regs) :
          /\ new[b].id = regs[b].id /\ new[b].index = regs[b].index
          /\ new[b].kind = regs[b].kind /\ new[b].ordinal = regs[b].ordinal

\* Shadows and flags do not matter.
LEMMA SameKeysKeep ==
    ASSUME NEW regs, NEW new, SameKeys(regs, new), NEW n, NEW base, NEW m, NEW us
    PROVE  /\ Counted(regs, n) => Counted(new, n)
           /\ Placed(regs) => Placed(new)
           /\ Numbered(regs, base, m) => Numbered(new, base, m)
           /\ UsedAs(regs, us) => UsedAs(new, us)
           /\ DistinctIds(regs) => DistinctIds(new)
<1> USE DEF SameKeys
<1>1. \A k : OfKind(new, k) = OfKind(regs, k)
  BY DEF OfKind
<1>2. ASSUME Placed(regs) PROVE Placed(new)
  <2> SUFFICES ASSUME NEW b \in Tracked(regs), regs[b].kind # "Opaque"
               PROVE  /\ new[b].ordinal <= Cardinality(OfKind(regs, new[b].kind))
                      /\ \A c \in Tracked(regs) \ {b} :
                            new[c].kind = new[b].kind => new[c].ordinal # new[b].ordinal
    BY <1>1 DEF Placed
  <2>1. regs[b].ordinal <= Cardinality(OfKind(regs, regs[b].kind))
    BY <1>2 DEF Placed
  <2>2. ASSUME NEW c \in Tracked(regs) \ {b}, new[c].kind = new[b].kind
        PROVE  new[c].ordinal # new[b].ordinal
    <3>1. regs[c].kind = regs[b].kind
      BY <2>2
    <3>2. regs[c].ordinal # regs[b].ordinal
      BY <1>2, <3>1 DEF Placed
    <3> QED
      BY <3>2
  <2> QED
    BY <2>1, <2>2
<1>3. Numbered(regs, base, m) => Numbered(new, base, m)
  BY DEF Numbered
<1>4. ASSUME Counted(regs, n) PROVE Counted(new, n)
  <2>1. \A b \in Tracked(new) : new[b].index < n
    BY <1>4 DEF Counted
  <2>2. ASSUME NEW b \in Tracked(new), NEW c \in Tracked(new), b # c
        PROVE  new[b].index # new[c].index
    <3>1. regs[b].index # regs[c].index
      BY <1>4, <2>2 DEF Counted
    <3> QED
      BY <3>1
  <2> QED
    BY <1>4, <2>1, <2>2 DEF Counted
<1>5. UsedAs(regs, us) => UsedAs(new, us)
  BY DEF UsedAs
<1>6. DistinctIds(regs) => DistinctIds(new)
  BY DEF DistinctIds
<1> QED
  BY <1>2, <1>3, <1>4, <1>5, <1>6

\* Regions that are numbered by the old manifest and by their allocations have
\* different numbers, if keys are given once.
LEMMA NumbersDiffer ==
    ASSUME NEW regs \in Assignments, NEW n, NEW base \in Int, NEW m,
           m \subseteq Specs \/ m = NoManifest,
           Counted(regs, n), Numbered(regs, base, m), \A s \in m : s.id <= base,
           m = NoManifest \/ (DistinctSpecs(m) /\ Placed(regs))
    PROVE  DistinctIds(regs)
<1> SUFFICES ASSUME NEW b \in Tracked(regs), NEW c \in Tracked(regs),
                    regs[b].id = regs[c].id, b # c
             PROVE  FALSE
  BY DEF DistinctIds
<1>1. regs[b] \in Region /\ regs[c] \in Region
  BY TrackedFacts
<1>2. \A d \in Tracked(regs) :
         Recovers(m, regs[d].kind, regs[d].ordinal) =>
             \E s \in m \ NoManifest : /\ s.id = regs[d].id /\ s.id <= base
                                       /\ s.kind = regs[d].kind
                                       /\ s.ordinal = regs[d].ordinal
  <2> TAKE d \in Tracked(regs)
  <2> HAVE Recovers(m, regs[d].kind, regs[d].ordinal)
  <2>1. PICK k, o : k = regs[d].kind /\ o = regs[d].ordinal
    OBVIOUS
  <2>2. SpecsIn(m, k, o) # {} /\ regs[d].id = IdIn(m, k, o)
    BY <2>1 DEF Numbered, Recovers
  <2>3. PICK s \in SpecsIn(m, k, o) : IdIn(m, k, o) = s.id
    BY <2>2, IdFound
  <2> QED
    BY <2>1, <2>2, <2>3 DEF SpecsIn
<1>3. \A d \in Tracked(regs) :
         ~ Recovers(m, regs[d].kind, regs[d].ordinal) => regs[d].id = base + regs[d].index
  BY DEF Numbered
<1>4. regs[b].index # regs[c].index
  BY DEF Counted
<1>5. regs[b].index \in Nat \ {0} /\ regs[c].index \in Nat \ {0}
  BY <1>1 DEF Region
<1>6. CASE Recovers(m, regs[b].kind, regs[b].ordinal) /\ Recovers(m, regs[c].kind, regs[c].ordinal)
  <2>1. PICK s \in m \ NoManifest : /\ s.id = regs[b].id
                                    /\ s.kind = regs[b].kind /\ s.ordinal = regs[b].ordinal
    BY <1>2, <1>6
  <2>2. PICK t \in m \ NoManifest : /\ t.id = regs[c].id
                                    /\ t.kind = regs[c].kind /\ t.ordinal = regs[c].ordinal
    BY <1>2, <1>6
  <2>3. DistinctSpecs(m) /\ Placed(regs)
    BY <2>1
  <2>4. s = t
    BY <2>1, <2>2, <2>3 DEF DistinctSpecs
  <2>5. regs[b].kind # "Opaque"
    BY <1>6 DEF Recovers
  <2> QED
    BY <2>1, <2>2, <2>3, <2>4, <2>5 DEF Placed
<1>7. CASE ~ Recovers(m, regs[b].kind, regs[b].ordinal)
           /\ ~ Recovers(m, regs[c].kind, regs[c].ordinal)
  BY <1>3, <1>4, <1>5, <1>7, SMT
<1>8. ASSUME NEW x \in Tracked(regs), NEW y \in Tracked(regs), regs[x].id = regs[y].id,
             Recovers(m, regs[x].kind, regs[x].ordinal),
             ~ Recovers(m, regs[y].kind, regs[y].ordinal),
             regs[y].index \in Nat \ {0}
      PROVE  FALSE
  <2>1. PICK i : i = regs[x].id
    OBVIOUS
  <2>2. PICK s \in m : s.id = i /\ s.id <= base
    BY <1>2, <1>8, <2>1
  <2>3. i = base + regs[y].index
    BY <1>3, <1>8, <2>1
  <2> QED
    BY <1>8, <2>2, <2>3, SMT
<1> QED
  BY <1>5, <1>6, <1>7, <1>8

\* One region more, the n-th that is allocated.
Adds(regs, b, n, base, m, us, new) ==
    /\ new \in Assignments /\ Tracked(new) = Tracked(regs) \cup {b}
    /\ \A c \in Tracked(regs) : new[c] = regs[c]
    /\ Counted(regs, n) => Counted(new, n + 1)
    /\ Placed(regs) => Placed(new)
    /\ Numbered(regs, base, m) => Numbered(new, base, m)
    /\ UsedAs(regs, us) => UsedAs(new, us)

\* A new region is behind all others and has no key yet.
LEMMA NewRegion ==
    ASSUME NEW regs \in Assignments, NEW b \in Buffers, regs[b] = NoRegion,
           NEW n \in Nat \ {0}, NEW base, NEW m, NEW us,
           NEW r \in Region, r.index = n, r.kind = "Opaque", r.id = base + n,
           NEW new, new = [regs EXCEPT ![b] = r]
    PROVE  Adds(regs, b, n, base, m, us, new)
<1>1. new \in Assignments /\ new[b] = r /\ \A c \in Buffers \ {b} : new[c] = regs[c]
  BY DEF Assignments
<1>2. b \notin Tracked(regs) /\ Tracked(regs) \subseteq Buffers
  BY DEF Tracked
<1>3. Tracked(new) = Tracked(regs) \cup {b}
  BY <1>1, Nothing DEF Tracked
<1>4. \A c \in Tracked(regs) : new[c] = regs[c]
  BY <1>1, <1>2
<1>5. ASSUME Counted(regs, n) PROVE Counted(new, n + 1)
  <2>1. /\ IsFiniteSet(Tracked(new))
        /\ Cardinality(Tracked(new)) = Cardinality(Tracked(regs)) + 1
        /\ Cardinality(Tracked(regs)) \in Nat
    <3>1. PICK S : S = Tracked(regs)
      OBVIOUS
    <3>2. IsFiniteSet(S) /\ b \notin S
      BY <1>2, <1>5, <3>1 DEF Counted
    <3>3. IsFiniteSet(S \cup {b}) /\ Cardinality(S \cup {b}) = Cardinality(S) + 1
      BY <3>2, FS_AddElement
    <3> QED
      BY <1>3, <3>1, <3>2, <3>3, FS_CardinalityType
  <2>2. \A c \in Tracked(regs) : regs[c].index \in Nat
    BY TrackedFacts DEF Region
  <2>3. \A c \in Tracked(regs) : new[c].index \in Nat /\ new[c].index < n
    BY <1>4, <1>5, <2>2 DEF Counted
  <2>4. Cardinality(Tracked(new)) < n + 1
    BY <1>5, <2>1, SMT DEF Counted
  <2>5. ASSUME NEW c \in Tracked(new) PROVE new[c].index < n + 1
    <3>1. CASE c = b
      BY <1>1, <3>1, SMT
    <3>2. CASE c \in Tracked(regs)
      BY <2>3, <3>2, SMT
    <3> QED
      BY <1>3, <3>1, <3>2
  <2>6. \A c \in Tracked(regs) : new[c].index # new[b].index
    BY <1>1, <2>3, SMT
  <2>7. \A c, d \in Tracked(new) : c # d => new[c].index # new[d].index
    <3> SUFFICES ASSUME NEW c \in Tracked(new), NEW d \in Tracked(new), c # d
                 PROVE  new[c].index # new[d].index
      OBVIOUS
    <3>1. CASE c \in Tracked(regs) /\ d \in Tracked(regs)
      BY <1>4, <1>5, <3>1 DEF Counted
    <3> QED
      BY <1>3, <2>6, <3>1
  <2> QED
    BY <2>1, <2>4, <2>5, <2>7 DEF Counted
<1>6. ASSUME Placed(regs) PROVE Placed(new)
  <2>1. \A k : k # "Opaque" => OfKind(new, k) = OfKind(regs, k)
    BY <1>1, <1>3, <1>4 DEF OfKind
  <2> QED
    <3> SUFFICES ASSUME NEW c \in Tracked(new), new[c].kind # "Opaque"
                 PROVE  /\ new[c].ordinal <= Cardinality(OfKind(new, new[c].kind))
                        /\ \A d \in Tracked(new) \ {c} :
                              new[d].kind = new[c].kind => new[d].ordinal # new[c].ordinal
      BY DEF Placed
    <3>1. c \in Tracked(regs) /\ new[c] = regs[c]
      BY <1>1, <1>3, <1>4
    <3>2. \A d \in Tracked(new) \ {c} : new[d].kind = new[c].kind =>
             d \in Tracked(regs) \ {c} /\ new[d] = regs[d]
      BY <1>1, <1>3, <1>4
    <3>3. new[c].ordinal <= Cardinality(OfKind(new, new[c].kind))
      BY <1>6, <2>1, <3>1 DEF Placed
    <3>4. ASSUME NEW d \in Tracked(new) \ {c}, new[d].kind = new[c].kind
          PROVE  new[d].ordinal # new[c].ordinal
      <4>1. d \in Tracked(regs) \ {c} /\ new[d] = regs[d]
        BY <3>2, <3>4
      <4>2. regs[d].ordinal # regs[c].ordinal
        BY <1>6, <3>1, <3>4, <4>1 DEF Placed
      <4> QED
        BY <3>1, <4>1, <4>2
    <3> QED
      BY <3>3, <3>4
<1>7. ASSUME Numbered(regs, base, m) PROVE Numbered(new, base, m)
  <2>1. ~ Recovers(m, new[b].kind, new[b].ordinal) /\ new[b].id = base + new[b].index
    BY <1>1 DEF Recovers
  <2>2. ASSUME NEW c \in Tracked(regs)
        PROVE  new[c].id = IF Recovers(m, new[c].kind, new[c].ordinal)
                           THEN IdIn(m, new[c].kind, new[c].ordinal)
                           ELSE base + new[c].index
    BY <1>4, <1>7 DEF Numbered
  <2> QED
    BY <1>3, <2>1, <2>2 DEF Numbered
<1>8. ASSUME UsedAs(regs, us) PROVE UsedAs(new, us)
  BY <1>1, <1>3, <1>4, <1>8 DEF UsedAs
<1> QED
  BY <1>1, <1>3, <1>4, <1>5, <1>6, <1>7, <1>8 DEF Adds

\* A region that is gone leaves the numbers of the others alone.
LEMMA FreedRegion ==
    ASSUME NEW regs \in Assignments, NEW b \in Tracked(regs), NEW n, NEW base, NEW m,
           NEW new, new = [regs EXCEPT ![b] = NoRegion]
    PROVE  /\ new \in Assignments /\ Tracked(new) = Tracked(regs) \ {b}
           /\ \A c \in Tracked(new) : new[c] = regs[c]
           /\ Counted(regs, n) /\ n \in Nat => Counted(new, n)
           /\ Numbered(regs, base, m) => Numbered(new, base, m)
<1>1. b \in Buffers /\ Tracked(regs) \subseteq Buffers
  BY DEF Tracked
<1>2. new \in Assignments /\ new[b] = NoRegion /\ \A c \in Buffers \ {b} : new[c] = regs[c]
  BY <1>1 DEF Assignments
<1>3. Tracked(new) = Tracked(regs) \ {b}
  BY <1>1, <1>2 DEF Tracked
<1>4. \A c \in Tracked(new) : new[c] = regs[c]
  BY <1>1, <1>2, <1>3
<1>5. ASSUME Counted(regs, n), n \in Nat PROVE Counted(new, n)
  <2>1. /\ IsFiniteSet(Tracked(new))
        /\ Cardinality(Tracked(new)) = Cardinality(Tracked(regs)) - 1
        /\ Cardinality(Tracked(regs)) \in Nat
    <3>1. PICK S : S = Tracked(regs)
      OBVIOUS
    <3>2. IsFiniteSet(S) /\ b \in S
      BY <1>5, <3>1 DEF Counted
    <3>3. IsFiniteSet(S \ {b}) /\ Cardinality(S \ {b}) = Cardinality(S) - 1
      BY <3>2, FS_RemoveElement
    <3> QED
      BY <1>3, <3>1, <3>2, <3>3, FS_CardinalityType
  <2>2. Cardinality(Tracked(new)) < n
    BY <1>5, <2>1, SMT DEF Counted
  <2>3. \A c \in Tracked(new) : c \in Tracked(regs) /\ new[c].index = regs[c].index
    BY <1>3, <1>4
  <2>4. \A c \in Tracked(new) : new[c].index < n
    BY <1>5, <2>3 DEF Counted
  <2>5. ASSUME NEW c \in Tracked(new), NEW d \in Tracked(new), c # d
        PROVE  new[c].index # new[d].index
    <3>1. regs[c].index # regs[d].index
      BY <1>5, <2>3, <2>5 DEF Counted
    <3> QED
      BY <2>3, <3>1
  <2> QED
    BY <2>1, <2>2, <2>4, <2>5 DEF Counted
<1> QED
  BY <1>2, <1>3, <1>4, <1>5 DEF Numbered

\* The region of b is noted as one of a kind.
Becomes(regs, b, kind, m, r) ==
    /\ r.index = regs[b].index /\ r.kind = kind
    /\ r.ordinal = IF regs[b].kind = kind THEN regs[b].ordinal
                   ELSE Cardinality({c \in Tracked(regs) \ {b} : regs[c].kind = kind}) + 1
    /\ r.id = IF SpecsIn(m, kind, r.ordinal) = {} THEN regs[b].id
              ELSE IdIn(m, kind, r.ordinal)

\* What that makes of the regions, n of which were ever allocated.
Takes(regs, b, kind, r, new, n) ==
    /\ new \in Assignments /\ Tracked(new) = Tracked(regs) /\ new[b] = r
    /\ \A c \in Tracked(regs) \ {b} : new[c] = regs[c]
    /\ Counted(new, n)
    /\ r.ordinal = regs[b].ordinal \/ r.ordinal < n
    /\ Placed(regs) /\ regs[b].kind \in {"Opaque", kind} => Placed(new)

\* A region takes the place behind those of its kind and keeps it.
LEMMA NotedPlace ==
    ASSUME NEW regs \in Assignments, NEW b \in Tracked(regs), NEW kind \in Kinds, NEW m,
           NEW r \in Region, Becomes(regs, b, kind, m, r),
           NEW new, new = [regs EXCEPT ![b] = r], NEW n \in Nat, Counted(regs, n)
    PROVE  Takes(regs, b, kind, r, new, n)
<1>1. b \in Buffers /\ Tracked(regs) \subseteq Buffers /\ regs[b] \in Region
  BY TrackedFacts
<1>2. new \in Assignments /\ new[b] = r /\ \A c \in Buffers \ {b} : new[c] = regs[c]
  BY <1>1 DEF Assignments
<1>3. Tracked(new) = Tracked(regs)
  BY <1>1, <1>2, Nothing DEF Tracked
<1>4. \A c \in Tracked(regs) \ {b} : new[c] = regs[c]
  BY <1>1, <1>2
<1>5. \A c \in Tracked(regs) : new[c].index = regs[c].index
  BY <1>2, <1>4 DEF Becomes
<1>6. Counted(new, n)
  <2>1. \A c \in Tracked(new) : new[c].index < n
    BY <1>3, <1>5 DEF Counted
  <2>2. ASSUME NEW c \in Tracked(new), NEW d \in Tracked(new), c # d
        PROVE  new[c].index # new[d].index
    <3>1. regs[c].index # regs[d].index
      BY <1>3, <2>2 DEF Counted
    <3> QED
      BY <1>3, <1>5, <3>1
  <2> QED
    BY <1>3, <2>1, <2>2 DEF Counted
<1> DEFINE others == {c \in Tracked(regs) \ {b} : regs[c].kind = kind}
<1>7. /\ IsFiniteSet(others) /\ Cardinality(others) \in Nat
      /\ Cardinality(others) + 1 <= Cardinality(Tracked(regs))
      /\ Cardinality(Tracked(regs)) \in Nat
      /\ Cardinality(others \cup {b}) = Cardinality(others) + 1
  <2>1. PICK S : S = Tracked(regs)
    OBVIOUS
  <2>2. IsFiniteSet(S) /\ Cardinality(S) \in Nat
    BY <2>1, FS_CardinalityType DEF Counted
  <2>3. others \cup {b} \in SUBSET S /\ others \in SUBSET S /\ b \notin others
    BY <2>1
  <2> HIDE DEF others
  <2>4. IsFiniteSet(others)
    BY <2>2, <2>3, FS_Subset
  <2>5. Cardinality(others \cup {b}) <= Cardinality(S)
    BY <2>2, <2>3, FS_Subset
  <2>6. Cardinality(others \cup {b}) = Cardinality(others) + 1
    BY <2>3, <2>4, FS_AddElement
  <2>7. Cardinality(others) \in Nat
    BY <2>4, FS_CardinalityType
  <2> QED
    BY <2>1, <2>2, <2>4, <2>5, <2>6, <2>7
<1>8. r.ordinal = IF regs[b].kind = kind THEN regs[b].ordinal ELSE Cardinality(others) + 1
  BY DEF Becomes
<1> HIDE DEF others
<1>9. r.ordinal = regs[b].ordinal \/ r.ordinal < n
  <2>1. Cardinality(Tracked(regs)) < n
    BY DEF Counted
  <2>2. Cardinality(others) + 1 < n
    BY <1>7, <2>1, SMT
  <2> QED
    BY <1>8, <2>2
<1>10. ASSUME Placed(regs), regs[b].kind = kind PROVE Placed(new)
  <2>1. \A c \in Tracked(regs) : new[c].kind = regs[c].kind /\ new[c].ordinal = regs[c].ordinal
    BY <1>2, <1>4, <1>8, <1>10 DEF Becomes
  <2>2. \A k : OfKind(new, k) = OfKind(regs, k)
    BY <1>3, <2>1 DEF OfKind
  <2> SUFFICES ASSUME NEW c \in Tracked(regs), regs[c].kind # "Opaque"
               PROVE  /\ new[c].ordinal <= Cardinality(OfKind(regs, new[c].kind))
                      /\ \A d \in Tracked(regs) \ {c} :
                            new[d].kind = new[c].kind => new[d].ordinal # new[c].ordinal
    BY <1>3, <2>1, <2>2 DEF Placed
  <2>3. new[c].ordinal <= Cardinality(OfKind(regs, new[c].kind))
    BY <1>10, <2>1 DEF Placed
  <2>4. ASSUME NEW d \in Tracked(regs) \ {c}, new[d].kind = new[c].kind
        PROVE  new[d].ordinal # new[c].ordinal
    <3>1. regs[d].ordinal # regs[c].ordinal
      BY <1>10, <2>1, <2>4 DEF Placed
    <3> QED
      BY <2>1, <3>1
  <2> QED
    BY <2>3, <2>4
<1>11. ASSUME Placed(regs), regs[b].kind = "Opaque" PROVE Placed(new)
  <2>1. kind # "Opaque" /\ r.kind = kind
    BY DEF Kinds, Becomes
  <2>2. r.ordinal = Cardinality(others) + 1
    BY <1>8, <1>11, <2>1
  <2>3. OfKind(regs, kind) = others /\ OfKind(new, kind) = others \cup {b}
    BY <1>2, <1>3, <1>4, <1>11, <2>1 DEF OfKind, others
  <2>4. \A k : k # kind /\ k # "Opaque" => OfKind(new, k) = OfKind(regs, k)
    BY <1>2, <1>3, <1>4, <1>11, <2>1 DEF OfKind
  <2>5. \A c \in others : regs[c].ordinal <= Cardinality(others) /\ c \in Tracked(regs) \ {b}
                          /\ regs[c].ordinal \in Nat
    <3>1. \A c \in others : c \in Tracked(regs) \ {b} /\ regs[c].kind = kind
      BY DEF others
    <3>2. \A c \in Tracked(regs) : regs[c].ordinal \in Nat
      BY TrackedFacts DEF Region
    <3> QED
      BY <1>11, <2>1, <2>3, <3>1, <3>2 DEF Placed
  <2>6. \A c \in others : /\ regs[c].ordinal # r.ordinal
                          /\ regs[c].ordinal <= Cardinality(others) + 1
    BY <1>7, <2>2, <2>5, SMT
  <2>7. r.ordinal <= Cardinality(others) + 1
    BY <1>7, <2>2, SMT
  <2> SUFFICES ASSUME NEW c \in Tracked(new), new[c].kind # "Opaque"
               PROVE  /\ new[c].ordinal <= Cardinality(OfKind(new, new[c].kind))
                      /\ \A d \in Tracked(new) \ {c} :
                            new[d].kind = new[c].kind => new[d].ordinal # new[c].ordinal
    BY DEF Placed
  <2>8. CASE c = b
    <3>1. new[c].ordinal <= Cardinality(OfKind(new, new[c].kind))
      BY <1>2, <1>7, <2>1, <2>3, <2>7, <2>8
    <3>2. ASSUME NEW d \in Tracked(new) \ {c}, new[d].kind = new[c].kind
          PROVE  new[d].ordinal # new[c].ordinal
      <4>1. d \in others /\ new[d] = regs[d]
        BY <1>2, <1>3, <1>4, <2>1, <2>8, <3>2 DEF others
      <4> QED
        BY <1>2, <2>6, <2>8, <4>1
    <3> QED
      BY <3>1, <3>2
  <2>9. CASE c # b /\ new[c].kind = kind
    <3>1. c \in others /\ new[c] = regs[c] /\ c \in Tracked(regs)
      BY <1>3, <1>4, <2>9 DEF others
    <3>2. new[c].ordinal <= Cardinality(OfKind(new, new[c].kind))
      BY <1>7, <2>3, <2>6, <2>9, <3>1
    <3>3. ASSUME NEW d \in Tracked(new) \ {c}, new[d].kind = new[c].kind
          PROVE  new[d].ordinal # new[c].ordinal
      <4>1. CASE d = b
        BY <1>2, <2>6, <3>1, <4>1
      <4>2. CASE d # b
        <5>1. new[d] = regs[d] /\ d \in Tracked(regs) \ {c}
          BY <1>3, <1>4, <4>2
        <5>2. regs[d].ordinal # regs[c].ordinal
          BY <1>11, <2>9, <3>1, <3>3, <5>1 DEF Placed
        <5> QED
          BY <3>1, <5>1, <5>2
      <4> QED
        BY <4>1, <4>2
    <3> QED
      BY <3>2, <3>3
  <2>10. CASE c # b /\ new[c].kind # kind
    <3>1. new[c] = regs[c] /\ c \in Tracked(regs)
      BY <1>3, <1>4, <2>10
    <3>2. new[c].ordinal <= Cardinality(OfKind(new, new[c].kind))
      BY <1>11, <2>4, <2>10, <3>1 DEF Placed
    <3>3. ASSUME NEW d \in Tracked(new) \ {c}, new[d].kind = new[c].kind
          PROVE  new[d].ordinal # new[c].ordinal
      <4>1. new[d] = regs[d] /\ d \in Tracked(regs) \ {c}
        BY <1>2, <1>3, <1>4, <2>1, <2>10, <3>3
      <4>2. regs[d].ordinal # regs[c].ordinal
        BY <1>11, <3>1, <3>3, <4>1 DEF Placed
      <4> QED
        BY <3>1, <4>1, <4>2
    <3> QED
      BY <3>2, <3>3
  <2> QED
    BY <2>8, <2>9, <2>10
<1> QED
  BY <1>2, <1>3, <1>4, <1>6, <1>9, <1>10, <1>11 DEF Takes

\* It takes the number that its key had, and keeps it when it is noted again.
LEMMA NotedNumber ==
    ASSUME NEW regs \in Assignments, NEW b \in Tracked(regs), NEW kind \in Kinds, NEW m,
           NEW r \in Region, Becomes(regs, b, kind, m, r),
           NEW new, new[b] = r, Tracked(new) = Tracked(regs),
           \A c \in Tracked(regs) \ {b} : new[c] = regs[c],
           NEW base, Numbered(regs, base, m),
           m = NoManifest \/ regs[b].kind \in {"Opaque", kind}
    PROVE  Numbered(new, base, m)
<1>1. \A c \in Tracked(regs) \ {b} :
         new[c].id = IF Recovers(m, new[c].kind, new[c].ordinal)
                     THEN IdIn(m, new[c].kind, new[c].ordinal) ELSE base + new[c].index
  BY DEF Numbered
<1>2. /\ r.index = regs[b].index /\ r.kind = kind /\ kind # "Opaque"
      /\ r.id = IF SpecsIn(m, kind, r.ordinal) = {} THEN regs[b].id
                ELSE IdIn(m, kind, r.ordinal)
  BY DEF Becomes, Kinds
<1>3. regs[b].id = IF Recovers(m, regs[b].kind, regs[b].ordinal)
                   THEN IdIn(m, regs[b].kind, regs[b].ordinal) ELSE base + regs[b].index
  BY DEF Numbered
<1>4. r.id = IF Recovers(m, kind, r.ordinal) THEN IdIn(m, kind, r.ordinal)
             ELSE base + r.index
  <2>1. CASE SpecsIn(m, kind, r.ordinal) # {}
    BY <1>2, <2>1 DEF Recovers
  <2>2. CASE SpecsIn(m, kind, r.ordinal) = {}
    <3>1. ~ Recovers(m, kind, r.ordinal) /\ r.id = regs[b].id
      BY <1>2, <2>2 DEF Recovers
    <3>2. ~ Recovers(m, regs[b].kind, regs[b].ordinal)
      <4>1. CASE m = NoManifest
        BY <4>1 DEF Recovers, SpecsIn
      <4>2. CASE regs[b].kind = "Opaque"
        BY <4>2 DEF Recovers
      <4>3. CASE regs[b].kind = kind
        <5>1. r.ordinal = regs[b].ordinal
          BY <4>3 DEF Becomes
        <5> QED
          BY <3>1, <4>3, <5>1
      <4> QED
        BY <4>1, <4>2, <4>3
    <3> QED
      BY <1>2, <1>3, <3>1, <3>2
  <2> QED
    BY <2>1, <2>2
<1>5. new[b].id = IF Recovers(m, new[b].kind, new[b].ordinal)
                  THEN IdIn(m, new[b].kind, new[b].ordinal) ELSE base + new[b].index
  BY <1>2, <1>4
<1> QED
  BY <1>1, <1>5 DEF Numbered

\* Appending b to the users of a kind.
LEMMA UsersGrow ==
    ASSUME NEW s \in Seq(Buffers), NEW b \in Buffers
    PROVE  Append(s, b) \in Seq(Buffers) /\ Users(Append(s, b)) = Users(s) \cup {b}
<1>1. /\ Append(s, b) \in Seq(Buffers) /\ Len(s) \in Nat
      /\ DOMAIN s = 1 .. Len(s) /\ DOMAIN Append(s, b) = 1 .. Len(s) + 1
      /\ Append(s, b)[Len(s) + 1] = b
      /\ \A i \in 1 .. Len(s) : Append(s, b)[i] = s[i]
  BY SMT
<1>2. 1 .. Len(s) + 1 = 1 .. Len(s) \cup {Len(s) + 1}
  BY <1>1, SMT
<1>3. Users(Append(s, b)) = {Append(s, b)[i] : i \in 1 .. Len(s)} \cup {Append(s, b)[Len(s) + 1]}
  BY <1>1, <1>2 DEF Users
<1>4. {Append(s, b)[i] : i \in 1 .. Len(s)} = {s[i] : i \in 1 .. Len(s)}
  BY <1>1
<1> QED
  BY <1>1, <1>3, <1>4 DEF Users

-----------------------------------------------------------------------------
(***************************************************************************)
(* Numbers and places in a step of a process.                              *)
(***************************************************************************)
\* A manifest has the numbers of its regions.
LEMMA ManifestFacts ==
    ASSUME NEW regs \in Assignments
    PROVE  /\ Manifest(regs) \subseteq Specs
           /\ \A s \in Manifest(regs) : \E b \in Tracked(regs) : s.id = regs[b].id
           /\ DistinctIds(regs) => DistinctSpecs(Manifest(regs))
<1> DEFINE spec(b) == [id |-> regs[b].id, index |-> regs[b].index, kind |-> regs[b].kind,
                       ordinal |-> regs[b].ordinal]
<1>1. Manifest(regs) = {spec(b) : b \in Tracked(regs)}
  BY DEF Manifest
<1>2. ASSUME NEW b \in Tracked(regs) PROVE spec(b) \in Specs /\ spec(b).id = regs[b].id
  <2>1. regs[b] \in Region
    BY TrackedFacts
  <2> QED
    BY <2>1, SMT DEF Region, Specs
<1> HIDE DEF spec
<1>3. Manifest(regs) \subseteq Specs
  BY <1>1, <1>2
<1>4. \A s \in Manifest(regs) : \E b \in Tracked(regs) : s.id = regs[b].id
  BY <1>1, <1>2
<1>5. ASSUME DistinctIds(regs), NEW s \in Manifest(regs), NEW r \in Manifest(regs), s.id = r.id
      PROVE  s = r
  <2>1. PICK b \in Tracked(regs) : s = spec(b)
    BY <1>1
  <2>2. PICK c \in Tracked(regs) : r = spec(c)
    BY <1>1
  <2>3. b = c
    BY <1>2, <1>5, <2>1, <2>2 DEF DistinctIds
  <2> QED
    BY <2>1, <2>2, <2>3
<1> QED
  BY <1>3, <1>4, <1>5 DEF DistinctSpecs

\* While no key is given twice, no number is.
LEMMA OwnNumbers ==
    ASSUME Shape, IdBounds, Numbers, ~ KeysMixed
    PROVE  DistinctIds(regions)
<1>1. Base \in Int
  BY SMT DEF Shape, Base
<1>2. old = NoManifest \/ (DistinctSpecs(old) /\ Placed(regions))
  BY DEF Numbers, KeysMixed, Clean
<1>3. Numbered(regions, Base, old) /\ Counted(regions, next.index)
  BY DEF Numbers
<1>4. regions \in Assignments /\ (old \subseteq Specs \/ old = NoManifest)
  BY DEF Shape, Assignments
<1>5. \A s \in old : s.id <= Base
  BY DEF IdBounds
<1> HIDE DEF Base
<1> QED
  BY <1>1, <1>2, <1>3, <1>4, <1>5, NumbersDiffer

\* The regions become regs, as far as keys go, and the manifest may follow.
Rekeys(regs) ==
    /\ regs \in Assignments /\ SameKeys(regs, regions')
    /\ old' = old /\ Base' = Base /\ Top' = Top /\ spoiled \subseteq spoiled'
    /\ file' \in {file, NoManifest, Manifest(regs)}
    /\ next'.index <= MaxAllocs + 1 /\ Counted(regs, next'.index)
    /\ ~ KeysMixed' => Numbered(regs, Base, old)
    /\ Clean' => Placed(regs) /\ UsedAs(regs, uses')
    /\ \A b \in Tracked(regs) : regs[b].id <= Top /\ regs[b].ordinal <= MaxAllocs

\* Numbers and places stay in order when the regions become regs.
LEMMA Settle ==
    ASSUME Shape, IdBounds, Numbers, NEW regs, Rekeys(regs)
    PROVE  IdBounds' /\ Numbers'
<1>1. Base \in Int /\ (old \subseteq Specs \/ old = NoManifest)
  BY SMT DEF Shape, Base
<1>2. Top \in Nat
  BY TopFacts DEF Shape, Top
<1>3. /\ regs \in Assignments /\ SameKeys(regs, regions')
      /\ old' = old /\ Base' = Base /\ Top' = Top /\ spoiled \subseteq spoiled'
      /\ file' \in {file, NoManifest, Manifest(regs)}
      /\ next'.index <= MaxAllocs + 1 /\ Counted(regs, next'.index)
      /\ ~ KeysMixed' => Numbered(regs, Base, old)
      /\ Clean' => Placed(regs) /\ UsedAs(regs, uses')
      /\ \A b \in Tracked(regs) : regs[b].id <= Top /\ regs[b].ordinal <= MaxAllocs
  BY DEF Rekeys
<1>4. Clean' => Clean /\ ~ KeysMixed'
  BY <1>3 DEF Clean, KeysMixed
<1>5. \A s \in old : s.id <= Base
  BY DEF IdBounds
<1>6. Clean' => DistinctSpecs(old) /\ DistinctSpecs(file)
  BY <1>4 DEF Numbers
<1>7. Clean' => DistinctSpecs(file')
  <2>1. Clean' => DistinctIds(regs)
    BY <1>1, <1>3, <1>4, <1>5, <1>6, NumbersDiffer
  <2>2. DistinctSpecs(NoManifest)
    BY DEF DistinctSpecs, NoManifest
  <2> QED
    BY <1>3, <1>6, <2>1, <2>2, ManifestFacts
<1>8. Numbers'
  <2>1. Counted(regions', next'.index)
    BY <1>3, SameKeysKeep
  <2>2. ~ KeysMixed' => Numbered(regions', Base, old)
    BY <1>3, SameKeysKeep
  <2>3. Clean' => Placed(regions') /\ UsedAs(regions', uses')
    BY <1>3, SameKeysKeep
  <2> QED
    BY <1>3, <1>6, <1>7, <2>1, <2>2, <2>3 DEF Numbers
<1>9. \A s \in file' : s.id <= Top
  <2>1. \A s \in file : s.id <= Top
    BY DEF IdBounds
  <2>2. \A s \in NoManifest : s.id <= Top
    BY <1>2, SMT DEF NoManifest, NoRegion
  <2>3. \A s \in Manifest(regs) : s.id <= Top
    BY <1>3, ManifestFacts
  <2> QED
    BY <1>3, <2>1, <2>2, <2>3
<1>10. \A b \in Tracked(regions') : regions'[b].id <= Top /\ regions'[b].ordinal <= MaxAllocs
  BY <1>3 DEF SameKeys
<1>11. Base >= 0 /\ Base + MaxAllocs <= Top
  BY DEF IdBounds
<1> QED
  BY <1>3, <1>5, <1>8, <1>9, <1>10, <1>11 DEF IdBounds

\* note_kernel_pointers_inner, for a region.
LEMMA NotedBecomes ==
    ASSUME Shape, IdBounds, Numbers, NEW b \in Tracked(regions), NEW kernel \in Kernels
    PROVE  \E r \in Region : /\ Noted(b, kernel) = [regions EXCEPT ![b] = r]
                             /\ Becomes(regions, b, KindOf(kernel), old, r)
                             /\ r.id = regions[b].id \/ r.id <= Base
                             /\ r.init = regions[b].init /\ r.shadow = regions[b].shadow
                             /\ r.restored = regions[b].restored
<1>1. PICK kind : kind = KindOf(kernel)
  OBVIOUS
<1>2. kind \in Kinds
  BY <1>1 DEF KindOf, Kinds
<1>3. PICK o : o = OrdinalOf(b, kind)
  OBVIOUS
<1>4. PICK i : i = RegionIdOf(b, kind)
  OBVIOUS
<1>5. regions \in Assignments /\ regions[b] \in Region /\ b \in Buffers
  BY TrackedFacts DEF Shape, Assignments
<1>6. PICK q : q = regions[b]
  OBVIOUS
<1>7. PICK q1 : q1 = [q EXCEPT !.kind = kind]
  OBVIOUS
<1>8. PICK q2 : q2 = [q1 EXCEPT !.ordinal = o]
  OBVIOUS
<1>9. PICK r : r = [q2 EXCEPT !.id = i]
  OBVIOUS
<1>10. Noted(b, kernel) = [regions EXCEPT ![b] = r]
  <2>1. regions[b] # NoRegion
    BY DEF Tracked
  <2>2. Noted(b, kernel) = [regions EXCEPT ![b].kind = kind, ![b].ordinal = o, ![b].id = i]
    BY <1>1, <1>3, <1>4, <2>1 DEF Noted
  <2>3. regions \in [Buffers -> Region \cup {NoRegion}] /\ b \in Buffers
    BY <1>5 DEF Assignments
  <2>4. PICK f1 : f1 = [regions EXCEPT ![b].kind = kind]
    OBVIOUS
  <2>5. f1 = [regions EXCEPT ![b] = q1] /\ f1[b] = q1 /\ DOMAIN f1 = Buffers
    BY <1>6, <1>7, <2>3, <2>4
  <2>6. PICK f2 : f2 = [f1 EXCEPT ![b].ordinal = o]
    OBVIOUS
  <2>7. f2 = [regions EXCEPT ![b] = q2] /\ f2[b] = q2 /\ DOMAIN f2 = Buffers
    <3>1. f2 = [f1 EXCEPT ![b] = q2]
      BY <1>8, <2>5, <2>6
    <3>2. f2 = [regions EXCEPT ![b] = q2]
      BY <2>3, <2>5, <3>1
    <3> QED
      BY <2>3, <3>2
  <2>8. [f2 EXCEPT ![b].id = i] = [regions EXCEPT ![b] = r]
    <3>1. [f2 EXCEPT ![b].id = i] = [f2 EXCEPT ![b] = r]
      BY <1>9, <2>7
    <3> QED
      BY <2>3, <2>7, <3>1
  <2> QED
    BY <2>2, <2>4, <2>6, <2>8
<1>11. o \in Nat \ {0} /\ o = IF regions[b].kind = kind THEN regions[b].ordinal
                   ELSE Cardinality({c \in Tracked(regions) \ {b} : regions[c].kind = kind}) + 1
  <2>1. PICK S : S = {c \in Tracked(regions) \ {b} : regions[c].kind = kind}
    OBVIOUS
  <2>2. Cardinality(S) \in Nat
    <3>1. PICK T : T = Tracked(regions)
      OBVIOUS
    <3>2. IsFiniteSet(T)
      BY <3>1 DEF Numbers, Counted
    <3>3. S \in SUBSET T
      BY <2>1, <3>1
    <3>4. IsFiniteSet(S)
      BY <3>2, <3>3, FS_Subset
    <3> QED
      BY <3>4, FS_CardinalityType
  <2>3. o = IF regions[b].kind = kind THEN regions[b].ordinal ELSE Cardinality(S) + 1
    BY <1>3, <2>1 DEF OrdinalOf
  <2>4. regions[b].ordinal \in Nat \ {0}
    BY <1>5 DEF Region
  <2>5. o \in Nat \ {0}
    BY <2>2, <2>3, <2>4, SMT
  <2> QED
    BY <2>1, <2>3, <2>5
<1>12. i = IF SpecsIn(old, kind, o) = {} THEN regions[b].id ELSE IdIn(old, kind, o)
  <2>1. RegionIdOf(b, kind) = IF SpecsIn(old, kind, OrdinalOf(b, kind)) = {} THEN regions[b].id
                              ELSE IdIn(old, kind, OrdinalOf(b, kind))
    BY DEF RegionIdOf, IdIn, SpecsIn, OldSpecs
  <2> QED
    BY <1>3, <1>4, <2>1
<1>13. i \in Nat \ {0} /\ (i = regions[b].id \/ i <= Base)
  <2>1. CASE SpecsIn(old, kind, o) = {}
    <3>1. regions[b].id \in Nat \ {0}
      BY <1>5 DEF Region
    <3> QED
      BY <1>12, <2>1, <3>1
  <2>2. CASE SpecsIn(old, kind, o) # {}
    <3>1. old \subseteq Specs \/ old = NoManifest
      BY DEF Shape
    <3>2. \E s \in SpecsIn(old, kind, o) : IdIn(old, kind, o) = s.id
      BY <2>2, <3>1, IdFound
    <3>3. PICK s \in SpecsIn(old, kind, o) : i = s.id
      BY <1>12, <2>2, <3>2
    <3>4. s \in old /\ s \in Specs
      BY <3>1, <3>3 DEF SpecsIn, NoManifest
    <3> QED
      BY <3>3, <3>4 DEF Specs, IdBounds
  <2> QED
    BY <2>1, <2>2
<1>14. q1 \in Region /\ q1.kind = kind /\ q1.index = q.index /\ q1.init = q.init
       /\ q1.shadow = q.shadow /\ q1.restored = q.restored
  <2>1. q \in Region /\ kind \in Kinds \cup {"Opaque"}
    BY <1>2, <1>5, <1>6
  <2> QED
    BY <1>7, <2>1, SMT DEF Region
<1>15. q2 \in Region /\ q2.kind = q1.kind /\ q2.ordinal = o /\ q2.index = q1.index
       /\ q2.init = q1.init /\ q2.shadow = q1.shadow /\ q2.restored = q1.restored
  BY <1>8, <1>11, <1>14, SMT DEF Region
<1>16. r \in Region /\ r.kind = q2.kind /\ r.ordinal = q2.ordinal /\ r.id = i
       /\ r.index = q2.index
       /\ r.init = q2.init /\ r.shadow = q2.shadow /\ r.restored = q2.restored
  BY <1>9, <1>13, <1>15, SMT DEF Region
<1>17. Becomes(regions, b, kind, old, r)
  BY <1>6, <1>11, <1>12, <1>14, <1>15, <1>16 DEF Becomes
<1> QED
  BY <1>1, <1>6, <1>10, <1>13, <1>14, <1>15, <1>16, <1>17

\* A step with faults is a step of the same process.
LEMMA SameProcess ==
    ASSUME Shape, NEW F, Faults(F) \/ faults' = faults
    PROVE  DOMAIN faults' = {"all", "crashes"} /\ faults'.crashes = faults.crashes /\ Top' = Top
<1>1. DOMAIN faults = {"all", "crashes"}
  BY DEF Shape
<1>2. DOMAIN faults' = {"all", "crashes"} /\ faults'.crashes = faults.crashes
  BY <1>1 DEF Faults
<1> QED
  BY <1>2 DEF Top

\* The regions become regs, and a shadow stays with its number or is lost.
KeepsShadows(regs) ==
    /\ regs \in Assignments /\ Tracked(regs) = Tracked(regions)
    /\ \A c \in Tracked(regions) :
          /\ regs[c].init = regions[c].init /\ regs[c].shadow = regions[c].shadow
          /\ regs[c].init /\ c \notin lost' =>
                regs[c].id = regions[c].id /\ c \notin lost

\* A note changes the key of one region, and leaves its shadow alone; the region
\* is lost if it had a shadow and its number changes.
LEMMA NoteFacts ==
    ASSUME Shape, IdBounds, Numbers, NEW b \in Buffers, NEW kernel \in Kernels, NEW F,
           NEW regs, regs = Noted(b, kernel), NoteUse(b, kernel, regs, F)
    PROVE  KeepsShadows(regs)
<1>1. regions \in Assignments /\ Tracked(regions) \subseteq Buffers
  BY TrackedFacts DEF Shape, Assignments
<1>2. CASE b \notin Tracked(regions)
  <2>1. regs = regions /\ regions[b] = NoRegion
    BY <1>2 DEF Noted, Tracked
  <2>2. lost' = lost
    BY <2>1 DEF NoteUse
  <2> QED
    BY <1>1, <2>1, <2>2 DEF KeepsShadows
<1>3. CASE b \in Tracked(regions)
  <2>1. PICK r \in Region : /\ regs = [regions EXCEPT ![b] = r]
                            /\ r.init = regions[b].init /\ r.shadow = regions[b].shadow
    BY <1>3, NotedBecomes
  <2>2. regs \in Assignments /\ regs[b] = r /\ \A c \in Buffers \ {b} : regs[c] = regions[c]
    BY <1>1, <2>1 DEF Assignments
  <2>3. Tracked(regs) = Tracked(regions)
    BY <1>3, <2>2, Nothing DEF Tracked
  <2>4. lost \subseteq lost'
        /\ (regs[b].init /\ b \notin lost' => regs[b].id = regions[b].id)
    <3>1. regions[b] # NoRegion /\ regs[b].init = regions[b].init
      BY <1>3, <2>1, <2>2 DEF Tracked
    <3> QED
      BY <3>1 DEF NoteUse
  <2> QED
    BY <1>1, <2>1, <2>2, <2>3, <2>4 DEF KeepsShadows
<1> QED
  BY <1>2, <1>3

\* It gives no place and no number twice.
LEMMA NoteRekeys ==
    ASSUME Shape, IdBounds, Numbers, NEW b \in Buffers, NEW kernel \in Kernels, NEW F,
           NEW regs, regs = Noted(b, kernel), NoteUse(b, kernel, regs, F),
           SameKeys(regs, regions'), next' = next, old' = old,
           file' \in {file, NoManifest, Manifest(regs)}
    PROVE  Rekeys(regs)
<1>1. regs \in Assignments
  BY NoteFacts DEF KeepsShadows
<1>2. regions \in Assignments /\ next.index \in Nat
  BY DEF Shape, Assignments
<1>3. Base' = Base /\ Top' = Top /\ next'.index = next.index
  <2>1. Top' = Top
    BY SameProcess DEF NoteUse
  <2> QED
    BY <2>1 DEF Base
<1>4. spoiled \subseteq spoiled' /\ Spoils(b, kernel) \subseteq spoiled'
  BY DEF NoteUse
<1>5. (~ KeysMixed' => ~ KeysMixed) /\ (Clean' => Clean)
  BY <1>4 DEF KeysMixed, Clean
<1>6. /\ next.index <= MaxAllocs + 1 /\ Counted(regions, next.index)
      /\ \A c \in Tracked(regions) : regions[c].id <= Top /\ regions[c].ordinal <= MaxAllocs
  BY DEF IdBounds, Numbers
<1>7. CASE b \notin Tracked(regions)
  <2>1. regs = regions /\ regions[b] = NoRegion
    BY <1>7 DEF Noted, Tracked
  <2>2. uses' = uses
    BY <2>1 DEF NoteUse
  <2> QED
    BY <1>2, <1>3, <1>4, <1>5, <1>6, <2>1, <2>2 DEF Rekeys, Numbers
<1>8. CASE b \in Tracked(regions)
  <2>1. PICK kind : kind = KindOf(kernel)
    OBVIOUS
  <2>2. kind \in Kinds /\ kind # "Opaque"
    BY <2>1 DEF KindOf, Kinds
  <2>3. PICK r \in Region : /\ regs = [regions EXCEPT ![b] = r]
                            /\ Becomes(regions, b, kind, old, r)
                            /\ r.id = regions[b].id \/ r.id <= Base
    BY <1>8, <2>1, NotedBecomes
  <2>4. /\ Tracked(regs) = Tracked(regions) /\ regs[b] = r
        /\ \A c \in Tracked(regions) \ {b} : regs[c] = regions[c]
        /\ Counted(regs, next.index)
        /\ r.ordinal = regions[b].ordinal \/ r.ordinal < next.index
        /\ Placed(regions) /\ regions[b].kind \in {"Opaque", kind} => Placed(regs)
    <3>1. PICK n : n = next.index
      OBVIOUS
    <3>2. PICK R : R = regions
      OBVIOUS
    <3>3. n \in Nat /\ R \in Assignments /\ b \in Tracked(R) /\ Counted(R, n)
      BY <1>2, <1>6, <1>8, <3>1, <3>2
    <3>4. Becomes(R, b, kind, old, r) /\ regs = [R EXCEPT ![b] = r]
      BY <2>3, <3>2
    <3>5. r \in Region
      BY <2>3
    <3>6. Takes(R, b, kind, r, regs, n)
      BY <2>2, <3>3, <3>4, <3>5, NotedPlace
    <3> QED
      BY <3>1, <3>2, <3>6 DEF Takes
  <2>5. Clean' => regions[b].kind \in {"Opaque", kind}
    <3> SUFFICES ASSUME Clean', regions[b].kind \notin {"Opaque", kind} PROVE FALSE
      OBVIOUS
    <3>1. b \in Users(uses[regions[b].kind])
      BY <1>5, <1>8 DEF Numbers, UsedAs
    <3>2. regions[b] \in Region /\ regions[b] # NoRegion
      BY <1>2, <1>8, TrackedFacts DEF Tracked
    <3>3. regions[b].kind \in Kinds \ {kind}
      BY <3>2 DEF Region
    <3>4. "kinds" \in Spoils(b, kernel)
      BY <2>1, <3>1, <3>2, <3>3 DEF Spoils
    <3> QED
      BY <1>4, <3>4 DEF Clean
  <2>6. ~ KeysMixed' => Numbered(regs, Base, old)
    <3>1. ~ KeysMixed' => old = NoManifest \/ regions[b].kind \in {"Opaque", kind}
      BY <2>5 DEF KeysMixed, Clean
    <3>2. ~ KeysMixed' => Numbered(regions, Base, old)
      BY <1>5 DEF Numbers
    <3> HIDE DEF Base
    <3> QED
      BY <1>2, <1>8, <2>2, <2>3, <2>4, <3>1, <3>2, NotedNumber
  <2>7. ASSUME Clean' PROVE UsedAs(regs, uses')
    <3>1. UsedAs(regions, uses) /\ uses \in [Kinds -> Seq(Buffers)]
      BY <1>5, <2>7 DEF Numbers, Shape
    <3>2. regions[b] # NoRegion /\ r.kind = kind
      BY <1>8, <2>3 DEF Tracked, Becomes
    <3>3. CASE regions[b].kind = kind
      <4>1. uses' = uses
        BY <2>1, <2>2, <3>2, <3>3 DEF NoteUse
      <4> QED
        BY <2>2, <2>4, <3>1, <3>2, <3>3, <4>1 DEF UsedAs
    <3>4. CASE regions[b].kind = "Opaque"
      <4>1. uses' = [uses EXCEPT ![kind] = Append(uses[kind], b)]
        BY <2>1, <3>2, <3>4 DEF NoteUse
      <4>2. Users(Append(uses[kind], b)) = Users(uses[kind]) \cup {b}
        BY <2>2, <3>1, UsersGrow
      <4>3. uses'[kind] = Append(uses[kind], b) /\ \A k \in Kinds \ {kind} : uses'[k] = uses[k]
        BY <2>2, <3>1, <4>1
      <4>4. b \in Users(uses'[kind]) /\ \A k \in Kinds : Users(uses[k]) \subseteq Users(uses'[k])
        BY <4>2, <4>3
      <4>5. \A c \in Tracked(regions) \ {b} : regs[c].kind # "Opaque" =>
               c \in Users(uses[regs[c].kind]) /\ regs[c].kind \in Kinds
        <5>1. \A c \in Tracked(regions) : regions[c].kind \in Kinds \cup {"Opaque"}
          BY <1>2, TrackedFacts DEF Region
        <5> QED
          BY <2>4, <3>1, <5>1 DEF UsedAs
      <4> QED
        BY <2>4, <3>2, <4>4, <4>5 DEF UsedAs
    <3> QED
      BY <2>5, <2>7, <3>3, <3>4
  <2>8. Clean' => Placed(regs)
    BY <1>5, <2>4, <2>5 DEF Numbers
  <2>9. \A c \in Tracked(regs) : regs[c].id <= Top /\ regs[c].ordinal <= MaxAllocs
    <3>1. Top \in Nat /\ Base \in Int /\ Base <= Top /\ MaxAllocs \in Nat
      <4>1. Top \in Nat
        BY TopFacts DEF Shape, Top
      <4>2. Base \in Int
        BY SMT DEF Shape, Base
      <4>3. Base + MaxAllocs <= Top /\ MaxAllocs \in Nat
        BY KimiAssumption DEF IdBounds
      <4> HIDE DEF Base, Top
      <4> QED
        BY <4>1, <4>2, <4>3, SMT
    <3>2. r.id \in Nat /\ r.ordinal \in Nat
      BY <2>3 DEF Region
    <3>3. r.id <= Top
      <4>1. r.id <= Base => r.id <= Top
        BY <3>1, <3>2, SMT
      <4> QED
        BY <1>6, <1>8, <2>3, <4>1
    <3>4. r.ordinal <= MaxAllocs
      <4>1. r.ordinal < next.index => r.ordinal <= MaxAllocs
        BY <1>2, <1>6, <3>1, <3>2, SMT
      <4> QED
        BY <1>6, <1>8, <2>4, <4>1
    <3> QED
      BY <1>6, <2>4, <3>3, <3>4
  <2> QED
    BY <1>1, <1>3, <1>4, <1>6, <2>4, <2>6, <2>7, <2>8, <2>9 DEF Rekeys
<1> QED
  BY <1>7, <1>8

\* A step that leaves the keys alone.
LEMMA KeepsKeys ==
    ASSUME Shape, IdBounds, Numbers, SameKeys(regions, regions'), next' = next, old' = old,
           uses' = uses, Top' = Top, spoiled \subseteq spoiled',
           file' \in {file, NoManifest, Manifest(regions)}
    PROVE  IdBounds' /\ Numbers'
<1>1. regions \in Assignments
  BY DEF Shape, Assignments
<1>2. Base' = Base
  BY DEF Base
<1>3. (~ KeysMixed' => ~ KeysMixed) /\ (Clean' => Clean)
  BY DEF KeysMixed, Clean
<1>4. Rekeys(regions)
  BY <1>1, <1>2, <1>3 DEF Rekeys, IdBounds, Numbers
<1> QED
  BY <1>4, Settle

-----------------------------------------------------------------------------
(***************************************************************************)
(* The steps of the process.                                               *)
(***************************************************************************)
\* Numbers up to the bound are in the log.
LEMMA InLog ==
    ASSUME Shape, NEW i \in Nat \ {0}, i <= Top
    PROVE  i \in Ids
<1>1. /\ Top \in Nat /\ Top <= MaxAllocs * (MaxCrashes + 1)
      /\ MaxAllocs * (MaxCrashes + 1) \in Nat
  <2>1. faults.crashes \in 0 .. MaxCrashes /\ MaxCrashes \in 0 .. MaxCrashes
    <3>1. MaxCrashes \in 0 .. MaxCrashes
      BY KimiAssumption, SMT
    <3> QED
      BY <3>1 DEF Shape
  <2> QED
    BY <2>1, TopFacts DEF Top
<1> HIDE DEF Top
<1>2. PICK N : N = MaxAllocs * (MaxCrashes + 1)
  OBVIOUS
<1>3. i \in 1 .. N
  BY <1>1, <1>2, SMT
<1> QED
  BY <1>2, <1>3 DEF Ids

\* What is written to the file is a manifest.
LEMMA PersistFacts ==
    ASSUME Shape, NEW regs \in Assignments, NEW F, Persist(regs, F)
    PROVE  /\ file' \in {file, NoManifest, Manifest(regs)}
           /\ file' \subseteq Specs \/ file' = NoManifest
<1>1. file' \in {file, NoManifest, Manifest(regs)}
  BY DEF Persist
<1>2. Manifest(regs) \subseteq Specs
  BY ManifestFacts
<1>3. file \subseteq Specs \/ file = NoManifest
  BY DEF Shape
<1> QED
  BY <1>1, <1>2, <1>3

\* restore_device_region writes a page of the log and sets a flag.
LEMMA RestoreFacts ==
    ASSUME Shape, NEW regs \in Assignments, NEW pages \in [Buffers -> PagesOrNone],
           NEW b \in Buffers, NEW wanted, NEW F, Restore(regs, pages, b, wanted, F),
           wanted => b \in Tracked(regs) /\ regs[b].id \in Ids
    PROVE  /\ regions' \in Assignments /\ SameKeys(regs, regions')
           /\ \A c \in Tracked(regs) : /\ regions'[c].init = regs[c].init
                                       /\ regions'[c].shadow = regs[c].shadow
           /\ mem' \in [Buffers -> PagesOrNone]
           /\ \A c \in Buffers : \/ mem'[c] = pages[c]
                                 \/ mem'[c] # NoPage /\ \E i \in Ids : mem'[c] = log[i]
<1>1. CASE regions' = regs /\ mem' = pages
  BY <1>1 DEF SameKeys
<1>2. CASE ~ (regions' = regs /\ mem' = pages)
  <2>1. /\ regions' = [regs EXCEPT ![b].restored = TRUE]
        /\ mem' = [pages EXCEPT ![b] = log[regs[b].id]]
        /\ b \in Tracked(regs) /\ regs[b].id \in Ids /\ log[regs[b].id] # NoPage
    BY <1>2 DEF Restore, Restores
  <2>2. PICK q : q = regs[b]
    OBVIOUS
  <2>3. PICK r : r = [q EXCEPT !.restored = TRUE]
    OBVIOUS
  <2>4. q \in Region
    BY <2>1, <2>2, TrackedFacts
  <2>5. r \in Region /\ r.id = q.id /\ r.index = q.index /\ r.kind = q.kind
        /\ r.ordinal = q.ordinal /\ r.init = q.init /\ r.shadow = q.shadow
    <3>1. TRUE \in BOOLEAN
      OBVIOUS
    <3>2. PICK t : t = TRUE
      OBVIOUS
    <3>3. t \in BOOLEAN /\ r = [q EXCEPT !.restored = t]
      BY <2>3, <3>1, <3>2
    <3> QED
      BY <2>4, <3>3, SMT DEF Region
  <2>6. regions' = [regs EXCEPT ![b] = r]
    BY <2>1, <2>2, <2>3
  <2>7. regions' \in Assignments /\ regions'[b] = r /\ \A c \in Buffers \ {b} : regions'[c] = regs[c]
    BY <2>5, <2>6 DEF Assignments
  <2>8. Tracked(regions') = Tracked(regs)
    BY <2>1, <2>5, <2>7, Nothing DEF Tracked
  <2>9. Tracked(regs) \subseteq Buffers
    BY TrackedFacts
  <2>10. SameKeys(regs, regions')
    BY <2>2, <2>5, <2>7, <2>8, <2>9 DEF SameKeys
  <2>11. log[regs[b].id] \in PagesOrNone
    BY <2>1 DEF Shape
  <2>12. PICK p : p = log[regs[b].id]
    OBVIOUS
  <2>13. mem' = [pages EXCEPT ![b] = p] /\ p \in PagesOrNone /\ p # NoPage /\ \E i \in Ids : p = log[i]
    BY <2>1, <2>11, <2>12
  <2>14. mem' \in [Buffers -> PagesOrNone] /\ mem'[b] = p /\ \A c \in Buffers \ {b} : mem'[c] = pages[c]
    BY <2>13
  <2> QED
    BY <2>2, <2>5, <2>7, <2>9, <2>10, <2>13, <2>14
<1> QED
  BY <1>1, <1>2

\* A step outside checkpoints: pages come from the log, and a shadow stays what
\* it is, as long as its region has the number it had.
LockFree ==
    /\ Unlocked /\ log' = log /\ clock' = clock /\ (KeysMixed => KeysMixed')
    /\ \/ call'.pc \in {"idle", "launch"}
       \/ call'.pc = "checkpoint" /\ call'.todo \subseteq Tracked(regions')
    /\ \A c \in Buffers : mem'[c] = mem[c] \/ mem'[c].at = 0 \/ \E i \in Ids : mem'[c] = log[i]
    /\ \A c \in Tracked(regions') :
          /\ mem'[c] # NoPage
          /\ \/ ~ regions'[c].init /\ regions'[c].shadow = NoPage
             \/ /\ c \in Tracked(regions) /\ regions'[c].init = regions[c].init
                /\ regions'[c].shadow = regions[c].shadow
                /\ regions'[c].init /\ c \notin lost' =>
                      regions'[c].id = regions[c].id /\ c \notin lost

\* Such a step keeps what is said of pages.
LEMMA LockFreePages ==
    ASSUME Shape, Scalars, Past, Backed, LogBacksShadow, LockFree
    PROVE  Past' /\ Backed' /\ CallView' /\ LogBacksShadow'
<1>1. Past'
  <2>1. clock \in Nat
    BY Nothing, SMT DEF Scalars, Times
  <2>2. ASSUME NEW c \in Buffers PROVE mem'[c].at <= clock
    <3>1. mem'[c] = mem[c] \/ mem'[c].at = 0 \/ \E i \in Ids : mem'[c] = log[i]
      BY DEF LockFree
    <3>2. mem'[c].at = 0 => mem'[c].at <= clock
      BY <2>1, SMT
    <3> QED
      BY <3>1, <3>2 DEF Past
  <2> QED
    BY <2>2 DEF Past, LockFree
<1>2. Backed'
  BY DEF Backed, LockFree
<1>3. CallView'
  BY DEF CallView, LockFree
<1>4. LogBacksShadow'
  <2> SUFFICES ASSUME ~ KeysMixed', NEW c \in Tracked(regions') \ lost', regions'[c].init
               PROVE  log'[regions'[c].id].at >= regions'[c].shadow.at
    BY DEF LogBacksShadow
  <2>1. /\ c \in Tracked(regions) \ lost /\ regions[c].init /\ regions'[c].id = regions[c].id
        /\ regions'[c].shadow = regions[c].shadow
    BY DEF LockFree
  <2>2. call.pc # "stage" /\ ~ KeysMixed /\ log' = log
    BY DEF LockFree, Unlocked
  <2>3. log[regions[c].id].at >= regions[c].shadow.at
    BY <2>1, <2>2 DEF LogBacksShadow
  <2> QED
    BY <2>1, <2>2, <2>3
<1> QED
  BY <1>1, <1>2, <1>3, <1>4

\* alloc_v2 and note_allocation
LEMMA AllocKeeps ==
    ASSUME Inv, NEW b \in Buffers, Alloc(b)
    PROVE  Inv'
<1>1. Shape /\ Scalars /\ IdBounds /\ Numbers /\ Past /\ Backed /\ LogBacksShadow
  BY DEF Inv
<1>2. PICK page : page = [buf |-> b, at |-> 0]
  OBVIOUS
<1>3. page \in PagesOrNone /\ page # NoPage /\ page.at = 0
  <2>1. 0 \in Times
    BY Nothing, SMT DEF Times
  <2>2. page \in Pages /\ page.at = 0
    BY <1>2, <2>1 DEF Pages
  <2> QED
    BY <2>2, Nothing DEF PagesOrNone
<1>4. PICK pages : pages = [mem EXCEPT ![b] = page]
  OBVIOUS
<1>5. /\ pages \in [Buffers -> PagesOrNone] /\ pages[b] = page
      /\ \A c \in Buffers \ {b} : pages[c] = mem[c]
  BY <1>1, <1>3, <1>4 DEF Shape
<1>6. regions \in Assignments /\ next.id \in Nat \ {0} /\ next.index \in Nat \ {0}
  BY <1>1 DEF Shape, Assignments
<1>7. regions[b] = NoRegion /\ Tracked(regions) \subseteq Buffers
  BY <1>1, <1>6, TrackedFacts DEF Alloc, Backed, Tracked
<1>8. /\ Unlocked /\ launches' = launches /\ max_regions' = max_regions /\ restoring' = restoring
      /\ old' = old /\ call' = call /\ log' = log /\ clock' = clock /\ ckpt' = ckpt
      /\ lost' = lost /\ uses' = uses
  BY DEF Alloc
<1>9. call'.pc \in {"idle", "launch"}
  <2>1. call.pc \in {"idle", "launch", "checkpoint", "scan", "stage"}
    BY <1>1 DEF Shape, Calls
  <2> QED
    BY <1>8, <2>1 DEF Unlocked
<1>10. CASE mem' = pages /\ UNCHANGED <<regions, next, file, spoiled, faults>>
  <2>1. Shape' /\ Scalars'
    BY <1>1, <1>5, <1>8, <1>10 DEF Shape, Scalars
  <2>2. IdBounds' /\ Numbers'
    <3>1. SameKeys(regions, regions')
      BY <1>10 DEF SameKeys
    <3>2. Top' = Top
      BY <1>10 DEF Top
    <3> QED
      BY <1>1, <1>8, <1>10, <3>1, <3>2, KeepsKeys
  <2>3. LockFree
    <3>1. \A c \in Buffers : mem'[c] = mem[c] \/ mem'[c].at = 0
      BY <1>3, <1>5, <1>10
    <3>2. \A c \in Tracked(regions') : mem'[c] # NoPage
      BY <1>1, <1>3, <1>5, <1>7, <1>10 DEF Backed
    <3>3. KeysMixed => KeysMixed'
      BY <1>8, <1>10 DEF KeysMixed
    <3> QED
      BY <1>8, <1>9, <1>10, <3>1, <3>2, <3>3 DEF LockFree
  <2> QED
    BY <1>1, <2>1, <2>2, <2>3, LockFreePages DEF Inv
<1>11. CASE /\ Cardinality(Tracked(regions)) < max_regions /\ next.index <= MaxAllocs
            /\ \E F \in SUBSET {"manifest", "restore"}, wanted \in BOOLEAN :
                  LET regs == [regions EXCEPT ![b] =
                                 [id |-> next.id, index |-> next.index, kind |-> "Opaque",
                                  ordinal |-> next.index, init |-> FALSE,
                                  shadow |-> NoPage, restored |-> FALSE]]
                  IN  /\ Faults(F) /\ Persist(regs, F) /\ Restore(regs, pages, b, wanted, F)
                      /\ spoiled' = spoiled \cup F
            /\ next' = [id |-> next.id + 1, index |-> next.index + 1]
  <2>1. PICK r : r = [id |-> next.id, index |-> next.index, kind |-> "Opaque",
                      ordinal |-> next.index, init |-> FALSE,
                      shadow |-> NoPage, restored |-> FALSE]
    OBVIOUS
  <2>2. PICK regs : regs = [regions EXCEPT ![b] = r]
    OBVIOUS
  <2>3. PICK F \in SUBSET {"manifest", "restore"}, wanted \in BOOLEAN :
           /\ Faults(F) /\ Persist(regs, F) /\ Restore(regs, pages, b, wanted, F)
           /\ spoiled' = spoiled \cup F
    BY <1>11, <2>1, <2>2
  <2>4. /\ r \in Region /\ r.index = next.index /\ r.kind = "Opaque" /\ r.id = next.id
        /\ r.ordinal = next.index /\ r.init = FALSE /\ r.shadow = NoPage
    <3>1. NoPage \in PagesOrNone /\ FALSE \in BOOLEAN /\ "Opaque" \in Kinds \cup {"Opaque"}
      BY DEF PagesOrNone
    <3>2. PICK none : none = NoPage
      OBVIOUS
    <3>3. PICK no : no = FALSE
      OBVIOUS
    <3>4. PICK kind : kind = "Opaque"
      OBVIOUS
    <3>5. r = [id |-> next.id, index |-> next.index, kind |-> kind, ordinal |-> next.index,
               init |-> no, shadow |-> none, restored |-> no]
      BY <2>1, <3>2, <3>3, <3>4
    <3>6. /\ none \in PagesOrNone /\ no \in BOOLEAN /\ kind \in Kinds \cup {"Opaque"}
      BY <3>1, <3>2, <3>3, <3>4
    <3>7. r \in Region /\ r.index = next.index /\ r.kind = kind /\ r.id = next.id
          /\ r.ordinal = next.index /\ r.init = no /\ r.shadow = none
      BY <1>6, <3>5, <3>6, SMT DEF Region
    <3> QED
      BY <3>2, <3>3, <3>4, <3>7
  <2>5. /\ Base' = Base /\ next'.id = next.id + 1 /\ next'.index = next.index + 1
        /\ next' \in [id : Nat \ {0}, index : Nat \ {0}] /\ r.id = Base + next.index
    BY <1>6, <1>11, <2>4, SMT DEF Base
  <2>6. /\ regs \in Assignments /\ Tracked(regs) = Tracked(regions) \cup {b}
        /\ \A c \in Tracked(regions) : regs[c] = regions[c]
        /\ Counted(regs, next.index + 1)
        /\ Placed(regions) => Placed(regs)
        /\ Numbered(regions, Base, old) => Numbered(regs, Base, old)
        /\ UsedAs(regions, uses) => UsedAs(regs, uses)
    <3>1. PICK n : n = next.index
      OBVIOUS
    <3>2. PICK base : base = Base
      OBVIOUS
    <3>3. /\ n \in Nat \ {0} /\ r.index = n /\ r.id = base + n /\ Counted(regions, n)
      BY <1>1, <1>6, <2>4, <2>5, <3>1, <3>2 DEF Numbers
    <3>4. Adds(regions, b, n, base, old, uses, regs)
      BY <1>6, <1>7, <2>2, <2>4, <3>3, NewRegion
    <3> QED
      BY <3>1, <3>2, <3>3, <3>4 DEF Adds
  <2>7. regs[b] = r
    BY <1>6, <2>2 DEF Assignments
  <2>8. Top' = Top /\ DOMAIN faults' = {"all", "crashes"} /\ faults'.crashes = faults.crashes
    BY <1>1, <2>3, SameProcess
  <2>9. /\ next.id <= Top /\ next.index <= MaxAllocs /\ next'.index <= MaxAllocs + 1
    <3>1. Top \in Nat /\ MaxAllocs \in Nat
      BY <1>1, TopFacts, KimiAssumption DEF Shape, Top
    <3>2. Base + MaxAllocs <= Top /\ Base = next.id - next.index
      BY <1>1 DEF IdBounds, Base
    <3> HIDE DEF Base, Top
    <3> QED
      BY <1>6, <1>11, <2>5, <3>1, <3>2, SMT
  <2>10. next.id \in Ids
    BY <1>1, <1>6, <2>9, InLog
  <2>11. /\ regions' \in Assignments /\ SameKeys(regs, regions')
         /\ \A c \in Tracked(regs) : /\ regions'[c].init = regs[c].init
                                     /\ regions'[c].shadow = regs[c].shadow
         /\ mem' \in [Buffers -> PagesOrNone]
         /\ \A c \in Buffers : \/ mem'[c] = pages[c]
                               \/ mem'[c] # NoPage /\ \E i \in Ids : mem'[c] = log[i]
    BY <1>1, <1>5, <2>3, <2>4, <2>6, <2>7, <2>10, RestoreFacts
  <2>12. /\ file' \in {file, NoManifest, Manifest(regs)}
         /\ file' \subseteq Specs \/ file' = NoManifest
    BY <1>1, <2>3, <2>6, PersistFacts
  <2>13. Shape'
    BY <1>1, <1>8, <2>5, <2>8, <2>11, <2>12 DEF Shape, Assignments
  <2>14. Scalars'
    BY <1>1, <1>8, <2>3 DEF Scalars, Spoilers
  <2>15. (KeysMixed => KeysMixed') /\ (Clean' => Clean)
    BY <1>8, <2>3 DEF KeysMixed, Clean
  <2>16. Rekeys(regs)
    <3>1. \A c \in Tracked(regs) : regs[c].id <= Top /\ regs[c].ordinal <= MaxAllocs
      BY <1>1, <2>4, <2>6, <2>7, <2>9 DEF IdBounds
    <3>2. ~ KeysMixed' => Numbered(regs, Base, old)
      BY <1>1, <2>6, <2>15 DEF Numbers
    <3>3. Clean' => Placed(regs) /\ UsedAs(regs, uses')
      BY <1>1, <1>8, <2>6, <2>15 DEF Numbers
    <3> QED
      BY <1>8, <2>3, <2>5, <2>6, <2>8, <2>9, <2>11, <2>12, <3>1, <3>2, <3>3 DEF Rekeys
  <2>17. LockFree
    <3>1. \A c \in Buffers : mem'[c] = mem[c] \/ mem'[c].at = 0 \/ \E i \in Ids : mem'[c] = log[i]
      BY <1>3, <1>5, <2>11
    <3>2. Tracked(regions') = Tracked(regions) \cup {b}
      BY <2>6, <2>11 DEF SameKeys
    <3>3. \A c \in Tracked(regions') : mem'[c] # NoPage
      BY <1>1, <1>3, <1>5, <1>7, <2>11, <3>2 DEF Backed
    <3>4. ~ regions'[b].init /\ regions'[b].shadow = NoPage
      BY <2>4, <2>6, <2>7, <2>11
    <3>5. \A c \in Tracked(regions) : /\ regions'[c].init = regions[c].init
                                      /\ regions'[c].shadow = regions[c].shadow
                                      /\ regions'[c].id = regions[c].id
      BY <2>6, <2>11 DEF SameKeys
    <3> QED
      BY <1>8, <1>9, <2>15, <3>1, <3>2, <3>3, <3>4, <3>5 DEF LockFree
  <2> QED
    BY <1>1, <2>13, <2>14, <2>16, <2>17, Settle, LockFreePages DEF Inv
<1> QED
  <2>1. CASE Cardinality(Tracked(regions)) < max_regions /\ next.index <= MaxAllocs
             /\ ~ (mem' = pages /\ UNCHANGED <<regions, next, file, spoiled, faults>>)
    <3>1. (restoring /\ old = NoManifest) \in BOOLEAN
      OBVIOUS
    <3> QED
      BY <1>2, <1>4, <1>11, <2>1, <3>1 DEF Alloc
  <2> QED
    BY <1>2, <1>4, <1>10, <2>1 DEF Alloc

\* What a note leaves in the history.
LEMMA NoteTyped ==
    ASSUME Shape, Scalars, NEW b \in Buffers, NEW kernel \in Kernels,
           NEW F \in SUBSET {"manifest", "restore"}, NEW regs, NoteUse(b, kernel, regs, F)
    PROVE  lost' \subseteq Buffers /\ spoiled' \subseteq Spoilers /\ uses' \in [Kinds -> Seq(Buffers)]
<1>1. lost' \subseteq Buffers
  BY DEF NoteUse, Scalars
<1>2. Spoils(b, kernel) \subseteq {"kinds", "order"}
  BY DEF Spoils
<1>3. spoiled' \subseteq Spoilers
  BY <1>2 DEF NoteUse, Scalars, Spoilers
<1>4. PICK kind : kind = KindOf(kernel)
  OBVIOUS
<1>5. kind \in Kinds /\ uses \in [Kinds -> Seq(Buffers)]
  BY <1>4 DEF KindOf, Kinds, Shape
<1>6. Append(uses[kind], b) \in Seq(Buffers)
  BY <1>5, UsersGrow
<1>7. uses' = uses \/ uses' = [uses EXCEPT ![kind] = Append(uses[kind], b)]
  BY <1>4 DEF NoteUse
<1> QED
  BY <1>1, <1>3, <1>5, <1>6, <1>7

\* free_v2 and note_deallocation
LEMMA FreeKeeps ==
    ASSUME Inv, NEW b \in Buffers, Free(b)
    PROVE  Inv'
<1>1. Shape /\ Scalars /\ IdBounds /\ Numbers /\ Past /\ Backed /\ LogBacksShadow
  BY DEF Inv
<1>2. regions \in Assignments /\ Tracked(regions) \subseteq Buffers /\ next.index \in Nat
  BY <1>1, TrackedFacts DEF Shape, Assignments
<1>3. /\ Unlocked /\ next' = next /\ launches' = launches /\ max_regions' = max_regions
      /\ restoring' = restoring
      /\ old' = old /\ call' = call /\ log' = log /\ clock' = clock /\ ckpt' = ckpt
      /\ lost' = lost /\ uses' = uses /\ mem' = [mem EXCEPT ![b] = NoPage]
  BY DEF Free
<1>4. call'.pc \in {"idle", "launch"}
  <2>1. call.pc \in {"idle", "launch", "checkpoint", "scan", "stage"}
    BY <1>1 DEF Shape, Calls
  <2> QED
    BY <1>3, <2>1 DEF Unlocked
<1>5. /\ mem' \in [Buffers -> PagesOrNone] /\ mem'[b] = NoPage
      /\ \A c \in Buffers \ {b} : mem'[c] = mem[c]
  BY <1>1, <1>3 DEF Shape, PagesOrNone
<1>6. \A c \in Buffers : mem'[c] = mem[c] \/ mem'[c].at = 0
  BY <1>5, Nothing
<1>7. CASE regions[b] = NoRegion
  <2>1. UNCHANGED <<regions, file, spoiled, faults>> /\ b \notin Tracked(regions)
    BY <1>7 DEF Free, Tracked
  <2>2. Shape' /\ Scalars'
    BY <1>1, <1>3, <1>5, <2>1 DEF Shape, Scalars
  <2>3. IdBounds' /\ Numbers'
    <3>1. SameKeys(regions, regions')
      BY <2>1 DEF SameKeys
    <3>2. Top' = Top
      BY <2>1 DEF Top
    <3> QED
      BY <1>1, <1>3, <2>1, <3>1, <3>2, KeepsKeys
  <2>4. LockFree
    <3>1. \A c \in Tracked(regions') : mem'[c] # NoPage
      BY <1>1, <1>2, <1>5, <2>1 DEF Backed
    <3>2. KeysMixed => KeysMixed'
      BY <1>3, <2>1 DEF KeysMixed
    <3> QED
      BY <1>3, <1>4, <1>6, <2>1, <3>1, <3>2 DEF LockFree
  <2> QED
    BY <1>1, <2>2, <2>3, <2>4, LockFreePages DEF Inv
<1>8. CASE regions[b] # NoRegion
  <2>1. b \in Tracked(regions)
    BY <1>8 DEF Tracked
  <2>2. PICK F \in SUBSET {"manifest"} :
           /\ Faults(F \cup {"freed"})
           /\ regions' = [regions EXCEPT ![b] = NoRegion]
           /\ Persist(regions', F)
           /\ spoiled' = spoiled \cup F \cup {"freed"}
    BY <1>8 DEF Free
  <2>3. PICK regs : regs = regions'
    OBVIOUS
  <2>4. regs = [regions EXCEPT ![b] = NoRegion] /\ Persist(regs, F) /\ SameKeys(regs, regions')
    BY <2>2, <2>3 DEF SameKeys
  <2>5. /\ regs \in Assignments /\ Tracked(regs) = Tracked(regions) \ {b}
        /\ \A c \in Tracked(regs) : regs[c] = regions[c]
    BY <1>2, <2>1, <2>4, FreedRegion
  <2>6. Counted(regs, next.index)
    <3>1. PICK n : n = next.index
      OBVIOUS
    <3>2. Counted(regions, n) /\ n \in Nat
      BY <1>1, <1>2, <3>1 DEF Numbers
    <3>3. Counted(regs, n)
      BY <1>2, <2>1, <2>4, <3>2, FreedRegion
    <3> QED
      BY <3>1, <3>3
  <2>7. Numbered(regions, Base, old) => Numbered(regs, Base, old)
    BY <1>2, <2>1, <2>4, FreedRegion
  <2>8. Top' = Top /\ DOMAIN faults' = {"all", "crashes"} /\ faults'.crashes = faults.crashes
    BY <1>1, <2>2, SameProcess
  <2>9. /\ file' \in {file, NoManifest, Manifest(regs)}
        /\ file' \subseteq Specs \/ file' = NoManifest
    BY <1>1, <2>4, <2>5, PersistFacts
  <2>10. Shape'
    BY <1>1, <1>3, <1>5, <2>3, <2>5, <2>8, <2>9 DEF Shape, Assignments
  <2>11. Scalars'
    BY <1>1, <1>3, <2>2 DEF Scalars, Spoilers
  <2>12. (KeysMixed => KeysMixed') /\ ~ Clean'
    BY <1>3, <2>2 DEF KeysMixed, Clean
  <2>13. Rekeys(regs)
    <3>1. \A c \in Tracked(regs) : regs[c].id <= Top /\ regs[c].ordinal <= MaxAllocs
      BY <1>1, <2>5 DEF IdBounds
    <3>2. ~ KeysMixed' => Numbered(regs, Base, old)
      BY <1>1, <2>7, <2>12 DEF Numbers
    <3>3. Base' = Base /\ next'.index <= MaxAllocs + 1
      BY <1>1, <1>3 DEF Base, IdBounds
    <3> QED
      BY <1>3, <2>2, <2>4, <2>5, <2>6, <2>8, <2>9, <2>12, <3>1, <3>2, <3>3 DEF Rekeys
  <2>14. LockFree
    <3>1. \A c \in Tracked(regions') : c \in Tracked(regions) /\ regions'[c] = regions[c] /\ mem'[c] = mem[c]
      BY <1>2, <1>5, <2>3, <2>5
    <3>2. \A c \in Tracked(regions') : mem'[c] # NoPage
      BY <1>1, <3>1 DEF Backed
    <3> QED
      BY <1>3, <1>4, <1>6, <2>12, <3>1, <3>2 DEF LockFree
  <2> QED
    BY <1>1, <2>10, <2>11, <2>13, <2>14, Settle, LockFreePages DEF Inv
<1> QED
  BY <1>7, <1>8

\* The number of a noted region is in the log.
LEMMA NotedInLog ==
    ASSUME Shape, IdBounds, Numbers, NEW b \in Tracked(regions), NEW kernel \in Kernels
    PROVE  Noted(b, kernel)[b].id \in Ids
<1>1. PICK r \in Region : /\ Noted(b, kernel) = [regions EXCEPT ![b] = r]
                          /\ r.id = regions[b].id \/ r.id <= Base
  BY NotedBecomes
<1>2. Noted(b, kernel)[b] = r /\ r.id \in Nat \ {0}
  <2>1. regions \in Assignments /\ b \in Buffers
    BY TrackedFacts DEF Shape, Assignments
  <2> QED
    BY <1>1, <2>1 DEF Assignments, Region
<1>3. r.id <= Top
  <2>1. Top \in Nat /\ MaxAllocs \in Nat
    BY TopFacts, KimiAssumption DEF Shape, Top
  <2>2. Base \in Int
    BY SMT DEF Shape, Base
  <2>3. Base + MaxAllocs <= Top /\ regions[b].id <= Top
    BY DEF IdBounds
  <2> HIDE DEF Base, Top
  <2>4. r.id <= Base => r.id <= Top
    BY <1>2, <2>1, <2>2, <2>3, SMT
  <2> QED
    BY <1>1, <2>3, <2>4
<1> QED
  BY <1>2, <1>3, InLog

\* prepare_kernel_launch
LEMMA PrepareKeeps ==
    ASSUME Inv, NEW b \in Buffers, NEW kernel \in KernelsOf[b], Prepare(b, kernel)
    PROVE  Inv'
<1>1. Shape /\ Scalars /\ IdBounds /\ Numbers /\ Past /\ Backed /\ LogBacksShadow
  BY DEF Inv
<1>2. kernel \in Kernels
  BY KimiAssumption
<1>3. PICK regs : regs = Noted(b, kernel)
  OBVIOUS
<1>4. PICK F \in SUBSET {"manifest", "restore"}, wanted \in BOOLEAN :
         /\ NoteUse(b, kernel, regs, F) /\ Persist(regs, F) /\ Restore(regs, mem, b, wanted, F)
         /\ wanted => regs[b] # NoRegion
  <2>1. (restoring /\ regs[b] # NoRegion /\ ~ regs[b].restored) \in BOOLEAN
    OBVIOUS
  <2> QED
    BY <1>3, <2>1 DEF Prepare
<1>5. /\ call.pc = "idle" /\ next' = next /\ launches' = launches /\ max_regions' = max_regions
      /\ restoring' = restoring /\ old' = old /\ log' = log /\ clock' = clock /\ ckpt' = ckpt
      /\ call' = [pc |-> "launch", b |-> b, kernel |-> kernel]
  BY DEF Prepare
<1>6. /\ regs \in Assignments /\ Tracked(regs) = Tracked(regions)
      /\ \A c \in Tracked(regions) :
            /\ regs[c].init = regions[c].init /\ regs[c].shadow = regions[c].shadow
            /\ regs[c].init /\ c \notin lost' =>
                  regs[c].id = regions[c].id /\ c \notin lost
  <2>1. KeepsShadows(regs)
    BY <1>1, <1>2, <1>3, <1>4, NoteFacts
  <2> QED
    BY <2>1 DEF KeepsShadows
<1>7. wanted => b \in Tracked(regs) /\ regs[b].id \in Ids
  BY <1>1, <1>2, <1>3, <1>4, <1>6, NotedInLog DEF Tracked
<1>8. mem \in [Buffers -> PagesOrNone]
  BY <1>1 DEF Shape
<1>9. /\ regions' \in Assignments /\ SameKeys(regs, regions')
      /\ \A c \in Tracked(regs) : /\ regions'[c].init = regs[c].init
                                  /\ regions'[c].shadow = regs[c].shadow
      /\ mem' \in [Buffers -> PagesOrNone]
      /\ \A c \in Buffers : \/ mem'[c] = mem[c]
                            \/ mem'[c] # NoPage /\ \E i \in Ids : mem'[c] = log[i]
  BY <1>1, <1>4, <1>6, <1>7, <1>8, RestoreFacts
<1>10. /\ file' \in {file, NoManifest, Manifest(regs)}
       /\ file' \subseteq Specs \/ file' = NoManifest
  BY <1>1, <1>4, <1>6, PersistFacts
<1>11. Rekeys(regs)
  BY <1>1, <1>2, <1>3, <1>4, <1>5, <1>9, <1>10, NoteRekeys
<1>12. DOMAIN faults' = {"all", "crashes"} /\ faults'.crashes = faults.crashes
  BY <1>1, <1>4, SameProcess DEF NoteUse
<1>13. lost' \subseteq Buffers /\ spoiled' \subseteq Spoilers /\ uses' \in [Kinds -> Seq(Buffers)]
  BY <1>1, <1>2, <1>4, NoteTyped
<1>14. call' \in Calls /\ call'.pc = "launch"
  BY <1>2, <1>5 DEF Calls
<1>15. Shape'
  BY <1>1, <1>5, <1>9, <1>10, <1>12, <1>13, <1>14 DEF Shape, Assignments
<1>16. Scalars'
  BY <1>1, <1>5, <1>13 DEF Scalars
<1>17. LockFree
  <2>1. KeysMixed => KeysMixed'
    BY <1>11 DEF KeysMixed, Rekeys
  <2>2. Tracked(regions') = Tracked(regions) /\ Tracked(regions) \subseteq Buffers
    BY <1>6, <1>9, TrackedFacts DEF SameKeys
  <2>3. \A c \in Tracked(regions') : mem'[c] # NoPage
    BY <1>1, <1>9, <2>2 DEF Backed
  <2>4. \A c \in Tracked(regions') :
           /\ regions'[c].init = regions[c].init /\ regions'[c].shadow = regions[c].shadow
           /\ regions'[c].init /\ c \notin lost' =>
                 regions'[c].id = regions[c].id /\ c \notin lost
    BY <1>6, <1>9, <2>2 DEF SameKeys
  <2> QED
    BY <1>5, <1>9, <1>14, <2>1, <2>2, <2>3, <2>4 DEF LockFree, Unlocked
<1> QED
  BY <1>1, <1>11, <1>15, <1>16, <1>17, Settle, LockFreePages DEF Inv

\* Where the thread is, and with what.
LEMMA CallFacts ==
    ASSUME call \in Calls
    PROVE  /\ call.pc \in {"idle", "launch", "checkpoint", "scan", "stage"}
           /\ call.pc = "launch" => call.b \in Buffers /\ call.kernel \in Kernels
           /\ call.pc \in {"checkpoint", "scan", "stage"} => call.todo \subseteq Buffers
           /\ call.pc \in {"scan", "stage"} => call.b \in Buffers
BY DEF Calls

\* observe_kernel_launch
LEMMA ObserveKeeps ==
    ASSUME Inv, Observe
    PROVE  Inv'
<1>1. Shape /\ Scalars /\ IdBounds /\ Numbers /\ Past /\ Backed /\ LogBacksShadow
  BY DEF Inv
<1>2. PICK b : b = call.b
  OBVIOUS
<1>3. PICK kernel : kernel = call.kernel
  OBVIOUS
<1>4. b \in Buffers /\ kernel \in Kernels /\ call.pc = "launch"
  BY <1>1, <1>2, <1>3, CallFacts DEF Observe, Shape
<1>5. PICK regs : regs = Noted(b, kernel)
  OBVIOUS
<1>6. PICK F \in SUBSET {"manifest", "restore"} : NoteUse(b, kernel, regs, F) /\ Persist(regs, F)
  BY <1>2, <1>3, <1>5 DEF Observe
<1>7. /\ regions' = regs /\ mem' = mem /\ next' = next /\ max_regions' = max_regions
      /\ restoring' = restoring /\ old' = old /\ log' = log /\ clock' = clock /\ ckpt' = ckpt
      /\ launches' = launches \/ launches' = (launches + 1) % Every
      /\ call' = [pc |-> "checkpoint", todo |-> Tracked(regs)] \/ call' = AtRest
  BY <1>2, <1>3, <1>5 DEF Observe
<1>8. KeepsShadows(regs)
  BY <1>1, <1>4, <1>5, <1>6, NoteFacts
<1>9. /\ regs \in Assignments /\ Tracked(regs) = Tracked(regions) /\ Tracked(regs) \subseteq Buffers
      /\ SameKeys(regs, regions')
  BY <1>7, <1>8, TrackedFacts DEF KeepsShadows, SameKeys
<1>10. /\ file' \in {file, NoManifest, Manifest(regs)}
       /\ file' \subseteq Specs \/ file' = NoManifest
  BY <1>1, <1>6, <1>9, PersistFacts
<1>11. Rekeys(regs)
  BY <1>1, <1>4, <1>5, <1>6, <1>7, <1>9, <1>10, NoteRekeys
<1>12. DOMAIN faults' = {"all", "crashes"} /\ faults'.crashes = faults.crashes
  BY <1>1, <1>6, SameProcess DEF NoteUse
<1>13. lost' \subseteq Buffers /\ spoiled' \subseteq Spoilers /\ uses' \in [Kinds -> Seq(Buffers)]
  BY <1>1, <1>4, <1>6, NoteTyped
<1>14. /\ call' \in Calls
       /\ call'.pc = "idle" \/ (call'.pc = "checkpoint" /\ call'.todo = Tracked(regs))
  <2>1. PICK todo : todo = Tracked(regs)
    OBVIOUS
  <2>2. PICK going : going = [pc |-> "checkpoint", todo |-> todo]
    OBVIOUS
  <2>3. going \in [pc : {"checkpoint"}, todo : SUBSET Buffers]
    BY <1>9, <2>1, <2>2
  <2>4. going \in Calls /\ going.pc = "checkpoint" /\ going.todo = todo
    BY <2>2, <2>3 DEF Calls
  <2>5. AtRest \in Calls /\ AtRest.pc = "idle"
    BY DEF Calls, AtRest
  <2> QED
    BY <1>7, <2>1, <2>2, <2>4, <2>5
<1>15. Shape'
  BY <1>1, <1>7, <1>9, <1>10, <1>12, <1>13, <1>14 DEF Shape, Assignments
<1>16. Scalars'
  <2>1. launches' \in 0 .. Every - 1
    <3>1. launches \in 0 .. Every - 1 /\ Every \in Nat \ {0}
      BY <1>1, KimiAssumption DEF Scalars
    <3>2. (launches + 1) % Every \in 0 .. Every - 1
      BY <3>1, SMT
    <3> QED
      BY <1>7, <3>1, <3>2
  <2> QED
    BY <1>1, <1>7, <1>13, <2>1 DEF Scalars
<1>17. LockFree
  <2>1. KeysMixed => KeysMixed'
    BY <1>11 DEF KeysMixed, Rekeys
  <2>2. \A c \in Tracked(regions') : mem'[c] # NoPage
    BY <1>1, <1>7, <1>9 DEF Backed
  <2>3. \A c \in Tracked(regions') :
           /\ regions'[c].init = regions[c].init /\ regions'[c].shadow = regions[c].shadow
           /\ regions'[c].init /\ c \notin lost' =>
                 regions'[c].id = regions[c].id /\ c \notin lost
    BY <1>7, <1>8, <1>9 DEF KeepsShadows
  <2> QED
    BY <1>4, <1>7, <1>9, <1>14, <2>1, <2>2, <2>3 DEF LockFree, Unlocked
<1> QED
  BY <1>1, <1>11, <1>15, <1>16, <1>17, Settle, LockFreePages DEF Inv

\* A step that leaves numbers, places and the manifest alone.
Quiet ==
    /\ UNCHANGED <<next, launches, max_regions, restoring, old, file, uses>>
    /\ regions' \in Assignments /\ SameKeys(regions, regions')
    /\ mem' \in [Buffers -> PagesOrNone] /\ log' \in [Ids -> PagesOrNone]
    /\ clock' \in Times /\ ckpt' \in [Buffers -> Times]
    /\ call' \in Calls
    /\ lost' \subseteq Buffers /\ spoiled \subseteq spoiled' /\ spoiled' \subseteq Spoilers
    /\ faults' = faults \/ Faults({"checkpoint"})

\* Such a step keeps what is said of numbers and places.
LEMMA QuietKeeps ==
    ASSUME Inv, Quiet
    PROVE  Shape' /\ Scalars' /\ IdBounds' /\ Numbers' /\ (KeysMixed => KeysMixed')
<1>1. Shape /\ Scalars /\ IdBounds /\ Numbers
  BY DEF Inv
<1>2. DOMAIN faults' = {"all", "crashes"} /\ faults'.crashes = faults.crashes /\ Top' = Top
  BY <1>1, SameProcess DEF Quiet
<1>3. Shape' /\ Scalars'
  BY <1>1, <1>2 DEF Shape, Scalars, Quiet, Assignments
<1>4. IdBounds' /\ Numbers'
  BY <1>1, <1>2, KeepsKeys DEF Quiet
<1> QED
  BY <1>3, <1>4 DEF KeysMixed, Quiet

\* A copy to the device, or a kernel.
LEMMA WriteKeeps ==
    ASSUME Inv, NEW b \in Buffers, Write(b)
    PROVE  Inv'
<1>1. Shape /\ Scalars /\ Past /\ Backed /\ CallView /\ LogBacksShadow
  BY DEF Inv
<1>2. PICK page : page = [buf |-> b, at |-> clock']
  OBVIOUS
<1>3. /\ clock' = clock + 1 /\ clock < MaxWrites /\ mem[b] # NoPage
      /\ mem' = [mem EXCEPT ![b] = page]
      /\ UNCHANGED <<manager, call, disk, history, faults>>
  BY <1>2 DEF Write
<1>4. UNCHANGED <<regions, next, launches, max_regions, restoring, old, call, file, log, ckpt, lost,
                  uses, before, spoiled, faults>>
  BY <1>3 DEF manager, disk, history
<1>5. clock \in Nat /\ clock' \in Times /\ clock' >= clock /\ clock' \in Nat /\ clock <= clock'
  <2>1. clock \in 0 .. MaxWrites /\ MaxWrites \in Nat
    BY <1>1, Nothing DEF Scalars, Times
  <2> QED
    BY <1>3, <2>1, SMT DEF Times
<1>6. page \in PagesOrNone /\ page # NoPage /\ page.at = clock'
  <2>1. page \in Pages /\ page.at = clock'
    BY <1>2, <1>5 DEF Pages
  <2> QED
    BY <2>1, Nothing DEF PagesOrNone
<1>7. /\ mem' \in [Buffers -> PagesOrNone] /\ mem'[b] = page
      /\ \A c \in Buffers \ {b} : mem'[c] = mem[c]
  BY <1>1, <1>3, <1>6 DEF Shape
<1>8. Quiet
  BY <1>1, <1>4, <1>5, <1>7 DEF Quiet, Shape, Scalars, Assignments, SameKeys
<1>9. Past'
  <2>1. \A p \in PagesOrNone : p.at \in Nat
    BY Nothing, SMT DEF Times
  <2>2. \A p \in PagesOrNone : p.at <= clock => p.at <= clock'
    BY <1>5, <2>1, SMT
  <2>3. \A c \in Buffers : mem'[c].at <= clock'
    <3>1. clock' <= clock'
      BY <1>5, SMT
    <3> QED
      BY <1>1, <1>6, <1>7, <2>2, <3>1 DEF Past, Shape
  <2>4. \A i \in Ids : log[i].at <= clock'
    BY <1>1, <2>2 DEF Past, Shape
  <2> QED
    BY <1>4, <2>3, <2>4 DEF Past
<1>10. Backed'
  <2>1. Tracked(regions) \subseteq Buffers
    BY TrackedFacts DEF Tracked
  <2> QED
    BY <1>1, <1>4, <1>6, <1>7, <2>1 DEF Backed
<1>11. CallView'
  <2>1. ASSUME call.pc = "stage" PROVE mem'[call.b].at >= regions[call.b].shadow.at
    <3>1. call.b \in Tracked(regions) /\ mem[call.b].at >= regions[call.b].shadow.at
      BY <1>1, <2>1 DEF CallView
    <3>2. call.b \in Buffers /\ regions[call.b].shadow \in PagesOrNone
      <4>1. regions \in Assignments
        BY <1>1 DEF Shape, Assignments
      <4> QED
        BY <3>1, <4>1, TrackedFacts DEF Region
    <3>3. mem[call.b].at <= clock /\ mem[call.b].at \in Nat /\ regions[call.b].shadow.at \in Nat
      <4>1. \A p \in PagesOrNone : p.at \in Nat
        BY Nothing, SMT DEF Times
      <4> QED
        BY <1>1, <3>2, <4>1 DEF Past, Shape
    <3>4. clock' >= regions[call.b].shadow.at
      BY <1>5, <3>1, <3>3, SMT
    <3> QED
      BY <1>6, <1>7, <3>1, <3>2, <3>4
  <2> QED
    BY <1>1, <1>4, <2>1 DEF CallView
<1>12. LogBacksShadow'
  BY <1>1, <1>4 DEF LogBacksShadow, KeysMixed
<1> QED
  BY <1>8, <1>9, <1>10, <1>11, <1>12, QuietKeeps DEF Inv

\* The launch is not observed.
LEMMA UnobservedKeeps ==
    ASSUME Inv, Unobserved
    PROVE  Inv'
<1>1. Shape /\ Scalars /\ Past /\ Backed /\ CallView /\ LogBacksShadow
  BY DEF Inv
<1>2. /\ UNCHANGED <<mem, regions, next, launches, max_regions, restoring, old, file, log, clock,
                     ckpt, lost, uses, before, spoiled, faults>>
      /\ call.pc = "launch" /\ call' = AtRest
  BY DEF Unobserved, manager, disk, history
<1>3. call' \in Calls /\ call'.pc = "idle"
  BY <1>2 DEF Calls, AtRest
<1>4. Quiet
  BY <1>1, <1>2, <1>3 DEF Quiet, Shape, Scalars, Assignments, SameKeys
<1>5. Past' /\ Backed' /\ CallView'
  BY <1>1, <1>2, <1>3 DEF Past, Backed, CallView
<1>6. LogBacksShadow'
  BY <1>1, <1>2 DEF LogBacksShadow, KeysMixed
<1> QED
  BY <1>4, <1>5, <1>6, QuietKeeps DEF Inv

\* A region gets the page in device memory as its shadow.
LEMMA ShadowFacts ==
    ASSUME Shape, NEW b \in Tracked(regions),
           \/ regions' = [regions EXCEPT ![b].init = TRUE, ![b].shadow = mem[b]]
           \/ regions' = [regions EXCEPT ![b].shadow = mem[b]] /\ regions[b].init
    PROVE  /\ regions' \in Assignments /\ SameKeys(regions, regions')
           /\ \A c \in Tracked(regions) \ {b} : regions'[c] = regions[c]
           /\ regions'[b].init /\ regions'[b].shadow = mem[b]
<1>1. regions \in Assignments /\ b \in Buffers /\ regions[b] \in Region /\ Tracked(regions) \subseteq Buffers
  BY TrackedFacts DEF Shape, Assignments
<1>2. mem[b] \in PagesOrNone
  BY <1>1 DEF Shape
<1>3. PICK q : q = regions[b]
  OBVIOUS
<1>4. PICK p : p = mem[b]
  OBVIOUS
<1>5. PICK t : t = TRUE
  OBVIOUS
<1>6. PICK q1 : q1 \in Region /\ q1.id = q.id /\ q1.index = q.index /\ q1.kind = q.kind
                /\ q1.ordinal = q.ordinal /\ q1.init
                /\ regions' = [regions EXCEPT ![b] = [q1 EXCEPT !.shadow = p]]
  <2>1. CASE regions' = [regions EXCEPT ![b].init = TRUE, ![b].shadow = mem[b]]
    <3>1. PICK f : f = [regions EXCEPT ![b].init = TRUE]
      OBVIOUS
    <3>2. PICK r : r = [q EXCEPT !.init = t]
      OBVIOUS
    <3>3. /\ r \in Region /\ r.id = q.id /\ r.index = q.index /\ r.kind = q.kind
          /\ r.ordinal = q.ordinal /\ r.init = t
      <4>1. q \in Region /\ t \in BOOLEAN
        BY <1>1, <1>3, <1>5
      <4> QED
        BY <3>2, <4>1, SMT DEF Region
    <3>4. f = [regions EXCEPT ![b] = r] /\ f[b] = r
      BY <1>1, <1>3, <1>5, <3>1, <3>2 DEF Assignments
    <3>5. regions' = [f EXCEPT ![b] = [r EXCEPT !.shadow = p]]
      BY <1>4, <2>1, <3>1, <3>4
    <3>6. regions' = [regions EXCEPT ![b] = [r EXCEPT !.shadow = p]]
      BY <1>1, <3>4, <3>5 DEF Assignments
    <3> QED
      BY <1>5, <3>3, <3>6
  <2>2. CASE regions' = [regions EXCEPT ![b].shadow = mem[b]] /\ regions[b].init
    BY <1>1, <1>3, <1>4, <2>2
  <2> QED
    BY <2>1, <2>2
<1>7. PICK r : r = [q1 EXCEPT !.shadow = p]
  OBVIOUS
<1>8. /\ r \in Region /\ r.id = q1.id /\ r.index = q1.index /\ r.kind = q1.kind
      /\ r.ordinal = q1.ordinal /\ r.init = q1.init /\ r.shadow = p
  <2>1. q1 \in Region /\ p \in PagesOrNone
    BY <1>2, <1>4, <1>6
  <2> QED
    BY <1>7, <2>1, SMT DEF Region
<1>9. /\ regions' \in Assignments /\ regions'[b] = r
      /\ \A c \in Buffers \ {b} : regions'[c] = regions[c]
  <2>1. regions' = [regions EXCEPT ![b] = r]
    BY <1>6, <1>7
  <2> QED
    BY <1>1, <1>8, <2>1 DEF Assignments
<1>10. Tracked(regions') = Tracked(regions)
  BY <1>1, <1>8, <1>9, Nothing DEF Tracked
<1>11. SameKeys(regions, regions')
  <2>1. r.id = q.id /\ r.index = q.index /\ r.kind = q.kind /\ r.ordinal = q.ordinal
    BY <1>6, <1>8
  <2>2. ASSUME NEW c \in Tracked(regions)
        PROVE  /\ regions'[c].id = regions[c].id /\ regions'[c].index = regions[c].index
               /\ regions'[c].kind = regions[c].kind
               /\ regions'[c].ordinal = regions[c].ordinal
    <3>1. CASE c = b
      BY <1>3, <1>9, <2>1, <3>1
    <3>2. CASE c # b
      BY <1>1, <1>9, <3>2
    <3> QED
      BY <3>1, <3>2
  <2> QED
    BY <1>10, <2>2 DEF SameKeys
<1> QED
  BY <1>1, <1>4, <1>6, <1>8, <1>9, <1>11

\* A record for a region: what the log says of other regions stays the same.
LEMMA RecordFacts ==
    ASSUME Inv, NEW b \in Tracked(regions), log' = [log EXCEPT ![regions[b].id] = mem[b]]
    PROVE  /\ log' \in [Ids -> PagesOrNone] /\ log'[regions[b].id] = mem[b]
           /\ ~ KeysMixed => \A c \in Tracked(regions) \ {b} :
                                 log'[regions[c].id] = log[regions[c].id]
           /\ \A i \in Ids : log'[i].at <= clock
<1>1. Shape /\ IdBounds /\ Numbers /\ Past
  BY DEF Inv
<1>2. \A c \in Tracked(regions) : regions[c].id \in Ids
  <2> TAKE c \in Tracked(regions)
  <2>1. regions[c].id \in Nat \ {0}
    BY <1>1, TrackedFacts DEF Shape, Assignments, Region
  <2>2. regions[c].id <= Top
    BY <1>1 DEF IdBounds
  <2> QED
    BY <1>1, <2>1, <2>2, InLog
<1>3. b \in Buffers /\ mem[b] \in PagesOrNone /\ mem[b].at <= clock
  BY <1>1 DEF Shape, Past, Tracked
<1>4. PICK i : i = regions[b].id
  OBVIOUS
<1>5. i \in Ids /\ log' = [log EXCEPT ![i] = mem[b]] /\ log \in [Ids -> PagesOrNone]
  BY <1>1, <1>2, <1>4 DEF Shape
<1>6. log' \in [Ids -> PagesOrNone] /\ log'[i] = mem[b] /\ \A j \in Ids \ {i} : log'[j] = log[j]
  BY <1>3, <1>5
<1>7. ASSUME ~ KeysMixed, NEW c \in Tracked(regions) \ {b}
      PROVE  log'[regions[c].id] = log[regions[c].id]
  <2>1. regions[c].id # i
    BY <1>1, <1>4, <1>7, OwnNumbers DEF DistinctIds
  <2> QED
    BY <1>2, <1>6, <2>1
<1>8. \A j \in Ids : log'[j].at <= clock
  BY <1>1, <1>3, <1>5, <1>6 DEF Past
<1> QED
  BY <1>4, <1>6, <1>7, <1>8

\* A step of a checkpoint.  Every region but b keeps its shadow, and the log has
\* for it what it had.
InCheckpoint(b) ==
    /\ UNCHANGED <<mem, next, launches, max_regions, restoring, old, file, clock, ckpt, uses>>
    /\ regions' \in Assignments /\ SameKeys(regions, regions')
    /\ \A c \in Tracked(regions) \ {b} : regions'[c] = regions[c]
    /\ regions'[b].init <=> regions'[b].shadow # NoPage
    /\ log' \in [Ids -> PagesOrNone] /\ \A i \in Ids : log'[i].at <= clock
    /\ ~ KeysMixed => \A c \in Tracked(regions) \ {b} : log'[regions[c].id] = log[regions[c].id]
    /\ lost' \cup {b} = lost \cup {b} /\ spoiled \subseteq spoiled' /\ spoiled' \subseteq Spoilers
    /\ faults' = faults \/ Faults({"checkpoint"})

\* append_record for a region: the log has its page then, or the buffer is lost.
LEMMA AppendFacts ==
    ASSUME Inv, NEW b \in Tracked(regions), Appends(b)
    PROVE  /\ log' \in [Ids -> PagesOrNone] /\ \A i \in Ids : log'[i].at <= clock
           /\ ~ KeysMixed => \A c \in Tracked(regions) \ {b} :
                                 log'[regions[c].id] = log[regions[c].id]
           /\ lost' \cup {b} = lost \cup {b}
           /\ spoiled \subseteq spoiled' /\ spoiled' \subseteq Spoilers
           /\ b \in lost' \/ log'[regions[b].id] = mem[b]
<1>1. Shape /\ Scalars /\ Past
  BY DEF Inv
<1>2. CASE torn
  <2>1. log' = log /\ lost' = lost \cup {b} /\ spoiled' = spoiled \cup {"hidden"}
    BY <1>2 DEF Appends
  <2>2. log \in [Ids -> PagesOrNone] /\ (\A i \in Ids : log[i].at <= clock)
        /\ spoiled \subseteq Spoilers
    BY <1>1 DEF Shape, Past, Scalars
  <2>3. spoiled \subseteq spoiled' /\ spoiled' \subseteq Spoilers
    BY <2>1, <2>2 DEF Spoilers
  <2> QED
    BY <2>1, <2>2, <2>3
<1>3. CASE ~ torn
  <2>1. log' = [log EXCEPT ![regions[b].id] = mem[b]] /\ lost' = lost \ {b} /\ spoiled' = spoiled
    BY <1>3 DEF Appends
  <2>2. /\ log' \in [Ids -> PagesOrNone] /\ log'[regions[b].id] = mem[b]
        /\ ~ KeysMixed => \A c \in Tracked(regions) \ {b} :
                              log'[regions[c].id] = log[regions[c].id]
        /\ \A i \in Ids : log'[i].at <= clock
    BY <2>1, RecordFacts
  <2>3. spoiled \subseteq Spoilers
    BY <1>1 DEF Scalars
  <2> QED
    BY <2>1, <2>2, <2>3
<1> QED
  BY <1>2, <1>3

\* Such a step keeps the invariant, if the log backs the shadow of b or b is lost.
LEMMA InCheckpointKeeps ==
    ASSUME Inv, NEW b \in Tracked(regions), InCheckpoint(b), call' \in Calls, CallView',
           call.pc = "stage" => call.b = b,
           \/ b \in lost' \/ ~ regions'[b].init \/ (call'.pc = "stage" /\ call'.b = b)
           \/ ~ KeysMixed => log'[regions[b].id].at >= regions'[b].shadow.at
    PROVE  Inv'
<1>1. Shape /\ Scalars /\ IdBounds /\ Numbers /\ Past /\ Backed /\ LogBacksShadow
  BY DEF Inv
<1>2. b \in Buffers
  BY DEF Tracked
<1>3. lost' \subseteq Buffers
  BY <1>1, <1>2 DEF Scalars, InCheckpoint
<1>4. Quiet
  BY <1>1, <1>3 DEF Quiet, InCheckpoint, Shape, Scalars
<1>5. Past'
  BY <1>1 DEF Past, InCheckpoint
<1>6. Tracked(regions') = Tracked(regions)
      /\ \A c \in Tracked(regions) : regions'[c].id = regions[c].id
  BY DEF InCheckpoint, SameKeys
<1>7. Backed'
  BY <1>1, <1>6 DEF Backed, InCheckpoint
<1>8. LogBacksShadow'
  <2> SUFFICES ASSUME ~ KeysMixed', NEW c \in Tracked(regions') \ lost', regions'[c].init,
                      ~ (call'.pc = "stage" /\ call'.b = c)
               PROVE  log'[regions'[c].id].at >= regions'[c].shadow.at
    BY DEF LogBacksShadow
  <2>1. ~ KeysMixed
    BY <1>4, QuietKeeps
  <2>2. CASE c = b
    BY <1>6, <2>1, <2>2
  <2>3. CASE c # b
    <3>1. c \in Tracked(regions) \ lost /\ regions'[c] = regions[c]
      BY <1>6, <2>3 DEF InCheckpoint
    <3>2. log[regions[c].id].at >= regions[c].shadow.at
      BY <1>1, <2>1, <2>3, <3>1 DEF LogBacksShadow
    <3>3. log'[regions[c].id] = log[regions[c].id]
      BY <2>1, <2>3, <3>1 DEF InCheckpoint
    <3> QED
      BY <3>1, <3>2, <3>3
  <2> QED
    BY <2>2, <2>3
<1> QED
  BY <1>4, <1>5, <1>7, <1>8, QuietKeeps DEF Inv

\* A checkpoint that an error ends, or that has nothing left to do.
LEMMA AtRestFacts ==
    AtRest \in Calls /\ AtRest.pc = "idle"
BY DEF Calls, AtRest

\* Where a checkpoint goes on.
LEMMA GoesOn ==
    ASSUME NEW pc \in {"scan", "stage"}, NEW b \in Buffers, NEW todo \in SUBSET Buffers
    PROVE  /\ [pc |-> pc, b |-> b, todo |-> todo] \in Calls
           /\ [pc |-> pc, b |-> b, todo |-> todo].pc = pc
           /\ [pc |-> pc, b |-> b, todo |-> todo].b = b
           /\ [pc |-> pc, b |-> b, todo |-> todo].todo = todo
           /\ [pc |-> "checkpoint", todo |-> todo] \in Calls
           /\ [pc |-> "checkpoint", todo |-> todo].pc = "checkpoint"
           /\ [pc |-> "checkpoint", todo |-> todo].todo = todo
BY DEF Calls

\* initialize_device_region
LEMMA InitializeKeeps ==
    ASSUME Inv, NEW b \in Buffers, Initialize(b)
    PROVE  Inv'
<1>1. Shape /\ Scalars /\ IdBounds /\ Numbers /\ Past /\ Backed /\ CallView /\ LogBacksShadow
  BY DEF Inv
<1>2. /\ call.pc = "checkpoint" /\ b \in call.todo /\ ~ regions[b].init
      /\ UNCHANGED <<mem, next, launches, max_regions, restoring, old, file, clock, ckpt, uses,
                     before>>
  BY DEF Initialize
<1>3. call.todo \subseteq Tracked(regions) /\ b \in Tracked(regions)
  BY <1>1, <1>2 DEF CallView
<1>4. regions \in Assignments /\ Tracked(regions) \subseteq Buffers
  BY <1>1, TrackedFacts DEF Shape, Assignments
<1>5. \A i \in Ids : log[i].at <= clock
  BY <1>1 DEF Past
<1>6. CASE /\ Appends(b)
           /\ regions' = [regions EXCEPT ![b].init = TRUE, ![b].shadow = mem[b]]
           /\ call' = [pc |-> "scan", b |-> b, todo |-> call.todo]
           /\ UNCHANGED <<torn, faults>>
  <2>1. /\ regions' \in Assignments /\ SameKeys(regions, regions')
        /\ \A c \in Tracked(regions) \ {b} : regions'[c] = regions[c]
        /\ regions'[b].init /\ regions'[b].shadow = mem[b]
    BY <1>1, <1>3, <1>6, ShadowFacts
  <2>2. /\ log' \in [Ids -> PagesOrNone] /\ \A i \in Ids : log'[i].at <= clock
        /\ ~ KeysMixed => \A c \in Tracked(regions) \ {b} :
                              log'[regions[c].id] = log[regions[c].id]
        /\ lost' \cup {b} = lost \cup {b}
        /\ spoiled \subseteq spoiled' /\ spoiled' \subseteq Spoilers
        /\ b \in lost' \/ log'[regions[b].id] = mem[b]
    BY <1>3, <1>6, AppendFacts
  <2>3. InCheckpoint(b)
    BY <1>1, <1>2, <1>3, <1>6, <2>1, <2>2 DEF InCheckpoint, Backed
  <2>4. call' \in Calls /\ call'.pc = "scan" /\ call'.b = b /\ call'.todo = call.todo
    BY <1>3, <1>4, <1>6, GoesOn
  <2>5. CallView'
    BY <1>3, <2>1, <2>4 DEF CallView, SameKeys
  <2>6. b \in lost' \/ log'[regions[b].id].at >= regions'[b].shadow.at
    <3>1. mem[b] \in PagesOrNone
      BY <1>1 DEF Shape
    <3>2. mem[b].at \in Nat
      BY <3>1, Nothing, SMT DEF Times
    <3>3. mem[b].at >= mem[b].at
      BY <3>2, SMT
    <3> QED
      BY <2>1, <2>2, <3>3
  <2> QED
    BY <1>2, <1>3, <2>3, <2>4, <2>5, <2>6, InCheckpointKeeps
<1>7. CASE Aborts /\ UNCHANGED <<log, lost, spoiled, regions>>
  <2>1. InCheckpoint(b)
    BY <1>1, <1>2, <1>3, <1>4, <1>5, <1>7 DEF InCheckpoint, Backed, Scalars, Shape, SameKeys, Aborts
  <2>2. call' \in Calls /\ call'.pc = "idle"
    BY <1>7, AtRestFacts DEF Aborts
  <2>3. CallView'
    BY <2>2 DEF CallView
  <2> QED
    BY <1>2, <1>3, <1>7, <2>1, <2>2, <2>3, InCheckpointKeeps
<1> QED
  BY <1>6, <1>7 DEF Initialize

\* scan_device_region
LEMMA ScanKeeps ==
    ASSUME Inv, NEW b \in Buffers, Scan(b)
    PROVE  Inv'
<1>1. Shape /\ Scalars /\ IdBounds /\ Numbers /\ Past /\ Backed /\ CallView /\ LogBacksShadow
  BY DEF Inv
<1>2. /\ call.pc \in {"checkpoint", "scan"}
      /\ UNCHANGED <<mem, next, launches, max_regions, restoring, old, file, log, clock, ckpt, lost,
                     uses, before, spoiled>>
  BY DEF Scan, history, disk
<1>3. call.todo \subseteq Tracked(regions) /\ b \in Tracked(regions)
  BY <1>1 DEF CallView, Scan
<1>4. regions \in Assignments /\ Tracked(regions) \subseteq Buffers
  BY <1>1, TrackedFacts DEF Shape, Assignments
<1>5. /\ \A i \in Ids : log[i].at <= clock
      /\ log \in [Ids -> PagesOrNone]
  BY <1>1 DEF Past, Shape
<1>6. ~ KeysMixed /\ b \notin lost /\ regions[b].init =>
         log[regions[b].id].at >= regions[b].shadow.at
  BY <1>1, <1>2, <1>3 DEF LogBacksShadow
<1>7. CASE /\ regions' = [regions EXCEPT ![b].shadow = mem[b]]
           /\ call' = IF mem[b] = regions[b].shadow
                      THEN [pc |-> "checkpoint", todo |-> call.todo \ {b}]
                      ELSE [pc |-> "stage", b |-> b, todo |-> call.todo \ {b}]
           /\ UNCHANGED faults /\ regions[b].init
  <2>1. /\ regions' \in Assignments /\ SameKeys(regions, regions')
        /\ \A c \in Tracked(regions) \ {b} : regions'[c] = regions[c]
        /\ regions'[b].init /\ regions'[b].shadow = mem[b]
    BY <1>1, <1>3, <1>7, ShadowFacts
  <2>2. InCheckpoint(b)
    BY <1>1, <1>2, <1>3, <1>5, <1>7, <2>1 DEF InCheckpoint, Backed, Scalars
  <2>3. PICK todo : todo = call.todo \ {b}
    OBVIOUS
  <2>4. todo \in SUBSET Buffers /\ todo \subseteq Tracked(regions)
    BY <1>3, <1>4, <2>3
  <2>5. CASE mem[b] = regions[b].shadow
    <3>1. call' = [pc |-> "checkpoint", todo |-> todo]
      BY <1>7, <2>3, <2>5
    <3>2. call' \in Calls /\ call'.pc = "checkpoint" /\ call'.todo = todo
      BY <2>4, <3>1, GoesOn
    <3>3. CallView'
      BY <2>1, <2>4, <3>2 DEF CallView, SameKeys
    <3>4. \/ b \in lost'
          \/ ~ KeysMixed => log'[regions[b].id].at >= regions'[b].shadow.at
      BY <1>2, <1>6, <1>7, <2>1, <2>5
    <3> QED
      BY <1>2, <1>3, <2>2, <3>2, <3>3, <3>4, InCheckpointKeeps
  <2>6. CASE mem[b] # regions[b].shadow
    <3>1. call' = [pc |-> "stage", b |-> b, todo |-> todo]
      BY <1>7, <2>3, <2>6
    <3>2. call' \in Calls /\ call'.pc = "stage" /\ call'.b = b /\ call'.todo = todo
      BY <2>4, <3>1, GoesOn
    <3>3. CallView'
      <4>1. mem[b] \in PagesOrNone
        BY <1>1 DEF Shape
      <4>2. mem[b].at \in Nat
        BY <4>1, Nothing, SMT DEF Times
      <4>3. mem[b].at >= mem[b].at
        BY <4>2, SMT
      <4> QED
        BY <1>2, <1>3, <2>1, <2>4, <3>2, <4>3 DEF CallView, SameKeys
    <3> QED
      BY <1>2, <1>3, <2>2, <3>2, <3>3, InCheckpointKeeps
  <2> QED
    BY <2>5, <2>6
<1>8. CASE Aborts /\ UNCHANGED regions
  <2>1. InCheckpoint(b)
    BY <1>1, <1>2, <1>3, <1>4, <1>5, <1>8 DEF InCheckpoint, Backed, Scalars, SameKeys, Aborts
  <2>2. call' \in Calls /\ call'.pc = "idle"
    BY <1>8, AtRestFacts DEF Aborts
  <2>3. CallView'
    BY <2>2 DEF CallView
  <2>4. \/ b \in lost' \/ ~ regions'[b].init
        \/ ~ KeysMixed => log'[regions[b].id].at >= regions'[b].shadow.at
    BY <1>2, <1>6, <1>8
  <2> QED
    BY <1>2, <1>3, <2>1, <2>2, <2>3, <2>4, InCheckpointKeeps
<1> QED
  <2>1. call.pc = "scan" /\ call.b = b => regions[b].init
    BY <1>1 DEF CallView
  <2> QED
    BY <1>7, <1>8, <2>1 DEF Scan

\* stage_aof_payload_via_worker and append_record
LEMMA StageKeeps ==
    ASSUME Inv, Stage
    PROVE  Inv'
<1>1. Shape /\ Scalars /\ IdBounds /\ Numbers /\ Past /\ Backed /\ CallView /\ LogBacksShadow
  BY DEF Inv
<1>2. PICK b : b = call.b
  OBVIOUS
<1>3. /\ call.pc = "stage"
      /\ UNCHANGED <<mem, regions, next, launches, max_regions, restoring, old, file, clock, ckpt,
                     uses, before>>
  BY DEF Stage, manager
<1>4. /\ call.todo \subseteq Tracked(regions) /\ b \in Tracked(regions)
      /\ mem[b].at >= regions[b].shadow.at
  BY <1>1, <1>2, <1>3 DEF CallView
<1>5. regions \in Assignments /\ Tracked(regions) \subseteq Buffers
  BY <1>1, TrackedFacts DEF Shape, Assignments
<1>6. /\ \A i \in Ids : log[i].at <= clock
      /\ log \in [Ids -> PagesOrNone]
  BY <1>1 DEF Past, Shape
<1>7. CASE /\ Appends(call.b)
           /\ call' = [pc |-> "checkpoint", todo |-> call.todo]
           /\ UNCHANGED <<torn, faults>>
  <2>1. Appends(b)
    BY <1>2, <1>7
  <2>2. /\ log' \in [Ids -> PagesOrNone] /\ \A i \in Ids : log'[i].at <= clock
        /\ ~ KeysMixed => \A c \in Tracked(regions) \ {b} :
                              log'[regions[c].id] = log[regions[c].id]
        /\ lost' \cup {b} = lost \cup {b}
        /\ spoiled \subseteq spoiled' /\ spoiled' \subseteq Spoilers
        /\ b \in lost' \/ log'[regions[b].id] = mem[b]
    BY <1>4, <2>1, AppendFacts
  <2>3. InCheckpoint(b)
    BY <1>1, <1>3, <1>4, <1>5, <1>7, <2>2 DEF InCheckpoint, Backed, SameKeys
  <2>4. call' \in Calls /\ call'.pc = "checkpoint" /\ call'.todo = call.todo
    BY <1>4, <1>5, <1>7, GoesOn
  <2>5. CallView'
    BY <1>3, <1>4, <2>4 DEF CallView
  <2>6. b \in lost' \/ log'[regions[b].id].at >= regions'[b].shadow.at
    BY <1>3, <1>4, <2>2
  <2> QED
    BY <1>2, <1>4, <2>3, <2>4, <2>5, <2>6, InCheckpointKeeps
<1>8. CASE /\ Aborts
           /\ lost' = lost \cup {call.b} /\ spoiled' = spoiled \cup {"delta"}
           /\ UNCHANGED log
  <2>1. lost' = lost \cup {b} /\ b \in lost'
    BY <1>2, <1>8
  <2>2. spoiled' \subseteq Spoilers /\ spoiled \subseteq spoiled'
    BY <1>1, <1>8 DEF Scalars, Spoilers
  <2>3. InCheckpoint(b)
    BY <1>1, <1>3, <1>4, <1>5, <1>6, <1>8, <2>1, <2>2 DEF InCheckpoint, Backed, SameKeys, Aborts
  <2>4. call' \in Calls /\ call'.pc = "idle"
    BY <1>8, AtRestFacts DEF Aborts
  <2>5. CallView'
    BY <2>4 DEF CallView
  <2> QED
    BY <1>2, <1>4, <2>1, <2>3, <2>4, <2>5, InCheckpointKeeps
<1> QED
  BY <1>7, <1>8 DEF Stage

\* The checkpoint is complete.
LEMMA FinishKeeps ==
    ASSUME Inv, Finish
    PROVE  Inv'
<1>1. Shape /\ Scalars /\ Past /\ Backed /\ CallView /\ LogBacksShadow
  BY DEF Inv
<1>2. /\ UNCHANGED <<mem, regions, next, launches, max_regions, restoring, old, file, log, clock,
                     lost, uses, before, spoiled, faults>>
      /\ call.pc = "checkpoint" /\ call' = AtRest
      /\ ckpt' = [b \in Buffers |-> IF regions[b] = NoRegion THEN ckpt[b]
                                    ELSE regions[b].shadow.at]
  BY DEF Finish, manager, disk
<1>3. call' \in Calls /\ call'.pc = "idle"
  BY <1>2, AtRestFacts
<1>4. ckpt' \in [Buffers -> Times]
  <2>1. ASSUME NEW b \in Buffers, regions[b] # NoRegion PROVE regions[b].shadow.at \in Times
    <3>1. regions[b] \in Region
      BY <1>1, <2>1 DEF Shape
    <3>2. regions[b].shadow \in PagesOrNone
      BY <3>1 DEF Region
    <3> QED
      BY <3>2, Nothing
  <2>2. \A b \in Buffers : ckpt[b] \in Times
    BY <1>1 DEF Scalars
  <2> QED
    BY <1>2, <2>1, <2>2
<1>5. Quiet
  BY <1>1, <1>2, <1>3, <1>4 DEF Quiet, Shape, Scalars, Assignments, SameKeys
<1>6. Past' /\ Backed' /\ CallView'
  BY <1>1, <1>2, <1>3 DEF Past, Backed, CallView
<1>7. LogBacksShadow'
  BY <1>1, <1>2 DEF LogBacksShadow, KeysMixed
<1> QED
  BY <1>5, <1>6, <1>7, QuietKeeps DEF Inv

\* Without regions there is nothing to say about numbers and shadows.
LEMMA NoneTracked ==
    ASSUME NEW regs, regs = [b \in Buffers |-> NoRegion], NEW base, NEW m, NEW us
    PROVE  /\ regs \in Assignments /\ Tracked(regs) = {}
           /\ Counted(regs, 1) /\ Numbered(regs, base, m) /\ Placed(regs) /\ UsedAs(regs, us)
<1>1. regs \in Assignments /\ Tracked(regs) = {}
  BY DEF Assignments, Tracked
<1>2. Counted(regs, 1)
  <2>1. IsFiniteSet({}) /\ Cardinality({}) = 0
    BY FS_EmptySet
  <2>2. 0 < 1
    BY SMT
  <2> QED
    BY <1>1, <2>1, <2>2 DEF Counted
<1> QED
  BY <1>1, <1>2 DEF Numbered, Placed, UsedAs

\* The process dies, and another one is started.
LEMMA CrashKeeps ==
    ASSUME Inv, Crash
    PROVE  Inv'
<1>1. Shape /\ Scalars /\ IdBounds /\ Numbers /\ Past
  BY DEF Inv
<1>2. PICK cut \in BOOLEAN, restore \in BOOLEAN :
         /\ \E all : faults' = [all |-> all, crashes |-> faults.crashes + 1]
         /\ file' = IF cut THEN NoManifest ELSE file
         /\ restoring' = restore
         /\ old' = IF restore THEN file' ELSE NoManifest
         /\ next' = [id |-> FirstId(old'), index |-> 1]
         /\ spoiled' = spoiled \cup (IF cut THEN {"manifest"} ELSE {})
                               \cup {"numbers" : i \in {j \in Ids : j >= next'.id
                                                                /\ log[j] # NoPage}}
  BY DEF Crash
<1>3. /\ faults.crashes < MaxCrashes
      /\ mem' = [b \in Buffers |-> NoPage] /\ regions' = [b \in Buffers |-> NoRegion]
      /\ launches' = 0 /\ call' = AtRest
      /\ ckpt' = NothingYet.ckpt /\ lost' = {} /\ uses' = NothingYet.uses
      /\ UNCHANGED <<max_regions, log, clock>>
  BY DEF Crash
<1>4. /\ regions' \in Assignments /\ Tracked(regions') = {}
      /\ Counted(regions', 1) /\ Numbered(regions', Base', old') /\ Placed(regions')
      /\ UsedAs(regions', uses')
  BY <1>3, NoneTracked
<1>5. /\ DOMAIN faults' = {"all", "crashes"} /\ faults'.crashes = faults.crashes + 1
      /\ faults'.crashes \in 0 .. MaxCrashes
  <2>1. PICK all : faults' = [all |-> all, crashes |-> faults.crashes + 1]
    BY <1>2
  <2>2. DOMAIN faults' = {"all", "crashes"} /\ faults'.crashes = faults.crashes + 1
    BY <2>1
  <2>3. faults.crashes \in 0 .. MaxCrashes /\ MaxCrashes \in Nat
    BY <1>1, KimiAssumption DEF Shape
  <2> QED
    BY <1>3, <2>2, <2>3, SMT
<1>6. Top \in Nat /\ MaxAllocs \in Nat /\ Top' = Top + MaxAllocs
  <2>1. faults.crashes \in 0 .. MaxCrashes
    BY <1>1 DEF Shape
  <2> QED
    BY <1>5, <2>1, TopFacts, KimiAssumption DEF Top
<1>7. /\ file' \in {file, NoManifest} /\ old' \in {file, NoManifest}
      /\ file' \subseteq Specs \/ file' = NoManifest
      /\ old' \subseteq Specs \/ old' = NoManifest
  BY <1>1, <1>2 DEF Shape
<1>8. \A m \in {file, NoManifest} : \A s \in m : s.id <= Top
  <2>1. \A s \in NoManifest : s.id <= Top
    BY <1>6, SMT DEF NoManifest, NoRegion
  <2>2. \A s \in file : s.id <= Top
    BY <1>1 DEF IdBounds
  <2> QED
    BY <2>1, <2>2
<1>9. PICK first : first = FirstId(old')
  OBVIOUS
<1>10. /\ first \in Nat \ {0} /\ first <= Top + 1
       /\ \A s \in old' : s.id <= first - 1
  <2>1. PICK m : m = old'
    OBVIOUS
  <2>2. PICK N : N = Top
    OBVIOUS
  <2>3. (m \subseteq Specs \/ m = NoManifest) /\ N \in Nat /\ \A s \in m : s.id <= N
    BY <1>6, <1>7, <1>8, <2>1, <2>2
  <2>4. /\ FirstId(m) \in Nat \ {0} /\ FirstId(m) <= N + 1
        /\ \A s \in m : s.id <= FirstId(m) - 1
    BY <2>3, FirstIdFacts
  <2> QED
    BY <1>9, <2>1, <2>2, <2>4
<1>11. /\ next' \in [id : Nat \ {0}, index : Nat \ {0}] /\ next'.id = first /\ next'.index = 1
  <2>1. next' = [id |-> first, index |-> 1]
    BY <1>2, <1>9
  <2> QED
    BY <1>10, <2>1, SMT
<1>12. Base' = first - 1 /\ Base' \in Int
  BY <1>10, <1>11, SMT DEF Base
<1>13. ckpt' \in [Buffers -> Times] /\ uses' \in [Kinds -> Seq(Buffers)]
  <2>1. 0 \in Times
    BY Nothing, SMT DEF Times
  <2>2. <<>> \in Seq(Buffers)
    BY SMT
  <2>3. ckpt' = [b \in Buffers |-> 0] /\ uses' = [k \in Kinds |-> <<>>]
    BY <1>3 DEF NothingYet
  <2> QED
    BY <2>1, <2>2, <2>3
<1>14. mem' \in [Buffers -> PagesOrNone] /\ call' \in Calls /\ call'.pc = "idle"
  BY <1>3, AtRestFacts DEF PagesOrNone
<1>15. Shape'
  BY <1>1, <1>3, <1>4, <1>5, <1>7, <1>11, <1>13, <1>14 DEF Shape, Assignments
<1>16. Scalars'
  <2>1. 0 \in 0 .. Every - 1
    BY KimiAssumption, SMT
  <2>2. spoiled' \subseteq Spoilers
    BY <1>1, <1>2 DEF Scalars, Spoilers
  <2> QED
    BY <1>1, <1>2, <1>3, <1>13, <2>1, <2>2 DEF Scalars
<1>17. IdBounds'
  <2>1. Base' >= 0 /\ Base' + MaxAllocs <= Top' /\ Top <= Top' /\ 1 <= MaxAllocs + 1
    <3>1. PICK t : t = Top
      OBVIOUS
    <3>2. PICK u : u = Top'
      OBVIOUS
    <3>3. PICK v : v = Base'
      OBVIOUS
    <3>4. t \in Nat /\ MaxAllocs \in Nat /\ u = t + MaxAllocs /\ v = first - 1 /\ first <= t + 1
      BY <1>6, <1>10, <1>12, <3>1, <3>2, <3>3
    <3>5. v >= 0 /\ v + MaxAllocs <= u /\ t <= u /\ 1 <= MaxAllocs + 1
      BY <1>10, <3>4, SMT
    <3> QED
      BY <3>1, <3>2, <3>3, <3>5
  <2>2. \A s \in old' : s.id <= Base'
    BY <1>10, <1>12
  <2>3. ASSUME NEW s \in file' PROVE s.id <= Top'
    <3>1. s.id <= Top /\ s.id \in Nat
      <4>1. s.id <= Top
        BY <1>7, <1>8
      <4>2. s \in Specs => s.id \in Nat
        BY DEF Specs
      <4>3. NoRegion.id \in Nat
        BY Nothing, SMT
      <4> QED
        BY <1>7, <4>1, <4>2, <4>3 DEF NoManifest
    <3>2. PICK t : t = Top
      OBVIOUS
    <3>3. PICK u : u = Top'
      OBVIOUS
    <3>4. s.id <= t /\ t \in Nat /\ MaxAllocs \in Nat /\ u = t + MaxAllocs
      BY <1>6, <3>1, <3>2, <3>3
    <3>5. s.id <= u
      BY <3>1, <3>4, SMT
    <3> QED
      BY <3>3, <3>5
  <2> QED
    BY <1>4, <1>11, <2>1, <2>2, <2>3 DEF IdBounds
<1>18. Numbers'
  <2>1. DistinctSpecs(NoManifest)
    BY DEF DistinctSpecs, NoManifest
  <2>2. Clean' => DistinctSpecs(file') /\ DistinctSpecs(old')
    <3>1. Clean' => Clean
      BY <1>2 DEF Clean
    <3> QED
      BY <1>1, <1>7, <2>1, <3>1 DEF Numbers
  <2> QED
    BY <1>4, <1>11, <2>2 DEF Numbers
<1>19. Past'
  <2>1. 0 <= clock
    <3>1. clock \in 0 .. MaxWrites /\ MaxWrites \in Nat
      BY <1>1, Nothing DEF Scalars, Times
    <3> QED
      BY <3>1, SMT
  <2> QED
    BY <1>1, <1>3, <2>1, Nothing DEF Past
<1>20. Backed' /\ CallView' /\ LogBacksShadow'
  BY <1>4, <1>14 DEF Backed, CallView, LogBacksShadow
<1> QED
  BY <1>15, <1>16, <1>17, <1>18, <1>19, <1>20 DEF Inv

-----------------------------------------------------------------------------
(***************************************************************************)
(* The theorems.                                                           *)
(***************************************************************************)
\* The invariant holds when the program starts, with nothing on the disk.
LEMMA InitHolds == Init => Inv
<1> SUFFICES ASSUME Init PROVE Inv
  OBVIOUS
<1>1. /\ mem = [b \in Buffers |-> NoPage] /\ regions = [b \in Buffers |-> NoRegion]
      /\ next = [id |-> 1, index |-> 1] /\ launches = 0
      /\ max_regions \in Limits /\ restoring \in BOOLEAN /\ old = NoManifest
      /\ call = AtRest /\ file = NoManifest /\ log = [i \in Ids |-> NoPage] /\ clock = 0
      /\ ckpt = NothingYet.ckpt /\ lost = {} /\ uses = NothingYet.uses
      /\ spoiled = {} /\ faults = [all |-> 0, crashes |-> 0]
  BY DEF Init
<1>2. /\ regions \in Assignments /\ Tracked(regions) = {}
      /\ Counted(regions, 1) /\ Numbered(regions, Base, old) /\ Placed(regions)
      /\ UsedAs(regions, uses)
  BY <1>1, NoneTracked
<1>3. /\ next.id = 1 /\ next.index = 1 /\ next \in [id : Nat \ {0}, index : Nat \ {0}]
      /\ DOMAIN faults = {"all", "crashes"} /\ faults.crashes = 0 /\ Base = 0
  <2>1. next.id = 1 /\ next.index = 1 /\ next \in [id : Nat \ {0}, index : Nat \ {0}]
    BY <1>1, SMT
  <2>2. DOMAIN faults = {"all", "crashes"} /\ faults.crashes = 0
    BY <1>1
  <2>3. Base = 0
    BY <2>1, SMT DEF Base
  <2> QED
    BY <2>1, <2>2, <2>3
<1>4. 0 \in 0 .. MaxCrashes /\ 0 \in 0 .. Every - 1 /\ 0 \in Times
  BY KimiAssumption, SMT DEF Times
<1>5. Top = MaxAllocs /\ MaxAllocs \in Nat /\ 0 + MaxAllocs = MaxAllocs /\ 0 <= MaxAllocs
      /\ 0 >= 0 /\ MaxAllocs <= MaxAllocs /\ 1 <= MaxAllocs + 1 /\ 0 <= 0
  BY <1>3, KimiAssumption, SMT DEF Top
<1>6. ckpt \in [Buffers -> Times] /\ uses \in [Kinds -> Seq(Buffers)]
  <2>1. <<>> \in Seq(Buffers)
    BY SMT
  <2>2. ckpt = [b \in Buffers |-> 0] /\ uses = [k \in Kinds |-> <<>>]
    BY <1>1 DEF NothingYet
  <2> QED
    BY <1>4, <2>1, <2>2
<1>7. Shape
  BY <1>1, <1>2, <1>3, <1>4, <1>6, AtRestFacts DEF Shape, Assignments, PagesOrNone
<1>8. Scalars
  BY <1>1, <1>4, <1>6 DEF Scalars
<1>9. IdBounds
  <2>1. \A s \in NoManifest : s.id = 0
    BY Nothing DEF NoManifest
  <2> QED
    BY <1>1, <1>2, <1>3, <1>5, <2>1 DEF IdBounds
<1>10. Numbers
  BY <1>1, <1>2, <1>3 DEF Numbers, DistinctSpecs, NoManifest
<1>11. Past
  BY <1>1, <1>5, Nothing DEF Past
<1>12. Backed /\ CallView /\ LogBacksShadow
  BY <1>1, <1>2, AtRestFacts DEF Backed, CallView, LogBacksShadow
<1> QED
  BY <1>7, <1>8, <1>9, <1>10, <1>11, <1>12 DEF Inv

\* Every step of the processes keeps the invariant.
LEMMA NextKeeps == Inv /\ [Next]_vars => Inv'
<1> SUFFICES ASSUME Inv, [Next]_vars PROVE Inv'
  OBVIOUS
<1>1. CASE UNCHANGED vars
  <2>1. UNCHANGED <<mem, regions, next, launches, max_regions, restoring, old, call, file, log, clock,
                    ckpt, lost, uses, before, spoiled, faults>>
    BY <1>1 DEF vars, manager, disk, history
  <2>2. Shape /\ Scalars /\ Past /\ Backed /\ CallView /\ LogBacksShadow
    BY DEF Inv
  <2>3. Quiet
    BY <2>1, <2>2 DEF Quiet, Shape, Scalars, Assignments, SameKeys
  <2>4. Past' /\ Backed' /\ CallView'
    BY <2>1, <2>2 DEF Past, Backed, CallView
  <2>5. LogBacksShadow'
    BY <2>1, <2>2 DEF LogBacksShadow, KeysMixed
  <2> QED
    BY <2>3, <2>4, <2>5, QuietKeeps DEF Inv
<1>2. CASE Next
  BY <1>2, AllocKeeps, FreeKeeps, WriteKeeps, InitializeKeeps, ScanKeeps, PrepareKeeps,
     UnobservedKeeps, ObserveKeeps, StageKeeps, FinishKeeps, CrashKeeps DEF Next
<1> QED
  BY <1>1, <1>2

\* torn is a Boolean: every action but the appends leaves it alone.
TornTyped == torn \in BOOLEAN

LEMMA TornStays == TornTyped /\ [Next]_vars => TornTyped'
<1> SUFFICES ASSUME torn \in BOOLEAN, [Next]_vars PROVE torn' \in BOOLEAN
  BY DEF TornTyped
<1>1. Tears => torn' \in BOOLEAN
  BY DEF Tears
<1> USE DEF disk
<1>2. ASSUME NEW b \in Buffers, Alloc(b) \/ Free(b) \/ Write(b) \/ Scan(b) \/ Initialize(b)
      PROVE  torn' \in BOOLEAN
  BY <1>1, <1>2 DEF Alloc, Free, Write, Scan, Initialize
<1>3. ASSUME NEW b \in Buffers, NEW kernel \in KernelsOf[b], Prepare(b, kernel)
      PROVE  torn' \in BOOLEAN
  BY <1>3 DEF Prepare
<1>4. Unobserved \/ Observe \/ Stage \/ Finish \/ Crash => torn' \in BOOLEAN
  BY <1>1 DEF Unobserved, Observe, Stage, Finish, Crash
<1>5. UNCHANGED vars => torn' \in BOOLEAN
  BY DEF vars
<1> QED
  BY <1>2, <1>3, <1>4, <1>5 DEF Next

\* The variables of the manager have their types: numbers stay within those the
\* log has room for, over all crashes, places within the allocations of one
\* process, and a region is initialised exactly when it has a shadow.
THEOREM ManagerTyped == Spec => []TypeOK
<1>1. Inv /\ TornTyped => TypeOK
  <2> SUFFICES ASSUME Inv, TornTyped PROVE TypeOK
    OBVIOUS
  <2>1. Shape /\ Scalars /\ IdBounds /\ Numbers /\ Backed
    BY DEF Inv
  <2>2. MaxAllocs \in Nat /\ MaxAllocs * (MaxCrashes + 1) \in Nat
        /\ Top \in Nat /\ Top <= MaxAllocs * (MaxCrashes + 1)
    <3>1. MaxCrashes \in 0 .. MaxCrashes /\ MaxAllocs \in Nat
      BY KimiAssumption, SMT
    <3>2. faults.crashes \in 0 .. MaxCrashes
      BY <2>1 DEF Shape
    <3> QED
      BY <3>1, <3>2, TopFacts DEF Top
  <2>3. next.id \in Nat \ {0} /\ next.index \in Nat \ {0}
    BY <2>1 DEF Shape
  <2>4. next.index \in 1 .. MaxAllocs + 1 /\ next.id \in 1 .. MaxAllocs * (MaxCrashes + 1) + 1
    <3>1. PICK t : t = Top
      OBVIOUS
    <3>2. PICK u : u = MaxAllocs * (MaxCrashes + 1)
      OBVIOUS
    <3>3. /\ t \in Nat /\ u \in Nat /\ t <= u /\ next.index <= MaxAllocs + 1
          /\ next.id - next.index + MaxAllocs <= t
      BY <2>1, <2>2, <3>1, <3>2 DEF IdBounds, Base
    <3>4. next.index \in 1 .. MaxAllocs + 1 /\ next.id \in 1 .. u + 1
      BY <2>2, <2>3, <3>3, SMT
    <3> QED
      BY <3>2, <3>4
  <2>5. ASSUME NEW b \in Tracked(regions)
        PROVE  /\ mem[b] # NoPage
               /\ regions[b].id \in Ids /\ regions[b].index \in 1 .. MaxAllocs
               /\ regions[b].kind \in Kinds \cup {"Opaque"}
               /\ regions[b].ordinal \in 1 .. MaxAllocs
               /\ regions[b].init <=> regions[b].shadow # NoPage
    <3>1. regions[b] \in Region
      BY <2>1, TrackedFacts DEF Shape, Assignments
    <3>2. /\ regions[b].id \in Nat \ {0} /\ regions[b].index \in Nat \ {0}
          /\ regions[b].kind \in Kinds \cup {"Opaque"} /\ regions[b].ordinal \in Nat \ {0}
      BY <3>1 DEF Region
    <3>3. regions[b].id <= Top /\ regions[b].ordinal <= MaxAllocs /\ regions[b].index < next.index
      BY <2>1 DEF IdBounds, Numbers, Counted
    <3>4. regions[b].id \in Ids
      BY <2>1, <3>2, <3>3, InLog
    <3>5. regions[b].index \in 1 .. MaxAllocs /\ regions[b].ordinal \in 1 .. MaxAllocs
      BY <2>2, <2>4, <3>2, <3>3, SMT
    <3> QED
      BY <2>1, <3>2, <3>4, <3>5 DEF Backed
  <2> QED
    BY <2>1, <2>4, <2>5, CallFacts DEF TypeOK, Shape, Scalars, Spoilers, TornTyped
<1>2. Init => TornTyped
  BY DEF Init, TornTyped
<1> QED
  BY <1>1, <1>2, InitHolds, NextKeeps, TornStays, PTL DEF Spec

\* Two regions of a process never share a number, as long as no region was freed
\* and no buffer used as two kinds, or no old manifest is restored from: a
\* number is either that of a key in the old manifest, where each occurs once,
\* or behind all of them.
THEOREM RegionIdsDistinctAlways == Spec => []RegionIdsDistinct
<1>1. Inv => RegionIdsDistinct
  <2> SUFFICES ASSUME Inv, ~ KeysMixed, NEW b \in Tracked(regions), NEW c \in Buffers \ {b}
               PROVE  regions[b].id # regions[c].id
    BY DEF RegionIdsDistinct
  <2>1. DistinctIds(regions)
    BY OwnNumbers DEF Inv
  <2>2. CASE c \in Tracked(regions)
    BY <2>1, <2>2 DEF DistinctIds
  <2>3. CASE c \notin Tracked(regions)
    <3>1. regions[c].id = 0
      BY <2>3, Nothing DEF Tracked
    <3>2. regions[b].id \in Nat \ {0}
      BY TrackedFacts DEF Inv, Shape, Assignments, Region
    <3> QED
      BY <3>1, <3>2
  <2> QED
    BY <2>2, <2>3
<1> QED
  BY <1>1, InitHolds, NextKeeps, PTL DEF Spec

\* What the log says of a region is not older than its shadow, so that a page
\* which a scan takes for unchanged is in the log, whatever is written, launched
\* or allocated while a checkpoint runs.
THEOREM LogBacksShadowAlways == Spec => []LogBacksShadow
<1>1. Inv => LogBacksShadow
  BY DEF Inv
<1> QED
  BY <1>1, InitHolds, NextKeeps, PTL DEF Spec
=============================================================================
