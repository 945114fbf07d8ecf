------------------------------ MODULE PmmProof ------------------------------
(***************************************************************************)
(* Proofs about Pmm, for any number of frames, word size and memory maps.  *)
(***************************************************************************)
EXTENDS Pmm, FiniteSetTheorems, TLAPS

\* There are finitely many frames.
LEMMA FramesFinite == IsFiniteSet(Frames)
BY FS_Interval, PmmAssumption DEF Frames

\* Removing a subset takes its cardinality away.
LEMMA CardRemove ==
  ASSUME NEW S, IsFiniteSet(S), NEW F \in SUBSET S
  PROVE  /\ IsFiniteSet(S \ F)
         /\ Cardinality(S) \in Nat /\ Cardinality(F) \in Nat
         /\ Cardinality(S \ F) = Cardinality(S) - Cardinality(F)
<1>1. S \cap F = F
  OBVIOUS
<1>2. IsFiniteSet(F)
  BY FS_Subset
<1> QED
  BY <1>1, <1>2, FS_Difference, FS_CardinalityType, Zenon

\* Adding a disjoint set adds its cardinality.
LEMMA CardAdd ==
  ASSUME NEW S, IsFiniteSet(S), NEW F, IsFiniteSet(F), S \cap F = {}
  PROVE  /\ Cardinality(S) \in Nat /\ Cardinality(F) \in Nat
         /\ Cardinality(S \cup F) = Cardinality(S) + Cardinality(F)
<1>1. Cardinality(S) \in Nat /\ Cardinality(F) \in Nat
  BY FS_CardinalityType
<1>2. Cardinality(S \cap F) = 0
  BY FS_EmptySet
<1>3. Cardinality(S \cup F)
        = Cardinality(S) + Cardinality(F) - Cardinality(S \cap F)
  BY FS_Union
<1> QED
  BY <1>1, <1>2, <1>3

-----------------------------------------------------------------------------
\* Marking frames used keeps the summary exact: a word whose last clear bit
\* is set enters the summary in the same call.
LEMMA MarkUsedSummary ==
  ASSUME SummaryExact, NEW F \in SUBSET Frames, pmm_mark_used(F)
  PROVE  SummaryExact'
<1> SUFFICES ASSUME NEW w \in Words
             PROVE  w \in summary_bitmap' <=> FramesOf(w) \subseteq bitmap'
  BY DEF SummaryExact
<1>1. w \in summary_bitmap <=> FramesOf(w) \subseteq bitmap
  BY DEF SummaryExact
<1>2. CASE w \in {WordOf(f) : f \in F}
  BY <1>1, <1>2 DEF pmm_mark_used
<1>3. CASE w \notin {WordOf(f) : f \in F}
  <2>1. FramesOf(w) \cap F = {}
    BY <1>3 DEF FramesOf
  <2> QED
    BY <1>1, <1>3, <2>1 DEF pmm_mark_used
<1> QED
  BY <1>2, <1>3

\* Marking frames free keeps the summary exact.
LEMMA MarkFreeSummary ==
  ASSUME SummaryExact, NEW F \in SUBSET Frames, pmm_mark_free(F)
  PROVE  SummaryExact'
<1> SUFFICES ASSUME NEW w \in Words
             PROVE  w \in summary_bitmap' <=> FramesOf(w) \subseteq bitmap'
  BY DEF SummaryExact
<1>1. w \in summary_bitmap <=> FramesOf(w) \subseteq bitmap
  BY DEF SummaryExact
<1>2. CASE w \in {WordOf(f) : f \in F}
  <2>1. PICK f \in F : WordOf(f) = w
    BY <1>2
  <2>2. f \in FramesOf(w) /\ f \notin bitmap'
    BY <2>1 DEF FramesOf, pmm_mark_free
  <2> QED
    BY <1>2, <2>2 DEF pmm_mark_free
<1>3. CASE w \notin {WordOf(f) : f \in F}
  <2>1. FramesOf(w) \cap F = {}
    BY <1>3 DEF FramesOf
  <2> QED
    BY <1>1, <1>3, <2>1 DEF pmm_mark_free
<1> QED
  BY <1>2, <1>3

\* The marking helpers keep both bitmaps over frames and words.
LEMMA MarkType ==
  ASSUME bitmap \in SUBSET Frames, summary_bitmap \in SUBSET Words,
         NEW F \in SUBSET Frames, pmm_mark_used(F) \/ pmm_mark_free(F)
  PROVE  bitmap' \in SUBSET Frames /\ summary_bitmap' \in SUBSET Words
BY DEF pmm_mark_used, pmm_mark_free, Words

\* The frames of an E820 entry are frames of the bitmap.
LEMMA EntryFramesType == \A e : EntryFrames(e) \in SUBSET Frames
BY DEF EntryFrames

\* The frames of a block are frames of the bitmap.
LEMMA BlockType == \A a, s : Block(a, s) \in SUBSET Frames
BY DEF Block

-----------------------------------------------------------------------------
\* The inductive invariant: nothing is held before pmm_init has returned.
Inv ==
  /\ TypeOK
  /\ SummaryExact
  /\ FramesConserved
  /\ phase = "e820" => held = {} /\ pool = {}

\* The regions pmm_init reserves include frame 0.
LEMMA FixedRegionsType == FixedRegions \in SUBSET Frames /\ 0 \in FixedRegions
<1>1. FixedRegions \in SUBSET Frames
  BY BlockType DEF FixedRegions
<1>2. 0 \in FixedRegions
  BY LowMemAssumption DEF FixedRegions
<1> QED
  BY <1>1, <1>2

\* The all-used bitmap of pmm_init satisfies the inductive invariant.
LEMMA InitInv == Init => Inv
<1> SUFFICES ASSUME Init PROVE Inv
  OBVIOUS
<1>1. TypeOK
  BY DEF Init, TypeOK
<1>2. SummaryExact
  BY DEF Init, SummaryExact, FramesOf
<1>3. FramesConserved /\ held = {} /\ pool = {}
  BY DEF Init, FramesConserved
<1> QED
  BY <1>1, <1>2, <1>3 DEF Inv

\* Every call of the manager keeps the inductive invariant.
LEMMA NextInv == Inv /\ [Next]_vars => Inv'
<1> SUFFICES ASSUME Inv, [Next]_vars PROVE Inv'
  OBVIOUS
<1> USE DEF Inv
<1>1. CASE pmm_init_entry
  <2> DEFINE e == memory_map[entry]
             F == IF e.type = Usable THEN EntryFrames(e) ELSE {}
  <2>1. F \in SUBSET Frames
    BY EntryFramesType
  <2>2. pmm_mark_free(F)
    BY <1>1 DEF pmm_init_entry
  <2>3. SummaryExact'
    BY <2>1, <2>2, MarkFreeSummary
  <2>4. Cardinality(F) \in Nat
    BY <2>1, FramesFinite, FS_Subset, FS_CardinalityType
  <2>5. bitmap' \in SUBSET Frames /\ summary_bitmap' \in SUBSET Words
    BY <2>1, <2>2, MarkType DEF TypeOK
  <2>6. TypeOK'
    BY <1>1, <2>4, <2>5 DEF pmm_init_entry, TypeOK
  <2> QED
    BY <1>1, <2>3, <2>6 DEF pmm_init_entry, FramesConserved
<1>2. CASE pmm_init_reserve
  <2> DEFINE F == {f \in FixedRegions : pmm_is_frame_free(f)}
  <2>1. F \in SUBSET Frames
    BY FixedRegionsType
  <2>2. pmm_mark_used(F)
    BY <1>2 DEF pmm_init_reserve
  <2>3. SummaryExact'
    BY <2>1, <2>2, MarkUsedSummary
  <2>4. Cardinality(F) \in Nat
    BY <2>1, FramesFinite, FS_Subset, FS_CardinalityType
  <2>5. bitmap' \in SUBSET Frames /\ summary_bitmap' \in SUBSET Words
    BY <2>1, <2>2, MarkType DEF TypeOK
  <2>6. TypeOK'
    BY <1>2, <2>4, <2>5 DEF pmm_init_reserve, TypeOK
  <2>7. FixedRegions \subseteq bitmap'
    BY <2>2, FixedRegionsType, PmmAssumption
    DEF pmm_mark_used, pmm_is_frame_free, Frames
  <2>8. FramesConserved'
    BY <1>2, <2>7, FixedRegionsType DEF pmm_init_reserve, FramesConserved
  <2> QED
    BY <1>2, <2>3, <2>6, <2>8 DEF pmm_init_reserve
<1>3. CASE pmm_alloc_frame
  <2>1. PICK frame \in Frames \ {0} :
          /\ pmm_is_frame_free(frame)
          /\ pmm_mark_used({frame})
          /\ held' = held \cup {frame}
    BY <1>3 DEF pmm_alloc_frame
  <2>2. SummaryExact'
    BY <2>1, MarkUsedSummary
  <2>3. bitmap' \in SUBSET Frames /\ summary_bitmap' \in SUBSET Words
    BY <2>1, MarkType DEF TypeOK
  <2>4. TypeOK'
    BY <1>3, <2>1, <2>3 DEF pmm_alloc_frame, TypeOK
  <2>5. FramesConserved'
    BY <1>3, <2>1
    DEF pmm_alloc_frame, FramesConserved, pmm_mark_used, pmm_is_frame_free
  <2> QED
    BY <1>3, <2>2, <2>4, <2>5 DEF pmm_alloc_frame
<1>4. CASE \E start \in Frames, n \in 1 .. MaxBlock : pmm_free_block(start, n)
  <2>1. PICK start \in Frames, n \in 1 .. MaxBlock : pmm_free_block(start, n)
    BY <1>4
  <2> DEFINE B == {f \in start .. start + n - 1 : ~pmm_is_frame_free(f)}
  <2>2. B \in SUBSET held /\ B \in SUBSET Frames
    BY <2>1 DEF pmm_free_block, CallerMayFree, TypeOK
  <2>3. pmm_mark_free(B)
    <3>1. B \cap Frames = B
      BY <2>2
    <3> QED
      BY <2>1, <3>1, Zenon DEF pmm_free_block
  <2>4. SummaryExact'
    BY <2>2, <2>3, MarkFreeSummary
  <2>5. bitmap' \in SUBSET Frames /\ summary_bitmap' \in SUBSET Words
    BY <2>2, <2>3, MarkType DEF TypeOK
  <2>6. Cardinality(B) \in Nat
    BY <2>2, FramesFinite, FS_Subset, FS_CardinalityType
  <2>7. TypeOK'
    BY <2>1, <2>5, <2>6 DEF pmm_free_block, TypeOK
  <2>8. FramesConserved'
    BY <2>1, <2>2, <2>3 DEF pmm_free_block, FramesConserved, pmm_mark_free, TypeOK
  <2> QED
    BY <2>1, <2>4, <2>7, <2>8 DEF pmm_free_block
<1>5. CASE \E start \in Frames : pmm_free_block_panic(start)
  BY <1>5 DEF pmm_free_block_panic, TypeOK, SummaryExact, FramesConserved
<1>6. CASE \E address \in 0 .. AddrSpace - 1, n \in 1 .. MaxBlock :
             pmm_reserve_block(address, n * PageSize - 1)
  <2>1. PICK address, size : pmm_reserve_block(address, size)
    BY <1>6
  <2> DEFINE F == {f \in Block(address, size) : pmm_is_frame_free(f)}
  <2>2. F \in SUBSET Frames
    BY BlockType
  <2>3. pmm_mark_used(F) /\ held' = held \cup F
    BY <2>1 DEF pmm_reserve_block
  <2>4. SummaryExact'
    BY <2>2, <2>3, MarkUsedSummary
  <2>5. bitmap' \in SUBSET Frames /\ summary_bitmap' \in SUBSET Words
    BY <2>2, <2>3, MarkType DEF TypeOK
  <2>6. Cardinality(F) \in Nat
    BY <2>2, FramesFinite, FS_Subset, FS_CardinalityType
  <2>7. TypeOK'
    BY <2>1, <2>2, <2>5, <2>6 DEF pmm_reserve_block, TypeOK
  <2>8. F \cap bitmap = {}
    BY DEF pmm_is_frame_free
  <2>9. FramesConserved'
    BY <2>1, <2>2, <2>3, <2>8
    DEF pmm_reserve_block, FramesConserved, pmm_mark_used, TypeOK
  <2> QED
    BY <2>1, <2>4, <2>7, <2>9 DEF pmm_reserve_block
<1>7. CASE UNCHANGED vars
  BY <1>7 DEF vars, TypeOK, SummaryExact, FramesConserved
<1> QED
  BY <1>1, <1>2, <1>3, <1>4, <1>5, <1>6, <1>7
  DEF Next, pmm_alloc_frame_oom, Halted

\* The state of the manager is well-typed in every reachable state.
THEOREM TypeCorrect == Spec => []TypeOK
<1>1. Inv => TypeOK
  BY DEF Inv
<1> QED
  BY <1>1, InitInv, NextInv, PTL DEF Spec

\* The summary bitmap is exact, whatever the BIOS reported.
THEOREM SummaryCorrect == Spec => []SummaryExact
<1>1. Inv => SummaryExact
  BY DEF Inv
<1> QED
  BY <1>1, InitInv, NextInv, PTL DEF Spec

\* Frames are neither lost nor handed out twice, and the fixed regions stay
\* out of circulation, as long as callers free only what they hold.
THEOREM ConservationCorrect == Spec => []FramesConserved
<1>1. Inv => FramesConserved
  BY DEF Inv
<1> QED
  BY <1>1, InitInv, NextInv, PTL DEF Spec

-----------------------------------------------------------------------------
\* No frame is covered by two usable entries of one map, after truncation to
\* 32 bits.  pmm_init counts a frame once per entry that covers it.
DisjointMaps ==
  \A m \in MemoryMaps : \A i, j \in DOMAIN m :
    i # j /\ m[i].type = Usable /\ m[j].type = Usable
      => EntryFrames(m[i]) \cap EntryFrames(m[j]) = {}

\* The entries pmm_init has yet to read are still marked used.
CountInv ==
  /\ FreeCountExact
  /\ phase = "e820" =>
       \A i \in DOMAIN memory_map :
         i >= entry /\ memory_map[i].type = Usable
           => EntryFrames(memory_map[i]) \subseteq bitmap

\* Marking the clear frames F used takes Cardinality(F) from the count.
LEMMA CountUsed ==
  ASSUME TypeOK, FreeCountExact,
         NEW F \in SUBSET Frames, F \cap bitmap = {}, pmm_mark_used(F),
         free_frame_count' = free_frame_count - Cardinality(F)
  PROVE  FreeCountExact'
<1>1. IsFiniteSet(Frames \ bitmap) /\ F \in SUBSET (Frames \ bitmap)
  BY FramesFinite, FS_Difference, Zenon
<1>2. Frames \ bitmap' = (Frames \ bitmap) \ F
  BY DEF pmm_mark_used
<1> QED
  BY <1>1, <1>2, CardRemove DEF FreeCountExact

\* Marking the set frames F free adds Cardinality(F) to the count.
LEMMA CountFree ==
  ASSUME TypeOK, FreeCountExact,
         NEW F \in SUBSET bitmap, pmm_mark_free(F),
         free_frame_count' = free_frame_count + Cardinality(F)
  PROVE  FreeCountExact'
<1>1. IsFiniteSet(Frames \ bitmap) /\ IsFiniteSet(F)
  <2>1. F \in SUBSET Frames
    BY DEF TypeOK
  <2> QED
    BY <2>1, FramesFinite, FS_Difference, FS_Subset
<1>2. (Frames \ bitmap) \cap F = {}
  OBVIOUS
<1>3. Frames \ bitmap' = (Frames \ bitmap) \cup F
  BY DEF pmm_mark_free, TypeOK
<1> QED
  BY <1>1, <1>2, <1>3, CardAdd DEF FreeCountExact

\* The count starts exact.
LEMMA InitCount == Init => CountInv
<1> SUFFICES ASSUME Init PROVE CountInv
  OBVIOUS
<1>1. Frames \ bitmap = {}
  BY DEF Init
<1>2. FreeCountExact
  BY <1>1, FS_EmptySet DEF Init, FreeCountExact
<1> QED
  BY <1>2, EntryFramesType DEF Init, CountInv

\* Every call keeps the count exact.
LEMMA NextCount ==
  ASSUME DisjointMaps
  PROVE  Inv /\ CountInv /\ [Next]_vars => CountInv'
<1> SUFFICES ASSUME Inv, CountInv, [Next]_vars PROVE CountInv'
  OBVIOUS
<1> USE DEF Inv, CountInv
<1>1. CASE pmm_init_entry
  <2> DEFINE e == memory_map[entry]
             F == IF e.type = Usable THEN EntryFrames(e) ELSE {}
  <2>1. memory_map \in MemoryMaps /\ entry \in DOMAIN memory_map
    BY <1>1, PmmAssumption DEF pmm_init_entry, TypeOK
  <2>2. F \in SUBSET bitmap
    BY <1>1, <2>1 DEF pmm_init_entry, TypeOK
  <2>3. pmm_mark_free(F) /\ free_frame_count' = free_frame_count + Cardinality(F)
    BY <1>1 DEF pmm_init_entry
  <2>4. FreeCountExact'
    BY <2>2, <2>3, CountFree
  <2>5. ASSUME NEW i \in DOMAIN memory_map, i >= entry + 1,
               memory_map[i].type = Usable
        PROVE  EntryFrames(memory_map[i]) \subseteq bitmap'
    <3>1. i # entry /\ i >= entry
      BY <2>1, <2>5, PmmAssumption DEF TypeOK
    <3>2. EntryFrames(memory_map[i]) \subseteq bitmap
      BY <1>1, <2>5, <3>1 DEF pmm_init_entry
    <3>3. EntryFrames(memory_map[i]) \cap F = {}
      BY <2>1, <2>5, <3>1 DEF DisjointMaps
    <3> QED
      BY <2>3, <3>2, <3>3 DEF pmm_mark_free
  <2> QED
    BY <1>1, <2>4, <2>5 DEF pmm_init_entry
<1>2. CASE pmm_init_reserve
  <2> DEFINE F == {f \in FixedRegions : pmm_is_frame_free(f)}
  <2>1. F \in SUBSET Frames /\ F \cap bitmap = {}
    BY FixedRegionsType DEF pmm_is_frame_free
  <2>2. pmm_mark_used(F) /\ free_frame_count' = free_frame_count - Cardinality(F)
    BY <1>2 DEF pmm_init_reserve
  <2> QED
    BY <1>2, <2>1, <2>2, CountUsed DEF pmm_init_reserve
<1>3. CASE pmm_alloc_frame
  <2>1. PICK frame \in Frames \ {0} :
          pmm_is_frame_free(frame) /\ pmm_mark_used({frame})
    BY <1>3 DEF pmm_alloc_frame
  <2>2. {frame} \cap bitmap = {}
    BY <2>1 DEF pmm_is_frame_free
  <2>3. free_frame_count' = free_frame_count - Cardinality({frame})
    BY <1>3, FS_Singleton DEF pmm_alloc_frame
  <2> QED
    BY <1>3, <2>1, <2>2, <2>3, CountUsed DEF pmm_alloc_frame
<1>4. CASE \E start \in Frames, n \in 1 .. MaxBlock : pmm_free_block(start, n)
  <2>1. PICK start \in Frames, n \in 1 .. MaxBlock : pmm_free_block(start, n)
    BY <1>4
  <2> DEFINE B == {f \in start .. start + n - 1 : ~pmm_is_frame_free(f)}
  <2>2. B \in SUBSET Frames
    BY <2>1 DEF pmm_free_block, CallerMayFree, TypeOK
  <2>3. B \in SUBSET bitmap
    BY <2>2, PmmAssumption DEF pmm_is_frame_free, Frames
  <2>4. B \cap Frames = B
    BY <2>2
  <2>5. pmm_mark_free(B) /\ free_frame_count' = free_frame_count + Cardinality(B)
    BY <2>1, <2>4 DEF pmm_free_block
  <2> QED
    BY <2>1, <2>3, <2>5, CountFree DEF pmm_free_block
<1>5. CASE \E start \in Frames : pmm_free_block_panic(start)
  BY <1>5 DEF pmm_free_block_panic, FreeCountExact
<1>6. CASE \E address \in 0 .. AddrSpace - 1, n \in 1 .. MaxBlock :
             pmm_reserve_block(address, n * PageSize - 1)
  <2>1. PICK address, size : pmm_reserve_block(address, size)
    BY <1>6
  <2> DEFINE F == {f \in Block(address, size) : pmm_is_frame_free(f)}
  <2>2. F \in SUBSET Frames /\ F \cap bitmap = {}
    BY BlockType DEF pmm_is_frame_free
  <2>3. pmm_mark_used(F) /\ free_frame_count' = free_frame_count - Cardinality(F)
    BY <2>1 DEF pmm_reserve_block
  <2> QED
    BY <2>1, <2>2, <2>3, CountUsed DEF pmm_reserve_block
<1>7. CASE UNCHANGED vars
  BY <1>7 DEF vars, FreeCountExact
<1> QED
  BY <1>1, <1>2, <1>3, <1>4, <1>5, <1>6, <1>7
  DEF Next, pmm_alloc_frame_oom, Halted

\* The free count that pmm_get_stats reports is exact, provided the usable
\* entries of the E820 map do not overlap.
THEOREM FreeCountCorrect ==
  ASSUME DisjointMaps
  PROVE  Spec => []FreeCountExact
<1>1. Inv /\ CountInv /\ [Next]_vars => CountInv'
  BY NextCount
<1>2. CountInv => FreeCountExact
  BY DEF CountInv
<1> QED
  BY <1>1, <1>2, InitInv, NextInv, InitCount, PTL DEF Spec

-----------------------------------------------------------------------------
(* The pool is usable memory *)

\* Usable regions begin at a page below 4GB.  (They may end anywhere; a region
\* beyond 4GB would be taken for one below it.)
AlignedMaps ==
  \A m \in MemoryMaps : \A i \in DOMAIN m :
    m[i].type = Usable =>
      m[i].base < AddrSpace /\ \E k \in Nat : m[i].base = k * PageSize

\* Address a is in a region that the map declares usable.
UsableAddress(a) ==
  \E i \in DOMAIN memory_map :
    LET e == memory_map[i]
    IN  e.type = Usable /\ e.base <= a /\ a < e.base + e.length

UsableFrame(f) ==
  \A a \in f * PageSize .. (f + 1) * PageSize - 1 : UsableAddress(a)

\* What pmm_init has freed so far is usable, and so is the pool.
PoolInv ==
  /\ phase = "e820" => \A f \in Frames \ bitmap : UsableFrame(f)
  /\ \A f \in pool : UsableFrame(f)

\* Dividing by the page size rounds down.
LEMMA RoundDown ==
  ASSUME NEW n \in Nat, NEW p \in Nat \ {0}
  PROVE  n \div p \in Nat /\ (n \div p) * p <= n
OBVIOUS

\* A page-aligned address is that of its frame.
LEMMA Exact ==
  ASSUME NEW k \in Nat, NEW p \in Nat \ {0}
  PROVE  (k * p) \div p = k
OBVIOUS

\* Truncation does not enlarge.
LEMMA Truncate ==
  ASSUME NEW n \in Nat, NEW p \in Nat \ {0}
  PROVE  n % p \in Nat /\ n % p <= n /\ (n < p => n % p = n)
OBVIOUS

\* The frames freed for an entry lie inside it, the length rounded down.
LEMMA EntryInside ==
  ASSUME NEW e \in Entry, e.base < AddrSpace,
         NEW k \in Nat, e.base = k * PageSize,
         NEW f \in EntryFrames(e),
         NEW a \in f * PageSize .. (f + 1) * PageSize - 1
  PROVE  e.base <= a /\ a < e.base + e.length
<1> DEFINE num == (e.length % AddrSpace) \div PageSize
<1>0. /\ PageSize \in Nat \ {0} /\ TotalFrames \in Nat \ {0}
      /\ e.base \in Nat /\ e.length \in Nat
  BY PmmAssumption DEF Entry
<1>1. AddrSpace \in Nat \ {0}
  BY <1>0 DEF AddrSpace
<1>2. e.base % AddrSpace = k * PageSize /\ e.length % AddrSpace \in Nat
      /\ e.length % AddrSpace <= e.length
  BY <1>0, <1>1, Truncate
<1>3. (e.base % AddrSpace) \div PageSize = k
  BY <1>0, <1>2, Exact
<1>4. num \in Nat /\ num * PageSize <= e.length
  BY <1>0, <1>2, RoundDown
<1>5. f \in Int /\ k <= f /\ f < k + num
  BY <1>3 DEF EntryFrames, Frames
<1> HIDE DEF num
<1>6. k * PageSize <= f * PageSize /\ (f + 1) * PageSize <= (k + num) * PageSize
  BY <1>0, <1>4, <1>5
<1>7. (k + num) * PageSize = k * PageSize + num * PageSize
  BY <1>0, <1>4
<1> QED
  BY <1>0, <1>4, <1>5, <1>6, <1>7

\* Before the map is read nothing is free.
LEMMA InitPool == Init => PoolInv
BY DEF Init, PoolInv

\* Entries free frames inside them; the pool is what they freed, less the
\* fixed regions, and nothing enters it later.
LEMMA NextPool ==
  ASSUME AlignedMaps, Inv, PoolInv, [Next]_vars
  PROVE  PoolInv'
<1>0. TypeOK /\ memory_map \in MemoryMaps
  BY DEF Inv, TypeOK
<1>1. memory_map' = memory_map
  BY DEF Next, pmm_init_entry, pmm_init_reserve, pmm_alloc_frame, vars,
         pmm_alloc_frame_oom, pmm_free_block, pmm_free_block_panic,
         pmm_reserve_block, Halted
<1>2. \A f : UsableFrame(f) <=> UsableFrame(f)'
  BY <1>1 DEF UsableFrame, UsableAddress
<1>3. CASE pmm_init_entry
  <2> DEFINE e == memory_map[entry]
             F == IF e.type = Usable THEN EntryFrames(e) ELSE {}
  <2>1. entry \in DOMAIN memory_map /\ e \in Entry
    BY <1>0, <1>3, PmmAssumption DEF TypeOK, pmm_init_entry
  <2>2. ASSUME NEW f \in F
        PROVE  UsableFrame(f)
    <3>1. e.type = Usable /\ f \in EntryFrames(e)
      BY <2>2
    <3>2. PICK k \in Nat : e.base < AddrSpace /\ e.base = k * PageSize
      BY <1>0, <2>1, <3>1 DEF AlignedMaps
    <3> QED
      BY <2>1, <3>1, <3>2, EntryInside DEF UsableFrame, UsableAddress
  <2>3. phase = "e820" /\ pool' = pool /\ bitmap' = bitmap \ F
    BY <1>3 DEF pmm_init_entry, pmm_mark_free
  <2> HIDE DEF F
  <2> QED
    BY <1>2, <2>2, <2>3 DEF PoolInv
<1>4. CASE pmm_init_reserve
  <2>1. /\ phase = "e820" /\ phase' = "run" /\ bitmap \subseteq bitmap'
        /\ pool' = Frames \ bitmap'
    BY <1>4 DEF pmm_init_reserve, pmm_mark_used
  <2> QED
    BY <1>2, <2>1 DEF PoolInv
<1>5. CASE phase' # "e820" /\ pool' = pool
  BY <1>2, <1>5 DEF PoolInv
<1>6. CASE UNCHANGED vars
  BY <1>2, <1>6 DEF PoolInv, vars
<1> QED
  BY <1>3, <1>4, <1>5, <1>6
  DEF Next, pmm_alloc_frame, pmm_alloc_frame_oom, pmm_free_block,
      pmm_free_block_panic, pmm_reserve_block, Halted

\* Every byte of every frame in circulation is in a region that the E820 map
\* declares usable, provided the usable regions begin at a page below 4GB;
\* their lengths need not be multiples of a page.
THEOREM PoolCorrect ==
  ASSUME AlignedMaps
  PROVE  Spec => []PoolIsUsableRam
<1>1. Inv /\ PoolInv /\ [Next]_vars => PoolInv'
  BY NextPool
<1>2. PoolInv => PoolIsUsableRam
  BY DEF PoolInv, PoolIsUsableRam, UsableFrame, UsableAddress
<1> QED
  BY <1>1, <1>2, InitInv, NextInv, InitPool, PTL DEF Spec
=============================================================================
