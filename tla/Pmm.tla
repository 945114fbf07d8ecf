-------------------------------- MODULE Pmm --------------------------------
(***************************************************************************)
(* The physical memory manager, src/memory/pmm/pmm.c.                      *)
(*                                                                         *)
(* The two bitmaps are the sets of their set bits: bitmap holds the frames *)
(* in use, summary_bitmap the words of bitmap that are completely full.    *)
(* Addresses are natural numbers, PageSize of them to a frame.  The        *)
(* 32-bit address space is exactly TotalFrames frames long, as in the code *)
(* (2^20 frames of 2^12 bytes), so truncating to uint32_t is % AddrSpace.  *)
(***************************************************************************)
EXTENDS Integers, Sequences, FiniteSets

CONSTANTS
  TotalFrames,        \* total_frames, 1048576 in the code
  WordBits,           \* frames per word of bitmap, 32 in the code
  PageSize,           \* 4096 in the code
  LowMem,             \* 0x100000, the first megabyte
  KernelEnd,          \* address of kernel_end
  HeapStart,          \* 0x400000
  HeapSize,           \* 0x400000
  MemoryMaps,         \* the E820 maps the BIOS may leave at 0x5000
  MaxBlock            \* bound: the longest block one call frees or reserves

Usable == 1
AddrSpace == TotalFrames * PageSize
Frames == 0 .. TotalFrames - 1
Entry == [base : Nat, length : Nat \ {0}, type : Nat]

ASSUME PmmAssumption ==
  /\ {TotalFrames, WordBits, PageSize} \subseteq Nat \ {0}
  /\ {LowMem, KernelEnd, HeapStart, HeapSize} \subseteq Nat
  /\ MaxBlock \in Nat
  /\ \A m \in MemoryMaps :
        DOMAIN m = 1 .. Len(m) /\ \A i \in DOMAIN m : m[i] \in Entry

VARIABLES
  bitmap, summary_bitmap, free_frame_count,
  phase,              \* "e820" and "run", or "halted" by kernel_panic
  memory_map,         \* what the BIOS left
  entry,              \* the next entry pmm_init reads
  held,               \* history: frames handed out and not given back
  pool                \* history: frames free when pmm_init returned

vars == <<bitmap, summary_bitmap, free_frame_count, phase, memory_map,
          entry, held, pool>>

WordOf(f) == f \div WordBits
Words == {WordOf(f) : f \in Frames}
FramesOf(w) == {f \in Frames : WordOf(f) = w}

pmm_is_frame_free(f) == f < TotalFrames /\ f \notin bitmap

-----------------------------------------------------------------------------
(* Marking a set of frames, one pmm_mark_used or pmm_mark_free for each.   *)

MarkUsedNoSummary(F) ==
  /\ bitmap' = bitmap \cup F
  /\ UNCHANGED summary_bitmap

pmm_mark_used(F) ==
  /\ bitmap' = bitmap \cup F
  /\ summary_bitmap' = summary_bitmap \cup
        {w \in {WordOf(f) : f \in F} : FramesOf(w) \subseteq bitmap \cup F}

pmm_mark_free(F) ==
  /\ bitmap' = bitmap \ F
  /\ summary_bitmap' = summary_bitmap \ {WordOf(f) : f \in F}

-----------------------------------------------------------------------------
(* pmm_init: everything used, then every usable E820 entry freed, then the *)
(* fixed regions reserved.                                                 *)

Init ==
  /\ bitmap = Frames
  /\ summary_bitmap = Words
  /\ free_frame_count = 0
  /\ phase = "e820"
  /\ memory_map \in MemoryMaps
  /\ entry = 1
  /\ held = {}
  /\ pool = {}

EntryFramesPastEnd(e) ==
  LET starting_frame == (e.base % AddrSpace) \div PageSize
      num_frames == (e.length % AddrSpace) \div PageSize
  IN  {f \in Frames : starting_frame <= f /\ f <= starting_frame + num_frames}

EntryFrames(e) ==
  LET starting_frame == (e.base % AddrSpace) \div PageSize
      num_frames == (e.length % AddrSpace) \div PageSize
  IN  {f \in Frames : starting_frame <= f /\ f < starting_frame + num_frames}

pmm_init_entry ==
  /\ phase = "e820"
  /\ entry <= Len(memory_map)
  /\ LET e == memory_map[entry]
         F == IF e.type = Usable THEN EntryFrames(e) ELSE {}
     IN  /\ pmm_mark_free(F)
         /\ free_frame_count' = free_frame_count + Cardinality(F)
  /\ entry' = entry + 1
  /\ UNCHANGED <<phase, memory_map, held, pool>>

\* The frames of pmm_reserve_block(address, size), its round-up included.
Block(address, size) ==
  LET starting_frame == address \div PageSize
      num_frames == ((size + PageSize - 1) % AddrSpace) \div PageSize
  IN  {f \in Frames : starting_frame <= f /\ f < starting_frame + num_frames}

\* Frame 0 is in the first megabyte.
ASSUME LowMemAssumption == 0 \in Block(0, LowMem)

FixedRegions ==
  Block(0, LowMem)
    \cup (IF KernelEnd > LowMem THEN Block(LowMem, KernelEnd - LowMem) ELSE {})
    \cup Block(HeapStart, HeapSize)

pmm_init_reserve ==
  /\ phase = "e820"
  /\ entry > Len(memory_map)
  /\ LET F == {f \in FixedRegions : pmm_is_frame_free(f)}
     IN  /\ pmm_mark_used(F)
         /\ free_frame_count' = free_frame_count - Cardinality(F)
  /\ pool' = Frames \ bitmap'
  /\ phase' = "run"
  /\ UNCHANGED <<memory_map, entry, held>>

-----------------------------------------------------------------------------
(* The run-time interface.                                                 *)

pmm_alloc_frame_stale ==
  /\ phase = "run"
  /\ \E frame \in Frames \ {0} :
       /\ WordOf(frame) \notin summary_bitmap
       /\ \A g \in Frames \ {0} : pmm_is_frame_free(g) => frame <= g
       /\ pmm_mark_used({frame})
       /\ held' = held \cup {frame}
  /\ free_frame_count' = free_frame_count - 1
  /\ UNCHANGED <<phase, memory_map, entry, pool>>

\* The lowest clear bit, frame 0 skipped.
pmm_alloc_frame ==
  /\ phase = "run"
  /\ \E frame \in Frames \ {0} :
       /\ pmm_is_frame_free(frame)
       /\ \A g \in Frames \ {0} : pmm_is_frame_free(g) => frame <= g
       /\ pmm_mark_used({frame})
       /\ held' = held \cup {frame}
  /\ free_frame_count' = free_frame_count - 1
  /\ UNCHANGED <<phase, memory_map, entry, pool>>

\* No clear bit but perhaps that of frame 0: 0 is returned.
pmm_alloc_frame_oom ==
  /\ phase = "run"
  /\ \A g \in Frames \ {0} : ~pmm_is_frame_free(g)
  /\ UNCHANGED vars

\* Every caller frees blocks it got from pmm_alloc_frame or
\* pmm_reserve_block; frames of the block may be free already.
CallerMayFree(start, n) ==
  \A f \in start .. start + n - 1 : f \in held \/ pmm_is_frame_free(f)

pmm_free_block_noguard(start, n) ==
  /\ phase = "run"
  /\ CallerMayFree(start, n)
  /\ ~pmm_is_frame_free(start)
  /\ LET block == start .. start + n - 1
     IN  /\ pmm_mark_free(block \cap Frames)
         /\ free_frame_count' = free_frame_count + Cardinality(block)
         /\ held' = held \ block
  /\ UNCHANGED <<phase, memory_map, entry, pool>>

pmm_free_block(start, n) ==
  /\ phase = "run"
  /\ CallerMayFree(start, n)
  /\ ~pmm_is_frame_free(start)
  /\ LET block == {f \in start .. start + n - 1 : ~pmm_is_frame_free(f)}
     IN  /\ pmm_mark_free(block \cap Frames)
         /\ free_frame_count' = free_frame_count + Cardinality(block)
         /\ held' = held \ block
  /\ UNCHANGED <<phase, memory_map, entry, pool>>

\* Freeing a free frame: kernel_panic, which halts.
pmm_free_block_panic(start) ==
  /\ phase = "run"
  /\ pmm_is_frame_free(start)
  /\ phase' = "halted"
  /\ UNCHANGED <<bitmap, summary_bitmap, free_frame_count, memory_map, entry,
                 held, pool>>

\* What it newly reserves is the caller's to free.
pmm_reserve_block(address, size) ==
  /\ phase = "run"
  /\ LET F == {f \in Block(address, size) : pmm_is_frame_free(f)}
     IN  /\ pmm_mark_used(F)
         /\ free_frame_count' = free_frame_count - Cardinality(F)
         /\ held' = held \cup F
  /\ UNCHANGED <<phase, memory_map, entry, pool>>

\* for (;;) hlt at the end of kernel_panic.
Halted ==
  /\ phase = "halted"
  /\ UNCHANGED vars

Next ==
  \/ pmm_init_entry
  \/ pmm_init_reserve
  \/ pmm_alloc_frame
  \/ pmm_alloc_frame_oom
  \/ \E start \in Frames, n \in 1 .. MaxBlock : pmm_free_block(start, n)
  \/ \E start \in Frames : pmm_free_block_panic(start)
  \/ \E address \in 0 .. AddrSpace - 1, n \in 1 .. MaxBlock :
        pmm_reserve_block(address, n * PageSize - 1)
  \/ Halted

Spec == Init /\ [][Next]_vars

-----------------------------------------------------------------------------
(* Properties *)

\* The state keeps its type in every operation of pmm.c.
TypeOK ==
  /\ bitmap \in SUBSET Frames
  /\ summary_bitmap \in SUBSET Words
  /\ free_frame_count \in Int
  /\ phase \in {"e820", "run", "halted"}
  /\ memory_map \in MemoryMaps
  /\ entry \in Nat \ {0}
  /\ held \in SUBSET Frames
  /\ pool \in SUBSET Frames

\* pmm.c:16: a summary bit is 1 exactly when its block of frames is full,
\* through any mix of marking used and free.
SummaryExact ==
  \A w \in Words : w \in summary_bitmap <=> FramesOf(w) \subseteq bitmap

\* pmm_get_stats reports free_frame_count: it is the number of clear bits,
\* at boot and after every allocation, (partial) free and (re)reservation.
FreeCountExact == free_frame_count = Cardinality(Frames \ bitmap)

\* Every frame that was free at boot is free or held by exactly one caller,
\* and no other frame ever enters circulation: nothing leaks and nothing
\* is handed out twice; frame 0 and the fixed regions are never handed out.
FramesConserved ==
  phase # "e820" =>
    /\ held \cap (Frames \ bitmap) = {}
    /\ held \cup (Frames \ bitmap) = pool
    /\ pool \cap FixedRegions = {}
    /\ 0 \notin pool

\* Every byte of a frame in circulation belongs to a region that the E820
\* map declares usable (pmm.c:84: "identify usable physical RAM regions").
PoolIsUsableRam ==
  \A f \in pool : \A a \in f * PageSize .. (f + 1) * PageSize - 1 :
    \E i \in DOMAIN memory_map :
      LET e == memory_map[i]
      IN  e.type = Usable /\ e.base <= a /\ a < e.base + e.length

=============================================================================
