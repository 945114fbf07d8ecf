-------------------------------- MODULE Heap --------------------------------
(***************************************************************************)
(* The kernel heap, src/memory/heap/heap.c: a first-fit allocator whose    *)
(* blocks are linked, in address order, by headers kept in front of them.  *)
(*                                                                         *)
(* hdr maps the address of every header on the list to its contents; the   *)
(* flag bit of size_and_free is the field free.  Every operation runs      *)
(* between irq_save and irq_restore, so each is one action.                *)
(***************************************************************************)
EXTENDS Integers, FiniteSets

CONSTANTS
  HeapStart, HeapSize,  \* HEAP_START and HEAP_SIZE, both 0x400000
  HeaderSize,           \* sizeof(struct block_header), 8
  Granule,              \* sizes are rounded up to a multiple of it, 4
  MinSplit,             \* smallest remainder that is split off, 24
  PointerSize,          \* sizeof(void *), 4
  UIntMod,              \* 2^32
  Requests,             \* the sizes callers ask for
  Alignments            \* the alignments callers ask for

NULL == 0
HeapEnd == HeapStart + HeapSize

ASSUME HeapAssumption ==
  /\ {HeapStart, HeaderSize, Granule, PointerSize, UIntMod} \subseteq Nat \ {0}
  /\ HeapSize \in Nat /\ MinSplit \in Nat
  /\ HeaderSize < HeapSize /\ HeaderSize <= MinSplit
  /\ UIntMod % Granule = 0
  /\ Requests \subseteq 0 .. UIntMod - 1
  /\ Alignments \subseteq 0 .. UIntMod - 1

VARIABLES
  hdr,
  live,     \* history: allocations not freed, [ptr, size, raw]
  halted    \* kernel_panic was called

vars == <<hdr, live, halted>>

Init ==
  /\ hdr = [a \in {HeapStart} |->
              [size |-> HeapSize - HeaderSize, free |-> TRUE, next |-> NULL]]
  /\ live = {}
  /\ halted = FALSE

-----------------------------------------------------------------------------
(* kmalloc *)

RoundDown(n) == n - (n % Granule)

\* requested_size rounded up, in 32 bits: the last values wrap to 0.
RoundUp(n) ==
  IF n % Granule # 0 THEN (n + (Granule - (n % Granule))) % UIntMod ELSE n

Fits(c, req) == hdr[c].free /\ hdr[c].size >= req

\* The walk over the list stops at the first block that fits.
FirstFit(c, req) ==
  /\ c \in DOMAIN hdr
  /\ Fits(c, req)
  /\ \A d \in DOMAIN hdr : Fits(d, req) => c <= d

TakeNoRemainderLink(c, req) ==
  IF hdr[c].size - req >= MinSplit
  THEN LET new_block == c + req + HeaderSize
       IN  [a \in DOMAIN hdr \cup {new_block} |->
              CASE a = c -> [size |-> req, free |-> FALSE, next |-> new_block]
                [] a = new_block ->
                     [size |-> hdr[c].size - req, free |-> TRUE,
                      next |-> hdr[c].next]
                [] OTHER -> hdr[a]]
  ELSE [hdr EXCEPT ![c].free = FALSE]

\* The list after block c is taken for req bytes, its remainder split off
\* as a free block of its own when it is large enough.
Take(c, req) ==
  IF hdr[c].size - req >= MinSplit
  THEN LET new_block == c + req + HeaderSize
       IN  [a \in DOMAIN hdr \cup {new_block} |->
              CASE a = c -> [size |-> req, free |-> FALSE, next |-> new_block]
                [] a = new_block ->
                     [size |-> hdr[c].size - req - HeaderSize, free |-> TRUE,
                      next |-> hdr[c].next]
                [] OTHER -> hdr[a]]
  ELSE [hdr EXCEPT ![c].free = FALSE]

kmalloc(n) ==
  /\ ~halted
  /\ \E c \in DOMAIN hdr :
       /\ FirstFit(c, RoundUp(n))
       /\ hdr' = Take(c, RoundUp(n))
       /\ live' = live \cup
            {[ptr |-> c + HeaderSize, size |-> n, raw |-> c + HeaderSize]}
  /\ UNCHANGED halted

\* NULL is returned.
kmalloc_fail(n) ==
  /\ ~halted
  /\ \A c \in DOMAIN hdr : ~Fits(c, RoundUp(n))
  /\ UNCHANGED vars

-----------------------------------------------------------------------------
(* kmalloc_aligned: a larger block, with the address kmalloc returned kept *)
(* in the pointer-sized cell in front of the aligned address.              *)

IsPowerOfTwo(n) == n # 0 /\ \E k \in 0 .. 30 : n = 2^k

Aligned(raw, alignment) ==
  LET offset == alignment + PointerSize
  IN  ((raw + offset - 1) \div alignment) * alignment

kmalloc_aligned(n, alignment) ==
  /\ ~halted
  /\ IsPowerOfTwo(alignment)
  /\ LET req == RoundUp((n + alignment + PointerSize) % UIntMod)
     IN  \E c \in DOMAIN hdr :
           /\ FirstFit(c, req)
           /\ hdr' = Take(c, req)
           /\ live' = live \cup
                {[ptr |-> Aligned(c + HeaderSize, alignment), size |-> n,
                  raw |-> c + HeaderSize]}
  /\ UNCHANGED halted

\* A bad alignment, or no block: NULL is returned.
kmalloc_aligned_fail(n, alignment) ==
  /\ ~halted
  /\ \/ ~IsPowerOfTwo(alignment)
     \/ \A c \in DOMAIN hdr :
          ~Fits(c, RoundUp((n + alignment + PointerSize) % UIntMod))
  /\ UNCHANGED vars

-----------------------------------------------------------------------------
(* kfree, for what kmalloc returned, and kfree_aligned, which first reads  *)
(* that address back.                                                      *)

\* Block a takes over the free block b behind it.
Absorb(H, a, b) ==
  [x \in DOMAIN H \ {b} |->
     IF x = a
     THEN [size |-> H[a].size + H[b].size + HeaderSize, free |-> TRUE,
           next |-> H[b].next]
     ELSE H[x]]

NoMergeForward(H, header) == H

MergeForward(H, header) ==
  LET next_block == H[header].next
  IN  IF next_block # NULL /\ H[next_block].free
      THEN Absorb(H, header, next_block)
      ELSE H

MergeBackwardBlind(H, header) ==
  IF \E q \in DOMAIN H : H[q].next = header
  THEN Absorb(H, CHOOSE q \in DOMAIN H : H[q].next = header, header)
  ELSE H

MergeBackward(H, header) ==
  IF \E q \in DOMAIN H : H[q].next = header /\ H[q].free
  THEN Absorb(H, CHOOSE q \in DOMAIN H : H[q].next = header, header)
  ELSE H

Panics(header) ==
  \/ header < HeapStart
  \/ header >= HeapEnd
  \/ hdr[header].free
  \/ hdr[header].size = 0

kfree(l) ==
  LET header == l.raw - HeaderSize
  IN  /\ ~halted
      /\ ~Panics(header)
      /\ hdr' = MergeBackward(
                  MergeForward([hdr EXCEPT ![header].free = TRUE], header),
                  header)
      /\ live' = live \ {l}
      /\ UNCHANGED halted

kfree_panic(l) ==
  /\ ~halted
  /\ Panics(l.raw - HeaderSize)
  /\ halted' = TRUE
  /\ UNCHANGED <<hdr, live>>

Next ==
  \/ \E n \in Requests : kmalloc(n) \/ kmalloc_fail(n)
  \/ \E n \in Requests, alignment \in Alignments :
       kmalloc_aligned(n, alignment) \/ kmalloc_aligned_fail(n, alignment)
  \/ \E l \in live : kfree(l) \/ kfree_panic(l)

Spec == Init /\ [][Next]_vars

-----------------------------------------------------------------------------
(* Properties *)

Header == [size : Nat, free : BOOLEAN, next : Nat]
EndOf(H, a) == a + HeaderSize + H[a].size

\* Headers and allocations keep their types in every operation of heap.c.
TypeOK ==
  /\ DOMAIN hdr \subseteq HeapStart .. HeapEnd - HeaderSize
  /\ \A a \in DOMAIN hdr : hdr[a] \in Header
  /\ \A l \in live : l \in [ptr : Nat, size : Nat, raw : Nat]
  /\ halted \in BOOLEAN

Tiles(H) ==
  /\ HeapStart \in DOMAIN H
  /\ \A a \in DOMAIN H :
       \/ H[a].next = NULL /\ EndOf(H, a) = HeapEnd
       \/ H[a].next = EndOf(H, a) /\ EndOf(H, a) \in DOMAIN H
  /\ \A a, b \in DOMAIN H : a < b => EndOf(H, a) <= b

\* The list tiles the heap: every block ends where the next header begins,
\* the last one at HEAP_END, whatever was split and merged before.
BlocksTile == Tiles(hdr)

\* kfree merges with both neighbours, so free blocks are never adjacent.
Coalesced ==
  \A a \in DOMAIN hdr :
    hdr[a].free /\ hdr[a].next # NULL => ~hdr[hdr[a].next].free

\* The used blocks are exactly those of the live allocations, one each.
UsedIsLive ==
  /\ {a + HeaderSize : a \in {b \in DOMAIN hdr : ~hdr[b].free}}
       = {l.raw : l \in live}
  /\ \A l, m \in live : l.raw = m.raw => l = m

\* What a caller may write, the hidden pointer of an aligned allocation
\* included, stays inside its own block, and with that away from every header
\* and every other allocation.
AllocationsInside ==
  \A l \in live :
    /\ l.raw - HeaderSize \in DOMAIN hdr
    /\ l.ptr = l.raw \/ l.ptr - PointerSize >= l.raw
    /\ l.ptr + l.size <= EndOf(hdr, l.raw - HeaderSize)

\* Once everything is freed the heap is one free block again: fragmentation
\* is never permanent (test.c:420).
HeapRestored ==
  live = {} => /\ DOMAIN hdr = {HeapStart}
               /\ hdr[HeapStart].free
               /\ hdr[HeapStart].size = HeapSize - HeaderSize
=============================================================================
