------------------------------ MODULE HeapProof ------------------------------
(***************************************************************************)
(* Proofs about Heap, for any heap size, header size, granule and split    *)
(* threshold and for any requests, those that wrap included.               *)
(***************************************************************************)
EXTENDS Heap, TLAPS

\* A well-formed list: every header in range and of its type, tiling the
\* heap.  Where the block list is a chain, "ends no later than HeapEnd" would
\* need an induction along it, so it is part of the invariant.
WellFormed(H) ==
  /\ \A a \in DOMAIN H : a \in Nat /\ a >= HeapStart /\ H[a] \in Header
  /\ \A a \in DOMAIN H : EndOf(H, a) <= HeapEnd
  /\ Tiles(H)

\* A rounded request is a natural number, even where rounding wraps.
LEMMA RoundUpType ==
  ASSUME NEW n \in 0 .. UIntMod - 1
  PROVE  RoundUp(n) \in Nat
BY HeapAssumption DEF RoundUp

\* Splitting off the remainder, or not, keeps the list well-formed.
LEMMA TakeWellFormed ==
  ASSUME WellFormed(hdr), NEW req \in Nat, NEW c \in DOMAIN hdr,
         hdr[c].size >= req
  PROVE  /\ WellFormed(Take(c, req))
         /\ \A a \in DOMAIN hdr \ {c} : a \in DOMAIN Take(c, req)
                                         /\ Take(c, req)[a] = hdr[a]
         /\ c \in DOMAIN Take(c, req) /\ ~Take(c, req)[c].free
<1> DEFINE T == Take(c, req)
           nb == c + req + HeaderSize
<1>0. c \in Nat /\ c >= HeapStart /\ hdr[c] \in Header /\ hdr[c].size \in Nat /\ hdr[c].next \in Nat
      /\ HeaderSize \in Nat \ {0} /\ MinSplit \in Nat /\ HeaderSize <= MinSplit
      /\ HeapStart \in Nat \ {0}
  BY HeapAssumption DEF WellFormed, Header
<1>1. CASE ~(hdr[c].size - req >= MinSplit)
  <2>1. T = [hdr EXCEPT ![c].free = FALSE]
    BY <1>1 DEF Take
  <2>2. /\ DOMAIN T = DOMAIN hdr
        /\ \A a \in DOMAIN hdr : /\ T[a] \in Header
                                 /\ T[a].size = hdr[a].size
                                 /\ T[a].next = hdr[a].next
        /\ \A a \in DOMAIN hdr \ {c} : T[a] = hdr[a]
        /\ ~T[c].free
    <3>1. /\ [hdr[c] EXCEPT !.free = FALSE] \in Header
          /\ [hdr[c] EXCEPT !.free = FALSE].size = hdr[c].size
          /\ [hdr[c] EXCEPT !.free = FALSE].next = hdr[c].next
          /\ [hdr[c] EXCEPT !.free = FALSE].free = FALSE
      BY <1>0, Zenon DEF Header
    <3>2. /\ DOMAIN T = DOMAIN hdr
          /\ T[c] = [hdr[c] EXCEPT !.free = FALSE]
          /\ \A a \in DOMAIN hdr \ {c} : T[a] = hdr[a]
      BY <2>1
    <3> QED
      BY <3>1, <3>2, Zenon DEF WellFormed
  <2> HIDE DEF T
  <2>3. \A a \in DOMAIN hdr : EndOf(T, a) = EndOf(hdr, a)
    BY <2>2 DEF EndOf
  <2> QED
    BY <2>2, <2>3 DEF WellFormed, Tiles, T
<1>2. CASE hdr[c].size - req >= MinSplit
  <2>1. T = [a \in DOMAIN hdr \cup {nb} |->
              CASE a = c -> [size |-> req, free |-> FALSE, next |-> nb]
                [] a = nb ->
                     [size |-> hdr[c].size - req - HeaderSize, free |-> TRUE,
                      next |-> hdr[c].next]
                [] OTHER -> hdr[a]]
    BY <1>2 DEF Take
  <2>2. nb \in Nat /\ nb > c /\ nb < EndOf(hdr, c)
    BY <1>0, <1>2 DEF EndOf
  <2>3. nb \notin DOMAIN hdr
    <3>1. EndOf(hdr, c) \in Nat
      BY <1>0 DEF EndOf
    <3>2. nb \in DOMAIN hdr => EndOf(hdr, c) <= nb
      BY <2>2 DEF WellFormed, Tiles
    <3> QED
      BY <2>2, <3>1, <3>2
  <2>4. /\ DOMAIN T = DOMAIN hdr \cup {nb}
        /\ T[c] = [size |-> req, free |-> FALSE, next |-> nb]
        /\ T[nb] = [size |-> hdr[c].size - req - HeaderSize, free |-> TRUE,
                    next |-> hdr[c].next]
        /\ \A a \in DOMAIN hdr \ {c} : T[a] = hdr[a]
    BY <2>1, <2>2, <2>3
  <2> HIDE DEF T
  <2>5. T[c] \in Header /\ T[nb] \in Header
    BY <1>0, <1>2, <2>2, <2>4 DEF Header
  <2>6. /\ EndOf(T, c) = nb
        /\ EndOf(T, nb) = EndOf(hdr, c)
        /\ \A a \in DOMAIN hdr \ {c} : EndOf(T, a) = EndOf(hdr, a)
    BY <1>0, <2>4 DEF EndOf
  <2>7. \A a \in DOMAIN T : a \in Nat /\ a >= HeapStart /\ T[a] \in Header
    <3>1. nb >= HeapStart
      BY <1>0, <2>2
    <3>2. \A a \in DOMAIN hdr \ {c} :
            a \in Nat /\ a >= HeapStart /\ T[a] \in Header
      BY <2>4 DEF WellFormed
    <3> HIDE DEF nb
    <3> QED
      BY <1>0, <2>2, <2>4, <2>5, <3>1, <3>2, Zenon
  <2>8. \A a \in DOMAIN T : EndOf(T, a) <= HeapEnd
    <3>1. EndOf(hdr, c) \in Nat /\ HeapEnd \in Nat /\ EndOf(hdr, c) <= HeapEnd
      BY <1>0, HeapAssumption DEF EndOf, HeapEnd, WellFormed
    <3> QED
      BY <2>2, <2>4, <2>6, <3>1 DEF WellFormed
  <2>9. ASSUME NEW a \in DOMAIN T
        PROVE  \/ T[a].next = NULL /\ EndOf(T, a) = HeapEnd
               \/ T[a].next = EndOf(T, a) /\ EndOf(T, a) \in DOMAIN T
    <3>1. CASE a = c
      BY <2>4, <2>6, <3>1
    <3>2. CASE a = nb
      BY <2>4, <2>6, <3>2 DEF WellFormed, Tiles
    <3>3. CASE a \in DOMAIN hdr \ {c}
      BY <2>4, <2>6, <3>3 DEF WellFormed, Tiles
    <3> QED
      BY <2>4, <3>1, <3>2, <3>3
  <2>10. ASSUME NEW a \in DOMAIN T, NEW b \in DOMAIN T, a < b
         PROVE  EndOf(T, a) <= b
    <3>0. \A x, y \in DOMAIN hdr : x < y => EndOf(hdr, x) <= y
      BY DEF WellFormed, Tiles
    <3>1. CASE a = c /\ b = nb
      BY <2>2, <2>6, <3>1
    <3>2. CASE a = c /\ b \in DOMAIN hdr
      <4>1. EndOf(hdr, c) <= b /\ b \in Nat
        BY <2>10, <3>0, <3>2 DEF WellFormed
      <4>2. EndOf(hdr, c) \in Nat
        BY <1>0 DEF EndOf
      <4> QED
        BY <2>2, <2>6, <3>2, <4>1, <4>2
    <3>3. CASE a = nb /\ b \in DOMAIN hdr
      <4>1. b > c
        BY <1>0, <2>2, <2>10, <3>3 DEF WellFormed
      <4> QED
        BY <2>6, <3>0, <3>3, <4>1
    <3>4. CASE a \in DOMAIN hdr \ {c} /\ b = nb
      <4>1. a \in Nat /\ a < nb
        BY <2>10, <3>4 DEF WellFormed
      <4>2. a < c
        <5> SUFFICES ASSUME a > c PROVE FALSE
          BY <1>0, <3>4, <4>1
        <5>1. EndOf(hdr, c) <= a
          BY <3>0, <3>4
        <5>2. EndOf(hdr, c) \in Nat
          BY <1>0 DEF EndOf
        <5> QED
          BY <2>2, <4>1, <5>1, <5>2
      <4>3. EndOf(hdr, a) <= c
        BY <3>0, <3>4, <4>2
      <4>4. EndOf(hdr, a) \in Nat
        BY <1>0, <3>4 DEF EndOf, WellFormed, Header
      <4> QED
        BY <1>0, <2>2, <2>6, <3>4, <4>3, <4>4
    <3>5. CASE a \in DOMAIN hdr \ {c} /\ b \in DOMAIN hdr
      BY <2>6, <2>10, <3>0, <3>5
    <3>6. CASE a = nb /\ b = nb
      BY <2>2, <2>10, <3>6
    <3> QED
      BY <2>4, <3>1, <3>2, <3>3, <3>4, <3>5, <3>6
  <2>11. HeapStart \in DOMAIN T
    BY <2>4 DEF WellFormed, Tiles
  <2>12. WellFormed(T)
    BY <2>7, <2>8, <2>9, <2>10, <2>11 DEF WellFormed, Tiles
  <2> QED
    BY <2>4, <2>12 DEF T
<1> QED
  BY <1>1, <1>2

-----------------------------------------------------------------------------
(* Merging *)

Used(H) == {a \in DOMAIN H : ~H[a].free}

NoAdjacentFree(H) ==
  \A a \in DOMAIN H : H[a].free /\ H[a].next # NULL => ~H[H[a].next].free

\* A block has one predecessor, in front of it.
LEMMA OnePredecessor ==
  ASSUME NEW H, WellFormed(H), NEW a \in DOMAIN H, NEW b \in DOMAIN H,
         H[a].next = b
  PROVE  /\ b = EndOf(H, a) /\ a < b
         /\ \A x \in DOMAIN H : H[x].next = b => x = a
         /\ \A x \in DOMAIN H : x # a => EndOf(H, x) # b
<1>0. \A x \in DOMAIN H : /\ x \in Nat /\ x >= HeapStart
                          /\ H[x].size \in Nat /\ H[x].next \in Nat
                          /\ EndOf(H, x) = x + HeaderSize + H[x].size
  BY DEF WellFormed, Header, EndOf
<1>1. HeaderSize \in Nat \ {0} /\ HeapStart \in Nat \ {0}
  BY HeapAssumption
<1>2. \A x \in DOMAIN H : x < EndOf(H, x) /\ EndOf(H, x) \in Nat
  BY <1>0, <1>1
<1>3. b # NULL
  BY <1>0, <1>1 DEF NULL
<1>4. \A x \in DOMAIN H : H[x].next = b => EndOf(H, x) = b
  BY <1>3 DEF WellFormed, Tiles
<1>5. ASSUME NEW x \in DOMAIN H, x # a, EndOf(H, x) = b PROVE FALSE
  <2>1. \A y, z \in DOMAIN H : y < z => EndOf(H, y) <= z
    BY DEF WellFormed, Tiles
  <2>2. x < a \/ a < x
    BY <1>0, <1>5
  <2> QED
    BY <1>0, <1>2, <1>4, <1>5, <2>1, <2>2
<1> QED
  BY <1>2, <1>4, <1>5

\* Absorbing the next block into its predecessor (heap.c:93-97) keeps the list
\* well-formed.
LEMMA AbsorbWellFormed ==
  ASSUME NEW H, WellFormed(H), NEW a \in DOMAIN H, NEW b \in DOMAIN H,
         H[a].next = b, H[a].free, H[b].free
  PROVE  LET A == Absorb(H, a, b)
         IN  /\ WellFormed(A)
             /\ DOMAIN A = DOMAIN H \ {b}
             /\ A[a].free /\ A[a].next = H[b].next
             /\ \A x \in DOMAIN A \ {a} : A[x] = H[x]
             /\ Used(A) = Used(H)
<1> DEFINE A == Absorb(H, a, b)
<1>0. \A x \in DOMAIN H : /\ x \in Nat /\ x >= HeapStart
                          /\ H[x].size \in Nat /\ H[x].next \in Nat
                          /\ EndOf(H, x) \in Nat /\ x < EndOf(H, x)
  BY HeapAssumption DEF WellFormed, Header, EndOf
<1>1. /\ b = EndOf(H, a) /\ a < b
      /\ \A x \in DOMAIN H : x # a => EndOf(H, x) # b
  BY OnePredecessor
<1>2. /\ DOMAIN A = DOMAIN H \ {b}
      /\ A[a] = [size |-> H[a].size + H[b].size + HeaderSize, free |-> TRUE,
                 next |-> H[b].next]
      /\ \A x \in DOMAIN A \ {a} : A[x] = H[x]
  BY <1>0, <1>1 DEF Absorb
<1> HIDE DEF A
<1>3. A[a] \in Header /\ a \in DOMAIN A
  BY <1>0, <1>1, <1>2, HeapAssumption DEF Header
<1>4. /\ EndOf(A, a) = EndOf(H, b)
      /\ \A x \in DOMAIN A \ {a} : EndOf(A, x) = EndOf(H, x)
  <2>1. A[a].size = H[a].size + H[b].size + HeaderSize
    BY <1>2
  <2> QED
    BY <1>0, <1>1, <1>2, <2>1, HeapAssumption DEF EndOf
<1>5. \A x \in DOMAIN A : x \in Nat /\ x >= HeapStart /\ A[x] \in Header
  BY <1>2, <1>3, Zenon DEF WellFormed
<1>6. \A x \in DOMAIN A : EndOf(A, x) <= HeapEnd
  BY <1>2, <1>4 DEF WellFormed
<1>7. HeapStart \in DOMAIN A
  <2>1. HeapStart \in DOMAIN H /\ HeapStart \in Nat
    BY HeapAssumption DEF WellFormed, Tiles
  <2> QED
    BY <1>0, <1>1, <1>2, <2>1
<1>8. ASSUME NEW x \in DOMAIN A
      PROVE  \/ A[x].next = NULL /\ EndOf(A, x) = HeapEnd
             \/ A[x].next = EndOf(A, x) /\ EndOf(A, x) \in DOMAIN A
  <2>1. CASE x = a
    <3>1. EndOf(H, b) # b
      BY <1>0
    <3> QED
      BY <1>2, <1>4, <2>1, <3>1 DEF WellFormed, Tiles
  <2>2. CASE x # a
    BY <1>1, <1>2, <1>4, <2>2 DEF WellFormed, Tiles
  <2> QED
    BY <2>1, <2>2
<1>9. ASSUME NEW x \in DOMAIN A, NEW y \in DOMAIN A, x < y
      PROVE  EndOf(A, x) <= y
  <2>0. \A u, v \in DOMAIN H : u < v => EndOf(H, u) <= v
    BY DEF WellFormed, Tiles
  <2>1. CASE x = a
    <3>1. b <= y /\ y # b /\ y \in DOMAIN H
      BY <1>1, <1>2, <1>9, <2>0, <2>1
    <3>2. b < y
      BY <1>0, <3>1
    <3> QED
      BY <1>4, <2>0, <2>1, <3>1, <3>2
  <2>2. CASE x # a
    BY <1>2, <1>4, <1>9, <2>0, <2>2
  <2> QED
    BY <2>1, <2>2
<1>10. WellFormed(A)
  BY <1>5, <1>6, <1>7, <1>8, <1>9 DEF WellFormed, Tiles
<1>11. Used(A) = Used(H)
  BY <1>2, <1>3 DEF Used
<1> QED
  BY <1>2, <1>10, <1>11 DEF A

\* The next block of a well-formed list is on the list, behind.
LEMMA NextOnList ==
  ASSUME NEW H, WellFormed(H), NEW a \in DOMAIN H, H[a].next # NULL
  PROVE  H[a].next \in DOMAIN H /\ a < H[a].next
<1>1. H[a].next = EndOf(H, a) /\ H[a].next \in DOMAIN H
  BY DEF WellFormed, Tiles
<1> QED
  BY <1>1, OnePredecessor

\* kfree marks the block free and merges it with both neighbours: the list
\* stays well-formed and without adjacent free blocks, and every other used
\* block stays as it was.
LEMMA FreeWellFormed ==
  ASSUME WellFormed(hdr), NoAdjacentFree(hdr),
         NEW h \in DOMAIN hdr, ~hdr[h].free
  PROVE  LET F == MergeBackward(
                    MergeForward([hdr EXCEPT ![h].free = TRUE], h), h)
         IN  /\ WellFormed(F) /\ NoAdjacentFree(F)
             /\ Used(F) = Used(hdr) \ {h}
             /\ \A x \in Used(F) : x \in DOMAIN hdr /\ F[x] = hdr[x]
<1> DEFINE H0 == [hdr EXCEPT ![h].free = TRUE]
           H1 == MergeForward(H0, h)
           H2 == MergeBackward(H1, h)
<1>1. /\ DOMAIN H0 = DOMAIN hdr
      /\ H0[h].size = hdr[h].size /\ H0[h].next = hdr[h].next /\ H0[h].free
      /\ H0[h] \in Header
      /\ \A x \in DOMAIN hdr \ {h} : H0[x] = hdr[x]
  <2>1. hdr[h] \in Header
    BY DEF WellFormed
  <2>2. /\ [hdr[h] EXCEPT !.free = TRUE] \in Header
        /\ [hdr[h] EXCEPT !.free = TRUE].size = hdr[h].size
        /\ [hdr[h] EXCEPT !.free = TRUE].next = hdr[h].next
        /\ [hdr[h] EXCEPT !.free = TRUE].free = TRUE
    BY <2>1, Zenon DEF Header
  <2>3. /\ DOMAIN H0 = DOMAIN hdr
        /\ H0[h] = [hdr[h] EXCEPT !.free = TRUE]
        /\ \A x \in DOMAIN hdr \ {h} : H0[x] = hdr[x]
    OBVIOUS
  <2> QED
    BY <2>2, <2>3, Zenon
<1> HIDE DEF H0
<1>2. WellFormed(H0)
  <2>1. \A x \in DOMAIN hdr : EndOf(H0, x) = EndOf(hdr, x)
                              /\ H0[x].next = hdr[x].next
    BY <1>1 DEF EndOf
  <2> QED
    BY <1>1, <2>1 DEF WellFormed, Tiles
<1>3. Used(H0) = Used(hdr) \ {h}
  BY <1>1 DEF Used
<1>4. /\ WellFormed(H1) /\ h \in DOMAIN H1 /\ H1[h].free
      /\ Used(H1) = Used(H0)
      /\ \A x \in DOMAIN H1 \ {h} : x \in DOMAIN hdr /\ H1[x] = hdr[x]
      /\ H1[h].next # NULL => ~H1[H1[h].next].free
  <2>1. CASE H0[h].next # NULL /\ H0[H0[h].next].free
    <3> DEFINE nx == H0[h].next
    <3>1. H1 = Absorb(H0, h, nx)
      BY <2>1 DEF MergeForward
    <3>2. nx \in DOMAIN H0 /\ h < nx /\ h \in Nat /\ nx \in Nat
      BY <1>1, <1>2, <2>1, NextOnList DEF WellFormed
    <3>3. /\ WellFormed(H1) /\ DOMAIN H1 = DOMAIN H0 \ {nx}
          /\ H1[h].free /\ H1[h].next = H0[nx].next
          /\ \A x \in DOMAIN H1 \ {h} : H1[x] = H0[x]
          /\ Used(H1) = Used(H0)
      BY <1>1, <1>2, <2>1, <3>1, <3>2, AbsorbWellFormed
    <3>4. h # nx /\ hdr[nx].free /\ H0[nx] = hdr[nx]
      BY <1>1, <2>1, <3>2
    <3>5. ASSUME H1[h].next # NULL
          PROVE  ~H1[H1[h].next].free
      <4> DEFINE z == hdr[nx].next
      <4>1. z = H1[h].next /\ z # NULL
        BY <3>3, <3>4, <3>5
      <4>2. z \in DOMAIN hdr /\ nx < z /\ z \in Nat
        BY <1>1, <3>2, <4>1, NextOnList DEF WellFormed
      <4>3. ~hdr[z].free
        BY <1>1, <3>2, <3>4, <4>1 DEF NoAdjacentFree
      <4>4. z # h /\ z # nx
        BY <3>2, <4>2
      <4> QED
        BY <1>1, <3>3, <4>1, <4>2, <4>3, <4>4
    <3> QED
      BY <1>1, <3>2, <3>3, <3>4, <3>5
  <2>2. CASE ~(H0[h].next # NULL /\ H0[H0[h].next].free)
    <3>1. H1 = H0
      BY <2>2 DEF MergeForward
    <3> HIDE DEF H1
    <3> QED
      BY <1>1, <1>2, <2>2, <3>1
  <2> QED
    BY <2>1, <2>2
<1> HIDE DEF H1
<1>5. CASE \E q \in DOMAIN H1 : H1[q].next = h /\ H1[q].free
  <2>1. PICK q \in DOMAIN H1 : H1[q].next = h /\ H1[q].free
    BY <1>5
  <2>2. \A x \in DOMAIN H1 : H1[x].next = h => x = q
    BY <1>4, <2>1, OnePredecessor
  <2>3. (CHOOSE x \in DOMAIN H1 : H1[x].next = h) = q
    BY <2>1, <2>2
  <2>4. H2 = Absorb(H1, q, h)
    BY <1>5, <2>3, Zenon DEF MergeBackward
  <2> HIDE DEF H2
  <2>5. /\ WellFormed(H2) /\ DOMAIN H2 = DOMAIN H1 \ {h}
        /\ H2[q].free /\ H2[q].next = H1[h].next
        /\ \A x \in DOMAIN H2 \ {q} : H2[x] = H1[x]
        /\ Used(H2) = Used(H1)
    BY <1>4, <2>1, <2>4, AbsorbWellFormed
  <2>6. q < h /\ q \in Nat /\ h \in Nat
    BY <1>4, <2>1, OnePredecessor DEF WellFormed
  <2>7. q \in DOMAIN hdr /\ hdr[q].free
    BY <1>4, <2>1, <2>6
  <2>8. ASSUME NEW x \in DOMAIN H2, H2[x].free, H2[x].next # NULL
        PROVE  ~H2[H2[x].next].free
    <3>1. CASE x = q
      <4> DEFINE z == H1[h].next
      <4>1. z # NULL /\ z = H2[x].next
        BY <2>5, <2>8, <3>1
      <4>2. z \in DOMAIN H1 /\ h < z /\ z \in Nat
        BY <1>4, <4>1, NextOnList DEF WellFormed
      <4>3. ~H1[z].free
        BY <1>4, <4>1
      <4>4. z # q /\ z # h
        BY <2>6, <4>2
      <4> QED
        BY <2>5, <4>1, <4>2, <4>3, <4>4
    <3>2. CASE x # q
      <4> DEFINE y == H2[x].next
      <4>1. x \in DOMAIN H1 /\ x # h /\ H2[x] = H1[x] /\ H1[x] = hdr[x]
            /\ x \in DOMAIN hdr
        BY <1>4, <2>5, <3>2
      <4>2. y \in DOMAIN H2
        BY <2>5, <2>8, NextOnList
      <4>3. ~hdr[y].free
        BY <2>8, <4>1 DEF NoAdjacentFree
      <4>4. y # q
        BY <2>7, <4>3
      <4> QED
        BY <1>4, <2>5, <4>2, <4>3, <4>4
    <3> QED
      BY <3>1, <3>2
  <2>9. \A x \in Used(H2) : x \in DOMAIN hdr /\ H2[x] = hdr[x]
    <3>1. \A x \in Used(H2) : x \in DOMAIN H2 /\ x # q
      BY <2>5 DEF Used
    <3> QED
      BY <1>4, <2>5, <3>1
  <2> QED
    BY <1>3, <1>4, <2>5, <2>8, <2>9, Zenon DEF NoAdjacentFree, H2, H1, H0
<1>6. CASE ~\E q \in DOMAIN H1 : H1[q].next = h /\ H1[q].free
  <2>1. H2 = H1
    BY <1>6 DEF MergeBackward
  <2> HIDE DEF H2
  <2>2. ASSUME NEW x \in DOMAIN H1, H1[x].free, H1[x].next # NULL
        PROVE  ~H1[H1[x].next].free
    <3>1. CASE x = h
      BY <1>4, <2>2, <3>1
    <3>2. CASE x # h
      <4>1. H1[x].next # h
        BY <1>6, <2>2
      <4>2. H1[x].next \in DOMAIN H1
        BY <1>4, <2>2, NextOnList
      <4>3. x \in DOMAIN hdr /\ H1[x] = hdr[x]
        BY <1>4, <3>2
      <4>4. ~hdr[hdr[x].next].free
        BY <2>2, <4>3 DEF NoAdjacentFree
      <4> QED
        BY <1>4, <4>1, <4>2, <4>3, <4>4
    <3> QED
      BY <3>1, <3>2
  <2>3. \A x \in Used(H1) : x \in DOMAIN hdr /\ H1[x] = hdr[x]
    BY <1>4 DEF Used
  <2> QED
    BY <1>3, <1>4, <2>1, <2>2, <2>3, Zenon DEF NoAdjacentFree, H2, H1, H0
<1> QED
  BY <1>5, <1>6, Zenon

-----------------------------------------------------------------------------
(* The invariant *)

Inv ==
  /\ WellFormed(hdr)
  /\ NoAdjacentFree(hdr)
  /\ UsedIsLive
  /\ \A l \in live : l \in [ptr : Nat, size : Nat, raw : Nat]
  /\ halted \in BOOLEAN

\* heap_init establishes the inductive invariant.
LEMMA InitInv == Init => Inv
<1> SUFFICES ASSUME Init PROVE Inv
  OBVIOUS
<1>1. /\ DOMAIN hdr = {HeapStart}
      /\ hdr[HeapStart] = [size |-> HeapSize - HeaderSize, free |-> TRUE,
                           next |-> NULL]
      /\ live = {} /\ halted = FALSE
  BY DEF Init
<1>2. hdr[HeapStart] \in Header /\ HeapStart \in Nat
  BY <1>1, HeapAssumption DEF Header, NULL
<1>3. EndOf(hdr, HeapStart) = HeapEnd /\ HeapEnd \in Nat
  BY <1>1, HeapAssumption DEF EndOf, HeapEnd
<1>4. WellFormed(hdr)
  <2>1. \A a \in DOMAIN hdr : a = HeapStart
    BY <1>1
  <2>2. hdr[HeapStart].next = NULL
    BY <1>1
  <2>3. Tiles(hdr)
    BY <1>1, <1>2, <1>3, <2>1, <2>2 DEF Tiles
  <2> QED
    BY <1>2, <1>3, <2>1, <2>3 DEF WellFormed
<1>5. NoAdjacentFree(hdr) /\ UsedIsLive
  BY <1>1 DEF NoAdjacentFree, UsedIsLive
<1> QED
  BY <1>1, <1>4, <1>5, Zenon DEF Inv

\* A new allocation l in block c, of at least req bytes.
LEMMA AllocInv ==
  ASSUME Inv, NEW req \in Nat, NEW c \in DOMAIN hdr, FirstFit(c, req),
         NEW l \in [ptr : Nat, size : Nat, raw : Nat],
         l.raw = c + HeaderSize,
         hdr' = Take(c, req), live' = live \cup {l}, UNCHANGED halted
  PROVE  Inv'
<1>1. hdr[c].free /\ hdr[c].size >= req
  BY DEF FirstFit, Fits
<1>2. /\ WellFormed(hdr')
      /\ \A a \in DOMAIN hdr \ {c} : a \in DOMAIN hdr' /\ hdr'[a] = hdr[a]
      /\ c \in DOMAIN hdr' /\ ~hdr'[c].free
  BY <1>1, TakeWellFormed DEF Inv
<1>3. /\ c \in Nat /\ hdr[c] \in Header /\ HeaderSize \in Nat \ {0}
      /\ HeapStart \in Nat \ {0}
  BY HeapAssumption DEF Inv, WellFormed
<1>4. \A a \in DOMAIN hdr' \ DOMAIN hdr :
        /\ a = c + req + HeaderSize
        /\ hdr'[a].free /\ hdr'[a].next = hdr[c].next
        /\ hdr'[c].next = a
  <2>1. CASE hdr[c].size - req >= MinSplit
    <3>1. DOMAIN hdr' = DOMAIN hdr \cup {c + req + HeaderSize}
      BY <2>1 DEF Take
    <3>2. c # c + req + HeaderSize
      BY <1>3
    <3>3. hdr'[c + req + HeaderSize] =
            [size |-> hdr[c].size - req - HeaderSize, free |-> TRUE,
             next |-> hdr[c].next]
      BY <2>1, <3>2 DEF Take
    <3>4. hdr'[c] = [size |-> req, free |-> FALSE, next |-> c + req + HeaderSize]
      BY <2>1, <3>1, <3>2 DEF Take
    <3> QED
      BY <3>1, <3>3, <3>4
  <2>2. CASE ~(hdr[c].size - req >= MinSplit)
    BY <2>2 DEF Take
  <2> QED
    BY <2>1, <2>2
<1>5. Used(hdr') = Used(hdr) \cup {c}
  BY <1>1, <1>2, <1>4 DEF Used
<1>6. NoAdjacentFree(hdr')
  <2> SUFFICES ASSUME NEW a \in DOMAIN hdr', hdr'[a].free, hdr'[a].next # NULL
               PROVE  ~hdr'[hdr'[a].next].free
    BY DEF NoAdjacentFree
  <2>1. CASE a \in DOMAIN hdr
    <3>1. a # c /\ hdr'[a] = hdr[a]
      BY <1>2, <2>1
    <3>2. hdr[a].next \in DOMAIN hdr
      BY <2>1, <3>1, NextOnList DEF Inv
    <3>3. ~hdr[hdr[a].next].free
      BY <2>1, <3>1 DEF Inv, NoAdjacentFree
    <3> QED
      BY <1>1, <1>2, <3>1, <3>2, <3>3
  <2>2. CASE a \notin DOMAIN hdr
    <3> DEFINE z == hdr[c].next
    <3>1. hdr'[a].next = z /\ z # NULL
      BY <1>4, <2>2
    <3>2. z \in DOMAIN hdr /\ c < z
      BY <3>1, NextOnList DEF Inv
    <3>3. ~hdr[z].free
      BY <1>1, <3>1 DEF Inv, NoAdjacentFree
    <3>4. z # c
      BY <1>1, <3>3
    <3> QED
      BY <1>2, <3>1, <3>2, <3>3, <3>4
  <2> QED
    BY <2>1, <2>2
<1>7. UsedIsLive'
  <2>1. {a + HeaderSize : a \in Used(hdr)} = {m.raw : m \in live}
        /\ \A m, n \in live : m.raw = n.raw => m = n
    BY DEF Inv, UsedIsLive, Used
  <2>2. \A m \in live : m.raw # c + HeaderSize
    <3>1. \A a \in Used(hdr) : a \in Nat /\ a # c
      BY <1>1 DEF Used, Inv, WellFormed
    <3>2. \A m \in live : \E a \in Used(hdr) : m.raw = a + HeaderSize
      BY <2>1
    <3> QED
      BY <1>3, <3>1, <3>2
  <2>3. {a + HeaderSize : a \in Used(hdr')} = {m.raw : m \in live'}
    BY <1>5, <2>1
  <2>4. \A m, n \in live' : m.raw = n.raw => m = n
    BY <2>1, <2>2
  <2> QED
    BY <2>3, <2>4, Zenon DEF UsedIsLive, Used
<1> QED
  BY <1>2, <1>6, <1>7 DEF Inv

\* The header kfree finds in front of a live allocation is on the list and
\* in use.
LEMMA LiveHeader ==
  ASSUME Inv, NEW l \in live
  PROVE  l.raw - HeaderSize \in Used(hdr)
<1>1. PICK a \in Used(hdr) : l.raw = a + HeaderSize
  BY DEF Inv, UsedIsLive, Used
<1>2. a \in Nat /\ HeaderSize \in Nat
  BY HeapAssumption DEF Inv, Used, WellFormed
<1> QED
  BY <1>1, <1>2

\* The address kmalloc_aligned returns lies behind the header and the saved
\* raw pointer.
LEMMA AlignedType ==
  ASSUME NEW raw \in Nat, NEW al \in Nat \ {0}
  PROVE  /\ Aligned(raw, al) \in Nat
         /\ Aligned(raw, al) >= raw + PointerSize
         /\ Aligned(raw, al) <= raw + al + PointerSize - 1
<1> DEFINE x == raw + (al + PointerSize) - 1
           q == x \div al
<1>1. x \in Nat /\ PointerSize \in Nat
  BY HeapAssumption
<1>2. q \in Nat /\ al * q <= x /\ x < al * q + al
  <2> HIDE DEF x
  <2> QED
    BY <1>1, SMTT(30)
<1>3. q * al = al * q /\ q * al \in Nat
  <2> HIDE DEF q
  <2> QED
    BY <1>2
<1>4. Aligned(raw, al) = q * al
  BY DEF Aligned
<1> HIDE DEF q
<1> QED
  BY <1>1, <1>2, <1>3, <1>4

\* Every call of the allocator keeps the inductive invariant.
LEMMA NextInv == Inv /\ [Next]_vars => Inv'
<1> SUFFICES ASSUME Inv, [Next]_vars PROVE Inv'
  OBVIOUS
<1>0. /\ \A c \in DOMAIN hdr : c \in Nat
      /\ HeaderSize \in Nat /\ PointerSize \in Nat /\ UIntMod \in Nat \ {0}
      /\ \A n \in Requests : n \in 0 .. UIntMod - 1
      /\ \A al \in Alignments : al \in Nat
  BY HeapAssumption DEF Inv, WellFormed
<1>1. ASSUME NEW n \in Requests, kmalloc(n)
      PROVE  Inv'
  <2>1. PICK c \in DOMAIN hdr :
          /\ FirstFit(c, RoundUp(n))
          /\ hdr' = Take(c, RoundUp(n))
          /\ live' = live \cup
               {[ptr |-> c + HeaderSize, size |-> n, raw |-> c + HeaderSize]}
    BY <1>1 DEF kmalloc
  <2>2. RoundUp(n) \in Nat
    BY <1>0, RoundUpType
  <2>3. [ptr |-> c + HeaderSize, size |-> n, raw |-> c + HeaderSize]
          \in [ptr : Nat, size : Nat, raw : Nat]
    BY <1>0
  <2>4. UNCHANGED halted
    BY <1>1 DEF kmalloc
  <2> QED
    BY <2>1, <2>2, <2>3, <2>4, AllocInv, Zenon
<1>2. ASSUME NEW n \in Requests, NEW al \in Alignments, kmalloc_aligned(n, al)
      PROVE  Inv'
  <2> DEFINE req == RoundUp((n + al + PointerSize) % UIntMod)
  <2>1. PICK c \in DOMAIN hdr :
          /\ FirstFit(c, req)
          /\ hdr' = Take(c, req)
          /\ live' = live \cup
               {[ptr |-> Aligned(c + HeaderSize, al), size |-> n,
                 raw |-> c + HeaderSize]}
    BY <1>2 DEF kmalloc_aligned
  <2>2. req \in Nat
    <3>1. (n + al + PointerSize) % UIntMod \in 0 .. UIntMod - 1
      BY <1>0
    <3> QED
      BY <3>1, RoundUpType
  <2>3. al \in Nat \ {0}
    BY <1>0, <1>2 DEF kmalloc_aligned, IsPowerOfTwo
  <2>4. Aligned(c + HeaderSize, al) \in Nat
    <3>1. c + HeaderSize \in Nat
      BY <1>0
    <3> QED
      BY <2>3, <3>1, AlignedType
  <2>5. [ptr |-> Aligned(c + HeaderSize, al), size |-> n, raw |-> c + HeaderSize]
          \in [ptr : Nat, size : Nat, raw : Nat]
    BY <1>0, <2>4
  <2>6. UNCHANGED halted
    BY <1>2 DEF kmalloc_aligned
  <2> HIDE DEF req
  <2> QED
    BY <2>1, <2>2, <2>5, <2>6, AllocInv, Zenon
<1>3. ASSUME NEW l \in live, kfree(l)
      PROVE  Inv'
  <2> DEFINE h == l.raw - HeaderSize
  <2>1. h \in DOMAIN hdr /\ ~hdr[h].free
    BY LiveHeader DEF Used
  <2>2. /\ WellFormed(hdr') /\ NoAdjacentFree(hdr')
        /\ Used(hdr') = Used(hdr) \ {h}
    BY <1>3, <2>1, FreeWellFormed, Zenon DEF kfree, Inv
  <2>3. live' = live \ {l} /\ UNCHANGED halted
    BY <1>3 DEF kfree
  <2>4. UsedIsLive'
    <3>1. {a + HeaderSize : a \in Used(hdr)} = {m.raw : m \in live}
          /\ \A m, n \in live : m.raw = n.raw => m = n
      BY DEF Inv, UsedIsLive, Used
    <3>2. \A a \in Used(hdr) : a \in Nat
      BY <1>0 DEF Used
    <3>3. l.raw \in Nat
      BY DEF Inv
    <3>4. \A a \in Used(hdr) : a + HeaderSize = l.raw <=> a = h
      BY <1>0, <3>2, <3>3
    <3>5. {a + HeaderSize : a \in Used(hdr')} = {m.raw : m \in live'}
      <4>1. \A a \in Used(hdr') : \E m \in live' : a + HeaderSize = m.raw
        BY <2>2, <2>3, <3>1, <3>4
      <4>2. \A m \in live' : \E a \in Used(hdr') : a + HeaderSize = m.raw
        BY <2>2, <2>3, <3>1, <3>4
      <4> QED
        BY <4>1, <4>2
    <3> QED
      BY <2>3, <3>1, <3>5 DEF UsedIsLive, Used
  <2> QED
    BY <2>2, <2>3, <2>4 DEF Inv
<1>4. ASSUME NEW l \in live, kfree_panic(l)
      PROVE  Inv'
  BY <1>4 DEF kfree_panic, Inv, UsedIsLive
<1>5. CASE UNCHANGED vars
  BY <1>5 DEF vars, Inv, UsedIsLive
<1> QED
  BY <1>1, <1>2, <1>3, <1>4, <1>5
  DEF Next, kmalloc_fail, kmalloc_aligned_fail

\* Headers and allocations keep their types.
THEOREM TypeCorrect == Spec => []TypeOK
<1>1. Inv => TypeOK
  <2> SUFFICES ASSUME Inv PROVE TypeOK
    OBVIOUS
  <2>1. ASSUME NEW a \in DOMAIN hdr
        PROVE  a \in HeapStart .. HeapEnd - HeaderSize /\ hdr[a] \in Header
    BY HeapAssumption DEF Inv, WellFormed, Header, EndOf, HeapEnd
  <2> QED
    BY <2>1 DEF Inv, TypeOK
<1> QED
  BY <1>1, InitInv, NextInv, PTL DEF Spec

\* The blocks tile the heap after any sequence of calls.
THEOREM TilingCorrect == Spec => []BlocksTile
<1>1. Inv => BlocksTile
  BY DEF Inv, WellFormed, BlocksTile
<1> QED
  BY <1>1, InitInv, NextInv, PTL DEF Spec

\* No two free blocks are ever adjacent.
THEOREM CoalescingCorrect == Spec => []Coalesced
<1>1. Inv => Coalesced
  BY DEF Inv, NoAdjacentFree, Coalesced
<1> QED
  BY <1>1, InitInv, NextInv, PTL DEF Spec

\* Every used block belongs to exactly one live allocation.
THEOREM NoLeak == Spec => []UsedIsLive
<1>1. Inv => UsedIsLive
  BY DEF Inv
<1> QED
  BY <1>1, InitInv, NextInv, PTL DEF Spec

\* Freeing everything gives back one block: tiling and coalescing together
\* leave no other shape for a heap without used blocks.
THEOREM RestoredCorrect == Spec => []HeapRestored
<1>1. Inv => HeapRestored
  <2> SUFFICES ASSUME Inv, live = {}
               PROVE  /\ DOMAIN hdr = {HeapStart}
                      /\ hdr[HeapStart].free
                      /\ hdr[HeapStart].size = HeapSize - HeaderSize
    BY DEF HeapRestored
  <2>1. \A a \in DOMAIN hdr : hdr[a].free
    <3>1. {a + HeaderSize : a \in {b \in DOMAIN hdr : ~hdr[b].free}} = {}
      BY DEF Inv, UsedIsLive
    <3> QED
      BY <3>1
  <2>2. HeapStart \in DOMAIN hdr
    BY DEF Inv, WellFormed, Tiles
  <2>3. hdr[HeapStart].next = NULL
    BY <2>1, <2>2, NextOnList DEF Inv, NoAdjacentFree
  <2>4. /\ \A a \in DOMAIN hdr : a \in Nat /\ a >= HeapStart
        /\ \A a \in DOMAIN hdr : EndOf(hdr, a) <= HeapEnd
        /\ \A a \in DOMAIN hdr : hdr[a] \in Header
        /\ HeapStart \in Nat \ {0} /\ HeaderSize \in Nat \ {0} /\ HeapSize \in Nat
    BY HeapAssumption DEF Inv, WellFormed
  <2>5. \A a \in DOMAIN hdr : a < EndOf(hdr, a)
    BY <2>4 DEF EndOf, Header
  <2>6. EndOf(hdr, HeapStart) = HeapEnd
    <3>1. EndOf(hdr, HeapStart) \in Nat /\ EndOf(hdr, HeapStart) > 0
      BY <2>2, <2>4 DEF EndOf, Header
    <3> QED
      BY <2>2, <2>3, <3>1 DEF Inv, WellFormed, Tiles, NULL
  <2>7. \A b \in DOMAIN hdr : b = HeapStart
    <3> SUFFICES ASSUME NEW b \in DOMAIN hdr, b # HeapStart PROVE FALSE
      OBVIOUS
    <3>1. HeapEnd <= b
      BY <2>2, <2>4, <2>6 DEF Inv, WellFormed, Tiles
    <3>2. EndOf(hdr, b) \in Nat /\ HeapEnd \in Nat
      BY <2>4 DEF EndOf, Header, HeapEnd
    <3> QED
      BY <2>4, <2>5, <3>1, <3>2
  <2>8. hdr[HeapStart].size = HeapSize - HeaderSize
    BY <2>2, <2>4, <2>6 DEF EndOf, HeapEnd, Header
  <2> QED
    BY <2>1, <2>2, <2>7, <2>8
<1> QED
  BY <1>1, InitInv, NextInv, PTL DEF Spec

-----------------------------------------------------------------------------
(* Allocations stay inside their blocks when no size computation wraps.    *)

\* No caller asks for a size so large that rounding it up, or adding the
\* room for the alignment, leaves the range of size_t.
NoWrap ==
  /\ \A n \in Requests : n + Granule <= UIntMod
  /\ \A n \in Requests, al \in Alignments :
       n + al + PointerSize + Granule <= UIntMod

\* A request that does not wrap is rounded up to at least itself.
LEMMA RoundUpCovers ==
  ASSUME NEW n \in Nat, n + Granule <= UIntMod
  PROVE  RoundUp(n) \in Nat /\ RoundUp(n) >= n
<1>1. Granule \in Nat \ {0} /\ UIntMod \in Nat \ {0}
  BY HeapAssumption
<1>2. n % Granule \in 0 .. Granule - 1
  BY <1>1
<1>3. CASE n % Granule # 0
  <2> DEFINE m == n + (Granule - (n % Granule))
  <2>1. m \in 0 .. UIntMod - 1 /\ m >= n
    BY <1>1, <1>2, <1>3
  <2>2. m % UIntMod = m
    <3> HIDE DEF m
    <3> QED
      BY <1>1, <2>1
  <2> QED
    BY <1>3, <2>1, <2>2 DEF RoundUp
<1>4. CASE n % Granule = 0
  BY <1>4 DEF RoundUp
<1> QED
  BY <1>3, <1>4

\* The block kmalloc takes is at least as large as the rounded request.
LEMMA TakeCovers ==
  ASSUME Inv, NEW req \in Nat, NEW c \in DOMAIN hdr, FirstFit(c, req)
  PROVE  Take(c, req)[c].size \in Nat /\ Take(c, req)[c].size >= req
<1>1. hdr[c].size \in Nat /\ hdr[c].size >= req /\ c \in Nat
      /\ HeaderSize \in Nat \ {0}
  BY HeapAssumption DEF Inv, WellFormed, Header, FirstFit, Fits
<1>2. CASE hdr[c].size - req >= MinSplit
  BY <1>1, <1>2 DEF Take
<1>3. CASE ~(hdr[c].size - req >= MinSplit)
  BY <1>1, <1>3 DEF Take
<1> QED
  BY <1>2, <1>3

\* A new allocation that fits req bytes behind the header is inside its
\* block, and the other allocations keep their blocks.
LEMMA AllocInside ==
  ASSUME Inv, AllocationsInside,
         NEW req \in Nat, NEW c \in DOMAIN hdr, FirstFit(c, req),
         NEW l \in [ptr : Nat, size : Nat, raw : Nat],
         l.raw = c + HeaderSize,
         l.ptr = l.raw \/ l.ptr - PointerSize >= l.raw,
         l.ptr + l.size <= l.raw + req,
         hdr' = Take(c, req), live' = live \cup {l}
  PROVE  AllocationsInside'
<1>1. hdr[c].free /\ hdr[c].size >= req
  BY DEF FirstFit, Fits
<1>2. /\ \A a \in DOMAIN hdr \ {c} : a \in DOMAIN hdr' /\ hdr'[a] = hdr[a]
      /\ c \in DOMAIN hdr'
  BY <1>1, TakeWellFormed DEF Inv
<1>3. c \in Nat /\ HeaderSize \in Nat /\ l.raw - HeaderSize = c
  BY HeapAssumption DEF Inv, WellFormed
<1>4. hdr'[c].size \in Nat /\ hdr'[c].size >= req
  BY TakeCovers
<1>5. ASSUME NEW m \in live
      PROVE  /\ m.raw - HeaderSize \in DOMAIN hdr'
             /\ hdr'[m.raw - HeaderSize] = hdr[m.raw - HeaderSize]
  BY <1>1, <1>2, LiveHeader DEF Used
<1>6. l.ptr + l.size <= EndOf(hdr', c)
  BY <1>3, <1>4 DEF EndOf
<1> QED
  BY <1>2, <1>3, <1>5, <1>6 DEF AllocationsInside, EndOf

\* What a caller may write stays inside its block after any sequence of
\* calls, provided that no request wraps size_t.
THEOREM InsideCorrect == ASSUME NoWrap PROVE Spec => []AllocationsInside
<1>1. Init => AllocationsInside
  BY DEF Init, AllocationsInside
<1>2. Inv /\ AllocationsInside /\ [Next]_vars => AllocationsInside'
  <2> SUFFICES ASSUME Inv, AllocationsInside, [Next]_vars
               PROVE  AllocationsInside'
    OBVIOUS
  <2>0. /\ \A c \in DOMAIN hdr : c \in Nat
        /\ HeaderSize \in Nat /\ PointerSize \in Nat /\ UIntMod \in Nat \ {0}
        /\ Granule \in Nat \ {0}
        /\ \A n \in Requests : n \in Nat
        /\ \A al \in Alignments : al \in Nat
    BY HeapAssumption DEF Inv, WellFormed
  <2>1. ASSUME NEW n \in Requests, kmalloc(n)
        PROVE  AllocationsInside'
    <3>1. PICK c \in DOMAIN hdr :
            /\ FirstFit(c, RoundUp(n))
            /\ hdr' = Take(c, RoundUp(n))
            /\ live' = live \cup
                 {[ptr |-> c + HeaderSize, size |-> n, raw |-> c + HeaderSize]}
      BY <2>1 DEF kmalloc
    <3>2. RoundUp(n) \in Nat /\ RoundUp(n) >= n
      BY <2>0, RoundUpCovers, NoWrap DEF NoWrap
    <3> DEFINE l == [ptr |-> c + HeaderSize, size |-> n, raw |-> c + HeaderSize]
    <3>3. /\ l \in [ptr : Nat, size : Nat, raw : Nat]
          /\ l.raw = c + HeaderSize /\ l.ptr = l.raw
          /\ l.ptr + l.size <= l.raw + RoundUp(n)
      BY <2>0, <3>2
    <3>4. live' = live \cup {l}
      BY <3>1
    <3> HIDE DEF l
    <3> QED
      BY <3>1, <3>2, <3>3, <3>4, AllocInside
  <2>2. ASSUME NEW n \in Requests, NEW al \in Alignments, kmalloc_aligned(n, al)
        PROVE  AllocationsInside'
    <3> DEFINE t == n + al + PointerSize
               req == RoundUp(t % UIntMod)
    <3>1. PICK c \in DOMAIN hdr :
            /\ FirstFit(c, req)
            /\ hdr' = Take(c, req)
            /\ live' = live \cup
                 {[ptr |-> Aligned(c + HeaderSize, al), size |-> n,
                   raw |-> c + HeaderSize]}
      BY <2>2 DEF kmalloc_aligned
    <3>2. t \in Nat /\ t + Granule <= UIntMod
      BY <2>0, NoWrap DEF NoWrap
    <3>3. t % UIntMod = t
      <4> HIDE DEF t
      <4> QED
        BY <2>0, <3>2
    <3>4. req \in Nat /\ req >= t
      <4> HIDE DEF t
      <4> QED
        BY <3>2, <3>3, RoundUpCovers
    <3>5. al \in Nat \ {0} /\ c + HeaderSize \in Nat
      BY <2>0, <2>2 DEF kmalloc_aligned, IsPowerOfTwo
    <3> DEFINE p == Aligned(c + HeaderSize, al)
               l == [ptr |-> p, size |-> n, raw |-> c + HeaderSize]
    <3>6. /\ p \in Nat
          /\ p >= c + HeaderSize + PointerSize
          /\ p <= c + HeaderSize + al + PointerSize - 1
      BY <3>5, AlignedType
    <3> HIDE DEF req, p
    <3>7. /\ l \in [ptr : Nat, size : Nat, raw : Nat]
          /\ l.raw = c + HeaderSize /\ l.ptr - PointerSize >= l.raw
          /\ l.ptr + l.size <= l.raw + req
      BY <2>0, <3>4, <3>5, <3>6
    <3>8. live' = live \cup {l}
      BY <3>1 DEF p
    <3> HIDE DEF l
    <3> QED
      BY <3>1, <3>4, <3>7, <3>8, AllocInside
  <2>3. ASSUME NEW l \in live, kfree(l)
        PROVE  AllocationsInside'
    <3> DEFINE h == l.raw - HeaderSize
    <3>1. h \in DOMAIN hdr /\ ~hdr[h].free
      BY LiveHeader DEF Used
    <3>2. /\ Used(hdr') = Used(hdr) \ {h}
          /\ \A x \in Used(hdr') : x \in DOMAIN hdr /\ hdr'[x] = hdr[x]
      BY <2>3, <3>1, FreeWellFormed, Zenon DEF kfree, Inv
    <3>3. live' = live \ {l}
      BY <2>3 DEF kfree
    <3>4. ASSUME NEW m \in live'
          PROVE  /\ m.raw - HeaderSize \in DOMAIN hdr'
                 /\ hdr'[m.raw - HeaderSize] = hdr[m.raw - HeaderSize]
      <4>1. m \in live /\ m.raw # l.raw
        BY <3>3 DEF Inv, UsedIsLive
      <4>2. m.raw - HeaderSize \in Used(hdr)
        BY <4>1, LiveHeader
      <4>3. m.raw \in Nat /\ l.raw \in Nat
        BY <4>1 DEF Inv
      <4>4. m.raw - HeaderSize # h
        BY <2>0, <4>1, <4>3
      <4> QED
        BY <3>2, <4>2, <4>4 DEF Used
    <3> QED
      BY <3>3, <3>4 DEF AllocationsInside, EndOf
  <2>4. CASE UNCHANGED <<hdr, live>>
    BY <2>4 DEF AllocationsInside, EndOf
  <2> QED
    BY <2>1, <2>2, <2>3, <2>4
    DEF Next, kmalloc_fail, kmalloc_aligned_fail, kfree_panic, vars
<1> QED
  BY <1>1, <1>2, InitInv, NextInv, PTL DEF Spec
=============================================================================
