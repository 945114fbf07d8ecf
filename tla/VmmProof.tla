------------------------------ MODULE VmmProof ------------------------------
(***************************************************************************)
(* The virtual memory manager is correct for any number of frames, pages   *)
(* and address spaces, as long as only the user process of the kernel's    *)
(* directory faults its stack in.                                          *)
(***************************************************************************)
EXTENDS Vmm, WellFoundedInduction, TLAPS

-----------------------------------------------------------------------------
(* The inductive invariant *)

Users == KernelPdes .. Entries - 1

TypeOK ==
  /\ mem \in [Frames -> [Index -> Frames]]
  /\ used \subseteq Frames /\ held \subseteq Frames /\ spaces \subseteq Frames
  /\ cr3 \in spaces /\ PageDirectory \in spaces
  /\ tlb \in [VirtualPages -> Frames]
  /\ wanted \in [Frames -> [VirtualPages -> Frames]]

\* No table is behind two entries, of one directory or of two.
Distinct ==
  \A d, e \in spaces, i, j \in Users :
    mem[d][i] = mem[e][j] /\ mem[d][i] # 0 => d = e /\ i = j

\* Tables, directories, and the frames of callers and pages are apart.
Apart ==
  /\ \A d \in spaces, i \in Users :
       mem[d][i] # 0 => mem[d][i] \notin spaces \cup held \cup Reserved
  /\ \A f \in held : f \notin spaces \cup Reserved
  /\ \A d \in spaces, v \in VirtualPages :
       wanted[d][v] # 0 =>
         /\ wanted[d][v] \notin spaces \cup Reserved
         /\ \A e \in spaces, i \in Users : wanted[d][v] # mem[e][i]
  /\ spaces \cap Reserved = {PageDirectory}

\* FramesAccounted, frame by frame.
InUse(f) ==
  \/ f \in Reserved \cup spaces \cup held
  \/ \E d \in spaces, i \in Users : mem[d][i] = f
  \/ \E d \in spaces, v \in VirtualPages : wanted[d][v] = f

Accounted == \A f \in Frames : f \in used <=> InUse(f)

\* Whoever mapped a page still has the frame, and will free it: when a page is
\* mapped again, unmapped or destroyed with its directory, its frame is not
\* lost.  The pages of the user process stay.
Handles ==
  \A d \in spaces, v \in VirtualPages :
    \/ wanted[d][v] \in held \cup {0}
    \/ d = PageDirectory /\ v \notin CallerPages

\* The table of the user process is there, so vmm_map_page_current never has
\* to make one: what goes wrong when it does is the vmm_fault run's subject.
UserTable == mem[PageDirectory][CodePage[1]] # 0

Inv ==
  /\ TypeOK /\ Distinct /\ Apart /\ Accounted /\ Handles /\ UserTable
  /\ TranslatesAsMapped /\ TlbCoherent

-----------------------------------------------------------------------------
(* Memory, whatever its frames hold *)

\* What the MMU finds in memory m for page v of directory d; Translate(d, v) is
\* this for mem.
Walk(m, d, v) == IF m[d][v[1]] = 0 THEN 0 ELSE m[m[d][v[1]]][v[2]]

\* The tables of the directories S are distinct, and none is a directory.
Separate(m, S) ==
  /\ \A d, e \in S, i, j \in Users :
       m[d][i] = m[e][j] /\ m[d][i] # 0 => d = e /\ i = j
  /\ \A d \in S, i \in Users : m[d][i] # 0 => m[d][i] \notin S

\* Frame f is neither a directory of S nor a table of one.
Loose(m, S, f) == f \notin S /\ \A d \in S, i \in Users : m[d][i] # f

Memories == [Frames -> [Index -> Frames]]

\* A page's indices are those of a user entry, and tell pages apart.
LEMMA Pages ==
  ASSUME NEW v \in VirtualPages
  PROVE  /\ v[1] \in Users /\ v[1] \in Index /\ v[2] \in Index
         /\ \A w \in VirtualPages : v[1] = w[1] /\ v[2] = w[2] => v = w
<1>1. VirtualPages \subseteq Users \X Index
  BY VmmAssumption DEF Users
<1>2. v = <<v[1], v[2]>> /\ v[1] \in Users /\ v[2] \in Index
  BY <1>1
<1>3. Users \subseteq Index
  BY VmmAssumption DEF Users, Index
<1>4. \A w \in VirtualPages : w = <<w[1], w[2]>>
  BY <1>1
<1> QED
  BY <1>2, <1>3, <1>4

\* Writing a loose frame changes no translation: what a new directory, a new
\* data frame or a new table held before does not matter.
LEMMA WriteLoose ==
  ASSUME NEW m \in Memories, NEW n \in Memories, NEW S \in SUBSET Frames,
         NEW f, Loose(m, S, f), \A g \in Frames : g # f => n[g] = m[g]
  PROVE  /\ \A d \in S : n[d] = m[d]
         /\ \A d \in S, v \in VirtualPages : Walk(n, d, v) = Walk(m, d, v)
<1>1. \A d \in S : n[d] = m[d]
  BY DEF Loose
<1>2. ASSUME NEW d \in S, NEW v \in VirtualPages
      PROVE  Walk(n, d, v) = Walk(m, d, v)
  <2>1. v[1] \in Users /\ v[1] \in Index
    BY Pages
  <2>2. m[d][v[1]] \in Frames /\ m[d][v[1]] # f
    BY <2>1 DEF Loose, Memories
  <2> QED
    BY <1>1, <2>2 DEF Walk
<1> QED
  BY <1>1, <1>2

\* Writing one entry of one frame.
Written(m, g, i, f) == [m EXCEPT ![g][i] = f]

\* It changes no other frame.
LEMMA WriteEntry ==
  ASSUME NEW m \in Memories, NEW g \in Frames, NEW i \in Index, NEW f \in Frames
  PROVE  /\ Written(m, g, i, f) \in Memories
         /\ \A h \in Frames : h # g => Written(m, g, i, f)[h] = m[h]
<1> DEFINE n == Written(m, g, i, f)
<1>1. n = [m EXCEPT ![g] = [m[g] EXCEPT ![i] = f]]
  BY DEF Written
<1>2. [m[g] EXCEPT ![i] = f] \in [Index -> Frames]
  BY DEF Memories
<1>3. n \in Memories
  BY <1>1, <1>2 DEF Memories
<1>4. \A h \in Frames : h # g => n[h] = m[h]
  BY <1>1 DEF Memories
<1> QED
  BY <1>3, <1>4

\* From memory m to n, page v of directory d becomes mapped to frame f.  No other
\* page of a directory in S changes, and no entry of one but d's, which gets
\* table t if it had none.
Remapped(n, m, S, d, v, f, t) ==
  /\ n \in Memories
  /\ \A e \in S, i \in Users :
       n[e][i] = IF e = d /\ i = v[1] /\ m[d][v[1]] = 0 THEN t ELSE m[e][i]
  /\ \A e \in S, w \in VirtualPages :
       Walk(n, e, w) = IF e = d /\ w = v THEN f ELSE Walk(m, e, w)

\* That is what MapAt does.
LEMMA MapPage ==
  ASSUME NEW m \in Memories, NEW S \in SUBSET Frames, Separate(m, S),
         NEW d \in S, NEW v \in VirtualPages, NEW f \in Frames, NEW t \in Frames,
         m[d][v[1]] = 0 => t # 0 /\ Loose(m, S, t),
         NEW n, n = MapAt(m, d, v, f, t)
  PROVE  Remapped(n, m, S, d, v, f, t)
<1> DEFINE new == m[d][v[1]] = 0
           linked == IF new THEN [m EXCEPT ![d][v[1]] = t, ![t] = Zeroed] ELSE m
           table == linked[d][v[1]]
<1>1. v[1] \in Users /\ v[1] \in Index /\ v[2] \in Index
  BY Pages
<1>2. Users \subseteq Index
  BY VmmAssumption DEF Users, Index
<1>z. Zeroed \in [Index -> Frames] /\ \A i \in Index : Zeroed[i] = 0
  <2>1. 0 \in Frames
    BY VmmAssumption DEF Frames
  <2> QED
    BY <2>1 DEF Zeroed
<1>3. /\ linked \in Memories
      /\ new => /\ linked[t] = Zeroed
                /\ linked[d] = [m[d] EXCEPT ![v[1]] = t]
                /\ \A g \in Frames : g # t /\ g # d => linked[g] = m[g]
      /\ ~new => linked = m
  <2>1. CASE ~new
    BY <2>1
  <2>2. CASE new
    <3>1. t # d
      BY <2>2 DEF Loose
    <3>2. linked = [[m EXCEPT ![d][v[1]] = t] EXCEPT ![t] = Zeroed]
      BY <2>2
    <3>3. [m EXCEPT ![d][v[1]] = t] \in Memories
      BY <1>1, WriteEntry DEF Written
    <3> QED
      BY <2>2, <3>1, <3>2, <3>3, <1>1, <1>z, Zenon DEF Memories
  <2> QED
    BY <2>1, <2>2, Zenon
<1>4. n = Written(linked, table, v[2], f)
  BY Zenon DEF MapAt, MapThrough, Written
<1> HIDE DEF linked
<1>8. table = IF new THEN t ELSE m[d][v[1]]
  <2>1. CASE new
    <3>1. m[d] \in [Index -> Frames] /\ linked[d] = [m[d] EXCEPT ![v[1]] = t]
      BY <1>3, <2>1 DEF Memories
    <3> QED
      BY <1>1, <2>1, <3>1
  <2>2. CASE ~new
    BY <1>3, <2>2
  <2> QED
    BY <2>1, <2>2, Zenon
<1>5. table \in Frames /\ table \notin S /\ table # 0
  <2>1. CASE new
    BY <2>1, <1>8, Zenon DEF Loose
  <2>2. CASE ~new
    <3>1. m[d][v[1]] \in Frames
      BY <1>1 DEF Memories
    <3>2. m[d][v[1]] \notin S /\ m[d][v[1]] # 0
      BY <1>1, <2>2 DEF Separate
    <3> QED
      BY <1>8, <2>2, <3>1, <3>2
  <2> QED
    BY <2>1, <2>2
<1>m. linked \in Memories
  BY <1>3
<1>t. table \in Frames
  BY <1>5
<1> HIDE DEF table
<1>v. v[2] \in Index
  BY <1>1
<1> DEFINE row == Written(linked, table, v[2], f)
<1>w1. row \in Memories
  BY <1>m, <1>t, <1>v, WriteEntry
<1>w2. \A g \in Frames : g # table => row[g] = linked[g]
  BY <1>m, <1>t, <1>v, WriteEntry
<1>w3. row[table] = [linked[table] EXCEPT ![v[2]] = f]
  BY <1>m, <1>t DEF Written, Memories
<1>w4. linked[table] \in [Index -> Frames]
  BY <1>m, <1>t DEF Memories
<1> HIDE DEF row
<1>w5. \A i \in Index : row[table][i] = IF i = v[2] THEN f ELSE linked[table][i]
  BY <1>w3, <1>w4, <1>v
<1>6. /\ n \in Memories
      /\ \A g \in Frames : g # table => n[g] = linked[g]
      /\ \A i \in Index : n[table][i] = IF i = v[2] THEN f ELSE linked[table][i]
  BY <1>4, <1>w1, <1>w2, <1>w5 DEF row
<1>7. ASSUME NEW e \in S, NEW i \in Users
      PROVE  n[e][i] = IF e = d /\ i = v[1] /\ new THEN t ELSE m[e][i]
  <2>1. n[e] = linked[e]
    BY <1>5, <1>6
  <2>2. CASE new
    <3>1. e # t
      BY <2>2 DEF Loose
    <3>2. CASE e = d
      <4>1. m[d] \in [Index -> Frames] /\ i \in Index
        BY <1>2 DEF Memories
      <4>2. linked[d][i] = IF i = v[1] THEN t ELSE m[d][i]
        BY <2>2, <4>1, <1>3
      <4> QED
        BY <2>1, <2>2, <3>2, <4>2
    <3>3. CASE e # d
      BY <2>1, <3>1, <3>3, <2>2, <1>3
    <3> QED
      BY <3>2, <3>3
  <2>3. CASE ~new
    BY <2>1, <2>3, <1>3
  <2> QED
    BY <2>2, <2>3
<1>9. ASSUME NEW e \in S, NEW w \in VirtualPages
      PROVE  Walk(n, e, w) = IF e = d /\ w = v THEN f ELSE Walk(m, e, w)
  <2>1. w[1] \in Users /\ w[2] \in Index /\ m[e][w[1]] \in Frames
    BY Pages, <1>2 DEF Memories
  <2>2. n[e][w[1]] = IF e = d /\ w[1] = v[1] /\ new THEN t ELSE m[e][w[1]]
    BY <1>7, <2>1
  <2>3. CASE e = d /\ w[1] = v[1]
    <3>1. n[e][w[1]] = table
      BY <1>8, <2>2, <2>3
    <3>2. Walk(n, e, w) = IF w[2] = v[2] THEN f ELSE linked[table][w[2]]
      BY <1>5, <1>6, <2>1, <3>1 DEF Walk
    <3>3. linked[table][w[2]] = Walk(m, e, w)
      <4>1. CASE new
        BY <4>1, <2>1, <2>3, <1>3, <1>8, <1>z DEF Walk
      <4>2. CASE ~new
        BY <4>2, <2>3, <1>3, <1>8 DEF Walk
      <4> QED
        BY <4>1, <4>2
    <3>4. w = v <=> w[2] = v[2]
      BY <2>3, Pages
    <3> QED
      BY <2>3, <3>2, <3>3, <3>4
  <2>4. CASE ~(e = d /\ w[1] = v[1])
    <3>1. n[e][w[1]] = m[e][w[1]]
      BY <2>2, <2>4
    <3>2. CASE m[e][w[1]] = 0
      BY <3>1, <3>2, <2>4 DEF Walk
    <3>3. CASE m[e][w[1]] # 0
      <4>1. m[e][w[1]] # table
        BY <1>1, <1>8, <2>1, <2>4, <3>3 DEF Loose, Separate
      <4>2. m[e][w[1]] \notin S
        BY <2>1, <3>3 DEF Separate
      <4>3. linked[m[e][w[1]]] = m[m[e][w[1]]]
        <5>1. new => m[e][w[1]] # t
          BY <2>1 DEF Loose
        <5> QED
          BY <4>2, <2>1, <1>3, <5>1
      <4> QED
        BY <1>6, <2>1, <2>4, <3>1, <3>3, <4>1, <4>3 DEF Walk
    <3> QED
      BY <3>2, <3>3
  <2> QED
    BY <2>3, <2>4
<1> QED
  BY <1>6, <1>7, <1>9 DEF Remapped

\* A set of numbers has a least one.
LEMMA Least ==
  ASSUME NEW T, T \subseteq Nat, T # {}
  PROVE  \E m \in T : \A k \in T : m <= k
<1>1. \E m \in T : \A k \in T : ~(<<k, m>> \in OpToRel(<, Nat))
  BY NatLessThanWellFounded, WFMin, Zenon
<1>2. OpToRel(<, Nat) = {ss \in Nat \X Nat : ss[1] < ss[2]}
  BY Zenon DEF OpToRel
<1>3. PICK m \in T : \A k \in T : ~(<<k, m>> \in {ss \in Nat \X Nat : ss[1] < ss[2]})
  BY <1>1, <1>2, Zenon
<1>4. ASSUME NEW k \in T PROVE m <= k
  <2>1. m \in Nat /\ k \in Nat /\ <<k, m>> \in Nat \X Nat
    OBVIOUS
  <2>2. ~(k < m)
    BY <1>3, <2>1
  <2> QED
    BY <2>1, <2>2
<1> QED
  BY <1>4

\* The frame the PMM gives out is a free one.
LEMMA Free ==
  ASSUME NEW U, U \subseteq Frames, U # Frames
  PROVE  LowestFree(U) \in Frames \ U
<1>0. Frames \subseteq Nat
  BY VmmAssumption DEF Frames
<1>1. Frames \ U \subseteq Nat /\ Frames \ U # {}
  BY <1>0, Zenon
<1>2. \E f \in Frames \ U : \A g \in Frames \ U : f <= g
  BY <1>1, Least, Zenon
<1> QED
  BY <1>2, Zenon DEF LowestFree

\* What the invariant says of the memory alone.
LEMMA Layout ==
  ASSUME Inv
  PROVE  /\ mem \in Memories /\ spaces \in SUBSET Frames /\ 0 \notin spaces
         /\ Separate(mem, spaces)
         /\ \A d \in spaces, v \in VirtualPages : Translate(d, v) = Walk(mem, d, v)
<1>1. 0 \notin spaces
  BY DEF Inv, Apart, Reserved, PageDirectory
<1> QED
  BY <1>1 DEF Inv, TypeOK, Memories, Separate, Distinct, Apart, Translate, Walk

\* A free frame has no role.
LEMMA FreeIsLoose ==
  ASSUME Inv, NEW f \in Frames \ used
  PROVE  /\ ~InUse(f) /\ Loose(mem, spaces, f) /\ f # 0
         /\ f \notin held \cup spaces \cup Reserved
<1>1. ~InUse(f)
  BY DEF Inv, Accounted
<1> QED
  BY <1>1 DEF InUse, Loose, Reserved

-----------------------------------------------------------------------------
(* Mapping a page *)

\* The effect of mapping page v of directory d to frame f, with t as the table
\* where one is needed, without the history.
Maps(d, v, f, t) ==
  /\ mem' \in Memories
  /\ \A e \in spaces, i \in Users :
       mem'[e][i] = IF e = d /\ i = v[1] /\ mem[d][v[1]] = 0 THEN t ELSE mem[e][i]
  /\ \A e \in spaces, w \in VirtualPages :
       Translate(e, w)' = IF e = d /\ w = v THEN f ELSE Translate(e, w)
  /\ used' = used \cup {f} \cup (IF mem[d][v[1]] = 0 THEN {t} ELSE {})

\* Mapping a page, or unmapping it (frame 0), keeps the invariant, if its frame
\* is a caller's or, for a page of the user process, a free one, if nobody loses
\* the frame mapped there before, and if the TLB has no entry for the page left.
LEMMA MapStep ==
  ASSUME Inv, NEW d \in spaces, NEW v \in VirtualPages,
         NEW f \in Frames, NEW t \in Frames,
         \/ f \in held \cup {0}
         \/ f \notin used /\ d = PageDirectory /\ v \notin CallerPages,
         mem[d][v[1]] = 0 => t \notin used /\ t # f,
         wanted[d][v] \in held \cup {0},
         Maps(d, v, f, t),
         tlb' \in [VirtualPages -> Frames],
         \A w \in VirtualPages :
           tlb'[w] # 0 => tlb'[w] = tlb[w] /\ ~(cr3 = d /\ w = v),
         wanted' = [wanted EXCEPT ![d][v] = f],
         UNCHANGED <<cr3, spaces, held>>
  PROVE  Inv'
<1> DEFINE new == mem[d][v[1]] = 0
<1>1. /\ wanted \in [Frames -> [VirtualPages -> Frames]]
      /\ spaces \subseteq Frames
  BY DEF Inv, TypeOK
<1>2. \A e \in spaces, w \in VirtualPages :
        wanted'[e][w] = IF e = d /\ w = v THEN f ELSE wanted[e][w]
  BY <1>1
<1>3. v[1] \in Users
  BY Pages
<1>4. f # 0 => /\ f \notin spaces \cup Reserved
               /\ \A e \in spaces, i \in Users : mem[e][i] # f
  <2>1. CASE f \in held
    <3>1. f # 0 /\ f \notin spaces \cup Reserved
      BY <2>1 DEF Inv, Apart, Reserved
    <3> QED
      BY <2>1, <3>1 DEF Inv, Apart
  <2>2. CASE f \notin used
    BY <2>2, FreeIsLoose DEF Loose
  <2> QED
    BY <2>1, <2>2
<1>5. new => /\ t # 0 /\ t # f /\ t \notin held \cup spaces \cup Reserved
             /\ \A e \in spaces, i \in Users : mem[e][i] # t
             /\ \A e \in spaces, w \in VirtualPages : wanted[e][w] # t
  <2> SUFFICES ASSUME new PROVE t \in Frames \ used
    BY FreeIsLoose DEF InUse, Loose
  <2> QED
    OBVIOUS
<1>6. TypeOK'
  <2>1. used' \subseteq Frames
    BY DEF Inv, TypeOK, Maps
  <2>2. wanted' \in [Frames -> [VirtualPages -> Frames]]
    BY <1>1
  <2> QED
    BY <2>1, <2>2 DEF Inv, TypeOK, Maps, Memories
<1>7. Distinct'
  BY <1>5 DEF Inv, Distinct, Maps
<1>8. Apart'
  <2>1. \A e \in spaces, i \in Users :
          mem'[e][i] # 0 => mem'[e][i] \notin spaces \cup held \cup Reserved
    BY <1>5 DEF Inv, Apart, Maps
  <2>2. ASSUME NEW e \in spaces, NEW w \in VirtualPages, wanted'[e][w] # 0
        PROVE  /\ wanted'[e][w] \notin spaces \cup Reserved
               /\ \A g \in spaces, i \in Users : wanted'[e][w] # mem'[g][i]
    BY <1>2, <1>4, <1>5, <2>2 DEF Inv, Apart, Maps
  <2> QED
    BY <2>1, <2>2 DEF Inv, Apart
<1>9. Accounted'
  <2> SUFFICES ASSUME NEW g \in Frames PROVE g \in used' <=> InUse(g)'
    BY DEF Accounted
  <2>1. g \in used' <=> g \in used \/ g = f \/ (new /\ g = t)
    BY DEF Maps
  <2>2. InUse(g)' <=> InUse(g) \/ g = f \/ (new /\ g = t)
    <3>1. ASSUME InUse(g)' PROVE InUse(g) \/ g = f \/ (new /\ g = t)
      BY <3>1, <1>2 DEF InUse, Maps
    <3>2. ASSUME g = f PROVE InUse(g)'
      BY <3>2, <1>2 DEF InUse
    <3>3. ASSUME new, g = t PROVE InUse(g)'
      BY <3>3, <1>3 DEF InUse, Maps
    <3>4. ASSUME InUse(g) PROVE InUse(g)'
      <4>1. CASE g \in Reserved \cup spaces \cup held
        BY <4>1 DEF InUse
      <4>2. CASE \E e \in spaces, i \in Users : mem[e][i] = g
        <5>1. PICK e \in spaces, i \in Users : mem[e][i] = g
          BY <4>2
        <5>2. CASE e = d /\ i = v[1] /\ new
          BY <5>1, <5>2 DEF InUse, Reserved
        <5>3. CASE ~(e = d /\ i = v[1] /\ new)
          BY <5>1, <5>3 DEF InUse, Maps
        <5> QED
          BY <5>2, <5>3
      <4>3. CASE \E e \in spaces, w \in VirtualPages : wanted[e][w] = g
        <5>1. PICK e \in spaces, w \in VirtualPages : wanted[e][w] = g
          BY <4>3
        <5>2. CASE e = d /\ w = v
          BY <5>1, <5>2 DEF InUse, Reserved
        <5>3. CASE ~(e = d /\ w = v)
          BY <5>1, <5>3, <1>2 DEF InUse
        <5> QED
          BY <5>2, <5>3
      <4> QED
        BY <3>4, <4>1, <4>2, <4>3 DEF InUse
    <3> QED
      BY <3>1, <3>2, <3>3, <3>4
  <2> QED
    BY <2>1, <2>2 DEF Inv, Accounted
<1>10. Handles'
  BY <1>2 DEF Inv, Handles
<1>11. UserTable'
  <2>1. CodePage[1] \in Users /\ PageDirectory \in spaces
    BY Pages, VmmAssumption DEF Inv, TypeOK
  <2> QED
    BY <2>1, <1>5 DEF Inv, UserTable, Maps
<1>12. TranslatesAsMapped'
  BY <1>2 DEF Inv, TranslatesAsMapped, Maps
<1>13. TlbCoherent'
  <2>1. cr3 \in spaces
    BY DEF Inv, TypeOK
  <2> SUFFICES ASSUME NEW w \in VirtualPages, tlb'[w] # 0
               PROVE  tlb'[w] = Translate(cr3, w)'
    BY DEF TlbCoherent
  <2>2. Translate(cr3, w)' = Translate(cr3, w)
    BY <2>1 DEF Maps
  <2> QED
    BY <2>2 DEF Inv, TlbCoherent
<1> QED
  BY <1>6, <1>7, <1>8, <1>9, <1>10, <1>11, <1>12, <1>13 DEF Inv

\* The three operations that map: by the kernel's array of entries, through
\* the scratchpad, and for the faulting user process, whose table is there.
LEMMA MapAtMaps ==
  ASSUME Inv, NEW d \in spaces, NEW v \in VirtualPages, NEW f \in held \cup {0},
         ~NoTable(d, v, used),
         mem' = MapAt(mem, d, v, f, TableFrame(d, v, used)),
         used' = WithTable(d, v, used)
  PROVE  LET t == TableFrame(d, v, used)
         IN  /\ t \in Frames
             /\ mem[d][v[1]] = 0 => t \notin used /\ t # f
             /\ Maps(d, v, f, t)
<1> DEFINE t == TableFrame(d, v, used)
<1>z. 0 \in Frames
  BY VmmAssumption DEF Frames
<1>0. f \in Frames /\ f \in used /\ used \subseteq Frames /\ 0 \in Frames
  BY <1>z DEF Inv, TypeOK, Accounted, InUse, Reserved
<1>1. mem[d][v[1]] = 0 => t \in Frames \ used
  BY <1>0, Free DEF NoTable, TableFrame
<1>2. t \in Frames /\ (mem[d][v[1]] = 0 => t \notin used /\ t # f)
  BY <1>0, <1>1 DEF TableFrame
<1>3. mem[d][v[1]] = 0 => t # 0 /\ Loose(mem, spaces, t)
  BY <1>1, FreeIsLoose
<1>4. used' = used \cup {f} \cup (IF mem[d][v[1]] = 0 THEN {t} ELSE {})
  BY <1>0 DEF WithTable, TableFrame
<1> HIDE DEF t
<1>5. mem' = MapAt(mem, d, v, f, t)
  BY DEF t
<1>6. Remapped(mem', mem, spaces, d, v, f, t)
  BY <1>0, <1>2, <1>3, <1>5, Layout, MapPage
<1>7. \A e \in spaces, w \in VirtualPages :
        /\ Translate(e, w)' = Walk(mem', e, w)
        /\ Translate(e, w) = Walk(mem, e, w)
  BY DEF Translate, Walk
<1>8. Maps(d, v, f, t)
  BY <1>4, <1>6, <1>7 DEF Maps, Remapped
<1> QED
  BY <1>2, <1>8 DEF t

\* vmm_map_page flushes the page; the caller of the page before has its frame.
LEMMA MapKernelStep ==
  ASSUME Inv, NEW f \in Frames, NEW v \in CallerPages, vmm_map_page(f, v)
  PROVE  Inv'
<1>1. PageDirectory \in spaces /\ v \in VirtualPages /\ f \in held
  BY DEF Inv, TypeOK, CallerPages, vmm_map_page
<1>2. wanted[PageDirectory][v] \in held \cup {0}
  BY <1>1 DEF Inv, Handles
<1>3. tlb' \in [VirtualPages -> Frames] /\ tlb'[v] = 0
  BY <1>1, VmmAssumption DEF vmm_map_page, Invlpg, Inv, TypeOK, Frames
<1>4. \A w \in VirtualPages : tlb'[w] # 0 => tlb'[w] = tlb[w] /\ w # v
  BY <1>1 DEF vmm_map_page, Invlpg, Inv, TypeOK
<1> DEFINE t == TableFrame(PageDirectory, v, used)
<1>5. /\ t \in Frames
      /\ mem[PageDirectory][v[1]] = 0 => t \notin used /\ t # f
      /\ Maps(PageDirectory, v, f, t)
  BY <1>1, MapAtMaps DEF vmm_map_page
<1> HIDE DEF t
<1> QED
  BY <1>1, <1>2, <1>3, <1>4, <1>5, MapStep, Zenon DEF vmm_map_page

\* vmm_map_page_in_pdir does not flush, but the page was not present.
LEMMA MapInStep ==
  ASSUME Inv, NEW d \in spaces, NEW f \in Frames, NEW v \in VirtualPages,
         vmm_map_page_in_pdir(d, f, v), ~NoTable(d, v, used)
  PROVE  Inv'
<1>1. f \in held /\ wanted[d][v] = 0
  BY DEF vmm_map_page_in_pdir
<1>2. tlb' \in [VirtualPages -> Frames]
  BY DEF vmm_map_page_in_pdir, Inv, TypeOK
<1>3. ASSUME NEW w \in VirtualPages, tlb'[w] # 0
      PROVE  tlb'[w] = tlb[w] /\ ~(cr3 = d /\ w = v)
  BY <1>1, <1>3 DEF vmm_map_page_in_pdir, Inv, TlbCoherent, TranslatesAsMapped
<1> DEFINE t == TableFrame(d, v, used)
<1>4. /\ t \in Frames
      /\ mem[d][v[1]] = 0 => t \notin used /\ t # f
      /\ Maps(d, v, f, t)
  BY <1>1, MapAtMaps DEF vmm_map_page_in_pdir
<1> HIDE DEF t
<1> QED
  BY <1>1, <1>2, <1>3, <1>4, MapStep DEF vmm_map_page_in_pdir

\* A fault of the user process: the new frame's contents do not matter.
LEMMA FaultStep ==
  ASSUME Inv, ~TasksFault, NEW v \in VirtualPages, page_fault(v), used # Frames,
         ~NoTable(cr3, v, used \cup {LowestFree(used)})
  PROVE  Inv'
<1> DEFINE f == LowestFree(used)
           m == [mem EXCEPT ![f] = Data]
<1>1. cr3 = PageDirectory /\ v \in DemandPages /\ v \notin CallerPages
  BY DEF page_fault, CallerPages
<1>2. cr3 \in spaces /\ used \subseteq Frames
  BY DEF Inv, TypeOK
<1>3. f \in Frames \ used
  BY <1>2, Free
<1>4. Loose(mem, spaces, f) /\ f # 0
  BY <1>3, FreeIsLoose
<1>5. v[1] = CodePage[1] /\ v[1] \in Users
  BY <1>1, VmmAssumption, Pages
<1>6. mem[cr3][v[1]] # 0
  BY <1>1, <1>5 DEF Inv, UserTable
<1>7. wanted[cr3][v] = 0
  BY <1>2 DEF page_fault, Inv, TranslatesAsMapped
<1>8. Data \in [Index -> Frames]
  BY VmmAssumption DEF Data, Frames
<1>m. m \in Memories /\ \A g \in Frames : g # f => m[g] = mem[g]
  BY <1>3, <1>8 DEF Memories, Inv, TypeOK
<1> HIDE DEF f, m
<1>9. /\ m \in Memories
      /\ \A d \in spaces : m[d] = mem[d]
      /\ \A d \in spaces, w \in VirtualPages : Walk(m, d, w) = Walk(mem, d, w)
  BY <1>4, <1>m, Layout, WriteLoose
<1>10. mem' = MapAt(m, cr3, v, f, 0)
  <2>1. mem' = MapCurrent(m, cr3, v, f, TableFrame(cr3, v, used \cup {f}))
    BY DEF page_fault, f, m
  <2>2. TableFrame(cr3, v, used \cup {f}) = 0
    BY <1>6 DEF TableFrame
  <2>3. m[cr3][v[1]] # 0
    BY <1>2, <1>6, <1>9
  <2> QED
    BY <2>1, <2>2, <2>3 DEF MapCurrent, MapAt
<1>11. Separate(m, spaces)
  BY <1>9, Layout DEF Separate
<1>12. 0 \in Frames
  BY VmmAssumption DEF Frames
<1>13. m[cr3][v[1]] # 0
  BY <1>2, <1>6, <1>9
<1>14. Remapped(mem', m, spaces, cr3, v, f, 0)
  BY <1>2, <1>3, <1>9, <1>10, <1>11, <1>12, <1>13, Layout, MapPage
<1>15. Maps(cr3, v, f, 0)
  <2>1. used' = used \cup {f}
    BY <1>6 DEF page_fault, WithTable, f
  <2>2. \A e \in spaces, w \in VirtualPages :
          /\ Translate(e, w)' = Walk(mem', e, w)
          /\ Translate(e, w) = Walk(mem, e, w)
    BY DEF Translate, Walk
  <2> QED
    BY <1>6, <1>9, <1>13, <1>14, <2>1, <2>2 DEF Maps, Remapped
<1>16. tlb' = tlb /\ tlb[v] = 0 /\ wanted' = [wanted EXCEPT ![cr3][v] = f]
       /\ UNCHANGED <<cr3, spaces, held>>
  BY DEF page_fault, f
<1>17. tlb' \in [VirtualPages -> Frames]
  BY <1>16 DEF Inv, TypeOK
<1> QED
  BY <1>1, <1>2, <1>3, <1>6, <1>7, <1>12, <1>15, <1>16, <1>17, MapStep, Zenon

-----------------------------------------------------------------------------
(* The other operations *)

\* A step that changes no entry of a directory or of one of its tables, and
\* neither the directories nor what is mapped.
Idle ==
  /\ mem' \in Memories /\ UNCHANGED <<spaces, wanted>>
  /\ \A e \in spaces : mem'[e] = mem[e]
  /\ \A e \in spaces, w \in VirtualPages : Translate(e, w)' = Translate(e, w)

\* Such a step keeps what the invariant says of the tables.
LEMMA IdleKeeps ==
  ASSUME Inv, Idle
  PROVE  Distinct' /\ UserTable' /\ TranslatesAsMapped'
<1>1. PageDirectory \in spaces
  BY DEF Inv, TypeOK
<1> QED
  BY <1>1 DEF Inv, Idle, Distinct, UserTable, TranslatesAsMapped

\* pmm_alloc_frame: the frame had no role, and becomes a caller's.
LEMMA AllocStep ==
  ASSUME Inv, pmm_alloc_frame
  PROVE  Inv'
<1> DEFINE f == LowestFree(used)
<1>1. f \in Frames \ used
  BY Free DEF pmm_alloc_frame, Inv, TypeOK
<1>2. /\ used' = used \cup {f} /\ held' = held \cup {f}
      /\ mem' = [mem EXCEPT ![f] = Data]
      /\ UNCHANGED <<cr3, tlb, spaces, wanted>>
  BY DEF pmm_alloc_frame
<1> HIDE DEF f
<1>3. Loose(mem, spaces, f) /\ ~InUse(f) /\ f \notin held \cup spaces \cup Reserved
  BY <1>1, FreeIsLoose
<1>4. Idle
  <2>1. Data \in [Index -> Frames]
    BY VmmAssumption DEF Data, Frames
  <2>2. mem' \in Memories /\ \A g \in Frames : g # f => mem'[g] = mem[g]
    BY <1>1, <1>2, <2>1 DEF Inv, TypeOK, Memories
  <2>3. /\ \A d \in spaces : mem'[d] = mem[d]
        /\ \A d \in spaces, v \in VirtualPages : Walk(mem', d, v) = Walk(mem, d, v)
    BY <1>3, <2>2, Layout, WriteLoose
  <2> QED
    BY <1>2, <2>2, <2>3 DEF Idle, Translate, Walk
<1>5. TypeOK'
  BY <1>1, <1>2, <1>4 DEF Idle, Memories, Inv, TypeOK
<1>6. Apart'
  BY <1>2, <1>3, <1>4 DEF Idle, Inv, Apart, Loose
<1>7. Accounted'
  <2>1. \A g \in Frames : InUse(g)' <=> InUse(g) \/ g = f
    BY <1>2, <1>4 DEF InUse, Idle
  <2> QED
    BY <1>2, <2>1 DEF Inv, Accounted
<1>8. Handles'
  BY <1>2 DEF Inv, Handles
<1>9. TlbCoherent'
  BY <1>2, <1>4 DEF Inv, TypeOK, TlbCoherent, Idle
<1> QED
  BY <1>4, <1>5, <1>6, <1>7, <1>8, <1>9, IdleKeeps DEF Inv

\* pmm_free_block: the frame is mapped nowhere, so it has no role left.
LEMMA FreeStep ==
  ASSUME Inv, NEW f \in Frames, pmm_free_block(f)
  PROVE  Inv'
<1>1. /\ f \in held /\ used' = used \ {f} /\ held' = held \ {f}
      /\ UNCHANGED <<mem, cr3, tlb, spaces, wanted>>
      /\ \A d \in spaces, v \in VirtualPages : wanted[d][v] # f
  BY DEF pmm_free_block
<1>2. Idle
  BY <1>1 DEF Idle, Inv, TypeOK, Memories, Translate
<1>3. TypeOK'
  BY <1>1 DEF Inv, TypeOK
<1>4. Apart'
  BY <1>1 DEF Inv, Apart
<1>5. Accounted'
  <2>1. /\ f \notin Reserved \cup spaces
        /\ \A d \in spaces, i \in Users : mem[d][i] # f
    <3>1. f # 0 /\ f \notin Reserved \cup spaces
      BY <1>1 DEF Inv, Apart, Reserved
    <3> QED
      BY <1>1, <3>1 DEF Inv, Apart
  <2>2. \A g \in Frames : InUse(g)' <=> InUse(g) /\ g # f
    BY <1>1, <2>1 DEF InUse
  <2> QED
    BY <1>1, <2>2 DEF Inv, Accounted
<1>6. Handles'
  BY <1>1 DEF Inv, Handles
<1>7. TlbCoherent'
  BY <1>1, <1>2 DEF Inv, TypeOK, TlbCoherent, Idle
<1> QED
  BY <1>2, <1>3, <1>4, <1>5, <1>6, <1>7, IdleKeeps DEF Inv

\* Nothing that the invariant is about changes: a panic, a lookup, an address
\* space that could not be made.
LEMMA SameStep ==
  ASSUME Inv, UNCHANGED <<mem, used, cr3, tlb, spaces, wanted, held>>
  PROVE  Inv'
<1>1. TypeOK'
  BY DEF Inv, TypeOK
<1>2. Distinct' /\ Apart' /\ Accounted'
  BY DEF Inv, Distinct, Apart, Accounted, InUse
<1>3. Handles' /\ UserTable' /\ TranslatesAsMapped' /\ TlbCoherent'
  BY DEF Inv, Handles, UserTable, TranslatesAsMapped, TlbCoherent, Translate
<1> QED
  BY <1>1, <1>2, <1>3 DEF Inv

\* vmm_unmap_page: the frame stays its caller's.
LEMMA UnmapStep ==
  ASSUME Inv, NEW v \in CallerPages, vmm_unmap_page(v)
  PROVE  Inv'
<1> DEFINE t == mem[PageDirectory][v[1]]
<1>1. /\ PageDirectory \in spaces /\ v \in VirtualPages
      /\ wanted \in [Frames -> [VirtualPages -> Frames]] /\ spaces \subseteq Frames
  BY DEF Inv, TypeOK, CallerPages
<1>2. wanted[PageDirectory][v] \in held \cup {0}
  BY <1>1 DEF Inv, Handles
<1>3. CASE t = 0
  <2>1. wanted[PageDirectory][v] = 0
    BY <1>1, <1>3 DEF Inv, TranslatesAsMapped, Translate
  <2>2. wanted' = wanted
    BY <1>1, <2>1 DEF vmm_unmap_page
  <2> QED
    BY <1>3, <2>2, SameStep DEF vmm_unmap_page
<1>4. CASE t # 0
  <2>1. mem' = MapAt(mem, PageDirectory, v, 0, 0)
    BY <1>4 DEF vmm_unmap_page, MapAt, MapThrough
  <2>2. 0 \in Frames /\ 0 \in used
    <3>1. 0 \in Frames
      BY VmmAssumption DEF Frames
    <3> QED
      BY <3>1 DEF Inv, Accounted, InUse, Reserved
  <2>3. TableFrame(PageDirectory, v, used) = 0 /\ ~NoTable(PageDirectory, v, used)
    BY <1>4 DEF TableFrame, NoTable
  <2>4. used' = WithTable(PageDirectory, v, used)
    BY <1>4 DEF vmm_unmap_page, WithTable
  <2>5. mem' = MapAt(mem, PageDirectory, v, 0, TableFrame(PageDirectory, v, used))
    BY <2>1, <2>3
  <2>6. Maps(PageDirectory, v, 0, 0)
    BY <1>1, <2>3, <2>4, <2>5, MapAtMaps
  <2>7. tlb' = [tlb EXCEPT ![v] = 0] /\ tlb \in [VirtualPages -> Frames]
    BY <1>4 DEF vmm_unmap_page, Invlpg, Inv, TypeOK
  <2>8. /\ tlb' \in [VirtualPages -> Frames]
        /\ \A w \in VirtualPages : tlb'[w] # 0 => tlb'[w] = tlb[w] /\ w # v
    BY <1>1, <2>2, <2>7
  <2>9. /\ wanted' = [wanted EXCEPT ![PageDirectory][v] = 0]
        /\ UNCHANGED <<cr3, spaces, held>>
    BY DEF vmm_unmap_page
  <2> QED
    BY <1>1, <1>2, <1>4, <2>2, <2>6, <2>8, <2>9, MapStep, Zenon
<1> QED
  BY <1>3, <1>4

\* vmm_create_address_space: a directory without user pages.
LEMMA CreateStep ==
  ASSUME Inv, vmm_create_address_space
  PROVE  Inv'
<1>0. LowestFree(used) \in Frames \ used
  BY Free DEF vmm_create_address_space, Inv, TypeOK
<1>1. PICK d \in Frames \ used :
        /\ mem' = [mem EXCEPT ![d] = Cloned(d)]
        /\ used' = used \cup {d} /\ spaces' = spaces \cup {d}
        /\ wanted' = [wanted EXCEPT ![d] = Unmapped]
        /\ UNCHANGED <<cr3, tlb, held>>
  BY <1>0, Zenon DEF vmm_create_address_space
<1>2. /\ used' = used \cup {d} /\ spaces' = spaces \cup {d}
      /\ UNCHANGED <<cr3, tlb, held>>
  BY <1>1
<1>3. Loose(mem, spaces, d) /\ ~InUse(d) /\ d \notin held \cup spaces \cup Reserved
  BY <1>1, FreeIsLoose
<1>4. /\ Cloned(d) \in [Index -> Frames]
      /\ \A i \in Users : Cloned(d)[i] = 0
  <2>0. 0 \in Frames
    BY VmmAssumption DEF Frames
  <2>1. PageDirectory \in Frames /\ mem \in Memories
    BY DEF Inv, TypeOK, Memories
  <2>2. Users \subseteq Index /\ \A i \in Users : ~(i < KernelPdes)
    BY VmmAssumption DEF Users, Index
  <2> QED
    BY <2>0, <2>1, <2>2 DEF Cloned, Memories
<1>5. mem' \in Memories /\ \A g \in Frames : g # d => mem'[g] = mem[g]
  BY <1>1, <1>4 DEF Inv, TypeOK, Memories
<1>6. /\ \A e \in spaces : mem'[e] = mem[e]
      /\ \A e \in spaces, v \in VirtualPages : Walk(mem', e, v) = Walk(mem, e, v)
  BY <1>3, <1>5, Layout, WriteLoose
<1>7. \A i \in Users : mem'[d][i] = 0
  BY <1>1, <1>4 DEF Inv, TypeOK
<1>8. /\ \A e \in spaces, v \in VirtualPages : Translate(e, v)' = Translate(e, v)
      /\ \A v \in VirtualPages : Translate(d, v)' = 0
  <2>1. \A v \in VirtualPages : mem'[d][v[1]] = 0
    BY <1>7, Pages
  <2> QED
    BY <1>6, <2>1 DEF Translate, Walk
<1>9. /\ wanted' \in [Frames -> [VirtualPages -> Frames]]
      /\ \A e \in spaces : wanted'[e] = wanted[e]
      /\ \A v \in VirtualPages : wanted'[d][v] = 0
  <2>1. Unmapped \in [VirtualPages -> Frames] /\ \A v \in VirtualPages : Unmapped[v] = 0
    BY VmmAssumption DEF Unmapped, Frames
  <2>2. wanted \in [Frames -> [VirtualPages -> Frames]] /\ spaces \subseteq Frames
    BY DEF Inv, TypeOK
  <2> QED
    BY <1>1, <1>3, <2>1, <2>2
<1>10. TypeOK'
  BY <1>1, <1>2, <1>5, <1>9 DEF Inv, TypeOK, Memories
<1>11. Distinct'
  BY <1>2, <1>6, <1>7 DEF Inv, Distinct
<1>12. Apart'
  <2>1. \A e \in spaces, v \in VirtualPages : wanted[e][v] # d
    BY <1>3 DEF InUse
  <2>2. ASSUME NEW e \in spaces', NEW i \in Users, mem'[e][i] # 0
        PROVE  mem'[e][i] \notin spaces' \cup held' \cup Reserved
    BY <1>2, <1>3, <1>6, <1>7, <2>2 DEF Inv, Apart, Loose
  <2>3. \A f \in held' : f \notin spaces' \cup Reserved
    BY <1>2, <1>3 DEF Inv, Apart
  <2>4. ASSUME NEW e \in spaces', NEW v \in VirtualPages, wanted'[e][v] # 0
        PROVE  /\ wanted'[e][v] \notin spaces' \cup Reserved
               /\ \A g \in spaces', i \in Users : wanted'[e][v] # mem'[g][i]
    <3>1. e \in spaces /\ wanted'[e][v] = wanted[e][v]
      BY <1>2, <1>9, <2>4
    <3>2. wanted[e][v] \notin spaces' \cup Reserved
      BY <1>2, <2>1, <2>4, <3>1 DEF Inv, Apart
    <3>3. ASSUME NEW g \in spaces', NEW i \in Users
          PROVE  wanted[e][v] # mem'[g][i]
      BY <1>2, <1>6, <1>7, <2>4, <3>1 DEF Inv, Apart
    <3> QED
      BY <3>1, <3>2, <3>3
  <2>5. spaces' \cap Reserved = {PageDirectory}
    BY <1>2, <1>3 DEF Inv, Apart
  <2> QED
    BY <2>2, <2>3, <2>4, <2>5 DEF Apart
<1>13. Accounted'
  <2>1. \A g \in Frames : InUse(g)' <=> InUse(g) \/ g = d
    <3> SUFFICES ASSUME NEW g \in Frames PROVE InUse(g)' <=> InUse(g) \/ g = d
      OBVIOUS
    <3>1. ASSUME InUse(g)' PROVE InUse(g) \/ g = d
      <4>1. CASE \E e \in spaces', i \in Users : mem'[e][i] = g
        <5>1. PICK e \in spaces', i \in Users : mem'[e][i] = g
          BY <4>1
        <5>2. CASE e = d
          BY <1>7, <5>1, <5>2 DEF InUse, Reserved
        <5>3. CASE e # d
          BY <1>2, <1>6, <5>1, <5>3 DEF InUse
        <5> QED
          BY <5>2, <5>3
      <4>2. CASE \E e \in spaces', v \in VirtualPages : wanted'[e][v] = g
        <5>1. PICK e \in spaces', v \in VirtualPages : wanted'[e][v] = g
          BY <4>2
        <5>2. CASE e = d
          BY <1>9, <5>1, <5>2 DEF InUse, Reserved
        <5>3. CASE e # d
          BY <1>2, <1>9, <5>1, <5>3, Zenon DEF InUse
        <5> QED
          BY <5>2, <5>3
      <4>3. CASE g \in Reserved \cup spaces' \cup held'
        BY <1>2, <4>3 DEF InUse
      <4> QED
        BY <3>1, <4>1, <4>2, <4>3 DEF InUse
    <3>2. ASSUME InUse(g) \/ g = d PROVE InUse(g)'
      <4>1. CASE g \in Reserved \cup spaces \cup held \/ g = d
        BY <1>2, <4>1 DEF InUse
      <4>2. CASE \E e \in spaces, i \in Users : mem[e][i] = g
        <5>1. PICK e \in spaces, i \in Users : mem[e][i] = g
          BY <4>2
        <5>2. e \in spaces' /\ mem'[e][i] = g
          BY <1>2, <1>6, <5>1
        <5> QED
          BY <5>2, Zenon DEF InUse
      <4>3. CASE \E e \in spaces, v \in VirtualPages : wanted[e][v] = g
        <5>1. PICK e \in spaces, v \in VirtualPages : wanted[e][v] = g
          BY <4>3
        <5>2. e \in spaces' /\ wanted'[e][v] = g
          BY <1>2, <1>9, <5>1
        <5> QED
          BY <5>2, Zenon DEF InUse
      <4> QED
        BY <3>2, <4>1, <4>2, <4>3, Zenon DEF InUse
    <3> QED
      BY <3>1, <3>2
  <2> QED
    BY <1>2, <2>1 DEF Inv, Accounted
<1>14. Handles'
  <2>1. \A e \in spaces, v \in VirtualPages : wanted'[e][v] = wanted[e][v]
    BY <1>9
  <2> QED
    BY <1>2, <1>9, <2>1 DEF Inv, Handles
<1>15. UserTable'
  BY <1>6 DEF Inv, TypeOK, UserTable
<1>16. TranslatesAsMapped'
  BY <1>2, <1>8, <1>9 DEF Inv, TranslatesAsMapped
<1>17. TlbCoherent'
  BY <1>2, <1>8 DEF Inv, TypeOK, TlbCoherent
<1> QED
  BY <1>10, <1>11, <1>12, <1>13, <1>14, <1>15, <1>16, <1>17 DEF Inv

\* vmm_destroy_address_space: what it frees, the directory and its tables, has
\* no other role, and all its other frames are their callers'.
LEMMA DestroyStep ==
  ASSUME Inv, NEW d \in spaces, NEW ecx \in spaces, vmm_destroy_address_space(d, ecx)
  PROVE  Inv'
<1>1. /\ d # PageDirectory /\ ecx # d
      /\ used' = used \ Freed(d) /\ spaces' = spaces \ {d}
      /\ cr3' = IF cr3 = d THEN ecx ELSE cr3
      /\ tlb' = IF cr3 = d THEN Unmapped ELSE tlb
      /\ mem' = mem /\ held' = held
  BY DEF vmm_destroy_address_space, LoadCr3
<1>2. /\ wanted' \in [Frames -> [VirtualPages -> Frames]]
      /\ \A e \in spaces' : wanted'[e] = wanted[e]
  <2>1. Unmapped \in [VirtualPages -> Frames]
    BY VmmAssumption DEF Unmapped, Frames
  <2>2. wanted' = [wanted EXCEPT ![d] = Unmapped]
    BY DEF vmm_destroy_address_space
  <2>3. wanted \in [Frames -> [VirtualPages -> Frames]] /\ spaces \subseteq Frames
    BY DEF Inv, TypeOK
  <2> QED
    BY <1>1, <2>1, <2>2, <2>3
<1>3. /\ Unmapped \in [VirtualPages -> Frames]
      /\ \A v \in VirtualPages : Unmapped[v] = 0
  BY VmmAssumption DEF Unmapped, Frames
<1>4. d # 0 /\ d \notin Reserved \cup held
  BY <1>1 DEF Inv, Apart, Reserved
<1>5. \A e \in spaces, v \in VirtualPages : Translate(e, v)' = Translate(e, v)
  BY <1>1 DEF Translate
<1>6. TypeOK'
  <2>1. tlb' \in [VirtualPages -> Frames]
    BY <1>1, <1>3 DEF Inv, TypeOK
  <2>2. cr3' \in spaces' /\ PageDirectory \in spaces'
    BY <1>1 DEF Inv, TypeOK
  <2> QED
    BY <1>1, <1>2, <2>1, <2>2 DEF Inv, TypeOK
<1>7. Distinct' /\ UserTable'
  BY <1>1 DEF Inv, Distinct, UserTable
<1>8. Apart'
  BY <1>1, <1>2 DEF Inv, TypeOK, Apart
<1>9. Accounted'
  <2> SUFFICES ASSUME NEW g \in Frames
               PROVE  InUse(g)' <=> InUse(g) /\ g \notin Freed(d)
    BY <1>1 DEF Inv, Accounted
  <2>1. g \in Freed(d) <=> g = d \/ (g # 0 /\ \E i \in Users : mem[d][i] = g)
    BY <1>4 DEF Freed, Users
  <2>2. ASSUME InUse(g)' PROVE InUse(g)
    BY <1>1, <1>2, <2>2, Zenon DEF InUse
  <2>3. ASSUME InUse(g)', g = d PROVE FALSE
    <3>1. \A e \in spaces, i \in Users : mem[e][i] # d
      BY <1>4 DEF Inv, Apart
    <3>2. \A e \in spaces, v \in VirtualPages : wanted[e][v] # d
      BY <1>4 DEF Inv, Apart
    <3> QED
      BY <1>1, <1>2, <1>4, <2>3, <3>1, <3>2 DEF InUse
  <2>4. ASSUME InUse(g)', g # 0, NEW i \in Users, mem[d][i] = g PROVE FALSE
    <3>1. g \notin spaces \cup held \cup Reserved
      BY <2>4 DEF Inv, Apart
    <3>2. \A e \in spaces', j \in Users : mem[e][j] # g
      BY <1>1, <2>4 DEF Inv, Distinct
    <3>3. \A e \in spaces, v \in VirtualPages : wanted[e][v] # g
      BY <2>4 DEF Inv, Apart
    <3>4. \A e \in spaces', w \in VirtualPages : wanted'[e][w] # g
      BY <1>1, <1>2, <3>3, Zenon
    <3> QED
      BY <1>1, <2>4, <3>1, <3>2, <3>4, Zenon DEF InUse
  <2>5. ASSUME InUse(g), g \notin Freed(d) PROVE InUse(g)'
    <3>1. g # d /\ (g # 0 => \A i \in Users : mem[d][i] # g)
      BY <2>1, <2>5
    <3>2. CASE g \in Reserved \cup spaces \cup held
      BY <1>1, <3>1, <3>2 DEF InUse
    <3>3. CASE \E e \in spaces, i \in Users : mem[e][i] = g
      <4>1. PICK e \in spaces, i \in Users : mem[e][i] = g
        BY <3>3
      <4>2. CASE e = d
        BY <3>1, <4>1, <4>2 DEF InUse, Reserved
      <4>3. CASE e # d
        BY <1>1, <4>1, <4>3 DEF InUse
      <4> QED
        BY <4>2, <4>3
    <3>4. CASE \E e \in spaces, v \in VirtualPages : wanted[e][v] = g
      <4>1. PICK e \in spaces, v \in VirtualPages : wanted[e][v] = g
        BY <3>4
      <4>2. CASE e = d
        <5>1. g \in held \cup {0}
          BY <1>1, <4>1, <4>2 DEF Inv, Handles
        <5> QED
          BY <1>1, <5>1 DEF InUse, Reserved
      <4>3. CASE e # d
        BY <1>1, <1>2, <4>1, <4>3, Zenon DEF InUse
      <4> QED
        BY <4>2, <4>3
    <3> QED
      BY <2>5, <3>2, <3>3, <3>4 DEF InUse
  <2> QED
    BY <2>1, <2>2, <2>3, <2>4, <2>5
<1>10. Handles'
  BY <1>1, <1>2 DEF Inv, Handles
<1>11. TranslatesAsMapped'
  BY <1>1, <1>2, <1>5 DEF Inv, TranslatesAsMapped
<1>12. TlbCoherent'
  <2>1. CASE cr3 = d
    BY <1>1, <1>3, <2>1 DEF TlbCoherent
  <2>2. CASE cr3 # d
    <3>1. tlb' = tlb /\ cr3' = cr3 /\ mem' = mem
      BY <1>1, <2>2
    <3> QED
      BY <3>1 DEF Inv, TlbCoherent, Translate
  <2> QED
    BY <2>1, <2>2
<1> QED
  BY <1>6, <1>7, <1>8, <1>9, <1>10, <1>11, <1>12 DEF Inv

\* switch_context and access change the TLB, and whose pages it is for.
LEMMA TlbStep ==
  ASSUME Inv, UNCHANGED <<mem, used, spaces, wanted, held>>,
         cr3' \in spaces, tlb' \in [VirtualPages -> Frames],
         \A v \in VirtualPages : tlb'[v] # 0 => tlb'[v] = Translate(cr3', v)
  PROVE  Inv'
<1>1. TlbCoherent'
  BY DEF TlbCoherent, Translate
<1>2. TypeOK'
  BY DEF Inv, TypeOK
<1>3. Distinct' /\ Apart' /\ Accounted'
  BY DEF Inv, Distinct, Apart, Accounted, InUse
<1>4. Handles' /\ UserTable' /\ TranslatesAsMapped'
  BY DEF Inv, Handles, UserTable, TranslatesAsMapped, Translate
<1> QED
  BY <1>1, <1>2, <1>3, <1>4 DEF Inv

\* Every step keeps the invariant, as long as no task with a directory of its
\* own faults.
LEMMA Step ==
  ASSUME Inv, [Next]_vars, ~TasksFault
  PROVE  Inv'
<1>1. CASE UNCHANGED vars
  BY <1>1, SameStep DEF vars
<1>2. CASE pmm_alloc_frame
  BY <1>2, AllocStep
<1>3. ASSUME NEW f \in Frames, pmm_free_block(f) PROVE Inv'
  BY <1>3, FreeStep
<1>4. ASSUME NEW f \in Frames, NEW v \in CallerPages, vmm_map_page(f, v) PROVE Inv'
  BY <1>4, MapKernelStep
<1>5. ASSUME NEW f \in Frames, NEW v \in CallerPages, vmm_map_page_panic(f, v)
      PROVE  Inv'
  BY <1>5, SameStep DEF vmm_map_page_panic, Panic
<1>6. ASSUME NEW d \in spaces, NEW f \in Frames, NEW v \in VirtualPages,
             vmm_map_page_in_pdir(d, f, v)
      PROVE  Inv'
  <2>1. CASE NoTable(d, v, used)
    BY <1>6, <2>1, SameStep DEF vmm_map_page_in_pdir, Panic
  <2>2. CASE ~NoTable(d, v, used)
    BY <1>6, <2>2, MapInStep
  <2> QED
    BY <2>1, <2>2
<1>7. ASSUME NEW v \in CallerPages, vmm_unmap_page(v) PROVE Inv'
  BY <1>7, UnmapStep
<1>8. ASSUME NEW v \in VirtualPages, vmm_get_physical(v) PROVE Inv'
  BY <1>8, SameStep DEF vmm_get_physical
<1>9. ASSUME NEW v \in VirtualPages, access(v) PROVE Inv'
  <2>1. cr3 \in spaces /\ spaces \subseteq Frames /\ tlb \in [VirtualPages -> Frames]
    BY DEF Inv, TypeOK
  <2>2. Translate(cr3, v) \in Frames
    BY <2>1 DEF Inv, TypeOK, TranslatesAsMapped
  <2>3. tlb' = [tlb EXCEPT ![v] = Translate(cr3, v)] /\ cr3' = cr3
        /\ UNCHANGED <<mem, used, spaces, wanted, held>>
    BY <1>9 DEF access
  <2>4. tlb' \in [VirtualPages -> Frames]
    BY <2>1, <2>2, <2>3
  <2>5. \A w \in VirtualPages : tlb'[w] # 0 => tlb'[w] = Translate(cr3', w)
    BY <2>1, <2>3 DEF Inv, TlbCoherent
  <2> QED
    BY <2>1, <2>3, <2>4, <2>5, TlbStep
<1>10. ASSUME NEW v \in VirtualPages, page_fault(v) PROVE Inv'
  <2>1. CASE used = Frames \/ NoTable(cr3, v, used \cup {LowestFree(used)})
    BY <1>10, <2>1, SameStep DEF page_fault, Panic
  <2>2. CASE ~(used = Frames \/ NoTable(cr3, v, used \cup {LowestFree(used)}))
    BY <1>10, <2>2, FaultStep
  <2> QED
    BY <2>1, <2>2
<1>11. CASE vmm_create_address_space
  BY <1>11, CreateStep
<1>12. CASE vmm_create_address_space_oom
  BY <1>12, SameStep DEF vmm_create_address_space_oom, vars
<1>13. ASSUME NEW ecx \in spaces, switch_context(ecx) PROVE Inv'
  <2>1. Unmapped \in [VirtualPages -> Frames] /\ \A v \in VirtualPages : Unmapped[v] = 0
    BY VmmAssumption DEF Unmapped, Frames
  <2>2. /\ UNCHANGED <<mem, used, spaces, wanted, held>> /\ cr3' = ecx
        /\ tlb' = IF ecx = cr3 THEN tlb ELSE Unmapped
    BY <1>13 DEF switch_context, LoadCr3
  <2>3. CASE ecx = cr3
    <3>1. tlb' = tlb /\ cr3' = cr3
      BY <2>2, <2>3
    <3>2. tlb \in [VirtualPages -> Frames] /\ TlbCoherent
      BY DEF Inv, TypeOK
    <3> QED
      BY <2>2, <3>1, <3>2, TlbStep DEF TlbCoherent
  <2>4. CASE ecx # cr3
    BY <2>1, <2>2, <2>4, TlbStep
  <2> QED
    BY <2>3, <2>4
<1>14. ASSUME NEW d \in spaces, NEW e \in spaces, vmm_destroy_address_space(d, e)
       PROVE  Inv'
  BY <1>14, DestroyStep
<1> QED
  BY <1>1, <1>2, <1>3, <1>4, <1>5, <1>6, <1>7, <1>8, <1>9, <1>10, <1>11, <1>12,
     <1>13, <1>14 DEF Next

\* Boot: the user process has its table, with a code page and a stack page, and
\* the frame KernelMain mapped its stack to first is not lost.
LEMMA Start ==
  ASSUME Init
  PROVE  Inv
<1> DEFINE vmm_init == [f \in Frames |->
                          CASE f = PageDirectory -> [Zeroed EXCEPT ![0] = FirstPageTable]
                            [] f = FirstPageTable -> Data
                            [] OTHER -> Data]
           boot == MapAt(vmm_init, PageDirectory, StackPage, UserStackPhys, 4)
           code == MapCurrent(boot, PageDirectory, CodePage, 5, 0)
           S == {PageDirectory}
<1>1. /\ mem = MapCurrent(code, PageDirectory, StackPage, 6, 0)
      /\ used = Reserved \cup 4 .. 6 /\ cr3 = PageDirectory /\ spaces = S
      /\ tlb = [Unmapped EXCEPT ![CodePage] = 5] /\ held = {}
      /\ wanted = [d \in Frames |->
                     IF d = PageDirectory
                     THEN [Unmapped EXCEPT ![CodePage] = 5, ![StackPage] = 6]
                     ELSE Unmapped]
  BY DEF Init
<1>2. 0 .. 6 \subseteq Frames
  BY VmmAssumption DEF Frames
<1>3. /\ CodePage \in VirtualPages /\ StackPage \in VirtualPages
      /\ CodePage # StackPage /\ StackPage[1] = CodePage[1]
      /\ CodePage[1] \in Users
  BY VmmAssumption, Pages
<1>4. /\ vmm_init \in Memories
      /\ \A i \in Users : vmm_init[PageDirectory][i] = 0
  <2>0. 0 \in Frames /\ FirstPageTable \in Frames /\ NumFrames - 1 \in Frames
    BY VmmAssumption DEF Frames, FirstPageTable
  <2>1. /\ Zeroed \in [Index -> Frames] /\ Data \in [Index -> Frames]
        /\ [Zeroed EXCEPT ![0] = FirstPageTable] \in [Index -> Frames]
    BY <2>0, Zenon DEF Zeroed, Data
  <2>2. vmm_init \in Memories
    BY <2>1 DEF Memories
  <2>3. Users \subseteq Index /\ 0 \notin Users
    BY VmmAssumption DEF Users, Index
  <2>4. vmm_init[PageDirectory] = [Zeroed EXCEPT ![0] = FirstPageTable]
    <3>1. PageDirectory \in Frames /\ PageDirectory # FirstPageTable
      BY <1>2 DEF PageDirectory, FirstPageTable
    <3> QED
      BY <3>1
  <2>5. \A i \in Users : vmm_init[PageDirectory][i] = 0
    BY <2>3, <2>4 DEF Zeroed
  <2> QED
    BY <2>2, <2>5
<1> HIDE DEF vmm_init
<1>5. S \in SUBSET Frames /\ PageDirectory \in S
  BY <1>2 DEF PageDirectory
<1>6. PICK t \in Frames : t = 4
  BY <1>2
<1>7. PICK u \in Frames : u = UserStackPhys
  BY <1>2 DEF UserStackPhys
<1>8. boot = MapAt(vmm_init, PageDirectory, StackPage, u, t)
  BY <1>6, <1>7
<1> HIDE DEF boot
<1>9. Separate(vmm_init, S) /\ Loose(vmm_init, S, t) /\ t # 0
  BY <1>4, <1>6 DEF Separate, Loose, PageDirectory
<1>10. Remapped(boot, vmm_init, S, PageDirectory, StackPage, u, t)
  <2> HIDE DEF S
  <2> QED
    BY <1>3, <1>4, <1>5, <1>8, <1>9, MapPage
<1>11. /\ \A i \in Users : boot[PageDirectory][i] = IF i = CodePage[1] THEN 4 ELSE 0
       /\ \A w \in VirtualPages :
            Walk(boot, PageDirectory, w) = IF w = StackPage THEN u ELSE 0
  <2>1. \A w \in VirtualPages : Walk(vmm_init, PageDirectory, w) = 0
    BY <1>4, Pages DEF Walk
  <2> QED
    BY <1>3, <1>4, <1>6, <1>10, <2>1 DEF Remapped
<1>12. PICK c \in Frames, s \in Frames, z \in Frames : c = 5 /\ s = 6 /\ z = 0
  BY <1>2
<1>13. code = MapAt(boot, PageDirectory, CodePage, c, z)
  BY <1>3, <1>11, <1>12 DEF MapCurrent, MapAt
<1> HIDE DEF code
<1>14. Separate(boot, S)
  BY <1>11 DEF Separate, PageDirectory
<1>15. Remapped(code, boot, S, PageDirectory, CodePage, c, z)
  <2>1. boot[PageDirectory][CodePage[1]] # 0
    BY <1>3, <1>11
  <2>2. boot \in Memories
    BY <1>10 DEF Remapped
  <2> HIDE DEF S
  <2> QED
    BY <1>3, <1>5, <1>13, <1>14, <2>1, <2>2, MapPage
<1>16. \A i \in Users : code[PageDirectory][i] = IF i = CodePage[1] THEN 4 ELSE 0
  BY <1>11, <1>15 DEF Remapped
<1>17. mem = MapAt(code, PageDirectory, StackPage, s, z)
  BY <1>1, <1>3, <1>12, <1>16 DEF MapCurrent, MapAt
<1>18. Separate(code, S)
  BY <1>16 DEF Separate, PageDirectory
<1>19. Remapped(mem, code, S, PageDirectory, StackPage, s, z)
  <2>1. code[PageDirectory][StackPage[1]] # 0
    BY <1>3, <1>16
  <2>2. code \in Memories
    BY <1>15 DEF Remapped
  <2> HIDE DEF S
  <2> QED
    BY <1>3, <1>5, <1>17, <1>18, <2>1, <2>2, MapPage
<1>20. /\ \A i \in Users : mem[PageDirectory][i] = IF i = CodePage[1] THEN 4 ELSE 0
       /\ \A w \in VirtualPages :
            Translate(PageDirectory, w)
              = IF w = StackPage THEN 6 ELSE IF w = CodePage THEN 5 ELSE 0
  <2>1. \A i \in Users : mem[PageDirectory][i] = IF i = CodePage[1] THEN 4 ELSE 0
    BY <1>3, <1>16, <1>19 DEF Remapped
  <2>2. \A w \in VirtualPages : Translate(PageDirectory, w) = Walk(mem, PageDirectory, w)
    BY DEF Translate, Walk
  <2> QED
    BY <1>11, <1>12, <1>15, <1>19, <2>1, <2>2 DEF Remapped
<1>21. /\ wanted \in [Frames -> [VirtualPages -> Frames]]
       /\ \A w \in VirtualPages :
            wanted[PageDirectory][w]
              = IF w = StackPage THEN 6 ELSE IF w = CodePage THEN 5 ELSE 0
       /\ tlb \in [VirtualPages -> Frames]
       /\ \A w \in VirtualPages : tlb[w] = IF w = CodePage THEN 5 ELSE 0
  <2>1. Unmapped \in [VirtualPages -> Frames] /\ \A w \in VirtualPages : Unmapped[w] = 0
    BY <1>2 DEF Unmapped
  <2> QED
    BY <1>1, <1>2, <1>3, <2>1 DEF PageDirectory
<1>22. TypeOK
  <2>1. used \subseteq Frames
    BY <1>1, <1>2 DEF Reserved, PageDirectory, FirstPageTable, UserStackPhys
  <2> QED
    BY <1>1, <1>5, <1>19, <1>21, <2>1, Zenon DEF TypeOK, Memories, Remapped
<1>23. Distinct /\ UserTable /\ TranslatesAsMapped /\ TlbCoherent
  BY <1>1, <1>3, <1>20, <1>21 DEF Distinct, UserTable, TranslatesAsMapped, TlbCoherent
<1>24. Apart
  BY <1>1, <1>20, <1>21 DEF Apart, Reserved, PageDirectory, FirstPageTable, UserStackPhys
<1>25. Accounted
  <2> SUFFICES ASSUME NEW g \in Frames PROVE g \in used <=> InUse(g)
    BY DEF Accounted
  <2>1. g \in used <=> g \in Reserved \/ g = 4 \/ g = 5 \/ g = 6
    BY <1>1, VmmAssumption DEF Frames
  <2>2. (\E d \in spaces, i \in Users : mem[d][i] = g) => g = 4 \/ g = 0
    BY <1>1, <1>20
  <2>3. g = 4 => \E d \in spaces, i \in Users : mem[d][i] = g
    BY <1>1, <1>3, <1>20
  <2>4. (\E d \in spaces, w \in VirtualPages : wanted[d][w] = g) => g \in {0, 5, 6}
    BY <1>1, <1>21
  <2>5. g = 5 \/ g = 6 => \E d \in spaces, w \in VirtualPages : wanted[d][w] = g
    BY <1>1, <1>3, <1>21, Zenon
  <2> QED
    BY <1>1, <2>1, <2>2, <2>3, <2>4, <2>5, Zenon DEF InUse, Reserved
<1>26. Handles
  BY <1>1, <1>21 DEF Handles, CallerPages
<1> QED
  BY <1>22, <1>23, <1>24, <1>25, <1>26 DEF Inv

-----------------------------------------------------------------------------
(* The results *)

\* The invariant holds throughout.
LEMMA Invariance ==
  ASSUME ~TasksFault
  PROVE  Spec => []Inv
<1>1. Init => Inv
  BY Start
<1>2. Inv /\ [Next]_vars => Inv'
  BY Step
<1> QED
  BY <1>1, <1>2, PTL DEF Spec

\* With any number of frames, pages and address spaces, every directory
\* translates a page to the frame vmm_map_page, vmm_map_page_in_pdir or the
\* page-fault handler mapped last, and to nothing after vmm_unmap_page, as long
\* as no task with a directory of its own takes a page fault.
THEOREM MappingsCorrect ==
  ASSUME ~TasksFault
  PROVE  Spec => []TranslatesAsMapped
<1>1. Inv => TranslatesAsMapped
  BY DEF Inv
<1> QED
  BY <1>1, Invariance, PTL

\* Then no frame is a table, a directory and a caller's at once, so that no
\* write through the scratchpad reaches another task's tables or data.
THEOREM RolesCorrect ==
  ASSUME ~TasksFault
  PROVE  Spec => []FramesHaveOneRole
<1>1. ASSUME Inv PROVE FramesHaveOneRole
  <2>1. \A d \in spaces : Tables(d) = {mem[d][i] : i \in Users} \ {0}
    BY DEF Tables, Users
  <2>2. \A d, e \in spaces : d # e => Tables(d) \cap Tables(e) = {}
    BY <1>1, <2>1 DEF Inv, Distinct
  <2>3. \A d \in spaces, i, j \in KernelPdes .. Entries - 1 :
          mem[d][i] = mem[d][j] /\ mem[d][i] # 0 => i = j
    BY <1>1 DEF Inv, Distinct, Users
  <2> DEFINE tables == UNION {Tables(d) : d \in spaces}
  <2>4. \A f : f \in tables <=> f # 0 /\ \E d \in spaces, i \in Users : mem[d][i] = f
    BY <2>1
  <2> HIDE DEF tables
  <2>5. tables \cap (spaces \cup held \cup Reserved) = {}
    BY <1>1, <2>4 DEF Inv, Apart
  <2>6. held \cap (spaces \cup Reserved) = {}
    BY <1>1 DEF Inv, Apart
  <2>7. ASSUME NEW d \in spaces, NEW v \in VirtualPages
        PROVE  wanted[d][v] \notin tables \cup spaces \cup (Reserved \ {0})
    <3>1. CASE wanted[d][v] = 0
      <4>1. 0 \notin spaces
        BY <1>1, Layout
      <4> QED
        BY <2>4, <3>1, <4>1
    <3>2. CASE wanted[d][v] # 0
      BY <1>1, <2>4, <3>2 DEF Inv, Apart
    <3> QED
      BY <3>1, <3>2
  <2> QED
    BY <2>2, <2>3, <2>5, <2>6, <2>7 DEF FramesHaveOneRole, tables
<1> QED
  BY <1>1, Invariance, PTL

\* Then the frames in use are exactly those that have a role:
\* vmm_destroy_address_space gives back its directory and all its tables, and
\* neither a table nor a directory is ever lost or freed while in use.
THEOREM FramesCorrect ==
  ASSUME ~TasksFault
  PROVE  Spec => []FramesAccounted
<1>1. ASSUME Inv PROVE FramesAccounted
  <2> DEFINE tables == UNION {Tables(d) : d \in spaces}
             data == {wanted[d][v] : d \in spaces, v \in VirtualPages} \ {0}
             all == Reserved \cup spaces \cup held \cup tables \cup data
  <2>1. \A f : f \in tables <=> f # 0 /\ \E d \in spaces, i \in Users : mem[d][i] = f
    BY DEF Tables, Users
  <2>2. \A f : f \in data <=>
                 f # 0 /\ \E d \in spaces, v \in VirtualPages : wanted[d][v] = f
    OBVIOUS
  <2> HIDE DEF tables, data
  <2>3. \A f : f \in all <=> InUse(f)
    BY <2>1, <2>2 DEF InUse, Reserved
  <2>4. all \subseteq Frames
    <3>1. Reserved \subseteq Frames
      BY VmmAssumption
         DEF Reserved, Frames, PageDirectory, FirstPageTable, UserStackPhys
    <3>2. \A d \in spaces, i \in Users : mem[d][i] \in Frames
      BY <1>1, VmmAssumption DEF Inv, TypeOK, Users, Index
    <3>3. \A d \in spaces, v \in VirtualPages : wanted[d][v] \in Frames
      BY <1>1 DEF Inv, TypeOK
    <3>4. tables \subseteq Frames /\ data \subseteq Frames
      BY <2>1, <2>2, <3>2, <3>3
    <3>5. spaces \subseteq Frames /\ held \subseteq Frames
      BY <1>1 DEF Inv, TypeOK
    <3> QED
      BY <3>1, <3>4, <3>5
  <2>5. used = all
    <3> HIDE DEF all
    <3> QED
      BY <1>1, <2>3, <2>4, Zenon DEF Inv, TypeOK, Accounted
  <2> QED
    BY <2>5 DEF FramesAccounted, tables, data
<1> QED
  BY <1>1, Invariance, PTL

\* Then no TLB entry outlives its mapping, although vmm_map_page_in_pdir does
\* not flush, and although switch_context loads and flushes for the directory
\* it finds in ECX, which may be any that exists.
THEOREM TlbCorrect ==
  ASSUME ~TasksFault
  PROVE  Spec => []TlbCoherent
<1>1. Inv => TlbCoherent
  BY DEF Inv
<1> QED
  BY <1>1, Invariance, PTL
=============================================================================
