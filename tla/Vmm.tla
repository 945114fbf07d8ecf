-------------------------------- MODULE Vmm --------------------------------
(***************************************************************************)
(* The virtual memory manager, src/memory/vmm/vmm.c, with the page-fault   *)
(* handler of src/cpu/idt/idt.c and its other callers.                     *)
(*                                                                         *)
(* mem holds the contents of every frame as a table of entries; an entry   *)
(* is the number of the frame it points to, 0 when it is not present.      *)
(* Page tables are written through one scratchpad page, so what matters is *)
(* which frame the scratchpad shows when it is read or written.  A virtual *)
(* page is a pair <<pdi, pti>>.  Every operation masks interrupts and is   *)
(* one action.                                                             *)
(***************************************************************************)
EXTENDS Integers, FiniteSets

CONSTANTS
  NumFrames,
  Entries,        \* entries of a table, 1024 in the code
  KernelPdes,     \* directory entries shared with the kernel, 2 in the code
  VirtualPages,   \* the user pages that are mapped
  CodePage, StackPage,  \* 0x00800000 and 0x009FF000
  DemandPages,    \* the pages of [0x00900000, 0x00A00000)
  TasksFault      \* whether tasks with their own directory touch these pages

Frames == 0 .. NumFrames - 1
Index == 0 .. Entries - 1

ASSUME VmmAssumption ==
  /\ NumFrames \in Nat /\ Entries \in Nat /\ KernelPdes \in 1 .. Entries
  /\ VirtualPages \subseteq (KernelPdes .. Entries - 1) \X Index
  /\ {CodePage, StackPage} \subseteq VirtualPages
  /\ DemandPages \subseteq VirtualPages /\ CodePage # StackPage
  /\ \A v \in DemandPages \cup {StackPage} : v[1] = CodePage[1]
  /\ TasksFault \in BOOLEAN
  /\ NumFrames > 6

VARIABLES
  mem,
  used,       \* the frames the PMM has marked used
  cr3,        \* the directory the CPU translates with
  tlb,        \* virtual page -> cached frame, 0 when not cached
  iflag,      \* the interrupt flag
  halted,     \* kernel_panic was called
  spaces,     \* history: the directories in existence
  wanted,     \* history: what callers mapped last, for every directory
  held        \* history: data frames that callers still have a handle of

vars == <<mem, used, cr3, tlb, iflag, halted, spaces, wanted, held>>

PageDirectory == 1        \* page_directory
FirstPageTable == 2       \* first_page_table (and heap_page_table)
UserStackPhys == 3        \* user_stack_phys, the frame KernelMain allocates
Reserved == {0, PageDirectory, FirstPageTable, UserStackPhys}

Zeroed == [i \in Index |-> 0]
Unmapped == [v \in VirtualPages |-> 0]
\* What a caller leaves in a frame.
Data == [i \in Index |-> NumFrames - 1]

LowestFree(U) == CHOOSE f \in Frames \ U : \A g \in Frames \ U : f <= g

-----------------------------------------------------------------------------
(* Mapping page v to frame f in directory d of memory m.  If the directory *)
(* entry is not present, frame t becomes its table and is zeroed through   *)
(* the scratchpad.  The table is then looked up through frame shown.       *)

MapThroughNoZero(m, d, v, f, t, shown) ==
  LET linked == IF m[d][v[1]] = 0
                THEN [m EXCEPT ![d][v[1]] = t]
                ELSE m
  IN  [linked EXCEPT ![linked[shown][v[1]]][v[2]] = f]

MapThrough(m, d, v, f, t, shown) ==
  LET linked == IF m[d][v[1]] = 0
                THEN [m EXCEPT ![d][v[1]] = t, ![t] = Zeroed]
                ELSE m
  IN  [linked EXCEPT ![linked[shown][v[1]]][v[2]] = f]

\* vmm_map_page uses the array page_directory, vmm_map_page_in_pdir maps the
\* directory into the scratchpad again.
MapAt(m, d, v, f, t) == MapThrough(m, d, v, f, t, d)

\* vmm_map_page_current: behind a new table the scratchpad still shows that
\* table when the directory entry is read back.
MapCurrent(m, d, v, f, t) ==
  MapThrough(m, d, v, f, t, IF m[d][v[1]] = 0 THEN t ELSE d)

\* vmm_init, then KernelMain maps its user stack, and launch_user_process a
\* code page and the same stack page again.
Init ==
  LET vmm_init == [f \in Frames |->
                     CASE f = PageDirectory -> [Zeroed EXCEPT ![0] = FirstPageTable]
                       [] f = FirstPageTable -> Data
                       [] OTHER -> Data]
      boot == MapAt(vmm_init, PageDirectory, StackPage, UserStackPhys, 4)
      code == MapCurrent(boot, PageDirectory, CodePage, 5, 0)
      stack == MapCurrent(code, PageDirectory, StackPage, 6, 0)
  IN  /\ mem = stack
      /\ used = Reserved \cup 4 .. 6
      /\ cr3 = PageDirectory
      /\ tlb = [Unmapped EXCEPT ![CodePage] = 5]
      /\ iflag = TRUE
      /\ halted = FALSE
      /\ spaces = {PageDirectory}
      /\ wanted = [d \in Frames |->
                     IF d = PageDirectory
                     THEN [Unmapped EXCEPT ![CodePage] = 5, ![StackPage] = 6]
                     ELSE Unmapped]
      /\ held = {}

-----------------------------------------------------------------------------
(* The PMM, as its callers see it. *)

pmm_alloc_frame ==
  /\ ~halted
  /\ used # Frames
  /\ LET f == LowestFree(used)
     IN  /\ used' = used \cup {f}
         /\ held' = held \cup {f}
         /\ mem' = [mem EXCEPT ![f] = Data]
  /\ UNCHANGED <<cr3, tlb, iflag, halted, spaces, wanted>>

\* A caller gives a frame back once it is mapped nowhere.
pmm_free_block(f) ==
  /\ ~halted
  /\ f \in held
  /\ \A d \in spaces, v \in VirtualPages : wanted[d][v] # f
  /\ used' = used \ {f}
  /\ held' = held \ {f}
  /\ UNCHANGED <<mem, cr3, tlb, iflag, halted, spaces, wanted>>

-----------------------------------------------------------------------------
(* The operations on the kernel's directory. *)

\* Callers leave the pages of the user process alone.
CallerPages == VirtualPages \ (DemandPages \cup {CodePage, StackPage})

\* A table is needed and there is no frame: kernel_panic.
NoTable(d, v, U) == mem[d][v[1]] = 0 /\ U = Frames

Panic ==
  /\ halted' = TRUE
  /\ UNCHANGED <<mem, used, cr3, tlb, iflag, spaces, wanted, held>>

\* The frames in use after a page table was allocated if one was needed.
WithTable(d, v, U) == IF mem[d][v[1]] = 0 THEN U \cup {LowestFree(U)} ELSE U

\* The frame the new table gets; any number if none is needed.
TableFrame(d, v, U) == IF mem[d][v[1]] = 0 THEN LowestFree(U) ELSE 0

InvlpgNone(v) == tlb' = tlb

Invlpg(v) == tlb' = [tlb EXCEPT ![v] = 0]

vmm_map_page(f, v) ==
  /\ ~halted
  /\ f \in held
  /\ ~NoTable(PageDirectory, v, used)
  /\ mem' = MapAt(mem, PageDirectory, v, f, TableFrame(PageDirectory, v, used))
  /\ used' = WithTable(PageDirectory, v, used)
  /\ Invlpg(v)
  /\ wanted' = [wanted EXCEPT ![PageDirectory][v] = f]
  /\ UNCHANGED <<cr3, iflag, halted, spaces, held>>

vmm_map_page_panic(f, v) ==
  /\ ~halted
  /\ f \in Frames \ used \/ (f \in held /\ NoTable(PageDirectory, v, used))
  /\ Panic

\* With no table, it returns without irq_restore.
vmm_unmap_page(v) ==
  /\ ~halted
  /\ LET t == mem[PageDirectory][v[1]]
     IN  IF t = 0
         THEN /\ iflag' = FALSE
              /\ UNCHANGED <<mem, tlb>>
         ELSE /\ mem' = [mem EXCEPT ![t][v[2]] = 0]
              /\ Invlpg(v)
              /\ UNCHANGED iflag
  /\ wanted' = [wanted EXCEPT ![PageDirectory][v] = 0]
  /\ UNCHANGED <<used, cr3, halted, spaces, held>>

\* Reads only; it too returns without irq_restore if there is no table.
vmm_get_physical(v) ==
  /\ ~halted
  /\ iflag' = (iflag /\ mem[PageDirectory][v[1]] # 0)
  /\ UNCHANGED <<mem, used, cr3, tlb, halted, spaces, wanted, held>>

-----------------------------------------------------------------------------
(* Address spaces. *)

ClonedWithUser(d) ==
  [i \in Index |-> mem[PageDirectory][i]]

\* The kernel's entries, and no user page.
Cloned(d) ==
  [i \in Index |-> IF i < KernelPdes THEN mem[PageDirectory][i] ELSE 0]

vmm_create_address_space ==
  /\ ~halted
  /\ used # Frames
  /\ LET d == LowestFree(used)
     IN  /\ mem' = [mem EXCEPT ![d] = Cloned(d)]
         /\ used' = used \cup {d}
         /\ spaces' = spaces \cup {d}
         /\ wanted' = [wanted EXCEPT ![d] = Unmapped]
  /\ UNCHANGED <<cr3, tlb, iflag, halted, held>>

\* NULL is returned.
vmm_create_address_space_oom ==
  /\ ~halted
  /\ used = Frames
  /\ UNCHANGED vars

FreedDirOnly(d) == {d}

Freed(d) == {d} \cup ({mem[d][i] : i \in KernelPdes .. Entries - 1} \ {0})

\* What switch_context does to CR3: it compares it with ECX, and loads ECX,
\* which empties the TLB, only if they differ.  ECX is whatever its caller
\* left there (EcxAtCall of Task); here it holds some directory that exists,
\* the next task's or not.
LoadCr3(ecx) == cr3' = ecx /\ tlb' = IF ecx = cr3 THEN tlb ELSE Unmapped

\* Called by the reaper in task_yield; if d is still loaded, the switch that
\* follows before interrupts are on again loads another directory.
vmm_destroy_address_space(d, ecx) ==
  /\ ~halted
  /\ d \in spaces \ {PageDirectory}
  /\ ecx \in spaces \ {d}
  /\ used' = used \ Freed(d)
  /\ spaces' = spaces \ {d}
  /\ wanted' = [wanted EXCEPT ![d] = Unmapped]
  /\ IF cr3 = d THEN LoadCr3(ecx) ELSE UNCHANGED <<cr3, tlb>>
  /\ UNCHANGED <<mem, iflag, halted, held>>

\* It does not flush: callers map pages that are not present.
vmm_map_page_in_pdir(d, f, v) ==
  /\ ~halted
  /\ d \in spaces
  /\ f \in held
  /\ wanted[d][v] = 0
  /\ IF NoTable(d, v, used)
     THEN Panic
     ELSE /\ mem' = MapAt(mem, d, v, f, TableFrame(d, v, used))
          /\ used' = WithTable(d, v, used)
          /\ wanted' = [wanted EXCEPT ![d][v] = f]
          /\ UNCHANGED <<cr3, tlb, iflag, halted, spaces, held>>

switch_context(ecx) ==
  /\ ~halted
  /\ ecx \in spaces
  /\ LoadCr3(ecx)
  /\ UNCHANGED <<mem, used, iflag, halted, spaces, wanted, held>>

-----------------------------------------------------------------------------
(* Accesses of the running task. *)

Translate(d, v) == IF mem[d][v[1]] = 0 THEN 0 ELSE mem[mem[d][v[1]]][v[2]]

access(v) ==
  /\ ~halted
  /\ tlb[v] = 0 /\ Translate(cr3, v) # 0
  /\ tlb' = [tlb EXCEPT ![v] = Translate(cr3, v)]
  /\ UNCHANGED <<mem, used, cr3, iflag, halted, spaces, wanted, held>>

\* #PF, not present, in the range of the user stack.
page_fault(v) ==
  /\ ~halted
  /\ v \in DemandPages
  /\ cr3 = PageDirectory \/ TasksFault
  /\ tlb[v] = 0 /\ Translate(cr3, v) = 0
  /\ IF used = Frames \/ NoTable(cr3, v, used \cup {LowestFree(used)})
     THEN Panic
     ELSE LET f == LowestFree(used)
              U == used \cup {f}
          IN  /\ mem' = MapCurrent([mem EXCEPT ![f] = Data], cr3, v, f,
                                   TableFrame(cr3, v, U))
              /\ used' = WithTable(cr3, v, U)
              /\ wanted' = [wanted EXCEPT ![cr3][v] = f]
              /\ UNCHANGED <<cr3, tlb, iflag, halted, spaces, held>>

Next ==
  \/ pmm_alloc_frame
  \/ \E f \in Frames : pmm_free_block(f)
  \/ \E f \in Frames, v \in CallerPages :
       vmm_map_page(f, v) \/ vmm_map_page_panic(f, v)
  \/ \E d \in spaces, f \in Frames, v \in VirtualPages :
       vmm_map_page_in_pdir(d, f, v)
  \/ \E v \in CallerPages : vmm_unmap_page(v)
  \/ \E v \in VirtualPages :
       vmm_get_physical(v) \/ access(v) \/ page_fault(v)
  \/ vmm_create_address_space \/ vmm_create_address_space_oom
  \/ \E d \in spaces :
       switch_context(d) \/ \E e \in spaces : vmm_destroy_address_space(d, e)

Spec == Init /\ [][Next]_vars

-----------------------------------------------------------------------------
(* Properties *)

Tables(d) == {mem[d][i] : i \in KernelPdes .. Entries - 1} \ {0}

\* Every address space translates a page to the frame it was last mapped to
\* and to nothing else, although tables are reused frames with old contents
\* and are all written through the one scratchpad.
TranslatesAsMapped ==
  \A d \in spaces, v \in VirtualPages : Translate(d, v) = wanted[d][v]

\* No frame has two roles: directories, the tables of all address spaces and
\* the frames of callers are pairwise distinct, so no mapping lets one task
\* reach the tables or, unless both were mapped to it, the data of another.
FramesHaveOneRole ==
  /\ \A d, e \in spaces : d # e => Tables(d) \cap Tables(e) = {}
  /\ \A d \in spaces, i, j \in KernelPdes .. Entries - 1 :
       mem[d][i] = mem[d][j] /\ mem[d][i] # 0 => i = j
  /\ LET tables == UNION {Tables(d) : d \in spaces}
     IN  /\ tables \cap (spaces \cup held \cup Reserved) = {}
         /\ held \cap (spaces \cup Reserved) = {}
         /\ \A d \in spaces, v \in VirtualPages :
              wanted[d][v] \notin tables \cup spaces \cup (Reserved \ {0})

\* The frames in use are the directories, their tables and what callers or
\* mappings hold (test.c:361, "vmm_destroy_address_space freed both Page
\* Directory and child Page Tables").
FramesAccounted ==
  used = Reserved \cup spaces \cup held \cup (UNION {Tables(d) : d \in spaces})
           \cup ({wanted[d][v] : d \in spaces, v \in VirtualPages} \ {0})

\* The TLB never holds a translation that the tables of the loaded directory
\* do not have (any more), whichever of the existing directories switch_context
\* finds in ECX, the one that is loaded already included.
TlbCoherent ==
  \A v \in VirtualPages : tlb[v] # 0 => tlb[v] = Translate(cr3, v)
=============================================================================
