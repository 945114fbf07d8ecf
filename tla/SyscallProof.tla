---------------------------- MODULE SyscallProof ----------------------------
(***************************************************************************)
(* The keyboard ring with its interrupt handler and either reader          *)
(* implements the bounded queue of KbdQueue, for every size of the ring.   *)
(*                                                                         *)
(* The refinement needs an invariant: a shell between the check and the    *)
(* store of kbd_getchar has seen a ring that was not empty, and what it    *)
(* has loaded is still there, because the handler never writes the slot at *)
(* kbd_tail while the ring is not empty.                                   *)
(***************************************************************************)
EXTENDS Syscall, SequenceTheorems, TLAPS

N == BufferSize
Entries == Chars \cup {None}

RingOK ==
  /\ kbd_head \in 0 .. N - 1 /\ kbd_tail \in 0 .. N - 1
  /\ kbd_fifo \in [0 .. N - 1 -> Entries]

Inv ==
  /\ RingOK
  /\ reader = "program" => pc = "idle"
  /\ at # "user" => reader = "program"
  /\ pc \in {"read", "load", "store"} => kbd_head # kbd_tail
  /\ pc \in {"load", "store"} => c = kbd_fifo[kbd_tail]
  /\ pc = "store" => tail = kbd_tail

\* The refinement mapping.
Queue == [i \in 1 .. Size |-> kbd_fifo[(kbd_tail + i - 1) % N]]

-----------------------------------------------------------------------------
(* Arithmetic of the ring *)

LEMMA ModBelow == ASSUME NEW a \in 0 .. N - 1 PROVE a % N = a
  BY KeyboardAssumption DEF N

LEMMA ModAbove == ASSUME NEW a \in N .. 2 * N - 1 PROVE a % N = a - N
  BY KeyboardAssumption DEF N

LEMMA ModNegative == ASSUME NEW a \in -N .. -1 PROVE a % N = a + N
  BY KeyboardAssumption DEF N

\* The next slot.
LEMMA Successor ==
  ASSUME NEW a \in 0 .. N - 1
  PROVE  (a + 1) % N = IF a = N - 1 THEN 0 ELSE a + 1
<1>0. N \in Nat /\ N > 1
  BY KeyboardAssumption DEF N
<1>1. CASE a = N - 1
  BY <1>0, <1>1, ModAbove
<1>2. CASE a # N - 1
  BY <1>0, <1>2, ModBelow
<1> QED
  BY <1>1, <1>2

LEMMA SizeIs ==
  ASSUME RingOK
  PROVE  /\ Size = IF kbd_head >= kbd_tail THEN kbd_head - kbd_tail
                   ELSE kbd_head - kbd_tail + N
         /\ Size \in 0 .. N - 1
<1>0. N \in Nat /\ N > 1
  BY KeyboardAssumption DEF N
<1>1. CASE kbd_head >= kbd_tail
  BY <1>0, <1>1, ModBelow DEF RingOK, Size, N
<1>2. CASE kbd_head < kbd_tail
  BY <1>0, <1>2, ModNegative DEF RingOK, Size, N
<1> QED
  BY <1>0, <1>1, <1>2 DEF RingOK

\* The slot of the i-th character.
LEMMA SlotIs ==
  ASSUME RingOK, NEW i \in 1 .. N
  PROVE  /\ (kbd_tail + i - 1) % N =
              IF kbd_tail + i - 1 < N THEN kbd_tail + i - 1 ELSE kbd_tail + i - 1 - N
         /\ (kbd_tail + i - 1) % N \in 0 .. N - 1
<1>0. N \in Nat /\ N > 1
  BY KeyboardAssumption DEF N
<1>1. CASE kbd_tail + i - 1 < N
  BY <1>0, <1>1, ModBelow DEF RingOK
<1>2. CASE kbd_tail + i - 1 >= N
  BY <1>0, <1>2, ModAbove DEF RingOK
<1> QED
  BY <1>0, <1>1, <1>2 DEF RingOK

LEMMA QueueIs ==
  ASSUME RingOK
  PROVE  Queue \in Seq(Entries) /\ Len(Queue) = Size
<1>1. \A i \in 1 .. Size : kbd_fifo[(kbd_tail + i - 1) % N] \in Entries
  BY SizeIs, SlotIs, KeyboardAssumption DEF RingOK, N
<1>2. Size \in Nat
  BY SizeIs, KeyboardAssumption DEF N
<1> QED
  BY <1>1, <1>2 DEF Queue

-----------------------------------------------------------------------------
(* What the handler and the readers do to the queue *)

\* The handler appends a character to a ring that is not full.
LEMMA PutAppends ==
  ASSUME RingOK, ~Full, NEW char \in Chars, Put(char), UNCHANGED kbd_tail
  PROVE  /\ RingOK'
         /\ Len(Queue) < N - 1
         /\ Queue' = Append(Queue, char)
<1>0. N \in Nat /\ N > 1
  BY KeyboardAssumption DEF N
<1>1. kbd_head' = IF kbd_head = N - 1 THEN 0 ELSE kbd_head + 1
  BY Successor DEF RingOK, Put, N
<1>2. RingOK'
  BY <1>0, <1>1 DEF RingOK, Put, Entries
<1>3. kbd_head' # kbd_tail
  BY DEF Full, Put
<1>4. Size' = Size + 1 /\ Size < N - 1
  <2>1. Size' = IF kbd_head' >= kbd_tail' THEN kbd_head' - kbd_tail'
                ELSE kbd_head' - kbd_tail' + N
    <3>1. CASE kbd_head' >= kbd_tail'
      BY <1>0, <1>2, <3>1, ModBelow DEF RingOK, Size, N
    <3>2. CASE kbd_head' < kbd_tail'
      BY <1>0, <1>2, <3>2, ModNegative DEF RingOK, Size, N
    <3> QED
      BY <1>2, <3>1, <3>2 DEF RingOK
  <2> QED
    BY <1>0, <1>1, <1>3, <2>1, SizeIs DEF RingOK
<1>5. Queue \in Seq(Entries) /\ Len(Queue) = Size
  BY QueueIs
<1>6. Len(Append(Queue, char)) = Size + 1 /\ Append(Queue, char) \in Seq(Entries)
  BY <1>5, AppendProperties DEF Entries
<1>7. \A i \in 1 .. Size + 1 :
        kbd_fifo'[(kbd_tail + i - 1) % N] =
          IF i = Size + 1 THEN char ELSE kbd_fifo[(kbd_tail + i - 1) % N]
  <2> SUFFICES ASSUME NEW i \in 1 .. Size + 1
               PROVE  kbd_fifo'[(kbd_tail + i - 1) % N] =
                        IF i = Size + 1 THEN char ELSE kbd_fifo[(kbd_tail + i - 1) % N]
    OBVIOUS
  <2>1. (kbd_tail + i - 1) % N = kbd_head <=> i = Size + 1
    BY <1>0, <1>4, SizeIs, SlotIs DEF RingOK
  <2>2. (kbd_tail + i - 1) % N \in 0 .. N - 1
    BY <1>0, <1>4, SizeIs, SlotIs
  <2> QED
    BY <2>1, <2>2 DEF RingOK, Put
<1>8. Queue' = [i \in 1 .. Size + 1 |-> kbd_fifo'[(kbd_tail + i - 1) % N]]
  BY <1>4 DEF Queue, N
<1>9. Append(Queue, char) =
        [i \in 1 .. Size + 1 |->
           IF i = Size + 1 THEN char ELSE kbd_fifo[(kbd_tail + i - 1) % N]]
  BY <1>0, <1>4, <1>5, SizeIs DEF Queue
<1> QED
  BY <1>2, <1>4, <1>5, <1>7, <1>8, <1>9

\* A reader takes the first character of a ring that is not empty.
LEMMA PopTakes ==
  ASSUME RingOK, kbd_head # kbd_tail,
         kbd_tail' = (kbd_tail + 1) % N, UNCHANGED <<kbd_head, kbd_fifo>>
  PROVE  /\ RingOK'
         /\ Queue # <<>>
         /\ Head(Queue) = kbd_fifo[kbd_tail]
         /\ Queue' = Tail(Queue)
<1>0. N \in Nat /\ N > 1
  BY KeyboardAssumption DEF N
<1>1. kbd_tail' = IF kbd_tail = N - 1 THEN 0 ELSE kbd_tail + 1
  BY Successor DEF RingOK
<1>2. RingOK'
  BY <1>0, <1>1 DEF RingOK
<1>3. Size' = Size - 1 /\ Size > 0
  <2>1. Size' = IF kbd_head' >= kbd_tail' THEN kbd_head' - kbd_tail'
                ELSE kbd_head' - kbd_tail' + N
    <3>1. CASE kbd_head' >= kbd_tail'
      BY <1>0, <1>2, <3>1, ModBelow DEF RingOK, Size, N
    <3>2. CASE kbd_head' < kbd_tail'
      BY <1>0, <1>2, <3>2, ModNegative DEF RingOK, Size, N
    <3> QED
      BY <1>2, <3>1, <3>2 DEF RingOK
  <2> QED
    BY <1>0, <1>1, <2>1, SizeIs DEF RingOK
<1>4. Queue \in Seq(Entries) /\ Len(Queue) = Size /\ Queue # <<>>
  BY <1>3, QueueIs
<1>5. Head(Queue) = kbd_fifo[kbd_tail]
  <2>1. (kbd_tail + 1 - 1) % N = kbd_tail
    BY <1>0, SlotIs DEF RingOK
  <2>2. 1 \in 1 .. Size
    BY <1>3, SizeIs, <1>0
  <2> QED
    BY <1>4, <2>1, <2>2 DEF Queue
<1>6. \A i \in 1 .. Size - 1 :
        (kbd_tail' + i - 1) % N = (kbd_tail + (i + 1) - 1) % N
  <2> SUFFICES ASSUME NEW i \in 1 .. Size - 1
               PROVE  (kbd_tail' + i - 1) % N = (kbd_tail + (i + 1) - 1) % N
    OBVIOUS
  <2>1. i + 1 \in 1 .. N /\ i \in 1 .. N
    BY <1>0, SizeIs
  <2>2. CASE kbd_tail = N - 1
    <3>1. (kbd_tail' + i - 1) % N = i - 1
      BY <1>0, <1>1, <2>1, <2>2, SizeIs, ModBelow
    <3> QED
      BY <1>0, <2>1, <2>2, <3>1, SlotIs DEF RingOK
  <2>3. CASE kbd_tail # N - 1
    BY <1>1, <2>3, <2>1 DEF RingOK
  <2> QED
    BY <2>2, <2>3
<1>7. Queue' = [i \in 1 .. Size - 1 |-> kbd_fifo[(kbd_tail' + i - 1) % N]]
  BY <1>3 DEF Queue, N
<1>8. Tail(Queue) = [i \in 1 .. Size - 1 |-> kbd_fifo[(kbd_tail + (i + 1) - 1) % N]]
  BY <1>0, <1>3, <1>4, SizeIs DEF Queue
<1> QED
  BY <1>2, <1>4, <1>5, <1>6, <1>7, <1>8

-----------------------------------------------------------------------------
(* The invariant and the refinement.  Every step appends to the queue,     *)
(* takes from it, or leaves it alone.                                      *)

QueueStep ==
  \/ \E char \in Chars : /\ Len(Queue) < N - 1
                         /\ Queue' = Append(Queue, char)
                         /\ UNCHANGED delivered
  \/ /\ Queue # <<>>
     /\ Queue' = Tail(Queue)
     /\ delivered' = Append(delivered, Head(Queue))
  \/ UNCHANGED <<Queue, delivered>>

\* Nothing that touches neither index nor slot changes the queue.
LEMMA QueueStays ==
  ASSUME RingOK, UNCHANGED <<kbd_head, kbd_tail, kbd_fifo>>
  PROVE  RingOK' /\ UNCHANGED Queue
  BY DEF RingOK, Queue, Size

LEMMA InitInv == SysInit => Inv /\ Queue = <<>> /\ delivered = <<>>
<1> SUFFICES ASSUME SysInit PROVE Inv /\ Queue = <<>> /\ delivered = <<>>
  OBVIOUS
<1>0. N \in Nat /\ N > 1
  BY KeyboardAssumption DEF N
<1>1. Inv
  BY <1>0 DEF SysInit, Init, Inv, RingOK, Entries, N
<1>2. Size = 0
  BY <1>0, <1>1, SizeIs DEF Inv, SysInit, Init
<1>3. Queue \in Seq(Entries) /\ Len(Queue) = 0
  BY <1>1, <1>2, QueueIs DEF Inv
<1> QED
  BY <1>1, <1>3, EmptySeq DEF SysInit, Init

\* The handler: it never writes the slot at kbd_tail of a ring that is not
\* empty, which is the one that a reader is looking at.
LEMMA HandlerStep ==
  ASSUME Inv, NEW key \in Keys, keyboard_handler(key), UNCHANGED callVars
  PROVE  Inv' /\ QueueStep
<1>1. CASE Translate(key) # None /\ ~Full
  <2>1. Translate(key) \in Chars
    BY <1>1 DEF Translate, Chars, None
  <2>2. Put(Translate(key)) /\ UNCHANGED <<kbd_tail, pc, c, tail, delivered>>
    BY <1>1 DEF keyboard_handler
  <2>3. /\ RingOK'
        /\ Len(Queue) < N - 1
        /\ Queue' = Append(Queue, Translate(key))
    BY <1>1, <2>1, <2>2, PutAppends DEF Inv
  <2>4. kbd_head' # kbd_tail
    BY <1>1, <2>2 DEF Full, Put
  <2>5. kbd_head # kbd_tail => kbd_fifo'[kbd_tail] = kbd_fifo[kbd_tail]
    BY <2>2 DEF Put, Inv, RingOK
  <2>6. Inv'
    BY <2>2, <2>3, <2>4, <2>5 DEF Inv, callVars
  <2> QED
    BY <2>1, <2>2, <2>3, <2>6 DEF QueueStep
<1>2. CASE ~(Translate(key) # None /\ ~Full)
  <2>1. UNCHANGED <<kbd_head, kbd_tail, kbd_fifo, pc, c, tail, delivered>>
    BY <1>2 DEF keyboard_handler
  <2>2. RingOK' /\ UNCHANGED Queue
    BY <2>1, QueueStays DEF Inv
  <2> QED
    BY <2>1, <2>2 DEF Inv, callVars, QueueStep
<1> QED
  BY <1>1, <1>2

LEMMA IrqStep ==
  ASSUME Inv, keyboard_irq, UNCHANGED callVars
  PROVE  Inv' /\ QueueStep
<1>1. CASE \E key \in Keys : keyboard_handler(key)
  BY <1>1, HandlerStep
<1>2. CASE (\E key \in Modifiers, make \in BOOLEAN : keyboard_modifier(key, make))
           \/ keyboard_scroll
  <2>1. UNCHANGED <<kbd_head, kbd_tail, kbd_fifo, pc, c, tail, delivered>>
    BY <1>2 DEF keyboard_modifier, keyboard_scroll
  <2>2. RingOK' /\ UNCHANGED Queue
    BY <2>1, QueueStays DEF Inv
  <2> QED
    BY <2>1, <2>2 DEF Inv, callVars, QueueStep
<1> QED
  BY <1>1, <1>2 DEF keyboard_irq

\* kbd_getchar, one access at a time; the queue loses its head at the store.
LEMMA ShellStep ==
  ASSUME Inv, shell_getchar
  PROVE  Inv' /\ QueueStep
<1>0. reader = "shell" /\ UNCHANGED callVars
  BY DEF shell_getchar
<1>1. CASE getchar_check \/ getchar_read \/ getchar_load
  <2>1. UNCHANGED <<kbd_head, kbd_tail, kbd_fifo, delivered>>
    BY <1>1 DEF getchar_check, getchar_read, getchar_load
  <2>2. RingOK' /\ UNCHANGED Queue
    BY <2>1, QueueStays DEF Inv
  <2>3. Inv'
    BY <1>0, <1>1, <2>1, <2>2
       DEF Inv, callVars, getchar_check, getchar_read, getchar_load
  <2> QED
    BY <2>1, <2>2, <2>3 DEF QueueStep
<1>2. CASE getchar_store
  <2>1. /\ kbd_head # kbd_tail /\ c = kbd_fifo[kbd_tail]
        /\ kbd_tail' = (kbd_tail + 1) % N
        /\ UNCHANGED <<kbd_head, kbd_fifo>>
    BY <1>2 DEF Inv, getchar_store, N
  <2>2. /\ RingOK' /\ Queue # <<>> /\ Head(Queue) = c
        /\ Queue' = Tail(Queue)
    BY <2>1, PopTakes DEF Inv
  <2>3. Inv'
    BY <1>0, <1>2, <2>2 DEF Inv, callVars, getchar_store
  <2> QED
    BY <1>2, <2>2, <2>3 DEF QueueStep, getchar_store
<1> QED
  BY <1>1, <1>2 DEF shell_getchar, kbd_getchar

\* A program in system call 4 pops with interrupts off, in one step.
LEMMA ProgramStep ==
  ASSUME Inv, Program
  PROVE  Inv' /\ QueueStep
<1>1. CASE line_key
  <2>1. /\ kbd_head # kbd_tail /\ at = "reading" /\ UNCHANGED reader
        /\ kbd_tail' = (kbd_tail + 1) % N
        /\ delivered' = Append(delivered, kbd_fifo[kbd_tail])
        /\ UNCHANGED <<kbd_head, kbd_fifo, pc, c, tail>>
    BY <1>1 DEF line_key, keyboard_pop_char, N
  <2>2. /\ RingOK' /\ Queue # <<>> /\ Head(Queue) = kbd_fifo[kbd_tail]
        /\ Queue' = Tail(Queue)
    BY <2>1, PopTakes DEF Inv
  <2>3. Inv'
    BY <2>1, <2>2 DEF Inv
  <2> QED
    BY <2>1, <2>2, <2>3 DEF QueueStep
<1>2. CASE (\E length \in Lengths : syscall_4(length)) \/ line_full \/ syscall_2
  <2>1. /\ UNCHANGED <<vars, reader>>
        /\ at' # "user" => reader = "program"
    BY <1>2 DEF Inv, syscall_4, line_full, syscall_2
  <2>2. UNCHANGED <<kbd_head, kbd_tail, kbd_fifo, pc, c, tail, delivered>>
    BY <2>1 DEF vars
  <2>3. RingOK' /\ UNCHANGED Queue
    BY <2>2, QueueStays DEF Inv
  <2> QED
    BY <2>1, <2>2, <2>3 DEF Inv, QueueStep
<1> QED
  BY <1>1, <1>2 DEF Program

LEMMA StepInv == Inv /\ [SysNext]_allVars => Inv' /\ QueueStep
<1> SUFFICES ASSUME Inv, [SysNext]_allVars PROVE Inv' /\ QueueStep
  OBVIOUS
<1>1. CASE keyboard_irq /\ UNCHANGED callVars
  BY <1>1, IrqStep
<1>2. CASE shell_getchar
  BY <1>2, ShellStep
<1>3. CASE Program
  BY <1>3, ProgramStep
<1>4. CASE UNCHANGED allVars
  <2>1. UNCHANGED <<kbd_head, kbd_tail, kbd_fifo, pc, c, tail, delivered, reader, at>>
    BY <1>4 DEF allVars, vars, callVars
  <2>2. RingOK' /\ UNCHANGED Queue
    BY <2>1, QueueStays DEF Inv
  <2> QED
    BY <2>1, <2>2 DEF Inv, QueueStep
<1> QED
  BY <1>1, <1>2, <1>3, <1>4 DEF SysNext

\* For every size of the ring and wherever the interrupt falls in
\* kbd_getchar, handler and readers implement the bounded queue: no accepted
\* key is lost, read twice, reordered or overwritten while it is read.
THEOREM QueueCorrect == SysSpec => QueueSpec
<1>1. SysInit => Inv /\ Q!Init
  BY InitInv DEF Q!Init, Queue, N
<1>2. Inv /\ [SysNext]_allVars => Inv' /\ [Q!Next]_(Q!vars)
  BY StepInv, Zenon DEF QueueStep, Q!Next, Q!Press, Q!Read, Q!vars, Queue, N
<1> QED
  BY <1>1, <1>2, PTL DEF SysSpec, QueueSpec, Q!Spec
=============================================================================
