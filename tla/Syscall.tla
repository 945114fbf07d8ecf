------------------------------ MODULE Syscall ------------------------------
(***************************************************************************)
(* System calls 4 and 2 of src/kernel/syscall/syscall.c on the keyboard of *)
(* module Keyboard: a user program reads a line with call 4, which collects*)
(* keys in a static buffer and returns its address, and prints it with     *)
(* call 2.  One task reads the keyboard: the shell, with kbd_getchar, or a *)
(* user program.  The calls run with interrupts off, except in the hlt     *)
(* that waits for the next one.                                            *)
(***************************************************************************)
EXTENDS Keyboard, SequencesExt

CONSTANTS
  BufferCap,    \* the longest max_len, 255
  Lengths,      \* the lengths programs ask for
  MaxCalls      \* bound: calls of system call 4

ASSUME SyscallAssumption ==
  BufferCap \in Nat \ {0} /\ Lengths \subseteq Nat /\ MaxCalls \in Nat

VARIABLES
  reader,          \* who reads the keyboard: "shell" or "program"
  at,              \* the program: "user", "reading" or "returned"
  input_buffer, index, max_len,
  typed,           \* history: the keys this call has popped
  calls            \* bound: calls so far

callVars == <<reader, at, input_buffer, index, max_len, typed, calls>>
allVars == <<vars, callVars>>

SysInit ==
  /\ Init
  /\ reader \in {"shell", "program"}
  /\ at = "user"
  /\ input_buffer = [i \in 0 .. BufferCap |-> None]
  /\ index = 0 /\ max_len = 0
  /\ typed = <<>> /\ calls = 0

-----------------------------------------------------------------------------

\* max_len 0 returns a null pointer, larger ones are cut to the buffer.
syscall_4(length) ==
  /\ reader = "program" /\ at = "user" /\ calls < MaxCalls
  /\ calls' = calls + 1
  /\ at' = IF length = 0 THEN "user" ELSE "reading"
  /\ max_len' = IF length > BufferCap THEN BufferCap ELSE length
  /\ index' = 0 /\ typed' = <<>>
  /\ UNCHANGED <<vars, reader, input_buffer>>

\* keyboard_pop_char, atomic with interrupts off.
keyboard_pop_char ==
  /\ kbd_tail' = (kbd_tail + 1) % BufferSize
  /\ delivered' = Append(delivered, kbd_fifo[kbd_tail])
  /\ typed' = Append(typed, kbd_fifo[kbd_tail])
  /\ UNCHANGED <<shift_pressed, ctrl_pressed, kbd_fifo, kbd_head, scrolled, pc,
                 c, tail, keys>>

Terminated(i) == [input_buffer EXCEPT ![i] = None]

line_full_open ==
  /\ at = "reading" /\ index >= max_len - 1
  /\ at' = "returned"
  /\ UNCHANGED <<vars, reader, input_buffer, index, max_len, typed, calls>>

\* The loop ends when the line is full ...
line_full ==
  /\ at = "reading" /\ index >= max_len - 1
  /\ input_buffer' = Terminated(index)
  /\ at' = "returned"
  /\ UNCHANGED <<vars, reader, index, max_len, typed, calls>>

\* ... or with the newline.  Without a key, the hlt ends with the next timer
\* interrupt and the loop goes round after a task_yield: nothing changes.
line_key ==
  LET key == kbd_fifo[kbd_tail]
  IN  /\ at = "reading" /\ index < max_len - 1
      /\ kbd_head # kbd_tail
      /\ keyboard_pop_char
      /\ CASE key = "LF" ->
                /\ input_buffer' = [Terminated(index + 1) EXCEPT ![index] = key]
                /\ index' = index + 1 /\ at' = "returned"
           [] key = "BS" ->
                /\ index' = IF index > 0 THEN index - 1 ELSE index
                /\ UNCHANGED <<at, input_buffer>>
           [] OTHER ->
                /\ input_buffer' = [input_buffer EXCEPT ![index] = key]
                /\ index' = index + 1
                /\ UNCHANGED at
      /\ UNCHANGED <<reader, max_len, calls>>

\* System call 2, puts of the buffer; the program's next call may begin.
syscall_2 ==
  /\ at = "returned"
  /\ at' = "user"
  /\ UNCHANGED <<vars, reader, input_buffer, index, max_len, typed, calls>>

Program == (\E length \in Lengths : syscall_4(length)) \/ line_full \/ line_key
           \/ syscall_2

shell_getchar ==
  /\ reader = "shell"
  /\ kbd_getchar
  /\ UNCHANGED callVars

SysNext == (keyboard_irq /\ UNCHANGED callVars) \/ shell_getchar \/ Program

\* The shell polls for ever; a program goes on whenever it is waiting in the
\* loop, since the timer ends every hlt.
SysSpec ==
  SysInit /\ [][SysNext]_allVars /\ WF_allVars(shell_getchar) /\ WF_allVars(Program)

-----------------------------------------------------------------------------
(* Properties *)

\* The string a program finds at the address that call 4 returned.
String ==
  LET ends == {i \in 0 .. BufferCap : input_buffer[i] = None}
      end == CHOOSE i \in ends : \A j \in ends : i <= j
  IN  [i \in 1 .. end |-> input_buffer[i - 1]]

\* The keys that no later backspace takes back, in order.
Surviving(ks) ==
  LET erased(i) == \E j \in i + 1 .. Len(ks) :
                     LET after == i + 1 .. j
                         bs == {n \in after : ks[n] = "BS"}
                     IN  2 * Cardinality(bs) > Cardinality(after)
      left == {i \in DOMAIN ks : ks[i] # "BS" /\ ~erased(i)}
  IN  [n \in 1 .. Cardinality(left) |-> ks[SetToSortSeq(left, <)[n]]]

\* The line a program gets is what was typed during its call, edited: the
\* keys popped by the call without those taken back, up to the newline or as
\* many as fit; it is terminated, and nothing of an earlier line shows.
LineIsTyped ==
  at = "returned" =>
    /\ String = Surviving(typed)
    /\ Len(String) <= max_len - 1
    /\ (\E i \in DOMAIN typed : typed[i] = "LF") <=> (typed # <<>> /\ Last(typed) = "LF")
    /\ typed = <<>> \/ Last(typed) # "LF" => Len(String) = max_len - 1

\* Every key that was accepted is read in the end, by a shell that polls or
\* by a program as long as it asks for keys.
KeysRead == []<>(kbd_head = kbd_tail \/ (reader = "program" /\ at = "user"))
=============================================================================
