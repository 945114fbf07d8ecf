------------------------------ MODULE Keyboard ------------------------------
(***************************************************************************)
(* The keyboard driver, src/drivers/keyboard/keyboard.c: the interrupt     *)
(* handler that turns scancodes into characters and puts them into a ring  *)
(* buffer, and kbd_getchar, which the shell task calls with interrupts on  *)
(* and which the handler may interrupt between any two of its accesses to  *)
(* the buffer.                                                             *)
(*                                                                         *)
(* Scancodes are named after their keys; "a" stands for the keys that the  *)
(* two maps translate and "F1" for those they map to 0.                    *)
(***************************************************************************)
EXTENDS Integers, Sequences

CONSTANTS
  BufferSize,    \* KBD_BUFFER_SIZE, 128
  MaxKeys        \* bound: key events in a behaviour

ASSUME KeyboardAssumption == BufferSize \in Nat \ {0, 1} /\ MaxKeys \in Nat

Shifts == {"lshift", "rshift"}
Modifiers == Shifts \cup {"ctrl"}
Keys == {"enter", "backspace", "c", "up", "down", "a", "F1"}
Chars == {"LF", "BS", "ETX", "UP", "DOWN", "c", "C", "a", "A"}
None == "NUL"

VARIABLES
  shift_pressed, ctrl_pressed,
  kbd_fifo, kbd_head, kbd_tail,
  scrolled,          \* calls of scroll_history_up and _down
  pc, c, tail,       \* kbd_getchar: where it is, and its registers
  delivered,         \* history: what kbd_getchar returned
  keys               \* bound: events so far

vars == <<shift_pressed, ctrl_pressed, kbd_fifo, kbd_head, kbd_tail, scrolled,
          pc, c, tail, delivered, keys>>

Init ==
  /\ shift_pressed = FALSE /\ ctrl_pressed = FALSE
  /\ kbd_fifo = [i \in 0 .. BufferSize - 1 |-> None]
  /\ kbd_head = 0 /\ kbd_tail = 0
  /\ scrolled = 0
  /\ pc = "idle" /\ c = None /\ tail = 0
  /\ delivered = <<>>
  /\ keys = 0

-----------------------------------------------------------------------------
(* keyboard_handler, IRQ1. *)

\* The character of a key, given the modifiers.
Translate(key) ==
  CASE key = "enter" -> "LF"
    [] key = "backspace" -> "BS"
    [] key = "c" /\ ctrl_pressed -> "ETX"
    [] key = "up" -> "UP"
    [] key = "down" -> "DOWN"
    [] key = "c" /\ ~ctrl_pressed -> IF shift_pressed THEN "C" ELSE "c"
    [] key = "a" -> IF shift_pressed THEN "A" ELSE "a"
    [] OTHER -> None

FullNever == FALSE

Full == (kbd_head + 1) % BufferSize = kbd_tail

Put(char) ==
  /\ kbd_fifo' = [kbd_fifo EXCEPT ![kbd_head] = char]
  /\ kbd_head' = (kbd_head + 1) % BufferSize

Event == keys < MaxKeys /\ keys' = keys + 1

\* Make and break codes of the modifiers.
keyboard_modifier(key, make) ==
  /\ Event
  /\ shift_pressed' = IF key \in Shifts THEN make ELSE shift_pressed
  /\ ctrl_pressed' = IF key = "ctrl" THEN make ELSE ctrl_pressed
  /\ UNCHANGED <<kbd_fifo, kbd_head, kbd_tail, scrolled, pc, c, tail, delivered>>

keyboard_scroll ==
  /\ Event
  /\ scrolled' = scrolled + 1
  /\ UNCHANGED <<shift_pressed, ctrl_pressed, kbd_fifo, kbd_head, kbd_tail, pc,
                 c, tail, delivered>>

\* Any other make code.  A key that has no character, or that comes when
\* the buffer is full, changes nothing.
keyboard_handler(key) ==
  /\ Event
  /\ IF Translate(key) # None /\ ~Full
     THEN Put(Translate(key))
     ELSE UNCHANGED <<kbd_fifo, kbd_head>>
  /\ UNCHANGED <<shift_pressed, ctrl_pressed, kbd_tail, scrolled, pc, c, tail,
                 delivered>>

-----------------------------------------------------------------------------
(* kbd_getchar; keyboard_pop_char is the same code. *)

\* if (kbd_head == kbd_tail) return 0;
getchar_check ==
  /\ pc = "idle"
  /\ kbd_head # kbd_tail
  /\ pc' = "read"
  /\ UNCHANGED <<shift_pressed, ctrl_pressed, kbd_fifo, kbd_head, kbd_tail,
                 scrolled, c, tail, delivered, keys>>

\* c = kbd_fifo[kbd_tail];
getchar_read ==
  /\ pc = "read"
  /\ c' = kbd_fifo[kbd_tail]
  /\ pc' = "load"
  /\ UNCHANGED <<shift_pressed, ctrl_pressed, kbd_fifo, kbd_head, kbd_tail,
                 scrolled, tail, delivered, keys>>

\* The load of kbd_tail ...
getchar_load ==
  /\ pc = "load"
  /\ tail' = kbd_tail
  /\ pc' = "store"
  /\ UNCHANGED <<shift_pressed, ctrl_pressed, kbd_fifo, kbd_head, kbd_tail,
                 scrolled, c, delivered, keys>>

getchar_store_lost ==
  /\ pc = "store"
  /\ pc' = "idle" /\ c' = None /\ tail' = 0
  /\ UNCHANGED <<shift_pressed, ctrl_pressed, kbd_fifo, kbd_head, kbd_tail,
                 delivered, scrolled, keys>>

\* ... and the store of (kbd_tail+1) % KBD_BUFFER_SIZE, which frees the slot.
getchar_store ==
  /\ pc = "store"
  /\ kbd_tail' = (tail + 1) % BufferSize
  /\ delivered' = Append(delivered, c)
  /\ pc' = "idle" /\ c' = None /\ tail' = 0
  /\ UNCHANGED <<shift_pressed, ctrl_pressed, kbd_fifo, kbd_head, scrolled, keys>>

kbd_getchar == getchar_check \/ getchar_read \/ getchar_load \/ getchar_store

\* A scancode of any key.
keyboard_irq ==
  \/ \E key \in Keys : keyboard_handler(key)
  \/ \E key \in Modifiers, make \in BOOLEAN : keyboard_modifier(key, make)
  \/ keyboard_scroll

Next == keyboard_irq \/ kbd_getchar

Spec == Init /\ [][Next]_vars

-----------------------------------------------------------------------------
(* Properties *)

Size == (kbd_head - kbd_tail) % BufferSize

Q == INSTANCE KbdQueue WITH
       queue <- [i \in 1 .. Size |-> kbd_fifo[(kbd_tail + i - 1) % BufferSize]],
       Capacity <- BufferSize - 1

\* Handler and reader together implement the bounded queue: wherever the
\* interrupt falls, no key that was accepted is lost, read twice or out of
\* order, and none overwrites what is being read.
QueueSpec == Q!Spec
=============================================================================
