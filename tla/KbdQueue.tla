------------------------------ MODULE KbdQueue ------------------------------
(***************************************************************************)
(* What the keyboard buffer promises its reader: a bounded queue of        *)
(* characters that drops the newest one when it is full.                   *)
(***************************************************************************)
EXTENDS Naturals, Sequences

CONSTANTS Chars, Capacity

VARIABLES queue, delivered

vars == <<queue, delivered>>

Init == queue = <<>> /\ delivered = <<>>

Press(c) ==
  /\ Len(queue) < Capacity
  /\ queue' = Append(queue, c)
  /\ UNCHANGED delivered

Read ==
  /\ queue # <<>>
  /\ queue' = Tail(queue)
  /\ delivered' = Append(delivered, Head(queue))

Next == Read \/ \E c \in Chars : Press(c)

Spec == Init /\ [][Next]_vars
=============================================================================
