------------------------------ MODULE ListSeq ------------------------------
(***************************************************************************)
(* What the intrusive lists of src/klib/list.h promise: one sequence of    *)
(* nodes for every head, and no node on two of them.                       *)
(***************************************************************************)
EXTENDS Sequences, Functions

CONSTANTS Heads, Nodes

VARIABLE list

On(h, n) == n \in Range(list[h])
Off(n) == \A h \in Heads : ~On(h, n)

Init == list = [h \in Heads |-> <<>>]

AddTail(h, n) == Off(n) /\ list' = [list EXCEPT ![h] = Append(@, n)]
Add(h, n) == Off(n) /\ list' = [list EXCEPT ![h] = <<n>> \o @]
Del(h, n) ==
  On(h, n) /\ list' = [list EXCEPT ![h] = SelectSeq(@, LAMBDA m : m # n)]
Drain(h) == list' = [list EXCEPT ![h] = <<>>]

Next ==
  \E h \in Heads :
    Drain(h) \/ \E n \in Nodes : AddTail(h, n) \/ Add(h, n) \/ Del(h, n)

Spec == Init /\ [][Next]_list
=============================================================================
