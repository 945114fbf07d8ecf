-------------------------------- MODULE List --------------------------------
(***************************************************************************)
(* The circular doubly linked lists of src/klib/list.h at the level of     *)
(* their pointers, used the way task.c uses them: a node is added when it  *)
(* is on no list and deleted when it is on one, and the reaper empties a   *)
(* list with list_for_each_safe, deleting what it visits.                  *)
(***************************************************************************)
EXTENDS Integers, Sequences, FiniteSets

CONSTANTS
  Heads,    \* list heads: LIST_HEAD(ready_list), LIST_HEAD(dead_list)
  Nodes,    \* struct list_head members of tasks
  NULL

ASSUME ListAssumption == Heads \cap Nodes = {} /\ NULL \notin Heads \cup Nodes

Cells == Heads \cup Nodes

VARIABLES
  next, prev,
  pos, n, iter,   \* the variables of list_for_each_safe over head iter
  panicked        \* list_del found tampered pointers

vars == <<next, prev, pos, n, iter, panicked>>

\* LIST_HEAD_INIT for the heads, list_init for the nodes.
Init ==
  /\ next = [c \in Cells |-> c]
  /\ prev = [c \in Cells |-> c]
  /\ pos = NULL /\ n = NULL /\ iter = NULL
  /\ panicked = FALSE

\* A node is off every list after list_init or list_del.
Off(c) == next[c] \in {c, NULL}

__list_add(new_node, before, after) ==
  /\ next' = [next EXCEPT ![new_node] = after, ![before] = new_node]
  /\ prev' = [prev EXCEPT ![after] = new_node, ![new_node] = before]

list_add_tail(new_node, head) ==
  /\ iter = NULL /\ ~panicked
  /\ Off(new_node)
  /\ __list_add(new_node, prev[head], head)
  /\ UNCHANGED <<pos, n, iter, panicked>>

list_add_second(new_node, head) ==
  /\ iter = NULL /\ ~panicked
  /\ Off(new_node)
  /\ __list_add(new_node, next[head], next[next[head]])
  /\ UNCHANGED <<pos, n, iter, panicked>>

list_add(new_node, head) ==
  /\ iter = NULL /\ ~panicked
  /\ Off(new_node)
  /\ __list_add(new_node, head, next[head])
  /\ UNCHANGED <<pos, n, iter, panicked>>

\* The hardened check of list_del.
Tampered(entry) == prev[next[entry]] # entry \/ next[prev[entry]] # entry

Unlink(entry) ==
  /\ next' = [next EXCEPT ![prev[entry]] = next[entry], ![entry] = NULL]
  /\ prev' = [prev EXCEPT ![next[entry]] = prev[entry], ![entry] = NULL]

list_del(entry) ==
  IF Tampered(entry)
  THEN panicked' = TRUE /\ UNCHANGED <<next, prev>>
  ELSE Unlink(entry) /\ UNCHANGED panicked

Delete(entry) ==
  /\ iter = NULL /\ ~panicked
  /\ ~Off(entry)
  /\ list_del(entry)
  /\ UNCHANGED <<pos, n, iter>>

\* for (pos = head->next, n = pos->next; ...
for_each_safe_start(head) ==
  /\ iter = NULL /\ ~panicked
  /\ iter' = head
  /\ pos' = next[head]
  /\ n' = next[next[head]]
  /\ UNCHANGED <<next, prev, panicked>>

StepTwice ==
  /\ pos' = next'[n]
  /\ n' = next'[next'[n]]

\* ...; pos = n, n = pos->next)
Step ==
  /\ pos' = n
  /\ n' = next'[n]

for_each_safe_body ==
  /\ iter # NULL /\ ~panicked
  /\ pos # iter
  /\ list_del(pos)
  /\ Step
  /\ UNCHANGED iter

for_each_safe_end ==
  /\ iter # NULL /\ ~panicked
  /\ pos = iter
  /\ iter' = NULL /\ pos' = NULL /\ n' = NULL
  /\ UNCHANGED <<next, prev, panicked>>

Next ==
  \/ \E c \in Nodes, head \in Heads : list_add_tail(c, head) \/ list_add(c, head)
  \/ \E c \in Nodes : Delete(c)
  \/ \E head \in Heads : for_each_safe_start(head)
  \/ for_each_safe_body \/ for_each_safe_end

Spec == Init /\ [][Next]_vars

-----------------------------------------------------------------------------
(* Properties *)

RECURSIVE Walk(_, _)
Walk(head, c) == IF c = head THEN <<>> ELSE <<c>> \o Walk(head, next[c])

L == INSTANCE ListSeq WITH
       list <- [h \in Heads |-> IF iter = h THEN <<>> ELSE Walk(h, next[h])]

\* The pointers implement sequences: every node is where it was put, in
\* order, on one list only; a list the reaper walks counts as drained when
\* the walk begins.  The check in list_del (list.h:45) never fires.
ListSpec == L!Spec /\ []~panicked

\* list_for_each_safe visits all there is to delete, although the node it
\* stands on is unlinked and freed under it, and ends with an empty list.
DrainEmpties == [][iter # NULL /\ iter' = NULL => next[iter] = iter]_vars
=============================================================================
