------------------------------- MODULE MCList -------------------------------
(***************************************************************************)
(* Two heads and four nodes: lists long enough for a node with neighbours  *)
(* that are neither the head nor each other.                               *)
(***************************************************************************)
EXTENDS List
=============================================================================
