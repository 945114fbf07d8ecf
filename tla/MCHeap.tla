------------------------------- MODULE MCHeap -------------------------------
(***************************************************************************)
(* A heap of 112 or 128 bytes with the code's header size, granule and     *)
(* split threshold, in an 8-bit address space.  The sizes leave remainders *)
(* below and above the threshold; in the overflow run 252 stands for       *)
(* 0xFFFFFFFC and 253 for 0xFFFFFFFD.                                      *)
(***************************************************************************)
EXTENDS Heap
=============================================================================
