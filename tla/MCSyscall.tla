----------------------------- MODULE MCSyscall -----------------------------
(***************************************************************************)
(* A ring of three slots, so that it fills up and wraps around, and lines  *)
(* of up to two characters.                                                *)
(***************************************************************************)
EXTENDS Syscall
=============================================================================
