------------------------------- MODULE MCTask -------------------------------
(***************************************************************************)
(* Two PCBs beside the kernel task, reused until the pids run out.         *)
(***************************************************************************)
EXTENDS Task
=============================================================================
