------------------------------- MODULE MCVmm -------------------------------
(***************************************************************************)
(* Ten frames, of which seven are in use when the user process starts.     *)
(* Directory entry 0 is the kernel's.  Entry 1 stands for entry 2 of the   *)
(* code, with the code page and the demand-paged user stack; entry 2 for   *)
(* any entry without a table at boot.                                      *)
(***************************************************************************)
EXTENDS Vmm

MCVirtualPages == {<<1, 0>>, <<1, 1>>, <<1, 2>>, <<2, 0>>}
MCCodePage == <<1, 0>>
MCStackPage == <<1, 2>>
MCDemandPages == {<<1, 1>>, <<1, 2>>}
=============================================================================
