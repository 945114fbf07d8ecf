------------------------------- MODULE MCAta -------------------------------
(***************************************************************************)
(* Two sectors, two values, and waits that give up at the second poll.     *)
(***************************************************************************)
EXTENDS Ata
=============================================================================
