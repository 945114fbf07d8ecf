------------------------------ MODULE MCShell ------------------------------
(***************************************************************************)
(* A screen of two rows and three columns, on which a prompt and a full    *)
(* line take two rows, and a history of three rows; numbers of eight bits. *)
(***************************************************************************)
EXTENDS Shell, Stdlib

MCPrompt == <<">">>
MCMessage == <<"!", NL>>
MCEcho == <<"e">>
MCClear == <<"e", "e">>
MCFiles == {<<ESC, "[", "0", "m">>, <<"e", ESC>>}

\* The numbers that commands read (atoi) and print (itoa and itoh) survive the
\* conversion, for every int but the least.  The conversions depend on the
\* number alone, so it is enough to look before the shell runs.
NumbersRoundTrip == ~running => \A n \in Int32 : Converts(n)
=============================================================================
