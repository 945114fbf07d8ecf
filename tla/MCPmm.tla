------------------------------- MODULE MCPmm -------------------------------
(***************************************************************************)
(* Values for the constants of Pmm: twelve frames of two address units,    *)
(* three words of four frames, and the maps a BIOS may report.             *)
(***************************************************************************)
EXTENDS Pmm

E(b, l, t) == [base |-> b, length |-> l, type |-> t]

\* At page-aligned bases, disjoint and below 4GB (one runs past the end of it).
RegularMaps ==
  { <<E(0, 24, 1)>>,
    <<E(0, 6, 1), E(6, 2, 2), E(8, 10, 1), E(18, 9, 1)>>,
    <<E(14, 9, 1), E(10, 2, 2), E(0, 5, 1)>>,
    <<>> }
=============================================================================
