--------------------------- MODULE MCListaPolecen ---------------------------
(***************************************************************************)
(* Constants for checking ListaPolecen with TLC.                           *)
(***************************************************************************)
EXTENDS ListaPolecen

CONSTANTS a1, a2, a3, p1, p2

MCAdresy == {a1, a2, a3}
MCPolecenia == {p1, p2}
=============================================================================
