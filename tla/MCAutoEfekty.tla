--------------------------- MODULE MCAutoEfekty ---------------------------
(***************************************************************************)
(* Constants for checking AutoEfekty with TLC.                             *)
(***************************************************************************)
EXTENDS AutoEfekty

\* A near obstacle, which is also what the reading starts from, and a free way.
MCOdleglosci == {100, 500}
=============================================================================
