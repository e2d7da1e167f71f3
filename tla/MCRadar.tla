------------------------------ MODULE MCRadar ------------------------------
(***************************************************************************)
(* Constants for checking Radar with TLC: KatMax = 4 keeps the two ends,   *)
(* the middle and an angle on each side of it.                             *)
(***************************************************************************)
EXTENDS Radar

\* An echo too short to be measured (20 mm), and one of 149 mm.
MCCzasy == {122, 900}

MCStarty == 0 .. KatMax - 1
MCKaty == {0, 3}
=============================================================================
