---------------------------- MODULE MCRobotRuch ----------------------------
(***************************************************************************)
(* Constants for checking RobotRuch with TLC.                              *)
(***************************************************************************)
EXTENDS RobotRuch

\* In the blocking zone and far away; 100 is a distance the reading starts from.
MCPrzeszkody == {100, 500}

\* Inverse of dystansMm for these distances.
MCEcho == [p \in Przeszkody |-> CASE p = 100 -> 604 [] p = 500 -> 3014]

MCPakiety == {{}, {"P"}, {"PP", "T"}, {"LT"}}
=============================================================================
