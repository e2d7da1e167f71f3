------------------------------ MODULE MCNaped ------------------------------
(***************************************************************************)
(* Constants for checking Naped with TLC.  One unit of the clock is 100    *)
(* ms: MsImpuls = 3 is the program's 300 ms.                               *)
(***************************************************************************)
EXTENDS Naped

\* A failed measurement, an obstacle in the blocking zone (also the value the
\* reading starts from) and a free way.
MCOdleglosci == {0, 100, 500}

\* Nothing, every movement alone, and pairs that mix forwards and backwards in
\* the order the code tries them.
MCPakiety == {{}, {"LP"}, {"P"}, {"PP"}, {"LT"}, {"T"}, {"PT"},
              {"P", "T"}, {"LP", "PP"}, {"PP", "LT"}}

\* One movement forwards and one backwards, for the liveness runs.
MCPakietyMale == {{}, {"P"}, {"LT"}}
=============================================================================
