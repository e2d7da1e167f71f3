--------------------------- MODULE MCPoleSzukania ---------------------------
(***************************************************************************)
(* Constants for checking PoleSzukania with TLC.                           *)
(***************************************************************************)
EXTENDS PoleSzukania, TLC

\* Texts with and without a space inside or in front, of two pages, a blank, the label
\* and a text that is the label but for its spaces.  The label itself is not typed: with
\* it WynikiFiltru fails, since a field that loses the focus while it holds the label is
\* emptied without any of the steps that follow a key.
MCTeksty == {"", " ", "b", "ab", "a b", " ab", "S earch", "Search"}
MCWpisywane == MCTeksty \ {"Search"}
MCZwarty ==
    [t \in MCTeksty |->
        CASE t \in {"a b", " ab"} -> "ab"
          [] t = " " -> ""
          [] t = "S earch" -> "Search"
          [] OTHER -> t]
MCPrzyciety == [t \in MCTeksty |-> CASE t = " ab" -> "ab" [] t = " " -> "" [] OTHER -> t]
MCStrona ==
    [x \in (0 .. 1) \X MCTeksty |->
        CASE x[2] \in {"", "ab", "a b"} -> IF x[1] = 0 THEN "all_0" ELSE "files_0"
          [] x[2] = "Search" /\ x[1] = 0 -> "all_1"
          [] OTHER -> "nomatches"]
=============================================================================
