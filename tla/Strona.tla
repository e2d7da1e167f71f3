------------------------------- MODULE Strona -------------------------------
(***************************************************************************)
(* The page annotated.html of the documentation: the folding table of      *)
(* classes (DrzewoPlikow) and the frame of search results (WynikiSzukania) *)
(* over it.  An event of the user goes to one of the two.                  *)
(***************************************************************************)
EXTENDS WynikiSzukania, DrzewoPlikow

\* The lists as they are generated: the rows a text finds lie together, and of two rows
\* with one id only the first has children.
ASSUME StronaAssumption ==
    /\ \A t \in Zapytania : \A i, k \in SearchWynikow[t].widoczne :
          i .. k \subseteq SearchWynikow[t].widoczne
    /\ \A i \in Wiersze : Dzieci(i) > 0 => Pierwszy(i) = i

varsStrony == <<varsWynikow, varsTabeli>>

InitStrony == InitWynikow /\ InitTabeli

\* A click in the table: the focus leaves the frame.
ZdarzenieTabeli ==
    /\ trzymany = 0
    /\ NextTabeli
    /\ fokus' = Pole
    /\ UNCHANGED <<strona, rozwiniete, lastKey, repeatOn, trzymany, nacisniecia>>

ZdarzenieWynikow == NextWynikow /\ UNCHANGED varsTabeli

NextStrony == ZdarzenieTabeli \/ ZdarzenieWynikow

SpecStrony == InitStrony /\ [][NextStrony]_varsStrony
=============================================================================
