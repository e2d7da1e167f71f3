---------------------------- MODULE DrzewoPlikow ----------------------------
(***************************************************************************)
(* The folding table of classes of the documentation of the player         *)
(* library: toggleFolder, toggleLevel and updateStripes of                 *)
(* docs/html/dynsections.js, as annotated.html uses them.                  *)
(*                                                                         *)
(* A row is named by the path of its indices, so the rows below it are     *)
(* those whose id begins with its own.  A row with rows below it has an    *)
(* arrow, which is a click to fold and unfold it.  The icons of a row      *)
(* change with the arrow and are left out.                                 *)
(***************************************************************************)
EXTENDS Integers, FiniteSets

CONSTANTS
    Tabela,     \* rows of the table
    Poz,        \* position of a row in the table
    Rodzic,     \* the row one level up
    Brak,       \* the parent of a row of the first level; not a row
    Poziom,     \* level of a row: 1, 2, ...
    Pod,        \* the rows whose id begins with the id of a row, itself among them
    Poziomy     \* the detail levels that can be chosen

ASSUME DrzewoAssumption ==
    /\ IsFiniteSet(Tabela) /\ Brak \notin Tabela
    /\ Poz \in [Tabela -> Nat]
    /\ \A r, q \in Tabela : Poz[r] = Poz[q] => r = q
    /\ Rodzic \in [Tabela -> Tabela \cup {Brak}]
    /\ Poziom \in [Tabela -> Nat \ {0}]
    /\ \A r \in Tabela : IF Rodzic[r] = Brak THEN Poziom[r] = 1
                       ELSE Poziom[r] = Poziom[Rodzic[r]] + 1
    /\ Pod \in [Tabela -> SUBSET Tabela]
    /\ \A q, r \in Tabela :
          r \in Pod[q] <=> r = q \/ (Rodzic[r] # Brak /\ Rodzic[r] \in Pod[q])
    /\ \A q, r \in Tabela : r \in Pod[q] => Poziom[q] <= Poziom[r]
    /\ Poziomy \subseteq Nat \ {0}

VARIABLES
    pokazane,   \* rows displayed
    otwarte,    \* rows whose arrow points down
    parzyste    \* rows of class even, which are drawn darker

varsTabeli == <<pokazane, otwarte, parzyste>>

Nizsze(r) == {q \in Tabela : Rodzic[q] = r}
Foldery == {r \in Tabela : Nizsze(r) # {}}
PierwszeDziecko(r) == CHOOSE q \in Nizsze(r) : \A s \in Nizsze(r) : Poz[q] <= Poz[s]

\* Every second one of the rows displayed.
updateStripes(w) ==
    {r \in w : Cardinality({q \in w : Poz[q] < Poz[r]}) % 2 = 0}

\* The page as it is generated: all is open.
InitTabeli ==
    /\ pokazane = Tabela
    /\ otwarte = Foldery
    /\ parzyste = updateStripes(Tabela)

\* All rows below are hidden; what their arrows show is kept.
Chowaj(r) == pokazane' = pokazane \ (Pod[r] \ {r})

\* Fault: the folders one level down keep their arrows.
PokazZeStrzalkami(r) ==
    /\ pokazane' = pokazane \cup Nizsze(r)
    /\ otwarte' = otwarte \cup {r}

\* Only the rows one level down are displayed, closed.
Pokaz(r) ==
    /\ pokazane' = pokazane \cup Nizsze(r)
    /\ otwarte' = (otwarte \ Nizsze(r)) \cup {r}

\* A click on an arrow.  What happens depends on the first child only.
toggleFolder(r) ==
    /\ r \in pokazane \cap Foldery
    /\ \/ /\ PierwszeDziecko(r) \in pokazane
          /\ otwarte' = otwarte \ {r}
          /\ Chowaj(r)
       \/ /\ PierwszeDziecko(r) \notin pokazane
          /\ Pokaz(r)
    /\ parzyste' = updateStripes(pokazane')

\* A click on a detail level: rows above it are open, rows at it closed, the rest hidden.
toggleLevel(level) ==
    /\ pokazane' = {r \in Tabela : Poziom[r] <= level}
    /\ otwarte' = {r \in Foldery : Poziom[r] < level} \cup
                  (otwarte \ {r \in Tabela : Poziom[r] <= level})
    /\ parzyste' = updateStripes(pokazane')

NextTabeli ==
    \/ \E r \in Tabela : toggleFolder(r)
    \/ \E level \in Poziomy : toggleLevel(level)

SpecTabeli == InitTabeli /\ [][NextTabeli]_varsTabeli

-----------------------------------------------------------------------------
(* Properties. *)

\* The variables are sets of rows, and only folders have arrows.
TypTabeli == pokazane \subseteq Tabela /\ otwarte \subseteq Foldery /\ parzyste \subseteq Tabela

\* After any clicks a row is displayed exactly when the row above it is and looks open:
\* no row is left behind without its folder, no closed folder shows its rows, and an open
\* one shows them all, although the arrows of hidden rows are left as they were.
ZgodneStrzalki ==
    \A r \in Tabela :
        r \in pokazane <=> \/ Rodzic[r] = Brak
                           \/ Rodzic[r] \in pokazane \cap otwarte
=============================================================================
