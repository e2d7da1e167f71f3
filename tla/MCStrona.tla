------------------------------ MODULE MCStrona ------------------------------
(***************************************************************************)
(* Constants for checking Strona with TLC.                                 *)
(***************************************************************************)
EXTENDS Strona

d == 100
f == 102
kropka == 46

\* A list like all_2.js, whose last row has the name and the id of one before it, and not
\* in order; two rows have children here, as overloaded functions would.
MCsearchData ==
    << [nazwa |-> <<d>>, dzieci |-> 0],
       [nazwa |-> <<d, f>>, dzieci |-> 2],
       [nazwa |-> <<d, Podkreslenie>>, dzieci |-> 1],
       [nazwa |-> <<d, Podkreslenie, kropka, 99>>, dzieci |-> 0],
       [nazwa |-> <<d, Podkreslenie, kropka, 104>>, dzieci |-> 0],
       [nazwa |-> <<d, Podkreslenie>>, dzieci |-> 0] >>

\* Texts with capitals, spaces at both ends and inside, and a control character.
MCZapytania ==
    BoundedSeq({d, f, Podkreslenie, Spacja}, 2) \cup
    {<<68, Podkreslenie>>, <<d, Podkreslenie, 2>>, <<d, Podkreslenie, kropka>>,
     <<Spacja, d, Spacja>>, <<d, Spacja, f>>, <<d, Podkreslenie, kropka, 72, Spacja>>}

\* The table
\*   1
\*     2
\*       3
\*     4
\*       5
\*   6
\*     7
MCWiersze == 1 .. 7
MCPoz == [r \in MCWiersze |-> r]
MCRodzic == <<0, 1, 2, 1, 4, 0, 6>>
MCPoziom == <<1, 2, 3, 2, 3, 1, 2>>
MCPod == <<{1, 2, 3, 4, 5}, {2, 3}, {3}, {4, 5}, {5}, {6, 7}, {7}>>
=============================================================================
