--------------------------- MODULE WynikiSzukania ---------------------------
(***************************************************************************)
(* A page of search results of the documentation of the player library:    *)
(* class SearchResults and createResults of docs/html/search/search.js,    *)
(* the pages all_*.html that call them and the lists all_*.js they show.   *)
(*                                                                         *)
(* The page is loaded anew for every search, shows the rows whose name     *)
(* begins with the text, and lets the arrow keys walk over them.  Where    *)
(* the focus is: <<>> the parent page with its search field, <<i>> the     *)
(* link of row i, <<i, c>> child c of row i.  Characters are their codes.  *)
(***************************************************************************)
EXTENDS Integers, Sequences, SequencesExt, FiniteSets, FiniteSetsExt

CONSTANTS
    searchData,     \* searchData[i + 1] is row i: its name and its number of children
    Zapytania       \* the texts searched for

ASSUME WynikiAssumption ==
    /\ searchData \in Seq([nazwa : Seq(0 .. 255), dzieci : Nat])
    /\ Zapytania \subseteq Seq(0 .. 255)

VARIABLES
    strona,         \* the text in the address of the page, the rows displayed,
                    \* lastMatchCount, and whether "No Matches" is displayed
    rozwiniete,     \* rows whose children are displayed
    fokus,
    lastKey, repeatOn,
    trzymany,       \* the key held down, 0 if none
    nacisniecia     \* keypress events since the last keydown (2 stands for more)

varsWynikow == <<strona, rozwiniete, fokus, lastKey, repeatOn, trzymany, nacisniecia>>

Enter == 13
Escape == 27
Lewo == 37
Gora == 38
Prawo == 39
Dol == 40
Klawisze == {Enter, Escape, Lewo, Gora, Prawo, Dol}

Wiersze == 0 .. Len(searchData) - 1
Dzieci(i) == searchData[i + 1].dzieci

Pole == <<>>
Nic == <<-1>>       \* no element

-----------------------------------------------------------------------------
(* The search. *)

Spacja == 32
Podkreslenie == 95
Mala(c) == IF c \in 65 .. 90 THEN c + 32 ELSE c
toLowerCase(s) == [i \in DOMAIN s |-> Mala(s[i])]

\* Leading and trailing spaces are stripped.
Obciety(s) ==
    LET z == {i \in DOMAIN s : s[i] # Spacja}
    IN  IF z = {} THEN <<>> ELSE SubSeq(s, Min(z), Max(z))

Cyfra(d) == IF d < 10 THEN 48 + d ELSE 87 + d
Szesnastkowo(c) == IF c < 16 THEN <<Cyfra(c)>> ELSE <<Cyfra(c \div 16), Cyfra(c % 16)>>
Zwykly(c) == c \in (97 .. 122) \cup (48 .. 57) \/ c >= 128

\* Fault: small codes are not padded to two digits.
KodBezZera(c) == IF Zwykly(c) THEN <<c>> ELSE <<Podkreslenie>> \o Szesnastkowo(c)

\* One character of an id.
Kod(c) ==
    IF Zwykly(c) THEN <<c>>
    ELSE IF c < 16 THEN <<Podkreslenie, 48>> \o Szesnastkowo(c)
    ELSE <<Podkreslenie>> \o Szesnastkowo(c)

convertToId(s) == FlattenSeq([i \in DOMAIN s |-> Kod(s[i])])

\* The ids in the lists are made by the generator of the documentation: a dot and an
\* underscore are found in them as _2e and _5f.
KodGeneratora(c) ==
    IF Zwykly(c) THEN <<c>>
    ELSE <<Podkreslenie, Cyfra(c \div 16), Cyfra(c % 16)>>
Id ==
    [i \in Wiersze |->
        LET s == toLowerCase(searchData[i + 1].nazwa)
        IN  FlattenSeq([j \in DOMAIN s |-> KodGeneratora(s[j])])]

SearchWynikow ==
    [t \in Zapytania |->
        LET szukany == convertToId(toLowerCase(Obciety(t)))
            trafienia == {i \in Wiersze : IsPrefix(szukany, Id[i])}
        IN  [tekst |-> t, widoczne |-> trafienia, lastMatchCount |-> Cardinality(trafienia),
             noMatches |-> trafienia = {}]]

\* A page is loaded: its rows are created, and Search runs on them.
InitWynikow ==
    /\ \E t \in Zapytania : strona = SearchWynikow[t]
    /\ rozwiniete = {}
    /\ lastKey = 0 /\ repeatOn = FALSE
    /\ fokus = Pole
    /\ trzymany = 0 /\ nacisniecia = 0

widoczne == strona.widoczne

-----------------------------------------------------------------------------
(* Moving around. *)

\* An element is found by the id of its row: of two rows with one id, the first.
Pierwszy(i) == Min({j \in Wiersze : Id[j] = Id[i]})

\* The row whose children FindChildElement finds, in a set.
FindChildElement(i) == {j \in {Pierwszy(i)} : Dzieci(j) > 0}
Otwarty(i) == FindChildElement(i) \cap rozwiniete # {}

NavNext(index) ==
    LET w == {i \in widoczne : i >= index} IN IF w = {} THEN Nic ELSE <<Min(w)>>
NavPrev(index) ==
    LET w == {i \in widoczne : i <= index} IN IF w = {} THEN Nic ELSE <<Max(w)>>

\* Up from a row: the last child of the row before it, by the index before it.
\* Fault: the row before it itself.
NavGoraBezDzieci(i) ==
    IF NavPrev(i - 1) = Nic THEN Pole ELSE NavPrev(i - 1)

NavGora(i) ==
    LET p == NavPrev(i - 1)
    IN  IF p = Nic THEN Pole
        ELSE IF Otwarty(p[1]) /\ Dzieci(i - 1) > 0
        THEN <<i - 1, Dzieci(i - 1) - 1>>
        ELSE p

NavDol(i) == IF Otwarty(i) /\ Dzieci(i) > 0 THEN <<i, 0>> ELSE NavNext(i + 1)

NavChildGora(i, c) == IF c > 0 THEN <<i, c - 1>> ELSE <<i>>
NavChildDol(i, c) == IF c + 1 < Dzieci(i) THEN <<i, c + 1>> ELSE NavNext(i + 1)

\* What is on the screen, and what the browser lets have the focus.
Pokazany(f) ==
    \/ f = Pole
    \/ Len(f) = 1 /\ f[1] \in widoczne
    \/ Len(f) = 2 /\ f[1] \in widoczne \cap rozwiniete /\ f[2] < Dzieci(f[1])

SkupNa(f) == fokus' = IF Pokazany(f) THEN f ELSE fokus

\* The keys in a row and in a child.
Nav(i, k) ==
    /\ CASE k = Gora -> SkupNa(NavGora(i))
         [] k = Dol -> SkupNa(NavDol(i))
         [] k = Escape -> SkupNa(Pole)
         [] OTHER -> UNCHANGED fokus
    /\ rozwiniete' = CASE k = Prawo -> rozwiniete \cup FindChildElement(i)
                       [] k = Lewo -> rozwiniete \ FindChildElement(i)
                       [] OTHER -> rozwiniete

NavChild(i, c, k) ==
    /\ CASE k = Gora -> SkupNa(NavChildGora(i, c))
         [] k = Dol -> SkupNa(NavChildDol(i, c))
         [] k = Escape -> SkupNa(Pole)
         [] OTHER -> UNCHANGED fokus
    /\ UNCHANGED rozwiniete

\* Fault: keydown leaves repeatOn as the last key left it.
ProcessKeysBezZerowania(typ, k) ==
    CASE typ = "keydown" -> lastKey' = k /\ UNCHANGED repeatOn
      [] typ = "keypress" -> repeatOn' = (repeatOn \/ lastKey # 0) /\ UNCHANGED lastKey
      [] typ = "keyup" -> lastKey' = 0 /\ repeatOn' = FALSE

ProcessKeys(typ, k) ==
    CASE typ = "keydown" -> lastKey' = k /\ repeatOn' = FALSE
      [] typ = "keypress" -> repeatOn' = (repeatOn \/ lastKey # 0) /\ UNCHANGED lastKey
      [] typ = "keyup" -> lastKey' = 0 /\ repeatOn' = FALSE

\* An event at a row or a child: Enter is left to the browser; the rest follows the key
\* remembered, if ProcessKeys lets it.
ZdarzenieKlawisza(typ, k) ==
    IF k = Enter THEN UNCHANGED <<lastKey, repeatOn, fokus, rozwiniete>>
    ELSE /\ ProcessKeys(typ, k)
         /\ IF lastKey' = 0 \/ (typ = "keypress" /\ ~repeatOn)
            THEN UNCHANGED <<fokus, rozwiniete>>
            ELSE IF Len(fokus) = 1 THEN Nav(fokus[1], lastKey')
            ELSE NavChild(fokus[1], fokus[2], lastKey')

Toggle(i) ==
    rozwiniete' = (rozwiniete \ FindChildElement(i)) \cup (FindChildElement(i) \ rozwiniete)

-----------------------------------------------------------------------------
(* Events.  One key is held at a time, and none while the mouse is used. *)

\* A key goes down, or repeats while it is held.  Enter in a row with children opens or
\* closes them; elsewhere it leaves the page.
Keydown ==
    /\ \E k \in IF trzymany = 0 THEN Klawisze ELSE {trzymany} :
          /\ trzymany' = k
          /\ IF fokus = Pole THEN UNCHANGED <<lastKey, repeatOn, fokus, rozwiniete>>
             ELSE IF k = Enter
             THEN /\ Len(fokus) = 1 /\ Dzieci(fokus[1]) > 0
                  /\ Toggle(fokus[1])
                  /\ UNCHANGED <<lastKey, repeatOn, fokus>>
             ELSE ZdarzenieKlawisza("keydown", k)
    /\ nacisniecia' = 0
    /\ UNCHANGED strona

Keypress ==
    /\ trzymany # 0
    /\ fokus # Pole
    /\ ZdarzenieKlawisza("keypress", trzymany)
    /\ nacisniecia' = Min({nacisniecia + 1, 2})
    /\ UNCHANGED <<strona, trzymany>>

\* A key released in the field is the parent's: Down and Enter enter the results.
Keyup ==
    /\ trzymany # 0
    /\ trzymany' = 0
    /\ IF fokus # Pole THEN ZdarzenieKlawisza("keyup", trzymany)
       ELSE /\ IF trzymany \in {Dol, Enter} THEN SkupNa(NavNext(0)) ELSE UNCHANGED fokus
            /\ UNCHANGED <<lastKey, repeatOn, rozwiniete>>
    /\ nacisniecia' = 0
    /\ UNCHANGED strona

\* A click on the link of a row with children, or into the field.
KlikWynikow ==
    /\ trzymany = 0
    /\ \/ /\ \E i \in widoczne : Dzieci(i) > 0 /\ fokus' = <<i>> /\ Toggle(i)
       \/ /\ fokus # Pole /\ fokus' = Pole
          /\ UNCHANGED rozwiniete
    /\ UNCHANGED <<strona, lastKey, repeatOn, trzymany, nacisniecia>>

\* Another text is searched for from the field: the page is loaded.
WczytanieStrony ==
    /\ fokus = Pole
    /\ \E t \in Zapytania : strona' = SearchWynikow[t]
    /\ rozwiniete' = {}
    /\ lastKey' = 0 /\ repeatOn' = FALSE
    /\ UNCHANGED <<fokus, trzymany, nacisniecia>>

NextWynikow == Keydown \/ Keypress \/ Keyup \/ KlikWynikow \/ WczytanieStrony

SpecWynikow == InitWynikow /\ [][NextWynikow]_varsWynikow

-----------------------------------------------------------------------------
(* Properties. *)

\* The comparison of encoded ids finds exactly the rows whose name begins with the text,
\* however its characters are written in an id and whatever spaces are around it.
Dopasowane ==
    /\ widoczne = {i \in Wiersze : IsPrefix(toLowerCase(Obciety(strona.tekst)),
                                           toLowerCase(searchData[i + 1].nazwa))}
    /\ strona.lastMatchCount = Cardinality(widoczne)
    /\ strona.noMatches = (widoczne = {})

\* The elements shown, from top to bottom.
Pokazane ==
    {<<i>> : i \in widoczne}
    \cup UNION {{<<i, c>> : c \in 0 .. Dzieci(i) - 1} : i \in widoczne \cap rozwiniete}
Przed(f, g) == f[1] < g[1] \/ (f[1] = g[1] /\ Len(g) = 2 /\ (Len(f) = 1 \/ f[2] < g[2]))
Nastepne(f) == {g \in Pokazane : Przed(f, g) /\ ~\E h \in Pokazane : Przed(f, h) /\ Przed(h, g)}

StrzalkaDol(f) == IF Len(f) = 1 THEN NavDol(f[1]) ELSE NavChildDol(f[1], f[2])
StrzalkaGora(f) == IF Len(f) = 1 THEN NavGora(f[1]) ELSE NavChildGora(f[1], f[2])

\* The arrows walk over all that is shown in the order of the screen: Down goes to the
\* next element, Up back, and from the first one to the field, although rows are hidden
\* and the two directions find their way by different indices.
Strzalki ==
    \A f \in Pokazane :
        /\ Nastepne(f) \subseteq {StrzalkaDol(f)}
        /\ \A g \in Nastepne(f) : StrzalkaGora(g) = f
        /\ Nastepne(f) = {} => StrzalkaDol(f) = Nic
        /\ (\A g \in Pokazane : ~Przed(g, f)) => StrzalkaGora(f) = Pole

\* The first keypress after a keydown never acts: one press of a key is one step, although
\* the release that ends the press before it may have been lost to the field.
PierwszyNieDziala ==
    [][Keypress /\ nacisniecia = 0 => UNCHANGED <<fokus, rozwiniete>>]_varsWynikow
=============================================================================
