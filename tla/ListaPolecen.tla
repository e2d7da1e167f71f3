---------------------------- MODULE ListaPolecen ----------------------------
(***************************************************************************)
(* Class YtesAudioPolecenie (src/src/wspolne/YtesAudioPolecenie.h): the    *)
(* commands for one MP3 player, kept in a linked list on the heap and sent *)
(* with a pause of msCzekaj between them.                                  *)
(*                                                                         *)
(* Cells are addresses of pamiec; reading a cell that is not allocated is  *)
(* an error TLC would report.  The scratch pointer "current" is left out:  *)
(* every method sets it before it reads it.  The clock is modulo Zakres    *)
(* and one unit of it is 100 ms.                                           *)
(***************************************************************************)
EXTENDS Integers, Sequences, FiniteSets

CONSTANTS
    Polecenia,      \* commands
    Adresy,         \* addresses malloc() may return; bound on the cells in use
    Brak,           \* the null pointer; also "no command yet"
    MsCzekaj,       \* msCzekaj (500 ms)
    Zakres,         \* number of values of an unsigned long
    MaxPrzebieg,    \* bound: ticks in one pass of the loop
    Koniec,         \* bound: value at which the clock stops (Zakres: never)
    KoniecPolecen   \* bound: last value of the clock at which a command comes

ASSUME ListaAssumption ==
    /\ Brak \notin Polecenia /\ Brak \notin Adresy /\ IsFiniteSet(Adresy)
    /\ MsCzekaj \in Nat /\ Zakres \in Nat /\ Zakres > MsCzekaj
    /\ MaxPrzebieg \in Nat /\ Koniec \in Nat /\ KoniecPolecen \in Nat

VARIABLES
    pamiec,             \* the allocated cells: polecenie and next
    head,               \* head
    size,               \* _size
    msOstatnioWykonane, \* msOstatnioWykonane: when the next command may be sent
    teraz,              \* millis()
    wyslane,            \* history: the command sent last
    odWyslania,         \* history: time since then, at most MsCzekaj
    przebieg            \* history: ticks since this pass began

vars == <<pamiec, head, size, msOstatnioWykonane, teraz, wyslane, odWyslania,
          przebieg>>
listaVars == <<pamiec, head, size>>

-----------------------------------------------------------------------------

\* The cell reached from head after n steps along next; past the end it is Brak.
Komorka ==
    LET f[n \in 0 .. Cardinality(Adresy)] ==
            IF n = 0 THEN head
            ELSE IF f[n - 1] = Brak THEN Brak ELSE pamiec[f[n - 1]].next
    IN  f

Osiagalne == {Komorka[n] : n \in DOMAIN Komorka} \ {Brak}

\* dodaj: the loop along next ends at the last cell.
Ostatnia == CHOOSE a \in Osiagalne : pamiec[a].next = Brak

Init ==
    /\ pamiec = <<>>
    /\ head = Brak
    /\ size = 0
    /\ msOstatnioWykonane = 0
    /\ teraz = 0
    /\ wyslane = Brak
    /\ odWyslania = MsCzekaj
    /\ przebieg = 0

\* Fault: the new cell takes the place of the head instead of following the end.
DodajNaGlowe(a, p) ==
    LET nowa == [c \in DOMAIN pamiec \cup {a} |->
                    IF c = a THEN [polecenie |-> p, next |-> Brak] ELSE pamiec[c]]
    IN  /\ size' = size + 1
        /\ head' = a
        /\ pamiec' = [nowa EXCEPT ![a].next = head]

\* dodaj: the new cell becomes the head or the successor of the last one.
dodaj(a, p) ==
    LET nowa == [c \in DOMAIN pamiec \cup {a} |->
                    IF c = a THEN [polecenie |-> p, next |-> Brak] ELSE pamiec[c]]
    IN  /\ size' = size + 1
        /\ IF head = Brak
           THEN head' = a /\ pamiec' = nowa
           ELSE head' = head /\ pamiec' = [nowa EXCEPT ![Ostatnia].next = a]

\* dodaj when malloc() returns NULL: false is returned and nothing changes.
OdmowaPamieci == UNCHANGED listaVars

Dodaj ==
    /\ teraz <= KoniecPolecen
    /\ \/ \E a \in Adresy \ DOMAIN pamiec, p \in Polecenia : dodaj(a, p)
       \/ OdmowaPamieci
    /\ UNCHANGED <<msOstatnioWykonane, teraz, wyslane, odWyslania, przebieg>>

Zwolnij(a, komorki) == [c \in DOMAIN komorki \ {a} |-> komorki[c]]

\* Fault: the cell is unlinked and not freed.
UsunBezZwolnienia(index) ==
    IF head = Brak \/ index \notin 0 .. size - 1
    THEN UNCHANGED listaVars
    ELSE /\ size' = size - 1
         /\ IF index = 0
            THEN head' = pamiec[head].next /\ pamiec' = pamiec
            ELSE LET poprzednia == Komorka[index - 1]
                     usuwana == pamiec[poprzednia].next
                 IN  /\ head' = head
                     /\ pamiec' = [pamiec EXCEPT ![poprzednia].next = pamiec[usuwana].next]

\* usun: an index out of range changes nothing.
usun(index) ==
    IF head = Brak \/ index \notin 0 .. size - 1
    THEN UNCHANGED listaVars
    ELSE /\ size' = size - 1
         /\ IF index = 0
            THEN /\ head' = pamiec[head].next
                 /\ pamiec' = Zwolnij(head, pamiec)
            ELSE LET poprzednia == Komorka[index - 1]
                     usuwana == pamiec[poprzednia].next
                 IN  /\ head' = head
                     /\ pamiec' = Zwolnij(usuwana,
                           [pamiec EXCEPT ![poprzednia].next = pamiec[usuwana].next])

Usun ==
    /\ \E index \in -1 .. Cardinality(Adresy) : usun(index)
    /\ UNCHANGED <<msOstatnioWykonane, teraz, wyslane, odWyslania, przebieg>>

\* Fault: the command is sent and stays.
PierwszeBezUsuwania ==
    IF size = 0
    THEN UNCHANGED <<listaVars, wyslane, odWyslania>>
    ELSE /\ wyslane' = pamiec[head].polecenie
         /\ odWyslania' = 0
         /\ UNCHANGED listaVars

\* obsluzPierwsze: the command pobierz(0) returns is sent and removed.
obsluzPierwsze ==
    IF size = 0
    THEN UNCHANGED <<listaVars, wyslane, odWyslania>>
    ELSE /\ wyslane' = pamiec[head].polecenie
         /\ odWyslania' = 0
         /\ usun(0)

\* Fault: the next time is counted from the last one, so that late calls save
\* pauses up.
ObsluzZZapasem ==
    /\ teraz >= msOstatnioWykonane
    /\ msOstatnioWykonane' = (msOstatnioWykonane + MsCzekaj) % Zakres
    /\ obsluzPierwsze
    /\ przebieg' = 0
    /\ UNCHANGED teraz

\* obsluzPolecenia, once in a pass: the time is renewed even when nothing waits.
ObsluzPolecenia ==
    /\ teraz >= msOstatnioWykonane
    /\ msOstatnioWykonane' = (teraz + MsCzekaj) % Zakres
    /\ obsluzPierwsze
    /\ przebieg' = 0
    /\ UNCHANGED teraz

\* obsluzPolecenia when its time has not come.
ZaWczesnie ==
    /\ teraz < msOstatnioWykonane
    /\ przebieg' = 0
    /\ UNCHANGED <<listaVars, msOstatnioWykonane, teraz, wyslane, odWyslania>>

Czas ==
    /\ przebieg < MaxPrzebieg
    /\ teraz # Koniec
    /\ teraz' = (teraz + 1) % Zakres
    /\ przebieg' = przebieg + 1
    /\ odWyslania' = IF odWyslania < MsCzekaj THEN odWyslania + 1 ELSE MsCzekaj
    /\ UNCHANGED <<listaVars, msOstatnioWykonane, wyslane>>

Przebieg == ObsluzPolecenia \/ ZaWczesnie

Next == Dodaj \/ Usun \/ Przebieg \/ Czas

Spec == Init /\ [][Next]_vars

\* audioHandler() calls obsluzPolecenia() in every pass, and time passes.
SpecZywa == Spec /\ WF_vars(Przebieg) /\ WF_vars(Czas)

-----------------------------------------------------------------------------
(* Properties. *)

\* No cell is lost and none is used after it was freed: what is reachable from
\* head is what is allocated, and _size counts it.
BezWycieku == Osiagalne = DOMAIN pamiec /\ Cardinality(Osiagalne) = size

\* The list is a queue: whatever is added, refused, removed or sent, the player
\* gets the accepted commands in their order, each of them once.
Zawartosc == [i \in 1 .. size |-> pamiec[Komorka[i - 1]].polecenie]
Kolejka == INSTANCE KolejkaFIFO WITH kolejka <- Zawartosc
JestKolejka == Kolejka!Spec

\* "przerwa pomiedzy wykonaniem kolejnych polecen": a command is sent at least
\* msCzekaj after the one before it.
PrzerwaZachowana ==
    [][(size > 0 /\ ObsluzPolecenia) => odWyslania >= MsCzekaj]_vars

\* The queue is emptied once no command comes.
Oprozniana == size > 0 ~> size = 0
=============================================================================
