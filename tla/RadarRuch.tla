----------------------------- MODULE RadarRuch -----------------------------
(***************************************************************************)
(* The servo of class YtesRadar (src/src/wspolne/YtesRadar.h) and its      *)
(* demonstration sweep.  Every pass of the main loop makes one             *)
(* radar->ruch180Krok() (fazaRuchu "krok") and later handles at most one   *)
(* "radar" object (fazaRuchu "odbior"); the sweep thus advances between    *)
(* commands that may restart it or turn the servo elsewhere.               *)
(*                                                                         *)
(* KatMax is the program's 180 degrees.  One unit of time is 50 ms.        *)
(***************************************************************************)
EXTENDS Integers, Zegar

CONSTANTS
    KatMax,         \* 180 degrees; KatMax \div 2 is straight ahead
    MsKrok,         \* pause between two steps of the sweep (50 ms)
    KoniecPolecen,  \* bound: last value of the clock at which a command comes
    Starty,         \* values of STARTKAT in the commands
    Katy,           \* values of KAT in the commands
    Brak            \* a key that the command does not carry

ASSUME RuchAssumption ==
    /\ KatMax \in Nat \ {0} /\ MsKrok \in Nat
    /\ MaxPrzebieg \in Nat /\ Koniec \in Nat /\ KoniecPolecen \in Nat
    /\ Starty \subseteq Int /\ Katy \subseteq Int /\ Brak \notin Int

VARIABLES
    fazaRuchu,      \* where the loop is
    aktualnyKat,    \* the angle given to the servo
    ruch180,        \* _ruch180zapamietanyKat, ...aktualnyKat, ...kierunek, ...wykonuj
    msNastepnyKrok, \* _msNastepnyKrok
    msRadarAkcja,   \* msRadarAkcja: tells the sounds that the radar is busy
    odwiedzone      \* history: angles the sweep has asked for since it began

radarVars == <<fazaRuchu, teraz, aktualnyKat, ruch180, msNastepnyKrok, msRadarAkcja,
               przebieg, odwiedzone>>

Ruch180 == [zapamietanyKat : Int, aktualnyKat : Int, kierunek : {-1, 1},
            wykonuj : BOOLEAN]

ruchVars == <<ruch180, msNastepnyKrok, msRadarAkcja, odwiedzone>>

-----------------------------------------------------------------------------

\* ustawRadar: the servo is mounted upside down.  An angle out of range changes
\* only the parameter, which is not used again.
ustawRadar(kat) == KatMax - kat

\* setup() leaves the radar straight ahead; the sweep has never run.
InitRuchu ==
    /\ fazaRuchu = "krok"
    /\ teraz = 0
    /\ aktualnyKat = ustawRadar(KatMax \div 2)
    /\ ruch180 = [zapamietanyKat |-> KatMax \div 2, aktualnyKat |-> 0,
                  kierunek |-> -1, wykonuj |-> FALSE]
    /\ msNastepnyKrok = 0
    /\ msRadarAkcja = 0
    /\ przebieg = 0
    /\ odwiedzone = {}

\* ruch180Krok: nothing to do.
BezKroku ==
    /\ fazaRuchu = "krok"
    /\ ~(ruch180.wykonuj /\ teraz > msNastepnyKrok)
    /\ fazaRuchu' = "odbior"
    /\ UNCHANGED <<teraz, aktualnyKat, ruchVars, przebieg>>

\* Fault: a step does not put boredom off.
NastepnyKrokBezAkcji ==
    /\ fazaRuchu = "krok"
    /\ ruch180.wykonuj /\ teraz > msNastepnyKrok
    /\ fazaRuchu' = "odbior"
    /\ msNastepnyKrok' = teraz + MsKrok
    /\ UNCHANGED <<teraz, msRadarAkcja, przebieg>>

NastepnyKrok ==
    /\ fazaRuchu = "krok"
    /\ ruch180.wykonuj /\ teraz > msNastepnyKrok
    /\ fazaRuchu' = "odbior"
    /\ msNastepnyKrok' = teraz + MsKrok
    /\ msRadarAkcja' = teraz + MsKrok
    /\ UNCHANGED <<teraz, przebieg>>

\* ruch180Krok: one degree on; at 0 the sweep turns back first.
Krok ==
    /\ NastepnyKrok
    /\ ruch180.aktualnyKat # KatMax
    /\ LET kierunek == IF ruch180.aktualnyKat = 0 THEN 1 ELSE ruch180.kierunek
           kat == ruch180.aktualnyKat + kierunek
       IN  /\ ruch180' = [ruch180 EXCEPT !.kierunek = kierunek, !.aktualnyKat = kat]
           /\ aktualnyKat' = ustawRadar(kat)
           /\ odwiedzone' = odwiedzone \cup {kat}

\* Faults: the servo stays where the sweep ended; the sweep is not switched off.
OstatniKrokBezPowrotu ==
    /\ NastepnyKrok
    /\ ruch180.aktualnyKat = KatMax
    /\ ruch180' = [ruch180 EXCEPT !.wykonuj = FALSE]
    /\ UNCHANGED <<aktualnyKat, odwiedzone>>

OstatniKrokBezKonca ==
    /\ NastepnyKrok
    /\ ruch180.aktualnyKat = KatMax
    /\ aktualnyKat' = ustawRadar(ruch180.zapamietanyKat)
    /\ UNCHANGED <<ruch180, odwiedzone>>

\* ruch180Krok at 180: back to the remembered angle, the sweep is over.
OstatniKrok ==
    /\ NastepnyKrok
    /\ ruch180.aktualnyKat = KatMax
    /\ ruch180' = [ruch180 EXCEPT !.wykonuj = FALSE]
    /\ aktualnyKat' = ustawRadar(ruch180.zapamietanyKat)
    /\ UNCHANGED odwiedzone

\* ruch180Inicjuj: a running sweep starts afresh.
ruch180Inicjuj(start) ==
    /\ ruch180' = [zapamietanyKat |-> start, aktualnyKat |-> start,
                   kierunek |-> -1, wykonuj |-> TRUE]
    /\ msNastepnyKrok' = teraz
    /\ msRadarAkcja' = teraz
    /\ odwiedzone' = {start}

\* obslozPolecenieDane: RUCH180 with WYKONAJ = 1, then KAT; each may be missing.
\* WYKONAJ = 0 does not end a sweep.
Polecenie ==
    /\ fazaRuchu = "odbior"
    /\ teraz <= KoniecPolecen
    /\ \E start \in Starty \cup {Brak}, kat \in Katy \cup {Brak} :
          /\ IF start = Brak THEN UNCHANGED ruchVars ELSE ruch180Inicjuj(start)
          /\ aktualnyKat' = CASE kat # Brak                   -> ustawRadar(kat)
                              [] kat = Brak /\ start # Brak   -> ustawRadar(start)
                              [] kat = Brak /\ start = Brak   -> aktualnyKat
    /\ fazaRuchu' = "krok"
    /\ przebieg' = 0
    /\ UNCHANGED teraz

BrakPolecenia ==
    /\ fazaRuchu = "odbior"
    /\ fazaRuchu' = "krok"
    /\ przebieg' = 0
    /\ UNCHANGED <<teraz, aktualnyKat, ruchVars>>

CzasRuchu ==
    /\ przebieg < MaxPrzebieg
    /\ teraz < Koniec
    /\ teraz' = teraz + 1
    /\ przebieg' = przebieg + 1
    /\ UNCHANGED <<fazaRuchu, aktualnyKat, ruchVars>>

Petla == BezKroku \/ Krok \/ OstatniKrok \/ Polecenie \/ BrakPolecenia

NextRuchu == Petla \/ CzasRuchu

SpecRuchu == InitRuchu /\ [][NextRuchu]_radarVars

-----------------------------------------------------------------------------
(* Properties.  They hold for STARTKAT from 0 up to, not including, 180.   *)

\* The fields keep their types.
TypyRuchu ==
    /\ fazaRuchu \in {"krok", "odbior"}
    /\ teraz \in 0 .. Koniec
    /\ aktualnyKat \in Int
    /\ ruch180 \in Ruch180
    /\ msNastepnyKrok \in Nat /\ msRadarAkcja \in Nat
    /\ przebieg \in 0 .. MaxPrzebieg
    /\ odwiedzone \subseteq Int

\* What a running sweep has behind it: going down, everything from its start to
\* where it is; going up, everything it has come through and all below its start.
Przebyte ==
    ruch180.wykonuj =>
        /\ ruch180.aktualnyKat \in 0 .. KatMax
        /\ odwiedzone =
              IF ruch180.kierunek = -1
              THEN ruch180.aktualnyKat .. ruch180.zapamietanyKat
              ELSE (0 .. ruch180.aktualnyKat) \cup (0 .. ruch180.zapamietanyKat)

\* A sweep that ends has shown every angle from 0 to 180 and leaves the servo at
\* the angle it was started from, whatever KAT commands came in between.
PelnyRuch ==
    [][(ruch180.wykonuj /\ ~ruch180'.wykonuj) =>
          /\ odwiedzone = 0 .. KatMax
          /\ aktualnyKat' = KatMax - ruch180.zapamietanyKat]_radarVars

\* Boredom is put off for the whole sweep: the mark the sounds look at never
\* lags behind the clock by more than two passes.
NudaOdwlekana ==
    ruch180.wykonuj => teraz - msRadarAkcja <= 2 * MaxPrzebieg

\* A sweep ends (no command restarts it for ever).
RuchSieKonczy == ruch180.wykonuj ~> ~ruch180.wykonuj
=============================================================================
