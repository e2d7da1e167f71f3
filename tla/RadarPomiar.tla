---------------------------- MODULE RadarPomiar ----------------------------
(***************************************************************************)
(* The range finder of class YtesRadar (src/src/wspolne/YtesRadar.h) as    *)
(* the main loop runs it: radar->mierzDystans() opens every pass, and      *)
(* while its time has come it triggers the HC-SR04 sensor and spins on the *)
(* echo pin, first until it rises and then until it falls.  The rest of    *)
(* the pass is one step.                                                   *)
(*                                                                         *)
(* Distances are in millimetres, echo times in microseconds, the clock in  *)
(* units of 100 ms and modulo Zakres.                                      *)
(***************************************************************************)
EXTENDS Integers, Zegar

CONSTANTS
    MsCzasPomiaru,  \* time between two measurements (200 ms)
    Zakres,         \* number of values of an unsigned long
    ZasiegMin,      \* zasiegMin and zasiegMax: what the sensor can measure
    ZasiegMax,
    Czasy           \* echo times the sensor may return

ASSUME PomiarAssumption ==
    /\ MsCzasPomiaru \in Nat \ {0}
    /\ Zakres \in Nat /\ Zakres > MsCzasPomiaru
    /\ MaxPrzebieg \in Nat
    /\ Koniec \in Nat
    /\ ZasiegMin \in Nat /\ ZasiegMax \in Nat
    /\ Czasy \subseteq Nat

VARIABLES
    faza,             \* where the loop is
    ostatniPomiar,    \* _ostatniPomiar
    msNastepnyPomiar, \* msNastepnyPomiar
    wyzwolony         \* history: when the sensor was triggered last

vars == <<faza, teraz, ostatniPomiar, msNastepnyPomiar, przebieg, wyzwolony>>

Fazy == {"pomiar", "echoNarasta", "echoOpada", "reszta"}
Chwile == 0 .. Zakres - 1

Suma(a, b) == (a + b) % Zakres

\* dystansMm(): integer halves, the speed of sound in mm/us truncated, and 0 for
\* what lies outside the range of the sensor.
dystansMm(czas) ==
    LET dystans == ((czas \div 2) * 332) \div 1000
    IN  IF dystans > ZasiegMin /\ dystans < ZasiegMax THEN dystans ELSE 0

\* The field is 10.0 cm before the first measurement.
Init ==
    /\ faza = "pomiar"
    /\ teraz = 0
    /\ ostatniPomiar = 100
    /\ msNastepnyPomiar = MsCzasPomiaru
    /\ przebieg = 0
    /\ wyzwolony = 0

\* Fault: a measurement that is due may be left out.
PominZawsze ==
    /\ faza = "pomiar"
    /\ faza' = "reszta"
    /\ UNCHANGED <<teraz, ostatniPomiar, msNastepnyPomiar, przebieg, wyzwolony>>

\* mierzDystans() before its time has come.
Pomin ==
    /\ faza = "pomiar"
    /\ ~(teraz > msNastepnyPomiar)
    /\ faza' = "reszta"
    /\ UNCHANGED <<teraz, ostatniPomiar, msNastepnyPomiar, przebieg, wyzwolony>>

\* mierzDystans() when it has: the next time is set, then the sensor triggered.
Wyzwol ==
    /\ faza = "pomiar"
    /\ teraz > msNastepnyPomiar
    /\ faza' = "echoNarasta"
    /\ msNastepnyPomiar' = Suma(teraz, MsCzasPomiaru)
    /\ wyzwolony' = teraz
    /\ UNCHANGED <<teraz, ostatniPomiar, przebieg>>

\* The sensor raises the pin; until then the program spins.
EchoNarasta ==
    /\ faza = "echoNarasta"
    /\ faza' = "echoOpada"
    /\ UNCHANGED <<teraz, ostatniPomiar, msNastepnyPomiar, przebieg, wyzwolony>>

\* Fault: a failed measurement is repeated on the spot.
EchoOpadaDoSkutku ==
    /\ faza = "echoOpada"
    /\ \E czas \in Czasy :
          /\ ostatniPomiar' = dystansMm(czas)
          /\ faza' = IF dystansMm(czas) = 0 THEN "echoNarasta" ELSE "reszta"
    /\ UNCHANGED <<teraz, msNastepnyPomiar, przebieg, wyzwolony>>

\* The sensor lowers the pin after czas microseconds: the reading is stored.
EchoOpada ==
    /\ faza = "echoOpada"
    /\ faza' = "reszta"
    /\ \E czas \in Czasy : ostatniPomiar' = dystansMm(czas)
    /\ UNCHANGED <<teraz, msNastepnyPomiar, przebieg, wyzwolony>>

\* Everything else in the pass.
Reszta ==
    /\ faza = "reszta"
    /\ faza' = "pomiar"
    /\ przebieg' = 0
    /\ UNCHANGED <<teraz, ostatniPomiar, msNastepnyPomiar, wyzwolony>>

Czas ==
    /\ przebieg < MaxPrzebieg
    /\ teraz # Koniec
    /\ teraz' = Suma(teraz, 1)
    /\ przebieg' = przebieg + 1
    /\ UNCHANGED <<faza, ostatniPomiar, msNastepnyPomiar, wyzwolony>>

Program == Pomin \/ Wyzwol \/ Reszta
Czujnik == EchoNarasta \/ EchoOpada

Next == Program \/ Czujnik \/ Czas

Spec == Init /\ [][Next]_vars

-----------------------------------------------------------------------------
(* Properties. *)

\* The fields keep their types.
TypeOK ==
    /\ faza \in Fazy
    /\ teraz \in Chwile
    /\ ostatniPomiar \in {100} \cup {dystansMm(czas) : czas \in Czasy}
    /\ msNastepnyPomiar \in Chwile
    /\ przebieg \in 0 .. MaxPrzebieg
    /\ wyzwolony \in Chwile

\* The reading that autostop and the sounds use in the rest of a pass is never
\* older than one interval and that pass: a moment that slips by is caught up at
\* the very next pass, however long the echo of the last measurement took.
OdczytSwiezy ==
    faza = "reszta" => teraz - wyzwolony <= MsCzasPomiaru + MaxPrzebieg

\* A sensor that ends its pulse always lets the loop go on to naped->zatrzymaj(),
\* also when what it measured is out of range: a failed measurement ("Wartosc 0") is
\* not repeated.  A sensor that is silent would hold the loop up for ever.
ZawszeWraca == []<>(faza = "reszta")
=============================================================================
