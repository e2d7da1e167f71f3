----------------------------- MODULE RobotRuch -----------------------------
(***************************************************************************)
(* The drive and the range finder together, in front of an obstacle that   *)
(* moves: one pass of loop() measures (RadarPomiar), receives and stops    *)
(* (Naped).  Every step is a step of each component or leaves it alone;    *)
(* what they share is the clock, the pass and the stored reading, which    *)
(* YtesNaped fetches through radar->dystans().                             *)
(***************************************************************************)
EXTENDS Integers

CONSTANTS
    MsImpuls, MsCzasPomiaru, Zakres, MaxPrzebieg, Koniec, KoniecPolecen,
    ZasiegMin, ZasiegMax, Pakiety, Wejscia,
    Przeszkody,     \* distances of the obstacle in mm
    Echo            \* the echo time in microseconds for each of them

ASSUME RobotAssumption ==
    /\ MsImpuls \in Nat \ {0} /\ MsCzasPomiaru \in Nat \ {0}
    /\ Zakres \in Nat /\ Zakres > MsImpuls /\ Zakres > MsCzasPomiaru
    /\ MaxPrzebieg \in Nat /\ Koniec \in Nat /\ KoniecPolecen \in Nat
    /\ ZasiegMin \in Nat /\ ZasiegMax \in Nat
    /\ Przeszkody \subseteq Nat
    /\ Echo \in [Przeszkody -> Nat]

VARIABLES
    faza, teraz, pomiar, naped, przebieg, blokadaOd,
    msNastepnyPomiar, wyzwolony,
    przeszkoda,     \* the distance of the obstacle
    bliskoOd        \* history: since when it is near and autostop on

Odleglosci == {100, 0} \cup Przeszkody
Czasy == {Echo[p] : p \in Przeszkody}

vars == <<faza, teraz, pomiar, naped, przebieg, blokadaOd,
          msNastepnyPomiar, wyzwolony, przeszkoda, bliskoOd>>
swiatVars == <<przeszkoda, bliskoOd>>

\* What each component sees of the pass.
FazaNapedu == IF faza \in {"echoNarasta", "echoOpada"} THEN "pomiar" ELSE faza
FazaRadaru == IF faza \in {"odbior", "koniec"} THEN "reszta" ELSE faza

N == INSTANCE Naped WITH faza <- FazaNapedu
R == INSTANCE RadarPomiar WITH faza <- FazaRadaru, ostatniPomiar <- pomiar

\* A near obstacle is measured as one.
ASSUME EchoAssumption ==
    \A p \in Przeszkody : p > 20 /\ p < 150 => N!WStrefie(R!dystansMm(Echo[p]))

-----------------------------------------------------------------------------

Init ==
    /\ faza = "pomiar"
    /\ N!Init
    /\ R!Init
    /\ przeszkoda \in Przeszkody
    /\ bliskoOd = 0

Blisko(odleglosc, autostop) == autostop /\ odleglosc > 20 /\ odleglosc < 150

NoweBlisko ==
    bliskoOd' = IF /\ Blisko(przeszkoda, naped.autostop)
                   /\ Blisko(przeszkoda', naped'.autostop)
                THEN bliskoOd ELSE teraz

\* radar->mierzDystans() without a measurement: the drive keeps the old reading.
Pomin ==
    /\ faza' = "odbior"
    /\ R!Pomin
    /\ N!Pomiar
    /\ UNCHANGED swiatVars

\* The sensor is triggered and the loop spins on its pin.
Wyzwol ==
    /\ faza' = "echoNarasta"
    /\ R!Wyzwol
    /\ UNCHANGED <<naped, blokadaOd, swiatVars>>

EchoNarasta ==
    /\ faza' = "echoOpada"
    /\ R!EchoNarasta
    /\ UNCHANGED <<naped, blokadaOd, swiatVars>>

\* The echo of the obstacle as it stands now.
EchoOpada ==
    /\ faza = "echoOpada"
    /\ faza' = "odbior"
    /\ pomiar' = R!dystansMm(Echo[przeszkoda])
    /\ R!EchoOpada
    /\ N!Pomiar
    /\ UNCHANGED swiatVars

\* Reception of a command, if there is one: ruch180Krok(), the gyroscope and the
\* sounds do not touch what is modelled here.
Odbior ==
    /\ faza = "odbior"
    /\ faza' = "koniec"
    /\ N!BrakPolecenia \/ N!PolecenieDane
    /\ UNCHANGED <<msNastepnyPomiar, wyzwolony, przeszkoda>>
    /\ NoweBlisko

Zatrzymaj ==
    /\ faza = "koniec"
    /\ faza' = "pomiar"
    /\ N!Zatrzymaj
    /\ R!Reszta
    /\ UNCHANGED swiatVars

Czas ==
    /\ UNCHANGED faza
    /\ N!Czas
    /\ R!Czas
    /\ UNCHANGED przeszkoda
    /\ bliskoOd' = IF Blisko(przeszkoda, naped.autostop) THEN bliskoOd ELSE teraz'

\* The obstacle comes nearer or goes away.
RuchPrzeszkody ==
    /\ przeszkoda' \in Przeszkody
    /\ UNCHANGED <<faza, teraz, pomiar, naped, przebieg, blokadaOd,
                   msNastepnyPomiar, wyzwolony>>
    /\ NoweBlisko

Next == Pomin \/ Wyzwol \/ EchoNarasta \/ EchoOpada \/ Odbior \/ Zatrzymaj
           \/ Czas \/ RuchPrzeszkody

Spec == Init /\ [][Next]_vars

-----------------------------------------------------------------------------
(* Properties. *)

Przodem == naped.lewe = "przod" \/ naped.prawe = "przod"
Zwloka == MsCzasPomiaru + MsImpuls + 2 * MaxPrzebieg

\* Autostop end to end: with an obstacle between 2 and 15 cm away and autostop
\* on, no wheel goes forwards any more after one measuring interval, one impulse
\* and two passes, whatever commands keep arriving meanwhile.
HamujePrzedPrzeszkoda ==
    (Przodem /\ Blisko(przeszkoda, naped.autostop)) => teraz - bliskoOd <= Zwloka
=============================================================================
