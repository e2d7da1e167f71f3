------------------------------- MODULE Radar -------------------------------
(***************************************************************************)
(* Class YtesRadar (src/src/wspolne/YtesRadar.h) as loop() calls it: in    *)
(* every pass a measurement if its time has come (RadarPomiar), then a     *)
(* step of the sweep, then the reception of a command (RadarRuch).  The    *)
(* halves share no field; what one does to the other it does by time: a    *)
(* slow echo keeps the sweep waiting, and a slow pass the measurement.     *)
(***************************************************************************)
EXTENDS RadarPomiar, RadarRuch

ytesRadarVars == <<vars, radarVars>>
polaPomiaru == <<ostatniPomiar, msNastepnyPomiar, wyzwolony>>
polaRuchu == <<fazaRuchu, aktualnyKat, ruchVars>>

InitRadaru == Init /\ InitRuchu

\* mierzDystans() up to the trigger, and what the sensor does then.
PomiarLubNie == (Pomin \/ Wyzwol) /\ UNCHANGED polaRuchu
Echo == Czujnik /\ UNCHANGED polaRuchu

ruch180Krok ==
    /\ faza = "reszta"
    /\ BezKroku \/ Krok \/ OstatniKrok
    /\ UNCHANGED <<faza, polaPomiaru>>

\* Reception, and the end of the pass.
Odbior == Reszta /\ (Polecenie \/ BrakPolecenia)

Uplyw == Czas /\ CzasRuchu

Kroki == PomiarLubNie \/ ruch180Krok \/ Odbior
NextRadaru == Kroki \/ Echo \/ Uplyw

SpecRadaru == InitRadaru /\ [][NextRadaru]_ytesRadarVars

\* The loop keeps running and time passes; the sensor owes nothing.
SpecBezCzujnika ==
    SpecRadaru /\ WF_ytesRadarVars(Kroki) /\ WF_ytesRadarVars(Uplyw)

\* A connected, working sensor always ends its pulse.
SpecZCzujnikiem == SpecBezCzujnika /\ WF_ytesRadarVars(Echo)
=============================================================================
