----------------------------- MODULE AutoEfekty -----------------------------
(***************************************************************************)
(* When the robot speaks of its own accord: the second half of             *)
(* YtesAudio::audioHandler() (src/src/wspolne/YtesAudio.h), which every    *)
(* pass of the main loop runs.  A near obstacle, the state of the          *)
(* gyroscope and boredom compete for one moment, msNastepnyAutoEfekt;      *)
(* movements, buttons and the radar put boredom off.                       *)
(*                                                                         *)
(* Distances are in millimetres, one unit of time is a few seconds.        *)
(***************************************************************************)
EXTENDS Integers, Sequences, FiniteSetsExt, Functions

CONSTANTS
    PrzerwaBaza,    \* msPrzerwaGadanieBaza (5 s)
    PrzerwaLos,     \* msPrzerwaGadanieLos: random(PrzerwaLos) is added to it
    NudaCzekaj,     \* msNudaCzekaj (12 s)
    MaxPrzebieg,    \* bound: ticks in one pass of the loop
    Koniec,         \* bound: value at which the clock stops
    KoniecZdarzen,  \* bound: last value of the clock at which something happens
    Odleglosci,     \* readings of the radar in mm; 0 is a failed measurement
    StanyZyroskopu, \* "BRAK", "RUCH" or a state that has a sound ("PRZECHYL")
    Smieci          \* what the uninitialised indexEfektu may hold

ASSUME AutoAssumption ==
    /\ PrzerwaBaza \in Nat \ {0} /\ PrzerwaLos \in Nat \ {0} /\ NudaCzekaj \in Nat
    /\ MaxPrzebieg \in Nat /\ Koniec \in Nat /\ KoniecZdarzen \in Nat
    /\ Odleglosci \subseteq Nat /\ 100 \in Odleglosci
    /\ StanyZyroskopu \subseteq {"BRAK", "RUCH", "PRZECHYL"} /\ "BRAK" \in StanyZyroskopu
    /\ Smieci \subseteq 0 .. 255 /\ Smieci # {}

VARIABLES
    teraz,          \* millis()
    ruchNaped,      \* naped->ostatniRuch()
    ruchRadar,      \* radar->ostatniRuch()
    audio,          \* the fields of YtesAudio used here
    mowi,           \* history: the effects chosen in the last pass
    cisza,          \* history: it put the next one off and chose none
    kiedy,          \* history: when one that the program means was chosen last
    przebieg        \* history: ticks since this pass began

vars == <<teraz, ruchNaped, ruchRadar, audio, mowi, cisza, kiedy, przebieg>>
historia == <<mowi, cisza, kiedy, przebieg>>

\* _odlegloscRadarBlisko, 15.0 cm.
ODLEGLOSC_BLISKO == 150

-----------------------------------------------------------------------------

\* setup(): the constructor starts both timers, everything is taken into account.
Init ==
    /\ teraz = 0
    /\ ruchNaped = 0 /\ ruchRadar = 0
    /\ \E los \in 0 .. PrzerwaLos - 1 :
          audio = [robotSparowany |-> FALSE, uwzglednijRadar |-> TRUE,
                   uwzglednijZyroskop |-> TRUE, msOstatniPrzyciskEfekt |-> 0,
                   msNuda |-> NudaCzekaj, msNastepnyAutoEfekt |-> PrzerwaBaza + los]
    /\ mowi = <<>> /\ cisza = FALSE
    /\ kiedy = 0 /\ przebieg = 0

\* "msTeraz > msNastepnyAutoEfekt", and what is done to wait for the next one.
CzasMinal(a) == teraz > a.msNastepnyAutoEfekt

\* Fault: the pause is the random part only.
OdlozonyBezBazy(a, los) == [a EXCEPT !.msNastepnyAutoEfekt = teraz + los]

Odlozony(a, los) == [a EXCEPT !.msNastepnyAutoEfekt = teraz + PrzerwaBaza + los]

\* What each branch of audioHandler() makes of the object a and of the effects m
\* already chosen in this pass, for the distance d or the state stan of the
\* gyroscope.  Every group has sounds, so losujZgrupy() gives one; smiec is what
\* indexEfektu holds when no case assigns it, and grajEfekt() plays it or, when
\* there is no effect of that number, stops the left player.
Zyroskop(a, m, stan, los, smiec) ==
    IF ~a.uwzglednijZyroskop \/ ~CzasMinal(a) THEN <<a, m>>
    ELSE << IF stan = "BRAK" THEN a ELSE Odlozony(a, los),
            IF stan \notin {"BRAK", "RUCH"} THEN Append(m, stan)
            ELSE IF smiec > 0 THEN Append(m, "SMIEC") ELSE m >>

\* Faults: the steps of the sweep are left out, or the present moment is taken
\* for the last event.
PrzerwijNudeBezRadaru(a) ==
    [a EXCEPT !.msNuda = Max({@, ruchNaped, a.msOstatniPrzyciskEfekt})]
PrzerwijNudeTeraz(a) == [a EXCEPT !.msNuda = teraz]

PrzerwijNude(a) ==
    [a EXCEPT !.msNuda = Max({@, ruchNaped, ruchRadar, a.msOstatniPrzyciskEfekt})]

Nuda(a, m, los) ==
    LET b == PrzerwijNude(a)
    IN  IF teraz >= b.msNuda + NudaCzekaj /\ CzasMinal(b)
        THEN <<Odlozony(b, los), Append(m, "LOSOWE_GADANIE")>>
        ELSE <<b, m>>

RadarMowi(a, d) ==
    a.uwzglednijRadar /\ CzasMinal(a) /\ d < ODLEGLOSC_BLISKO

\* audioHandler() of a paired robot: the radar, which ends the call when it has
\* spoken, then the gyroscope and then boredom.
Wybor(d, stan, los, los2, smiec) ==
    IF RadarMowi(audio, d)
    THEN <<Odlozony(audio, los), <<"RADAR_BLISKO">>>>
    ELSE LET z == Zyroskop(audio, <<>>, stan, los, smiec) IN Nuda(z[1], z[2], los2)

\* The pass has just measured the distance and read the gyroscope.
audioHandler ==
    /\ \E d \in Odleglosci, stan \in StanyZyroskopu, los, los2 \in 0 .. PrzerwaLos - 1,
         smiec \in Smieci :
          LET w == IF audio.robotSparowany THEN Wybor(d, stan, los, los2, smiec)
                                           ELSE <<audio, <<>>>>
          IN  audio' = w[1] /\ mowi' = w[2]
    /\ cisza' = (mowi' = <<>> /\ audio'.msNastepnyAutoEfekt # audio.msNastepnyAutoEfekt)
    /\ kiedy' = IF Range(mowi') \subseteq {"SMIEC"} THEN kiedy ELSE teraz
    /\ przebieg' = 0
    /\ UNCHANGED <<teraz, ruchNaped, ruchRadar>>

Zdarzenie == teraz <= KoniecZdarzen

\* A movement is carried out; the sweep makes a step; a sound button comes ("LO").
RuchNapedu ==
    /\ Zdarzenie
    /\ ruchNaped' = teraz
    /\ UNCHANGED <<teraz, ruchRadar, audio, historia>>

RuchRadaru ==
    /\ Zdarzenie
    /\ ruchRadar' = teraz
    /\ UNCHANGED <<teraz, ruchNaped, audio, historia>>

PrzyciskEfektu ==
    /\ Zdarzenie
    /\ audio' = [audio EXCEPT !.msOstatniPrzyciskEfekt = teraz]
    /\ UNCHANGED <<teraz, ruchNaped, ruchRadar, historia>>

\* Keys "UR" and "UZ".
PolecenieUwzglednij ==
    /\ Zdarzenie
    /\ \E r, z \in BOOLEAN :
          audio' = [audio EXCEPT !.uwzglednijRadar = r, !.uwzglednijZyroskop = z]
    /\ UNCHANGED <<teraz, ruchNaped, ruchRadar, historia>>

stanPolaczony ==
    /\ Zdarzenie
    /\ audio' = [audio EXCEPT !.robotSparowany = TRUE]
    /\ UNCHANGED <<teraz, ruchNaped, ruchRadar, historia>>

stanNiePolaczony ==
    /\ Zdarzenie
    /\ audio' = [audio EXCEPT !.robotSparowany = FALSE, !.uwzglednijRadar = FALSE,
                              !.uwzglednijZyroskop = FALSE]
    /\ UNCHANGED <<teraz, ruchNaped, ruchRadar, historia>>

Czas ==
    /\ przebieg < MaxPrzebieg
    /\ teraz < Koniec
    /\ teraz' = teraz + 1
    /\ przebieg' = przebieg + 1
    /\ UNCHANGED <<ruchNaped, ruchRadar, audio, mowi, cisza, kiedy>>

Next == audioHandler \/ RuchNapedu \/ RuchRadaru \/ PrzyciskEfektu
           \/ PolecenieUwzglednij \/ stanPolaczony \/ stanNiePolaczony \/ Czas

Spec == Init /\ [][Next]_vars

\* The loop keeps running and time passes.
SpecZywa == Spec /\ WF_vars(audioHandler) /\ WF_vars(Czas)

-----------------------------------------------------------------------------
(* Properties. *)

\* The fields keep their types.
TypeOK ==
    /\ teraz \in 0 .. Koniec
    /\ ruchNaped \in Nat /\ ruchRadar \in Nat
    /\ audio \in [robotSparowany : BOOLEAN, uwzglednijRadar : BOOLEAN,
                  uwzglednijZyroskop : BOOLEAN, msOstatniPrzyciskEfekt : Nat,
                  msNuda : Nat, msNastepnyAutoEfekt : Nat]
    /\ mowi \in Seq({"RADAR_BLISKO", "PRZECHYL", "SMIEC", "LOSOWE_GADANIE"})
    /\ cisza \in BOOLEAN
    /\ kiedy \in Nat
    /\ przebieg \in 0 .. MaxPrzebieg

\* After an effect that the program means, whichever branch chose it, nothing is
\* said for more than the base pause, not even what indexEfektu was left with;
\* and a pass chooses one effect, or boredom after what it was left with.
PrzerwaMiedzyEfektami ==
    [][audioHandler /\ mowi' # <<>> =>
          /\ teraz - kiedy > PrzerwaBaza
          /\ Len(mowi') = 1 \/ mowi' = <<"SMIEC", "LOSOWE_GADANIE">>]_vars

\* "minimalny czas przerwy pomiedzy odegraniem efektow": an effect of a pass is
\* more than the base pause from any other, of this pass or the one before.
MinimalnaPrzerwa ==
    [][audioHandler /\ mowi' # <<>> =>
          Len(mowi') = 1 /\ (mowi # <<>> => przebieg > PrzerwaBaza)]_vars

\* The robot complains of boredom only when neither the drive nor the radar nor
\* a button has done anything for the time of boredom.
NudaPoBezczynnosci ==
    [][audioHandler /\ "LOSOWE_GADANIE" \in Range(mowi') =>
          teraz - Max({ruchNaped, ruchRadar, audio.msOstatniPrzyciskEfekt}) >= NudaCzekaj]_vars

\* A paired robot that nobody disturbs any more speaks again, of what it feels
\* or of boredom, unless the gyroscope keeps it silent with the state RUCH.
NudaMowi ==
    (audio.robotSparowany /\ teraz = KoniecZdarzen + 1) ~> (mowi # <<>> \/ cisza)
=============================================================================
