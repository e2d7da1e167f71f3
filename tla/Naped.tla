------------------------------- MODULE Naped -------------------------------
(***************************************************************************)
(* The drive of the robot (class YtesNaped, src/src/wspolne/YtesNaped.h)   *)
(* as the main loop of RoboYtesHardware01.ino runs it: a pass measures     *)
(* (faza "pomiar"), handles at most one command ("odbior") and ends with   *)
(* naped->zatrzymaj() ("koniec").  The clock may tick between any two of   *)
(* these, at most MaxPrzebieg times in a pass.                             *)
(*                                                                         *)
(* millis() is an unsigned long: the clock and every sum with it are taken *)
(* modulo Zakres (2^32 ms in the program).  One unit of time stands for    *)
(* 100 ms.                                                                 *)
(***************************************************************************)
EXTENDS Integers, FiniteSets

CONSTANTS
    MsImpuls,       \* how long one movement command lasts (300 ms)
    Zakres,         \* number of values of an unsigned long
    MaxPrzebieg,    \* bound: ticks in one pass of the loop
    Koniec,         \* bound: value at which the clock stops (Zakres: never)
    KoniecPolecen,  \* bound: last value of the clock at which a command comes
    Odleglosci,     \* readings of the radar in mm; 0 is a failed measurement
    Pakiety,        \* sets of direction keys a "naped" object may carry
    Wejscia         \* entry points in use: "dane" (loop), "parametry", "us"

KluczeRuchu == {"LP", "P", "PP", "LT", "T", "PT"}

ASSUME CzasAssumption ==
    /\ MsImpuls \in Nat \ {0}
    /\ Zakres \in Nat /\ Zakres > MsImpuls
    /\ MaxPrzebieg \in Nat
    /\ Koniec \in Nat
    /\ KoniecPolecen \in Nat

ASSUME DaneAssumption ==
    /\ Odleglosci \subseteq Nat
    /\ 100 \in Odleglosci
    /\ Pakiety \subseteq SUBSET KluczeRuchu
    /\ Wejscia \subseteq {"dane", "parametry", "us"}

VARIABLES
    faza,       \* where the loop is
    teraz,      \* millis()
    pomiar,     \* radar->dystans(): the stored reading
    naped,      \* the fields of YtesNaped and the direction of each wheel; history
                \* bezposrednio: ruchUs() has come after the last movement or stop
    przebieg,   \* history: ticks since this pass began
    blokadaOd   \* history: since when autostop has had an obstacle in front

vars == <<faza, teraz, pomiar, naped, przebieg, blokadaOd>>

Kierunki == {"przod", "stop", "tyl"}
Fazy == {"pomiar", "odbior", "koniec"}
Chwile == 0 .. Zakres - 1

Stan == [lewe : Kierunki, prawe : Kierunki, poruszamSie : BOOLEAN,
         msStop : Chwile, msOstatniRuch : Chwile, autostop : BOOLEAN,
         bezposrednio : BOOLEAN]

-----------------------------------------------------------------------------
(* The operations, as functions of the object's fields. *)

\* unsigned long addition
Suma(a, b) == (a + b) % Zakres

\* blokujRuchDoPrzodu: a reading of 2 cm or less (0: failed) never blocks.
WStrefie(odleglosc) == odleglosc > 20 /\ odleglosc < 150
Blokuje(n) == n.autostop /\ WStrefie(pomiar)

\* Fault: the stopper is set but not started.
StoperBezFlagi(n) == [n EXCEPT !.msStop = Suma(teraz, MsImpuls)]

uaktualnijStoper(n) ==
    [n EXCEPT !.poruszamSie = TRUE, !.msStop = Suma(teraz, MsImpuls)]

Rusz(n, l, p) ==
    [uaktualnijStoper(n) EXCEPT !.msOstatniRuch = teraz, !.lewe = l, !.prawe = p,
                                !.bezposrednio = FALSE]

ruchStop(n) == [n EXCEPT !.poruszamSie = FALSE, !.lewe = "stop", !.prawe = "stop",
                         !.bezposrednio = FALSE]

\* Fault: a blocked command still prolongs the movement.
RuszMimoBlokady(n, l, p) == IF Blokuje(n) THEN uaktualnijStoper(n) ELSE Rusz(n, l, p)

RuszPrzodem(n, l, p) == IF Blokuje(n) THEN n ELSE Rusz(n, l, p)

ruchPrzod(n)      == RuszPrzodem(n, "przod", "przod")
ruchPrawoPrzod(n) == RuszPrzodem(n, "przod", "stop")
ruchLewoPrzod(n)  == RuszPrzodem(n, "stop", "przod")
ruchTyl(n)        == Rusz(n, "tyl", "tyl")
ruchPrawoTyl(n)   == Rusz(n, "tyl", "stop")
ruchLewoTyl(n)    == Rusz(n, "stop", "tyl")

\* The direct pulse for one wheel: neither poruszamSie nor msStop changes.
ruchUs(n, kolo, k) ==
    LET m == [n EXCEPT !.msOstatniRuch = teraz, !.bezposrednio = TRUE]
    IN  IF kolo = "LEWE" THEN [m EXCEPT !.lewe = k] ELSE [m EXCEPT !.prawe = k]

ruchParametry(n, l, p) ==
    CASE l = 1  /\ p = 1  -> ruchPrzod(n)
      [] l = 0  /\ p = 0  -> ruchStop(n)
      [] l = -1 /\ p = -1 -> ruchTyl(n)
      [] l = 1  /\ p = 0  -> ruchPrawoPrzod(n)
      [] l = 0  /\ p = 1  -> ruchLewoPrzod(n)
      [] l = -1 /\ p = 0  -> ruchLewoTyl(n)
      [] l = 0  /\ p = -1 -> ruchPrawoTyl(n)
      [] OTHER            -> n

\* obslozPolecenieDane: the keys are tried in this order, every one present is
\* executed, and AUTOSTOP comes after the movements.
obslozPolecenieDane(n, klucze, autostop) ==
    LET n1 == IF "LP" \in klucze THEN ruchLewoPrzod(n)   ELSE n
        n2 == IF "P"  \in klucze THEN ruchPrzod(n1)      ELSE n1
        n3 == IF "PP" \in klucze THEN ruchPrawoPrzod(n2) ELSE n2
        n4 == IF "LT" \in klucze THEN ruchLewoTyl(n3)    ELSE n3
        n5 == IF "T"  \in klucze THEN ruchTyl(n4)        ELSE n4
        n6 == IF "PT" \in klucze THEN ruchPrawoTyl(n5)   ELSE n5
    IN  IF autostop = "brak" THEN n6 ELSE [n6 EXCEPT !.autostop = (autostop = "1")]

\* Faults: only the exact moment is noticed; the last moment is cut off.
ZatrzymajPunktualnie(n) ==
    IF n.poruszamSie /\ n.msStop = teraz THEN ruchStop(n) ELSE n
ZatrzymajWczesnie(n) ==
    IF n.poruszamSie /\ n.msStop <= teraz THEN ruchStop(n) ELSE n

zatrzymaj(n) == IF n.poruszamSie /\ n.msStop < teraz THEN ruchStop(n) ELSE n

-----------------------------------------------------------------------------
(* The loop. *)

\* After setup(): wlaczObslugeRadaru() has been called, no reading taken yet.
Init ==
    /\ faza = "pomiar"
    /\ teraz = 0
    /\ pomiar = 100
    /\ naped = [lewe |-> "stop", prawe |-> "stop", poruszamSie |-> FALSE,
                msStop |-> MsImpuls, msOstatniRuch |-> 0, autostop |-> TRUE,
                bezposrednio |-> FALSE]
    /\ przebieg = 0
    /\ blokadaOd = 0

\* blokadaOd keeps its value while the obstacle stays and restarts otherwise.
Blokada(n, odleglosc) == n.autostop /\ WStrefie(odleglosc)
NowaBlokada ==
    blokadaOd' = IF Blokada(naped, pomiar) /\ Blokada(naped', pomiar')
                 THEN blokadaOd ELSE teraz

\* radar->mierzDystans(): a new reading, or none because its time has not come.
Pomiar ==
    /\ faza = "pomiar"
    /\ faza' = "odbior"
    /\ pomiar' \in Odleglosci \cup {pomiar}
    /\ UNCHANGED <<teraz, naped, przebieg>>
    /\ NowaBlokada

Odbior(n) ==
    /\ faza = "odbior"
    /\ faza' = "koniec"
    /\ naped' = n
    /\ UNCHANGED <<teraz, pomiar, przebieg>>
    /\ NowaBlokada

BrakPolecenia == Odbior(naped)

PolecenieDane ==
    /\ "dane" \in Wejscia
    /\ teraz <= KoniecPolecen
    /\ \E klucze \in Pakiety, autostop \in {"brak", "0", "1"} :
          Odbior(obslozPolecenieDane(naped, klucze, autostop))

PolecenieParametry ==
    /\ "parametry" \in Wejscia
    /\ teraz <= KoniecPolecen
    /\ \E l, p \in -2 .. 1 : Odbior(ruchParametry(naped, l, p))

PolecenieUs ==
    /\ "us" \in Wejscia
    /\ teraz <= KoniecPolecen
    /\ \E kolo \in {"LEWE", "PRAWE"}, k \in Kierunki : Odbior(ruchUs(naped, kolo, k))

Zatrzymaj ==
    /\ faza = "koniec"
    /\ faza' = "pomiar"
    /\ naped' = zatrzymaj(naped)
    /\ przebieg' = 0
    /\ UNCHANGED <<teraz, pomiar>>
    /\ NowaBlokada

Czas ==
    /\ przebieg < MaxPrzebieg
    /\ teraz # Koniec
    /\ teraz' = Suma(teraz, 1)
    /\ przebieg' = przebieg + 1
    /\ UNCHANGED <<faza, pomiar, naped>>
    /\ blokadaOd' = IF Blokuje(naped) THEN blokadaOd ELSE teraz'

Petla == Pomiar \/ BrakPolecenia \/ PolecenieDane \/ PolecenieParametry
            \/ PolecenieUs \/ Zatrzymaj

Next == Petla \/ Czas

Spec == Init /\ [][Next]_vars

\* The loop is never suspended for good and time passes.
Sprawiedliwosc == WF_vars(Petla) /\ WF_vars(Czas)
SpecZywa == Spec /\ Sprawiedliwosc

-----------------------------------------------------------------------------
(* Properties. *)

\* The fields keep their types.
TypeOK ==
    /\ faza \in Fazy
    /\ teraz \in Chwile
    /\ pomiar \in Odleglosci
    /\ naped \in Stan
    /\ przebieg \in 0 .. MaxPrzebieg
    /\ blokadaOd \in Chwile

Obraca == naped.lewe # "stop" \/ naped.prawe # "stop"
Przodem == naped.lewe = "przod" \/ naped.prawe = "przod"

\* The wheels turn because of a movement command.  ruchUs(), which calibration
\* calls, sets no stopper; the properties are about the other entry points, also
\* when ruchUs() comes before or after them.
Jedzie == Obraca /\ ~naped.bezposrednio

\* No movement without the stopper running: whatever the keys of a command
\* and the order they are handled in, zatrzymaj() will be able to stop what
\* obslozPolecenieDane() started (poruszamSie is its only witness).
KolaPodNadzorem == Jedzie => naped.poruszamSie

\* Dead-man stop: a wheel turns at most one impulse and one pass after the
\* last movement command that was carried out.
RuchOgraniczony ==
    Jedzie => teraz - naped.msOstatniRuch <= MsImpuls + MaxPrzebieg

\* A wheel does not go on forwards in front of an obstacle: once autostop is on
\* and the reading in the blocking zone, and both stay so, forward commands may
\* keep coming but no longer prolong the movement.
PrzodGasnie ==
    (Jedzie /\ Przodem /\ Blokuje(naped)) =>
        teraz - blokadaOd <= MsImpuls + MaxPrzebieg

\* zatrzymaj() never cuts a movement short: the wheels it stops have had their
\* whole impulse since the last command that was carried out.
PelnyImpuls ==
    [][(faza = "koniec" /\ faza' = "pomiar" /\ Jedzie /\ ~Obraca')
          => teraz - naped.msOstatniRuch > MsImpuls]_vars

\* A robot that moves comes to a stop (no command comes after KoniecPolecen, so
\* nothing but the stopper is left to do it).
ZawszeStaje == Jedzie ~> ~Obraca

\* "Brak polecen kierunku przez okreslony czas automatycznie zatrzymuje robota":
\* once commands no longer change anything, the robot stands sooner or later.
BezPolecenStaje ==
    <>[][faza = "odbior" => naped' = naped]_vars => []<>~Obraca
=============================================================================
