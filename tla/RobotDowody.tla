---------------------------- MODULE RobotDowody ----------------------------
(***************************************************************************)
(* Proof about the drive and the range finder in one loop: that autostop   *)
(* works end to end, for every interval, impulse, length of a pass and set *)
(* of commands, in the window in which millis() does not wrap.             *)
(***************************************************************************)
EXTENDS RobotRuch, TLAPS

-----------------------------------------------------------------------------
(* The effect of a command.  As in NapedDowody, here of the drive that is  *)
(* part of the composition.                                                *)

USE RobotAssumption DEF RobotAssumption

Nietkniety(n, r) ==
    /\ r.lewe = n.lewe /\ r.prawe = n.prawe
    /\ r.poruszamSie = n.poruszamSie
    /\ r.msStop = n.msStop /\ r.msOstatniRuch = n.msOstatniRuch

Ruszony(n, r) ==
    /\ r.poruszamSie
    /\ r.msStop = N!Suma(teraz, MsImpuls) /\ r.msOstatniRuch = teraz
    /\ N!Blokuje(n) => r.lewe # "przod" /\ r.prawe # "przod"

SkutekJazdy(n, r) ==
    r \in N!Stan /\ (Nietkniety(n, r) \/ Ruszony(n, r)) /\ r.autostop = n.autostop

\* A sum of times that fits is the sum, for both components.
LEMMA SumaBezPrzewiniecia ==
    ASSUME NEW a \in Nat, NEW b \in Nat, a + b < Zakres
    PROVE  N!Suma(a, b) = a + b /\ R!Suma(a, b) = a + b /\ N!Suma(a, b) \in N!Chwile
BY DEF N!Suma, R!Suma, N!Chwile

\* A movement that is carried out starts the stopper.
LEMMA RuszSkutek ==
    ASSUME NEW n \in N!Stan, teraz \in N!Chwile, N!Suma(teraz, MsImpuls) \in N!Chwile,
           NEW l \in N!Kierunki, NEW p \in N!Kierunki,
           N!Blokuje(n) => l # "przod" /\ p # "przod"
    PROVE  SkutekJazdy(n, N!Rusz(n, l, p))
BY DEF N!Rusz, N!uaktualnijStoper, N!Stan, SkutekJazdy, Ruszony

\* The six movements, blocked or not.
LEMMA RuchySkutek ==
    ASSUME NEW n \in N!Stan, teraz \in N!Chwile, N!Suma(teraz, MsImpuls) \in N!Chwile
    PROVE  /\ SkutekJazdy(n, n)
           /\ SkutekJazdy(n, N!ruchLewoPrzod(n))
           /\ SkutekJazdy(n, N!ruchPrzod(n))
           /\ SkutekJazdy(n, N!ruchPrawoPrzod(n))
           /\ SkutekJazdy(n, N!ruchLewoTyl(n))
           /\ SkutekJazdy(n, N!ruchTyl(n))
           /\ SkutekJazdy(n, N!ruchPrawoTyl(n))
<1>1. SkutekJazdy(n, n)
  BY DEF SkutekJazdy, Nietkniety
<1>2. \A l, p \in N!Kierunki : SkutekJazdy(n, N!RuszPrzodem(n, l, p))
  BY <1>1, RuszSkutek DEF N!RuszPrzodem
<1>3. \A l, p \in {"stop", "tyl"} : SkutekJazdy(n, N!Rusz(n, l, p))
  BY RuszSkutek DEF N!Kierunki
<1> QED
  BY <1>1, <1>2, <1>3
     DEF N!ruchLewoPrzod, N!ruchPrzod, N!ruchPrawoPrzod, N!ruchLewoTyl, N!ruchTyl,
         N!ruchPrawoTyl, N!Kierunki

\* Two movements in one command have the effect of one.
LEMMA SkutekPrzechodni ==
    ASSUME NEW n \in N!Stan, NEW m, NEW r,
           SkutekJazdy(n, m), SkutekJazdy(m, r)
    PROVE  SkutekJazdy(n, r)
<1>1. m \in N!Stan /\ r \in N!Stan /\ m.autostop = n.autostop /\ r.autostop = n.autostop
  BY DEF SkutekJazdy
<1>2. N!Blokuje(m) = N!Blokuje(n)
  BY <1>1 DEF N!Blokuje
<1>3. CASE Nietkniety(m, r)
  BY <1>1, <1>2, <1>3 DEF SkutekJazdy, Nietkniety, Ruszony
<1>4. CASE Ruszony(m, r)
  BY <1>1, <1>2, <1>4 DEF SkutekJazdy, Ruszony
<1> QED
  BY <1>3, <1>4 DEF SkutekJazdy

\* Two movements of one command: the second on what the first left.
LEMMA PolecenieSkutek ==
    ASSUME NEW n \in N!Stan, teraz \in N!Chwile, N!Suma(teraz, MsImpuls) \in N!Chwile,
           NEW klucze, NEW a,
           NEW r, r = N!obslozPolecenieDane(n, klucze, a)
    PROVE  r \in N!Stan /\ (Nietkniety(n, r) \/ Ruszony(n, r))
<1> DEFINE n1 == IF "LP" \in klucze THEN N!ruchLewoPrzod(n)   ELSE n
           n2 == IF "P"  \in klucze THEN N!ruchPrzod(n1)      ELSE n1
           n3 == IF "PP" \in klucze THEN N!ruchPrawoPrzod(n2) ELSE n2
           n4 == IF "LT" \in klucze THEN N!ruchLewoTyl(n3)    ELSE n3
           n5 == IF "T"  \in klucze THEN N!ruchTyl(n4)        ELSE n4
           n6 == IF "PT" \in klucze THEN N!ruchPrawoTyl(n5)   ELSE n5
<1>1. n1 \in N!Stan /\ SkutekJazdy(n, n1)
  BY RuchySkutek DEF SkutekJazdy
<1> HIDE DEF n1
<1>2. n2 \in N!Stan /\ SkutekJazdy(n1, n2)
  BY <1>1, RuchySkutek DEF SkutekJazdy
<1> HIDE DEF n2
<1>3. n3 \in N!Stan /\ SkutekJazdy(n2, n3)
  BY <1>2, RuchySkutek DEF SkutekJazdy
<1> HIDE DEF n3
<1>4. n4 \in N!Stan /\ SkutekJazdy(n3, n4)
  BY <1>3, RuchySkutek DEF SkutekJazdy
<1> HIDE DEF n4
<1>5. n5 \in N!Stan /\ SkutekJazdy(n4, n5)
  BY <1>4, RuchySkutek DEF SkutekJazdy
<1> HIDE DEF n5
<1>6. n6 \in N!Stan /\ SkutekJazdy(n5, n6)
  BY <1>5, RuchySkutek DEF SkutekJazdy
<1> HIDE DEF n6
<1>7. SkutekJazdy(n, n6)
  <2>1. SkutekJazdy(n, n2)
    BY <1>1, <1>2, SkutekPrzechodni
  <2>2. SkutekJazdy(n, n3)
    BY <2>1, <1>3, SkutekPrzechodni
  <2>3. SkutekJazdy(n, n4)
    BY <2>2, <1>4, SkutekPrzechodni
  <2>4. SkutekJazdy(n, n5)
    BY <2>3, <1>5, SkutekPrzechodni
  <2> QED
    BY <2>4, <1>6, SkutekPrzechodni
<1>8. r = IF a = "brak" THEN n6 ELSE [n6 EXCEPT !.autostop = (a = "1")]
  BY DEF N!obslozPolecenieDane, n1, n2, n3, n4, n5, n6
<1> QED
  BY <1>7, <1>8 DEF SkutekJazdy, Nietkniety, Ruszony, N!Stan

-----------------------------------------------------------------------------
(* Autostop end to end.  A near obstacle that the reading does not show    *)
(* yet has come up since the last measurement (Niezauwazona); the next one *)
(* is started in the first pass that finds its time come (PomiarNaCzas),   *)
(* so no forward movement is renewed later than one interval and one pass  *)
(* after (OstatniPrzod), and the stopper does the rest (StoperRobota).     *)

BezPrzewiniecia == Koniec + MsImpuls < Zakres /\ Koniec + MsCzasPomiaru < Zakres

Bliska == Blisko(przeszkoda, naped.autostop)

TypRobota ==
    /\ faza \in {"pomiar", "echoNarasta", "echoOpada", "odbior", "koniec"}
    /\ naped \in N!Stan
    /\ przeszkoda \in Przeszkody
    /\ teraz \in Nat /\ teraz <= Koniec
    /\ przebieg \in Nat /\ przebieg <= MaxPrzebieg /\ przebieg <= teraz
    /\ bliskoOd \in Nat /\ bliskoOd <= teraz
    /\ wyzwolony \in Nat /\ wyzwolony <= teraz
    /\ naped.msOstatniRuch <= teraz

StoperRobota ==
    /\ Przodem => naped.poruszamSie
    /\ naped.poruszamSie => /\ naped.msStop = naped.msOstatniRuch + MsImpuls
                            /\ teraz - przebieg <= naped.msStop

PomiarNaCzas ==
    /\ msNastepnyPomiar = wyzwolony + MsCzasPomiaru
    /\ faza # "pomiar" => teraz - przebieg <= msNastepnyPomiar

Niezauwazona ==
    (Bliska /\ ~N!Blokuje(naped) /\ faza \in {"pomiar", "odbior", "koniec"})
        => wyzwolony <= bliskoOd

OstatniPrzod ==
    (Bliska /\ Przodem)
        => naped.msOstatniRuch <= bliskoOd + MsCzasPomiaru + MaxPrzebieg

IndRobot == TypRobota /\ StoperRobota /\ PomiarNaCzas /\ Niezauwazona /\ OstatniPrzod

\* The invariant holds after setup().
LEMMA IndRobotInit == Init => IndRobot
<1> SUFFICES ASSUME Init PROVE IndRobot
  OBVIOUS
<1>1. TypRobota
  BY DEF Init, N!Init, R!Init, TypRobota, N!Stan, N!Kierunki, N!Chwile
<1>2. StoperRobota /\ PomiarNaCzas /\ Niezauwazona /\ OstatniPrzod
  BY DEF Init, N!Init, R!Init, StoperRobota, PomiarNaCzas, Niezauwazona, OstatniPrzod, Przodem
<1> QED
  BY <1>1, <1>2 DEF IndRobot

\* Every step of the loop, the clock and the obstacle keeps the invariant.
LEMMA IndRobotKrok ==
    ASSUME BezPrzewiniecia
    PROVE  IndRobot /\ [Next]_vars => IndRobot'
<1> SUFFICES ASSUME IndRobot, [Next]_vars PROVE IndRobot'
  OBVIOUS
<1> USE DEF Bliska
<1>0. /\ TypRobota /\ StoperRobota /\ PomiarNaCzas /\ Niezauwazona /\ OstatniPrzod
      /\ teraz \in N!Chwile /\ teraz + MsImpuls < Zakres /\ teraz + MsCzasPomiaru < Zakres
      /\ naped.msOstatniRuch \in Nat /\ naped.msStop \in Nat
  BY DEF IndRobot, BezPrzewiniecia, TypRobota, N!Stan, N!Chwile
<1>a. /\ N!Suma(teraz, MsImpuls) = teraz + MsImpuls
      /\ N!Suma(teraz, MsImpuls) \in N!Chwile
      /\ R!Suma(teraz, MsCzasPomiaru) = teraz + MsCzasPomiaru
  <2>1. teraz \in Nat
    BY <1>0 DEF TypRobota
  <2> QED
    BY <1>0, <2>1, SumaBezPrzewiniecia
<1>1. CASE Pomin
  <2>1. /\ faza = "pomiar" /\ faza' = "odbior" /\ teraz <= msNastepnyPomiar
        /\ UNCHANGED <<teraz, pomiar, naped, przebieg, msNastepnyPomiar, wyzwolony,
                       przeszkoda, bliskoOd>>
    BY <1>0, <1>1 DEF Pomin, R!Pomin, N!Pomiar, FazaRadaru, swiatVars, PomiarNaCzas, TypRobota
  <2>2. N!Blokuje(naped)' = N!Blokuje(naped)
    BY <2>1 DEF N!Blokuje
  <2> QED
    BY <1>0, <2>1, <2>2 DEF IndRobot, TypRobota, StoperRobota, PomiarNaCzas, Niezauwazona,
           OstatniPrzod, Przodem
<1>2. CASE Wyzwol
  <2>1. /\ faza' = "echoNarasta" /\ msNastepnyPomiar' = teraz + MsCzasPomiaru
        /\ wyzwolony' = teraz
        /\ UNCHANGED <<teraz, naped, przebieg, przeszkoda, bliskoOd>>
    BY <1>a, <1>2 DEF Wyzwol, R!Wyzwol, swiatVars
  <2> QED
    BY <1>0, <2>1 DEF IndRobot, TypRobota, StoperRobota, PomiarNaCzas, Niezauwazona,
           OstatniPrzod, Przodem
<1>3. CASE EchoNarasta
  <2>1. /\ faza = "echoNarasta" /\ faza' = "echoOpada"
        /\ UNCHANGED <<teraz, naped, przebieg, msNastepnyPomiar, wyzwolony, przeszkoda, bliskoOd>>
    BY <1>0, <1>3 DEF EchoNarasta, R!EchoNarasta, swiatVars, FazaRadaru, TypRobota
  <2> QED
    BY <1>0, <2>1 DEF IndRobot, TypRobota, StoperRobota, PomiarNaCzas, Niezauwazona,
           OstatniPrzod, Przodem
<1>4. CASE EchoOpada
  <2>1. /\ faza = "echoOpada" /\ faza' = "odbior"
        /\ pomiar' = R!dystansMm(Echo[przeszkoda])
        /\ UNCHANGED <<teraz, naped, przebieg, msNastepnyPomiar, wyzwolony, przeszkoda, bliskoOd>>
    BY <1>4 DEF EchoOpada, R!EchoOpada, N!Pomiar, swiatVars
  <2>2. Bliska' => N!Blokuje(naped)'
    BY <1>0, <2>1, EchoAssumption DEF Blisko, N!Blokuje, N!WStrefie, TypRobota
  <2> QED
    BY <1>0, <2>1, <2>2 DEF IndRobot, TypRobota, StoperRobota, PomiarNaCzas, Niezauwazona,
           OstatniPrzod, Przodem
<1>5. CASE Odbior
  <2>1. /\ faza = "odbior" /\ faza' = "koniec"
        /\ UNCHANGED <<teraz, pomiar, przebieg, msNastepnyPomiar, wyzwolony, przeszkoda>>
        /\ NoweBlisko
    BY <1>5 DEF Odbior, N!BrakPolecenia, N!PolecenieDane, N!Odbior
  <2>2. naped' \in N!Stan /\ (Nietkniety(naped, naped') \/ Ruszony(naped, naped'))
    <3>1. CASE N!BrakPolecenia
      BY <1>0, <3>1 DEF N!BrakPolecenia, N!Odbior, TypRobota, Nietkniety
    <3>2. CASE N!PolecenieDane
      <4>1. PICK klucze \in Pakiety, a \in {"brak", "0", "1"} :
                naped' = N!obslozPolecenieDane(naped, klucze, a)
        BY <3>2 DEF N!PolecenieDane, N!Odbior
      <4> QED
        BY <1>0, <1>a, <4>1, PolecenieSkutek DEF TypRobota
    <3> QED
      BY <1>5, <3>1, <3>2 DEF Odbior
  <2>3. TypRobota'
    BY <1>0, <2>1, <2>2 DEF TypRobota, NoweBlisko, Nietkniety, Ruszony
  <2>4. StoperRobota' /\ PomiarNaCzas'
    BY <1>0, <1>a, <2>1, <2>2 DEF TypRobota, StoperRobota, PomiarNaCzas, Przodem,
           Nietkniety, Ruszony
  <2>5. bliskoOd' = teraz \/ (bliskoOd' = bliskoOd /\ Bliska /\ Bliska')
    BY <2>1 DEF NoweBlisko
  <2>6. Niezauwazona'
    <3>1. (Bliska /\ Bliska') => N!Blokuje(naped)' = N!Blokuje(naped)
      BY <2>1 DEF Blisko, N!Blokuje
    <3> QED
      BY <1>0, <2>1, <2>5, <3>1 DEF Niezauwazona, TypRobota
  <2>7. OstatniPrzod'
    <3>1. CASE bliskoOd' = teraz
      BY <2>1, <2>3, <3>1 DEF OstatniPrzod, TypRobota, N!Stan, N!Chwile
    <3>2. CASE bliskoOd' = bliskoOd /\ Bliska /\ Nietkniety(naped, naped')
      BY <1>0, <2>1, <3>2 DEF OstatniPrzod, Przodem, Nietkniety
    <3>3. CASE bliskoOd' = bliskoOd /\ Bliska /\ Ruszony(naped, naped')
      <4>1. CASE N!Blokuje(naped)
        BY <3>3, <4>1 DEF OstatniPrzod, Przodem, Ruszony
      <4>2. CASE ~N!Blokuje(naped)
        BY <1>0, <2>1, <3>3, <4>2 DEF OstatniPrzod, Ruszony, Niezauwazona, PomiarNaCzas, TypRobota
      <4> QED
        BY <4>1, <4>2
    <3> QED
      BY <2>2, <2>5, <3>1, <3>2, <3>3
  <2> QED
    BY <2>3, <2>4, <2>6, <2>7 DEF IndRobot
<1>6. CASE Zatrzymaj
  <2>1. /\ faza = "koniec" /\ faza' = "pomiar" /\ przebieg' = 0
        /\ UNCHANGED <<teraz, pomiar, msNastepnyPomiar, wyzwolony, przeszkoda, bliskoOd>>
        /\ naped' = N!zatrzymaj(naped)
    BY <1>6 DEF Zatrzymaj, R!Reszta, N!Zatrzymaj, swiatVars
  <2>2. /\ naped' \in N!Stan /\ naped'.autostop = naped.autostop
        /\ naped'.msOstatniRuch = naped.msOstatniRuch /\ naped'.msStop = naped.msStop
        /\ \/ naped' = naped
           \/ ~naped'.poruszamSie /\ naped'.lewe = "stop" /\ naped'.prawe = "stop"
        /\ naped'.poruszamSie => naped' = naped /\ teraz <= naped.msStop
    <3>1. CASE naped' = naped /\ (naped.poruszamSie => teraz <= naped.msStop)
      BY <1>0, <3>1 DEF TypRobota
    <3>2. CASE naped' = N!ruchStop(naped)
      BY <1>0, <3>2 DEF N!ruchStop, N!Stan, N!Kierunki, TypRobota
    <3>3. teraz \in Nat
      BY <1>0 DEF TypRobota
    <3> QED
      BY <1>0, <2>1, <3>1, <3>2, <3>3 DEF N!zatrzymaj
  <2>3. N!Blokuje(naped)' = N!Blokuje(naped)
    BY <2>1, <2>2 DEF N!Blokuje
  <2>4. TypRobota'
    BY <1>0, <2>1, <2>2 DEF TypRobota
  <2>5. StoperRobota' /\ PomiarNaCzas' /\ Niezauwazona'
    BY <1>0, <2>1, <2>2, <2>3 DEF TypRobota, StoperRobota, PomiarNaCzas, Niezauwazona, Przodem
  <2>6. OstatniPrzod'
    BY <1>0, <2>1, <2>2 DEF OstatniPrzod, Przodem
  <2> QED
    BY <2>4, <2>5, <2>6 DEF IndRobot
<1>7. CASE Czas
  <2>1. /\ teraz' = teraz + 1 /\ teraz' <= Koniec /\ przebieg' = przebieg + 1
        /\ przebieg' <= MaxPrzebieg
        /\ UNCHANGED <<faza, pomiar, naped, msNastepnyPomiar, wyzwolony, przeszkoda>>
        /\ bliskoOd' = IF Bliska THEN bliskoOd ELSE teraz'
    BY <1>0, <1>7, SumaBezPrzewiniecia DEF Czas, N!Czas, R!Czas, TypRobota
  <2>2. N!Blokuje(naped)' = N!Blokuje(naped) /\ Bliska' = Bliska
    BY <2>1 DEF N!Blokuje
  <2> QED
    BY <1>0, <2>1, <2>2 DEF IndRobot, TypRobota, StoperRobota, PomiarNaCzas, Niezauwazona,
           OstatniPrzod, Przodem
<1>8. CASE RuchPrzeszkody
  <2>1. /\ przeszkoda' \in Przeszkody
        /\ UNCHANGED <<faza, teraz, pomiar, naped, przebieg, msNastepnyPomiar, wyzwolony>>
        /\ bliskoOd' = teraz \/ (bliskoOd' = bliskoOd /\ Bliska)
    BY <1>8 DEF RuchPrzeszkody, NoweBlisko
  <2>2. N!Blokuje(naped)' = N!Blokuje(naped)
    BY <2>1 DEF N!Blokuje
  <2> QED
    BY <1>0, <2>1, <2>2 DEF IndRobot, TypRobota, StoperRobota, PomiarNaCzas, Niezauwazona,
           OstatniPrzod, Przodem
<1>9. CASE UNCHANGED vars
  BY <1>0, <1>9 DEF vars, IndRobot, TypRobota, StoperRobota, PomiarNaCzas, Niezauwazona,
         OstatniPrzod, Przodem, N!Blokuje
<1> QED
  BY <1>1, <1>2, <1>3, <1>4, <1>5, <1>6, <1>7, <1>8, <1>9 DEF Next

\* Autostop end to end: as long as millis() does not wrap, no wheel goes forwards
\* longer than one measuring interval, one impulse and two passes after an obstacle
\* came near.
THEOREM AutostopKoncowy ==
    ASSUME BezPrzewiniecia
    PROVE  Spec => []HamujePrzedPrzeszkoda
<1>1. IndRobot => HamujePrzedPrzeszkoda
  BY DEF IndRobot, TypRobota, StoperRobota, OstatniPrzod, Bliska, HamujePrzedPrzeszkoda,
         Zwloka, N!Stan, N!Chwile
<1>2. IndRobot /\ [Next]_vars => IndRobot'
  BY IndRobotKrok
<1> QED
  BY <1>1, <1>2, IndRobotInit, PTL DEF Spec
=============================================================================
