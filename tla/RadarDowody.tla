---------------------------- MODULE RadarDowody ----------------------------
(***************************************************************************)
(* Proofs about class YtesRadar.  The sweep, for every angle range and     *)
(* every pace, as long as it is started inside the range and not at its    *)
(* end; then the range finder: the stored reading is fresh whenever the    *)
(* rest of the loop uses it, for every interval and length of a pass.      *)
(***************************************************************************)
EXTENDS Radar, TLAPS

StartyWZakresie == Starty \subseteq 0 .. KatMax - 1

\* The constants, for steps that need no more of them.
LEMMA StalaTypy ==
    /\ KatMax \in Nat /\ KatMax > 0 /\ MsKrok \in Nat
    /\ MaxPrzebieg \in Nat /\ Koniec \in Nat
    /\ Starty \subseteq Int /\ Katy \subseteq Int /\ Brak \notin Int
BY RuchAssumption DEF RuchAssumption

\* Every field keeps its type, whatever angles the commands carry.
THEOREM TypowanieRuchu == SpecRuchu => []TypyRuchu
<1>1. InitRuchu => TypyRuchu
  BY StalaTypy DEF InitRuchu, TypyRuchu, Ruch180, ustawRadar
<1>2. TypyRuchu /\ [NextRuchu]_radarVars => TypyRuchu'
  <2> SUFFICES ASSUME TypyRuchu, [NextRuchu]_radarVars
               PROVE  TypyRuchu'
    OBVIOUS
  <2>0. KatMax \in Nat /\ MsKrok \in Nat /\ MaxPrzebieg \in Nat /\ Koniec \in Nat
    BY StalaTypy
  <2> USE DEF TypyRuchu, ruchVars
  <2>1. CASE BezKroku
    BY <2>1 DEF BezKroku
  <2>7. CASE BrakPolecenia
    BY <2>0, <2>7 DEF BrakPolecenia
  <2>8. CASE UNCHANGED radarVars
    BY <2>8 DEF radarVars
  <2>2. CASE Krok
    <3>1. teraz \in Nat /\ teraz + MsKrok \in Nat
      BY <2>0
    <3>2. ruch180' \in Ruch180 /\ aktualnyKat' \in Int /\ odwiedzone' \subseteq Int
      <4> DEFINE k == IF ruch180.aktualnyKat = 0 THEN 1 ELSE ruch180.kierunek
      <4>1. ruch180.aktualnyKat \in Int /\ k \in {-1, 1}
        BY DEF Ruch180
      <4>2. /\ ruch180' = [ruch180 EXCEPT !.kierunek = k,
                                         !.aktualnyKat = ruch180.aktualnyKat + k]
            /\ aktualnyKat' = KatMax - (ruch180.aktualnyKat + k)
            /\ odwiedzone' = odwiedzone \cup {ruch180.aktualnyKat + k}
        BY <2>2 DEF Krok, ustawRadar
      <4> HIDE DEF k
      <4>3. ruch180.aktualnyKat + k \in Int
        BY <4>1
      <4>4. ruch180' \in Ruch180
        BY <4>1, <4>2, <4>3 DEF Ruch180
      <4>5. odwiedzone' \subseteq Int
        BY <4>2, <4>3
      <4>6. aktualnyKat' \in Int
        BY <2>0, <4>2, <4>3
      <4>7. QED
        BY <4>4, <4>5, <4>6
    <3>3. QED
      BY <2>0, <2>2, <3>1, <3>2 DEF Krok, NastepnyKrok
  <2>3. CASE OstatniKrok
    <3>1. ruch180' \in Ruch180 /\ aktualnyKat' \in Int
      <4>1. ruch180.zapamietanyKat \in Int
        BY DEF Ruch180
      <4>2. ruch180' \in Ruch180
        BY <2>3 DEF OstatniKrok, Ruch180
      <4>3. QED
        BY <2>0, <2>3, <4>1, <4>2 DEF OstatniKrok, ustawRadar
    <3>2. QED
      BY <2>0, <2>3, <3>1 DEF OstatniKrok, NastepnyKrok
  <2>6. CASE CzasRuchu
    BY <2>0, <2>6 DEF CzasRuchu
  <2>4. CASE Polecenie
    <3>1. PICK start \in Starty \cup {Brak}, kat \in Katy \cup {Brak} :
             /\ IF start = Brak THEN UNCHANGED ruchVars ELSE ruch180Inicjuj(start)
             /\ aktualnyKat' = CASE kat # Brak                 -> ustawRadar(kat)
                                 [] kat = Brak /\ start # Brak -> ustawRadar(start)
                                 [] kat = Brak /\ start = Brak -> aktualnyKat
      BY <2>4 DEF Polecenie
    <3>2. aktualnyKat' \in Int
      BY <3>1, StalaTypy DEF ustawRadar
    <3>3. /\ ruch180' \in Ruch180
          /\ msNastepnyKrok' \in Nat /\ msRadarAkcja' \in Nat
          /\ odwiedzone' \subseteq Int
      <4>1. CASE UNCHANGED ruchVars
        BY <4>1
      <4>2. CASE start # Brak /\ ruch180Inicjuj(start)
        <5>1. start \in Int
          BY <4>2, StalaTypy
        <5>2. QED
          BY <4>2, <5>1 DEF ruch180Inicjuj, Ruch180
      <4>3. QED
        BY <3>1, <4>1, <4>2
    <3>4. QED
      BY <2>0, <2>4, <3>2, <3>3 DEF Polecenie
  <2>5. QED
    BY <2>1, <2>2, <2>3, <2>4, <2>6, <2>7, <2>8 DEF NextRuchu, Petla
<1>3. QED
  BY <1>1, <1>2, PTL DEF SpecRuchu

-----------------------------------------------------------------------------
(* The sweep.  Przebyte is inductive once it is known that the start is in  *)
(* range and that a sweep going down has not passed below it.               *)

IndRuch ==
    /\ TypyRuchu
    /\ ruch180.wykonuj => /\ ruch180.zapamietanyKat \in 0 .. KatMax - 1
                          /\ ruch180.kierunek = -1
                                => ruch180.aktualnyKat <= ruch180.zapamietanyKat
    /\ Przebyte

\* One command: the sweep is left alone or started in range.
LEMMA PolecenieRuch ==
    ASSUME TypyRuchu, StartyWZakresie, Polecenie
    PROVE  \/ UNCHANGED ruchVars
           \/ \E start \in 0 .. KatMax - 1 : ruch180Inicjuj(start)
BY StalaTypy DEF Polecenie, StartyWZakresie

\* Every step keeps what the position tells of the angles shown.
LEMMA IndRuchKrok ==
    ASSUME StartyWZakresie
    PROVE  IndRuch /\ TypyRuchu' /\ [NextRuchu]_radarVars => IndRuch'
<1> SUFFICES ASSUME IndRuch, TypyRuchu', [NextRuchu]_radarVars
             PROVE  IndRuch'
  OBVIOUS
<1> USE StalaTypy DEF IndRuch
<1>1. CASE BezKroku \/ BrakPolecenia \/ CzasRuchu \/ UNCHANGED radarVars
  BY <1>1 DEF BezKroku, BrakPolecenia, CzasRuchu, radarVars, ruchVars, Przebyte
<1>2. CASE Krok
  <2> DEFINE a == ruch180.aktualnyKat
             z == ruch180.zapamietanyKat
             k == IF a = 0 THEN 1 ELSE ruch180.kierunek
  <2>1. /\ a \in 0 .. KatMax /\ a # KatMax /\ z \in 0 .. KatMax - 1
        /\ ruch180.kierunek \in {-1, 1}
        /\ ruch180.kierunek = -1 => a <= z /\ odwiedzone = a .. z
        /\ ruch180.kierunek = 1 => odwiedzone = (0 .. a) \cup (0 .. z)
    BY <1>2 DEF Krok, NastepnyKrok, Przebyte, TypyRuchu, Ruch180
  <2>2. /\ ruch180'.wykonuj /\ ruch180'.zapamietanyKat = z
        /\ ruch180'.kierunek = k /\ ruch180'.aktualnyKat = a + k
        /\ odwiedzone' = odwiedzone \cup {a + k}
    BY <1>2 DEF Krok, NastepnyKrok, TypyRuchu, Ruch180
  <2> HIDE DEF a, z
  <2>3. CASE k = -1
    <3>1. a # 0 /\ odwiedzone = a .. z /\ a <= z
      BY <2>1, <2>3
    <3>2. odwiedzone' = (a - 1) .. z
      BY <2>1, <2>2, <2>3, <3>1
    <3>3. QED
      BY <2>1, <2>2, <2>3, <3>1, <3>2 DEF Przebyte
  <2>4. CASE k = 1
    <3>1. odwiedzone = (0 .. a) \cup (0 .. z)
      BY <2>1, <2>4
    <3>2. odwiedzone' = (0 .. a + 1) \cup (0 .. z)
      BY <2>1, <2>2, <2>4, <3>1
    <3>3. QED
      BY <2>1, <2>2, <2>4, <3>2 DEF Przebyte
  <2>5. QED
    BY <2>1, <2>3, <2>4
<1>3. CASE OstatniKrok
  BY <1>3 DEF OstatniKrok, NastepnyKrok, TypyRuchu, Ruch180, Przebyte
<1>4. CASE Polecenie
  <2>1. CASE UNCHANGED ruchVars
    BY <2>1 DEF ruchVars, Przebyte
  <2>2. ASSUME NEW start \in 0 .. KatMax - 1, ruch180Inicjuj(start)
        PROVE  IndRuch'
    BY <2>2 DEF ruch180Inicjuj, Przebyte
  <2>3. QED
    BY <1>4, <2>1, <2>2, PolecenieRuch
<1>5. QED
  BY <1>1, <1>2, <1>3, <1>4 DEF NextRuchu, Petla

\* What the position tells of the angles shown, in every state.
LEMMA IndRuchZawsze ==
    ASSUME StartyWZakresie
    PROVE  SpecRuchu => []IndRuch
<1>1. InitRuchu => IndRuch
  <2>1. InitRuchu => TypyRuchu
    BY StalaTypy DEF InitRuchu, TypyRuchu, Ruch180, ustawRadar
  <2>2. QED
    BY <2>1 DEF InitRuchu, IndRuch, Przebyte
<1>2. IndRuch /\ TypyRuchu' /\ [NextRuchu]_radarVars => IndRuch'
  BY IndRuchKrok
<1>3. QED
  BY <1>1, <1>2, TypowanieRuchu, PTL DEF SpecRuchu

\* What a running sweep has behind it is what its position says.
THEOREM PrzebyteZawsze ==
    ASSUME StartyWZakresie
    PROVE  SpecRuchu => []Przebyte
<1>1. IndRuch => Przebyte
  BY DEF IndRuch
<1>2. QED
  BY <1>1, IndRuchZawsze, PTL

\* A sweep that ends has shown every angle and leaves the servo where it was
\* started.
THEOREM PelnyRuchZawsze ==
    ASSUME StartyWZakresie
    PROVE  SpecRuchu => PelnyRuch
<1>1. IndRuch /\ [NextRuchu]_radarVars =>
        [(ruch180.wykonuj /\ ~ruch180'.wykonuj) =>
            /\ odwiedzone = 0 .. KatMax
            /\ aktualnyKat' = KatMax - ruch180.zapamietanyKat]_radarVars
  <2> SUFFICES ASSUME IndRuch, NextRuchu, ruch180.wykonuj, ~ruch180'.wykonuj
               PROVE  /\ odwiedzone = 0 .. KatMax
                      /\ aktualnyKat' = KatMax - ruch180.zapamietanyKat
    BY DEF radarVars
  <2>1. OstatniKrok
    <3>1. CASE Krok
      BY <3>1 DEF Krok, IndRuch, TypyRuchu, Ruch180
    <3>2. CASE Polecenie
      BY <3>2 DEF Polecenie, ruchVars, ruch180Inicjuj
    <3>3. QED
      BY <3>1, <3>2 DEF NextRuchu, Petla, BezKroku, BrakPolecenia, CzasRuchu, ruchVars
  <2>2. /\ ruch180.aktualnyKat = KatMax
        /\ ruch180.zapamietanyKat \in 0 .. KatMax - 1
        /\ ruch180.kierunek = 1
    BY <2>1, StalaTypy DEF OstatniKrok, IndRuch, Przebyte, TypyRuchu, Ruch180
  <2>3. odwiedzone = (0 .. KatMax) \cup (0 .. ruch180.zapamietanyKat)
    BY <2>2 DEF IndRuch, Przebyte
  <2>4. odwiedzone = 0 .. KatMax
    BY <2>2, <2>3, StalaTypy
  <2>5. QED
    BY <2>1, <2>4 DEF OstatniKrok, ustawRadar
<1>2. QED
  BY <1>1, IndRuchZawsze, PTL DEF SpecRuchu, PelnyRuch

-----------------------------------------------------------------------------
(* Boredom.  While a sweep runs the mark of the radar is the time of its    *)
(* next step, and a pass that has looked at it is not past it by more than  *)
(* the ticks it has lasted.                                                 *)

IndNuda ==
    /\ TypyRuchu
    /\ ruch180.wykonuj =>
          /\ msRadarAkcja = msNastepnyKrok
          /\ teraz - msNastepnyKrok <=
                IF fazaRuchu = "krok" THEN MaxPrzebieg + przebieg ELSE przebieg

\* Every step keeps the mark of boredom within two passes.
LEMMA IndNudaKrok ==
    IndNuda /\ TypyRuchu' /\ [NextRuchu]_radarVars => IndNuda'
<1> SUFFICES ASSUME IndNuda, TypyRuchu', [NextRuchu]_radarVars
             PROVE  IndNuda'
  OBVIOUS
<1>0. /\ MaxPrzebieg \in Nat /\ MsKrok \in Nat
      /\ teraz \in Nat /\ msNastepnyKrok \in Nat /\ przebieg \in 0 .. MaxPrzebieg
      /\ fazaRuchu \in {"krok", "odbior"}
  BY StalaTypy DEF IndNuda, TypyRuchu
<1> USE DEF IndNuda
<1>1. CASE BezKroku
  BY <1>0, <1>1 DEF BezKroku, ruchVars
<1>2. CASE Krok \/ OstatniKrok
  BY <1>0, <1>2 DEF Krok, OstatniKrok, NastepnyKrok
<1>3. CASE Polecenie
  <2>1. fazaRuchu = "odbior" /\ fazaRuchu' = "krok" /\ przebieg' = 0 /\ teraz' = teraz
    BY <1>3 DEF Polecenie
  <2>2. CASE UNCHANGED ruchVars
    BY <1>0, <2>1, <2>2 DEF ruchVars
  <2>3. CASE msNastepnyKrok' = teraz /\ msRadarAkcja' = teraz
    BY <1>0, <2>1, <2>3
  <2>4. QED
    BY <1>3, <2>2, <2>3 DEF Polecenie, ruch180Inicjuj
<1>4. CASE BrakPolecenia
  BY <1>0, <1>4 DEF BrakPolecenia, ruchVars
<1>5. CASE CzasRuchu
  BY <1>0, <1>5 DEF CzasRuchu, ruchVars
<1>6. CASE UNCHANGED radarVars
  BY <1>6 DEF radarVars
<1>7. QED
  BY <1>1, <1>2, <1>3, <1>4, <1>5, <1>6 DEF NextRuchu, Petla

\* Whatever the pace of the loop, a running sweep keeps the robot from being
\* bored: its mark is never more than two passes behind the clock.
THEOREM NudaOdwlekanaZawsze == SpecRuchu => []NudaOdwlekana
<1>1. InitRuchu => IndNuda
  <2>1. InitRuchu => TypyRuchu
    BY StalaTypy DEF InitRuchu, TypyRuchu, Ruch180, ustawRadar
  <2>2. QED
    BY <2>1 DEF InitRuchu, IndNuda
<1>2. IndNuda /\ TypyRuchu' /\ [NextRuchu]_radarVars => IndNuda'
  BY IndNudaKrok
<1>3. IndNuda => NudaOdwlekana
  BY StalaTypy DEF IndNuda, TypyRuchu, NudaOdwlekana
<1>4. QED
  BY <1>1, <1>2, <1>3, TypowanieRuchu, PTL DEF SpecRuchu

-----------------------------------------------------------------------------
(* The range finder: freshness in the window in which millis() does not wrap. *)

BezPrzewiniecia == Koniec + MsCzasPomiaru < Zakres

Liczby ==
    /\ teraz \in Nat /\ przebieg \in 0 .. MaxPrzebieg
    /\ wyzwolony \in Nat /\ msNastepnyPomiar \in Nat

\* Once the beginning of a pass has looked at the clock, the moment of the next
\* measurement does not lie before that pass.
IndPomiar ==
    /\ Liczby
    /\ teraz <= Koniec
    /\ msNastepnyPomiar = wyzwolony + MsCzasPomiaru
    /\ faza # "pomiar" => teraz - przebieg <= msNastepnyPomiar

\* A sum that fits is the sum.
LEMMA SumaBezPrzewiniecia ==
    ASSUME NEW a \in Nat, NEW b \in Nat, a + b < Zakres
    PROVE  Suma(a, b) = a + b
BY PomiarAssumption DEF PomiarAssumption, Suma

\* Every step keeps the invariant while the clock does not wrap.
LEMMA IndPomiarKrok ==
    ASSUME BezPrzewiniecia
    PROVE  IndPomiar /\ [Next]_vars => IndPomiar'
<1> SUFFICES ASSUME IndPomiar, [Next]_vars
             PROVE  IndPomiar'
  OBVIOUS
<1>0. /\ MsCzasPomiaru \in Nat /\ Koniec \in Nat /\ MaxPrzebieg \in Nat
      /\ Zakres \in Nat
      /\ Koniec + MsCzasPomiaru < Zakres /\ 0 < MsCzasPomiaru
  BY PomiarAssumption DEF PomiarAssumption, BezPrzewiniecia
<1> USE DEF IndPomiar, Liczby
<1>1. CASE Pomin
  BY <1>0, <1>1 DEF Pomin
<1>2. CASE Wyzwol
  <2>1. msNastepnyPomiar' = teraz + MsCzasPomiaru
    BY <1>0, <1>2, SumaBezPrzewiniecia DEF Wyzwol
  <2>2. QED
    BY <1>0, <1>2, <2>1 DEF Wyzwol
<1>3. CASE EchoNarasta \/ EchoOpada
  BY <1>0, <1>3 DEF EchoNarasta, EchoOpada
<1>4. CASE Reszta
  BY <1>0, <1>4 DEF Reszta
<1>5. CASE Czas
  <2>1. teraz' = teraz + 1 /\ teraz' <= Koniec
    BY <1>0, <1>5, SumaBezPrzewiniecia DEF Czas
  <2>2. QED
    BY <1>0, <1>5, <2>1 DEF Czas
<1>6. CASE UNCHANGED vars
  BY <1>6 DEF vars
<1>7. QED
  BY <1>1, <1>2, <1>3, <1>4, <1>5, <1>6 DEF Next, Program, Czujnik

\* The reading the rest of a pass uses is at most one interval and that pass old.
THEOREM Swiezosc ==
    ASSUME BezPrzewiniecia
    PROVE  Spec => []OdczytSwiezy
<1>1. Init => IndPomiar
  BY PomiarAssumption DEF PomiarAssumption, Init, IndPomiar, Liczby
<1>2. IndPomiar /\ [Next]_vars => IndPomiar'
  BY IndPomiarKrok
<1>3. IndPomiar => OdczytSwiezy
  BY PomiarAssumption DEF PomiarAssumption, IndPomiar, Liczby, OdczytSwiezy
<1>4. QED
  BY <1>1, <1>2, <1>3, PTL DEF Spec

\* A sum on the clock is a value of the clock.
LEMMA SumaNaZegarze ==
    ASSUME NEW a \in Nat, NEW b \in Nat
    PROVE  Suma(a, b) \in Chwile
BY PomiarAssumption DEF Suma, Chwile

\* The fields keep their types over the wrap of millis() too, and the stored reading
\* is always one that dystansMm() returned (or the one of the constructor).
THEOREM TypowaniePomiaru == Spec => []TypeOK
<1> USE DEF TypeOK
<1>1. Chwile \subseteq Nat /\ 0 \in Chwile /\ MsCzasPomiaru \in Chwile
  BY PomiarAssumption DEF Chwile
<1>2. Init => TypeOK
  BY <1>1, PomiarAssumption DEF Init, Fazy
<1>3. ASSUME TypeOK, [Next]_vars
      PROVE  TypeOK'
  <2>1. CASE Pomin \/ Reszta
    BY <1>3, <2>1, PomiarAssumption DEF Pomin, Reszta, Fazy
  <2>2. CASE Wyzwol
    <3>1. msNastepnyPomiar' \in Chwile
      BY <1>1, <1>3, <2>2, SumaNaZegarze, PomiarAssumption DEF Wyzwol
    <3>2. QED
      BY <1>3, <2>2, <3>1 DEF Wyzwol, Fazy
  <2>3. CASE EchoNarasta
    BY <1>3, <2>3 DEF EchoNarasta, Fazy
  <2>4. CASE EchoOpada
    BY <1>3, <2>4 DEF EchoOpada, Fazy
  <2>5. CASE Czas
    <3>1. teraz' \in Chwile
      BY <1>1, <1>3, <2>5, SumaNaZegarze DEF Czas
    <3>2. QED
      BY <1>3, <2>5, <3>1, PomiarAssumption DEF Czas
  <2>6. CASE UNCHANGED vars
    BY <1>3, <2>6 DEF vars
  <2>7. QED
    BY <1>3, <2>1, <2>2, <2>3, <2>4, <2>5, <2>6 DEF Next, Program, Czujnik
<1>4. QED
  BY <1>2, <1>3, PTL DEF Spec

-----------------------------------------------------------------------------
(* Both halves in the passes of loop().                                     *)

\* A behaviour of the class is one of each half.
LEMMA ObiePolowy == SpecRadaru => Spec /\ SpecRuchu
<1>1. InitRadaru => Init /\ InitRuchu
  BY DEF InitRadaru
<1>2. [NextRadaru]_ytesRadarVars => [Next]_vars /\ [NextRuchu]_radarVars
  <2> SUFFICES ASSUME [NextRadaru]_ytesRadarVars
               PROVE  [Next]_vars /\ [NextRuchu]_radarVars
    OBVIOUS
  <2>1. CASE PomiarLubNie
    <3>1. UNCHANGED radarVars
      BY <2>1 DEF PomiarLubNie, Pomin, Wyzwol, polaRuchu, radarVars, ruchVars
    <3>2. QED
      BY <2>1, <3>1 DEF PomiarLubNie, Next, Program
  <2>2. CASE Echo
    <3>1. UNCHANGED radarVars
      BY <2>2 DEF Echo, Czujnik, EchoNarasta, EchoOpada, polaRuchu, radarVars, ruchVars
    <3>2. QED
      BY <2>2, <3>1 DEF Echo, Next
  <2>3. CASE ruch180Krok
    <3>1. UNCHANGED vars
      BY <2>3 DEF ruch180Krok, BezKroku, Krok, OstatniKrok, NastepnyKrok, polaPomiaru, vars
    <3>2. QED
      BY <2>3, <3>1 DEF ruch180Krok, NextRuchu, Petla
  <2>4. CASE Odbior
    BY <2>4 DEF Odbior, Next, Program, NextRuchu, Petla
  <2>5. CASE Uplyw
    BY <2>5 DEF Uplyw, Next, NextRuchu
  <2>6. CASE UNCHANGED ytesRadarVars
    BY <2>6 DEF ytesRadarVars
  <2>7. QED
    BY <2>1, <2>2, <2>3, <2>4, <2>5, <2>6 DEF NextRadaru, Kroki
<1>3. QED
  BY <1>1, <1>2, PTL DEF SpecRadaru, Spec, SpecRuchu

\* What is proved of the halves holds of the class in the loop, however the echoes of
\* one and the steps of the other delay each other.
THEOREM WPetli ==
    ASSUME StartyWZakresie, BezPrzewiniecia
    PROVE  SpecRadaru => []OdczytSwiezy /\ []NudaOdwlekana /\ PelnyRuch
BY ObiePolowy, Swiezosc, NudaOdwlekanaZawsze, PelnyRuchZawsze, PTL
=============================================================================
