---------------------------- MODULE NapedDowody ----------------------------
(***************************************************************************)
(* Proofs about the drive.  A command, however many keys it carries, has   *)
(* one of three effects on the object (Skutek); the inductive invariant    *)
(* needs nothing else about obslozPolecenieDane() and ruchParametry().     *)
(***************************************************************************)
EXTENDS Naped, TLAPS

USE CzasAssumption DEF CzasAssumption

TenSamRuch(n, r) ==
    /\ r.lewe = n.lewe /\ r.prawe = n.prawe
    /\ r.poruszamSie = n.poruszamSie
    /\ r.msStop = n.msStop /\ r.msOstatniRuch = n.msOstatniRuch
    /\ r.bezposrednio = n.bezposrednio

NowyRuch(n, r) ==
    /\ r.poruszamSie /\ ~r.bezposrednio
    /\ r.msStop = Suma(teraz, MsImpuls) /\ r.msOstatniRuch = teraz
    /\ Blokuje(n) => r.lewe # "przod" /\ r.prawe # "przod"

Postoj(n, r) ==
    /\ r.lewe = "stop" /\ r.prawe = "stop" /\ ~r.poruszamSie /\ ~r.bezposrednio
    /\ r.msStop = n.msStop /\ r.msOstatniRuch = n.msOstatniRuch

Bezposredni(n, r) ==
    /\ r.bezposrednio
    /\ r.poruszamSie = n.poruszamSie
    /\ r.msStop = n.msStop /\ r.msOstatniRuch = teraz

\* What a command may do to the movement: nothing, start or renew it (forwards
\* only on a free way), stop it, or turn a wheel directly.
Skutek(n, r) ==
    /\ r \in Stan
    /\ TenSamRuch(n, r) \/ NowyRuch(n, r) \/ Postoj(n, r) \/ Bezposredni(n, r)

\* What one movement does: it never stops the vehicle nor touches autostop.
SkutekRuchu(n, r) ==
    r \in Stan /\ (TenSamRuch(n, r) \/ NowyRuch(n, r)) /\ r.autostop = n.autostop

-----------------------------------------------------------------------------

\* A sum of two times is a time.
LEMMA SumaTyp ==
    ASSUME NEW a \in Nat, NEW b \in Nat
    PROVE  Suma(a, b) \in Chwile
BY DEF Suma, Chwile

\* A sum that fits is the sum.
LEMMA SumaBezPrzewiniecia ==
    ASSUME NEW a \in Nat, NEW b \in Nat, a + b < Zakres
    PROVE  Suma(a, b) = a + b
BY DEF Suma

\* Every movement of the vehicle that is carried out starts the stopper.
LEMMA RuszSkutek ==
    ASSUME NEW n \in Stan, teraz \in Chwile,
           NEW l \in Kierunki, NEW p \in Kierunki,
           Blokuje(n) => l # "przod" /\ p # "przod"
    PROVE  SkutekRuchu(n, Rusz(n, l, p))
<1>1. Suma(teraz, MsImpuls) \in Chwile
  BY SumaTyp DEF Chwile
<1>2. QED
  BY <1>1 DEF Rusz, uaktualnijStoper, Stan, SkutekRuchu, NowyRuch

\* The six movements, blocked or not.
LEMMA RuchySkutek ==
    ASSUME NEW n \in Stan, teraz \in Chwile
    PROVE  /\ SkutekRuchu(n, n)
           /\ SkutekRuchu(n, ruchLewoPrzod(n))
           /\ SkutekRuchu(n, ruchPrzod(n))
           /\ SkutekRuchu(n, ruchPrawoPrzod(n))
           /\ SkutekRuchu(n, ruchLewoTyl(n))
           /\ SkutekRuchu(n, ruchTyl(n))
           /\ SkutekRuchu(n, ruchPrawoTyl(n))
<1>1. SkutekRuchu(n, n)
  BY DEF SkutekRuchu, TenSamRuch
<1>2. \A l, p \in Kierunki : SkutekRuchu(n, RuszPrzodem(n, l, p))
  BY <1>1, RuszSkutek DEF RuszPrzodem
<1>3. \A l, p \in {"stop", "tyl"} : SkutekRuchu(n, Rusz(n, l, p))
  BY RuszSkutek DEF Kierunki
<1>4. QED
  BY <1>1, <1>2, <1>3
     DEF ruchLewoPrzod, ruchPrzod, ruchPrawoPrzod, ruchLewoTyl, ruchTyl,
         ruchPrawoTyl, Kierunki

\* Effects compose: two movements in one command have the effect of one.
LEMMA SkutekPrzechodni ==
    ASSUME NEW n \in Stan, NEW m, NEW r,
           SkutekRuchu(n, m), SkutekRuchu(m, r)
    PROVE  SkutekRuchu(n, r)
<1>1. m \in Stan /\ r \in Stan /\ m.autostop = n.autostop /\ r.autostop = n.autostop
  BY DEF SkutekRuchu
<1>2. Blokuje(m) = Blokuje(n)
  BY <1>1 DEF Blokuje
<1>3. CASE TenSamRuch(m, r)
  BY <1>1, <1>2, <1>3 DEF SkutekRuchu, TenSamRuch, NowyRuch
<1>4. CASE NowyRuch(m, r)
  BY <1>1, <1>2, <1>4 DEF SkutekRuchu, NowyRuch
<1>5. QED
  BY <1>3, <1>4 DEF SkutekRuchu

\* Whatever keys a "naped" object carries, its handling has one of the effects.
LEMMA PolecenieSkutek ==
    ASSUME NEW n \in Stan, teraz \in Chwile, NEW klucze, NEW a
    PROVE  Skutek(n, obslozPolecenieDane(n, klucze, a))
<1> DEFINE n1 == IF "LP" \in klucze THEN ruchLewoPrzod(n)   ELSE n
           n2 == IF "P"  \in klucze THEN ruchPrzod(n1)      ELSE n1
           n3 == IF "PP" \in klucze THEN ruchPrawoPrzod(n2) ELSE n2
           n4 == IF "LT" \in klucze THEN ruchLewoTyl(n3)    ELSE n3
           n5 == IF "T"  \in klucze THEN ruchTyl(n4)        ELSE n4
           n6 == IF "PT" \in klucze THEN ruchPrawoTyl(n5)   ELSE n5
<1>1. n1 \in Stan /\ SkutekRuchu(n, n1)
  BY RuchySkutek DEF SkutekRuchu
<1> HIDE DEF n1
<1>2. n2 \in Stan /\ SkutekRuchu(n, n2)
  <2>1. SkutekRuchu(n1, n2)
    BY <1>1, RuchySkutek
  <2>2. QED
    BY <1>1, <2>1, SkutekPrzechodni DEF SkutekRuchu
<1> HIDE DEF n2
<1>3. n3 \in Stan /\ SkutekRuchu(n, n3)
  <2>1. SkutekRuchu(n2, n3)
    BY <1>2, RuchySkutek
  <2>2. QED
    BY <1>2, <2>1, SkutekPrzechodni DEF SkutekRuchu
<1> HIDE DEF n3
<1>4. n4 \in Stan /\ SkutekRuchu(n, n4)
  <2>1. SkutekRuchu(n3, n4)
    BY <1>3, RuchySkutek
  <2>2. QED
    BY <1>3, <2>1, SkutekPrzechodni DEF SkutekRuchu
<1> HIDE DEF n4
<1>5. n5 \in Stan /\ SkutekRuchu(n, n5)
  <2>1. SkutekRuchu(n4, n5)
    BY <1>4, RuchySkutek
  <2>2. QED
    BY <1>4, <2>1, SkutekPrzechodni DEF SkutekRuchu
<1> HIDE DEF n5
<1>6. n6 \in Stan /\ SkutekRuchu(n, n6)
  <2>1. SkutekRuchu(n5, n6)
    BY <1>5, RuchySkutek
  <2>2. QED
    BY <1>5, <2>1, SkutekPrzechodni DEF SkutekRuchu
<1> HIDE DEF n6
<1>7. obslozPolecenieDane(n, klucze, a)
        = IF a = "brak" THEN n6 ELSE [n6 EXCEPT !.autostop = (a = "1")]
  BY DEF obslozPolecenieDane, n1, n2, n3, n4, n5, n6
<1>8. Skutek(n, [n6 EXCEPT !.autostop = (a = "1")])
  BY <1>6 DEF SkutekRuchu, Skutek, TenSamRuch, NowyRuch, Postoj, Stan
<1>9. QED
  BY <1>6, <1>7, <1>8 DEF SkutekRuchu, Skutek

\* The same for the two-parameter entry.
LEMMA ParametrySkutek ==
    ASSUME NEW n \in Stan, teraz \in Chwile, NEW l \in Int, NEW p \in Int
    PROVE  Skutek(n, ruchParametry(n, l, p))
<1>1. Skutek(n, ruchStop(n))
  BY DEF ruchStop, Stan, Skutek, Postoj, Kierunki
<1>2. QED
  BY <1>1, RuchySkutek DEF ruchParametry, SkutekRuchu, Skutek

\* The direct entry leaves the stopper alone.
LEMMA UsSkutek ==
    ASSUME NEW n \in Stan, teraz \in Chwile,
           NEW kolo, NEW k \in Kierunki
    PROVE  Skutek(n, ruchUs(n, kolo, k))
BY DEF ruchUs, Stan, Skutek, Bezposredni

\* And for the stopper.
LEMMA ZatrzymajSkutek ==
    ASSUME NEW n \in Stan
    PROVE  /\ Skutek(n, zatrzymaj(n))
           /\ zatrzymaj(n).autostop = n.autostop
           /\ zatrzymaj(n) = n \/ Postoj(n, zatrzymaj(n))
BY DEF zatrzymaj, ruchStop, Skutek, TenSamRuch, Postoj, Stan, Kierunki

-----------------------------------------------------------------------------
(* Type correctness and the supervision of the wheels, for every clock. *)

\* What one iteration's reception does to the drive, whoever called it.
LEMMA OdbiorSkutek ==
    ASSUME TypeOK,
           BrakPolecenia \/ PolecenieDane \/ PolecenieParametry \/ PolecenieUs
    PROVE  /\ Skutek(naped, naped')
           /\ faza = "odbior" /\ faza' = "koniec"
           /\ UNCHANGED <<teraz, pomiar, przebieg>>
           /\ NowaBlokada
<1>1. naped \in Stan /\ teraz \in Chwile
  BY DEF TypeOK
<1>2. CASE BrakPolecenia
  BY <1>1, <1>2 DEF BrakPolecenia, Odbior, Skutek, TenSamRuch
<1>3. CASE PolecenieDane
  BY <1>1, <1>3, PolecenieSkutek DEF PolecenieDane, Odbior
<1>4. CASE PolecenieParametry
  BY <1>1, <1>4, ParametrySkutek DEF PolecenieParametry, Odbior
<1>5. CASE PolecenieUs
  BY <1>1, <1>5, UsSkutek DEF PolecenieUs, Odbior
<1>6. QED
  BY <1>2, <1>3, <1>4, <1>5

\* Every field keeps its type, whichever entry points are in use and however
\* the clock wraps.
THEOREM Typowanie == Spec => []TypeOK
<1>1. Init => TypeOK
  BY DaneAssumption DEF DaneAssumption, Init, TypeOK, Fazy, Chwile, Stan, Kierunki
<1>2. TypeOK /\ [Next]_vars => TypeOK'
  <2> SUFFICES ASSUME TypeOK, [Next]_vars
               PROVE  TypeOK'
    OBVIOUS
  <2>0. (teraz' \in Chwile /\ NowaBlokada) => blokadaOd' \in Chwile
    BY DEF TypeOK, NowaBlokada
  <2>1. CASE Pomiar
    BY <2>0, <2>1 DEF Pomiar, TypeOK, Fazy
  <2>2. CASE BrakPolecenia \/ PolecenieDane \/ PolecenieParametry \/ PolecenieUs
    BY <2>0, <2>2, OdbiorSkutek DEF TypeOK, Fazy, Skutek
  <2>3. CASE Zatrzymaj
    BY <2>0, <2>3, ZatrzymajSkutek DEF Zatrzymaj, TypeOK, Fazy, Skutek
  <2>4. CASE Czas
    <3>1. teraz' \in Chwile
      BY <2>4, SumaTyp DEF Czas, TypeOK, Chwile
    <3>2. QED
      BY <2>4, <3>1 DEF Czas, TypeOK
  <2>5. CASE UNCHANGED vars
    BY <2>5 DEF vars, TypeOK
  <2>6. QED
    BY <2>1, <2>2, <2>3, <2>4, <2>5 DEF Next, Petla
<1>3. QED
  BY <1>1, <1>2, PTL DEF Spec

\* No movement goes on unless the stopper runs.
THEOREM Nadzor == Spec => []KolaPodNadzorem
<1>1. Init => KolaPodNadzorem
  BY DEF Init, KolaPodNadzorem, Jedzie, Obraca
<1>2. TypeOK /\ KolaPodNadzorem /\ [Next]_vars => KolaPodNadzorem'
  <2> SUFFICES ASSUME TypeOK, KolaPodNadzorem, [Next]_vars
               PROVE  KolaPodNadzorem'
    OBVIOUS
  <2> USE DEF KolaPodNadzorem, Jedzie, Obraca
  <2>1. CASE Pomiar \/ Czas \/ UNCHANGED vars
    BY <2>1 DEF Pomiar, Czas, vars
  <2>2. CASE BrakPolecenia \/ PolecenieDane \/ PolecenieParametry \/ PolecenieUs
    BY <2>2, OdbiorSkutek DEF Skutek, TenSamRuch, NowyRuch, Postoj, Bezposredni
  <2>3. CASE Zatrzymaj
    BY <2>3, ZatrzymajSkutek DEF Zatrzymaj, TypeOK, Postoj
  <2>4. QED
    BY <2>1, <2>2, <2>3 DEF Next, Petla
<1>3. QED
  BY <1>1, <1>2, Typowanie, PTL DEF Spec

-----------------------------------------------------------------------------
(* Time.  The window in which the clock does not wrap, and in it the        *)
(* inductive invariant that ties the stopper, the last movement and the     *)
(* moment an obstacle came up to the current pass.                          *)

BezPrzewiniecia == Koniec + MsImpuls < Zakres

StoperZgodny ==
    (naped.poruszamSie /\ ~naped.bezposrednio) =>
        naped.msStop = naped.msOstatniRuch + MsImpuls

\* A stopper that runs had not expired when the present pass began.
StoperSwiezy == naped.poruszamSie => teraz - przebieg <= naped.msStop

PrzodPrzedBlokada ==
    (Jedzie /\ Przodem /\ Blokuje(naped)) => naped.msOstatniRuch <= blokadaOd

IndCzas ==
    /\ TypeOK
    /\ KolaPodNadzorem
    /\ teraz <= Koniec
    /\ przebieg <= teraz
    /\ naped.msOstatniRuch <= teraz
    /\ blokadaOd <= teraz
    /\ StoperZgodny
    /\ StoperSwiezy
    /\ PrzodPrzedBlokada

\* The invariant holds after setup().
LEMMA IndCzasInit == Init => IndCzas
<1>1. Init => TypeOK
  BY DaneAssumption DEF DaneAssumption, Init, TypeOK, Fazy, Chwile, Stan, Kierunki
<1>2. QED
  BY <1>1 DEF Init, IndCzas, KolaPodNadzorem, Jedzie, Obraca, StoperZgodny, StoperSwiezy,
              PrzodPrzedBlokada, Przodem

\* One step of the drive, in the window where the clock does not wrap.
LEMMA IndCzasKrok ==
    ASSUME BezPrzewiniecia
    PROVE  IndCzas /\ TypeOK' /\ KolaPodNadzorem' /\ [Next]_vars => IndCzas'
<1> SUFFICES ASSUME IndCzas, TypeOK', KolaPodNadzorem', [Next]_vars
             PROVE  IndCzas'
  OBVIOUS
<1> USE DEF StoperZgodny, StoperSwiezy, PrzodPrzedBlokada, Przodem, Jedzie, Obraca
<1>0. /\ teraz \in Nat /\ przebieg \in Nat /\ blokadaOd \in Nat
      /\ naped \in Stan /\ naped.msStop \in Nat /\ naped.msOstatniRuch \in Nat
      /\ teraz + MsImpuls < Zakres
  BY DEF IndCzas, TypeOK, Chwile, Stan, BezPrzewiniecia
<1>1. CASE Pomiar
  BY <1>0, <1>1 DEF Pomiar, IndCzas, NowaBlokada, Blokada, Blokuje
<1>2. CASE BrakPolecenia \/ PolecenieDane \/ PolecenieParametry \/ PolecenieUs
  <2>1. /\ Skutek(naped, naped')
        /\ UNCHANGED <<teraz, pomiar, przebieg>> /\ NowaBlokada
    BY <1>2, OdbiorSkutek DEF IndCzas
  <2>2. Suma(teraz, MsImpuls) = teraz + MsImpuls
    BY <1>0, SumaBezPrzewiniecia
  <2>3. /\ naped'.msOstatniRuch <= teraz'
        /\ StoperZgodny'
        /\ StoperSwiezy'
    BY <1>0, <2>1, <2>2 DEF IndCzas, Skutek, TenSamRuch, NowyRuch, Postoj,
           Bezposredni
  <2>4. blokadaOd' <= teraz'
    BY <1>0, <2>1 DEF IndCzas, NowaBlokada
  <2>5. PrzodPrzedBlokada'
    <3> SUFFICES ASSUME Jedzie', Przodem', Blokuje(naped)'
                 PROVE  naped'.msOstatniRuch <= blokadaOd'
      OBVIOUS
    <3>1. CASE Blokuje(naped)
      <4>1. blokadaOd' = blokadaOd
        BY <2>1, <3>1 DEF NowaBlokada, Blokada, Blokuje
      <4>2. TenSamRuch(naped, naped')
        BY <2>1, <3>1 DEF Skutek, NowyRuch, Postoj, Bezposredni
      <4>3. QED
        BY <3>1, <4>1, <4>2 DEF IndCzas, TenSamRuch
    <3>2. CASE ~Blokuje(naped)
      <4>1. blokadaOd' = teraz
        BY <3>2 , <2>1 DEF NowaBlokada, Blokada, Blokuje
      <4>2. QED
        BY <2>1, <2>3, <4>1
    <3>3. QED
      BY <3>1, <3>2
  <2>6. QED
    BY <2>1, <2>3, <2>4, <2>5 DEF IndCzas
<1>3. CASE Zatrzymaj
  <2>1. zatrzymaj(naped) = naped \/ Postoj(naped, zatrzymaj(naped))
    BY <1>0, ZatrzymajSkutek
  <2>2. zatrzymaj(naped).autostop = naped.autostop
    BY <1>0, ZatrzymajSkutek
  <2>3. naped'.msOstatniRuch <= teraz' /\ StoperZgodny' /\ blokadaOd' <= teraz'
    BY <1>0, <1>3, <2>1 DEF Zatrzymaj, IndCzas, Postoj, NowaBlokada
  <2>4. StoperSwiezy'
    BY <1>0, <1>3 DEF Zatrzymaj, zatrzymaj, ruchStop, Stan
  <2>5. PrzodPrzedBlokada'
    BY <1>0, <1>3, <2>1, <2>2
       DEF Zatrzymaj, IndCzas, Postoj, NowaBlokada, Blokada, Blokuje
  <2>6. QED
    BY <1>0, <1>3, <2>3, <2>4, <2>5 DEF Zatrzymaj, IndCzas
<1>4. CASE Czas
  <2>1. teraz' = teraz + 1 /\ teraz' <= Koniec
    BY <1>0, <1>4, SumaBezPrzewiniecia DEF Czas, IndCzas
  <2>2. QED
    BY <1>0, <1>4, <2>1 DEF Czas, IndCzas, Blokuje
<1>5. CASE UNCHANGED vars
  BY <1>5 DEF vars, IndCzas, Blokuje
<1>6. QED
  BY <1>1, <1>2, <1>3, <1>4, <1>5 DEF Next, Petla

\* The invariant holds in every state while the clock does not wrap.
LEMMA IndCzasNiezmiennik ==
    ASSUME BezPrzewiniecia
    PROVE  Spec => []IndCzas
<1>1. IndCzas /\ TypeOK' /\ KolaPodNadzorem' /\ [Next]_vars => IndCzas'
  BY IndCzasKrok
<1>2. QED
  BY <1>1, IndCzasInit, Typowanie, Nadzor, PTL DEF Spec

\* Dead-man stop: as long as millis() does not wrap, a wheel turns at most one
\* impulse and one pass after the last movement that was carried out.
THEOREM MartwaReka ==
    ASSUME BezPrzewiniecia
    PROVE  Spec => []RuchOgraniczony
<1>1. IndCzas => RuchOgraniczony
  BY DEF IndCzas, TypeOK, Chwile, Stan, RuchOgraniczony, StoperZgodny, StoperSwiezy,
         KolaPodNadzorem, Jedzie
<1>2. QED
  BY <1>1, IndCzasNiezmiennik, PTL

\* Autostop: a wheel that goes forwards when an obstacle comes up is stopped
\* within one impulse and one pass, whatever commands keep arriving.
THEOREM Autostop ==
    ASSUME BezPrzewiniecia
    PROVE  Spec => []PrzodGasnie
<1>1. IndCzas => PrzodGasnie
  BY DEF IndCzas, TypeOK, Chwile, Stan, PrzodGasnie, StoperZgodny, StoperSwiezy,
         KolaPodNadzorem, PrzodPrzedBlokada, Jedzie, Obraca, Przodem
<1>2. QED
  BY <1>1, IndCzasNiezmiennik, PTL

\* No movement is cut short by zatrzymaj().
THEOREM CalyImpuls ==
    ASSUME BezPrzewiniecia
    PROVE  Spec => PelnyImpuls
<1>1. IndCzas /\ [Next]_vars =>
        [(faza = "koniec" /\ faza' = "pomiar" /\ Jedzie /\ ~Obraca')
             => teraz - naped.msOstatniRuch > MsImpuls]_vars
  <2> SUFFICES ASSUME IndCzas, Next,
                      faza = "koniec", faza' = "pomiar", Jedzie, ~Obraca'
               PROVE  teraz - naped.msOstatniRuch > MsImpuls
    BY DEF vars
  <2>1. Zatrzymaj
    BY DEF Next, Petla, Pomiar, BrakPolecenia, PolecenieDane, PolecenieParametry,
           PolecenieUs, Odbior, Czas
  <2>2. naped.poruszamSie /\ naped.msStop < teraz
    BY <2>1 DEF Zatrzymaj, zatrzymaj, Jedzie, Obraca
  <2>3. QED
    BY <2>2 DEF IndCzas, TypeOK, Chwile, Stan, StoperZgodny, Jedzie
<1>2. QED
  BY <1>1, IndCzasNiezmiennik, PTL DEF Spec, PelnyImpuls
=============================================================================
