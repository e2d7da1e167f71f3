---------------------------- MODULE LaczeDowody ----------------------------
(***************************************************************************)
(* Proofs about Odbiornik and SppSerial, for any buffers, queues, commands *)
(* and numbers of links.                                                   *)
(*                                                                         *)
(* The inductive invariant has a part for each owner of state: the stack   *)
(* (SesjaOK, which needs no other part), the acknowledgements (ZapisOK),   *)
(* the task spp_tx (ZadanieOK), the queues (KolejkiOK) and the loop        *)
(* (PetlaOK).  Every part is shown to be kept by a step of anyone.  On top *)
(* of it come what the task reads of a packet (BajtyOK), what              *)
(* receivedChars holds of a line (LiniaOK), the commands that what is      *)
(* still to be read consists of (KolejnoOK), and the order of the bytes on *)
(* their way out (StrumienOK).                                             *)
(***************************************************************************)
EXTENDS Odbiornik, SequenceTheorems, TLAPS

Bajty == Znak \cup {EndMarker}

SesjaOK ==
    /\ klient \in Uchwyty \cup {Brak}
    /\ drugi \in BOOLEAN
    /\ bity \subseteq {"RUNNING", "CONNECTED", "CONGESTED", "DISCONNECTED"}
    /\ lacza \in [Uchwyty -> {"zamkniety", "otwarty", "zamyka"}]
    /\ PortWraca

Zlecenia == [kopia : Seq(Nat), reszta : Seq(Nat), suma : 0 .. TxMax,
             powrot : {"odbior", "dalej"}]

\* What was cut off a large packet is only there to be copied to an empty buffer.
ZadanieOK ==
    /\ bufor \in [0 .. TxMax - 1 -> Nat]
    /\ dlugosc \in 0 .. TxMax
    /\ tx \in {"odbior", "podziel", "kopiuj", "dolicz", "zapisz", "sprawdz", "wolne",
               "ack", "dalej"}
    /\ wyslij \in Zlecenia
    /\ tx = "podziel" => wyslij.powrot = "dalej"
    /\ tx = "sprawdz" => wyslij.powrot = "odbior"
    /\ tx = "kopiuj" => dlugosc + Len(wyslij.kopia) <= TxMax
    /\ tx = "dolicz" => (wyslij.powrot = "odbior" => dlugosc + Len(wyslij.kopia) <= TxMax)
    /\ tx = "ack" => dlugosc = 0
    /\ tx = "dalej" /\ wyslij.reszta # <<>> => dlugosc = 0
    /\ stracone \in BOOLEAN /\ zderzenie \in BOOLEAN

ZapisOK ==
    /\ txDone \in 0 .. 1 /\ wToku \in Nat /\ przekroczenia \in Nat
    /\ JedenZapis

KolejkiOK ==
    /\ txKolejka \in Seq(Seq(Nat)) /\ Len(txKolejka) <= TxRozmiar
    /\ rxKolejka \in Seq(Bajty) /\ Len(rxKolejka) <= RxRozmiar
    /\ nadane \in Nat
    /\ zapisy \in Seq(Nat)
    /\ wLocie \in [Uchwyty -> Seq(Bajty)]

Zgody == [robotSparowany : BOOLEAN, uwzglednijRadar : BOOLEAN, uwzglednijZyroskop : BOOLEAN]

PetlaOK ==
    /\ petla \in {"przebieg", "odbior", "odpowiedz", "koniec"}
    /\ newData \in BOOLEAN
    /\ receivedChars \in [0 .. NumChars - 1 -> Znak \cup {NUL}]
    /\ ndx \in 0 .. NumChars - 1
    /\ audio \in Zgody
    /\ wyslane \subseteq Komunikaty
    /\ usterka \in BOOLEAN

IInv == SesjaOK /\ ZadanieOK /\ ZapisOK /\ KolejkiOK /\ PetlaOK

-----------------------------------------------------------------------------
(* The sizes, and sequences. *)

\* The sizes of the buffers and of the queues.
LEMMA Rozmiary ==
    /\ TxMax \in Nat \ {0} /\ TxRozmiar \in Nat \ {0} /\ RxRozmiar \in Nat \ {0}
    /\ RozmiarT \in Nat \ {0} /\ NumChars \in Nat \ {0}
    /\ Odpowiedz \in Seq(Nat) /\ Brak \notin Uchwyty
BY SppAssumption, OdbiornikAssumption

\* The two parts of what is divided after n elements.
LEMMA Podzial ==
    ASSUME NEW S, NEW s \in Seq(S), NEW n \in 0 .. Len(s)
    PROVE  /\ Dziel(s, n)[1] \in Seq(S) /\ Len(Dziel(s, n)[1]) = n
           /\ Dziel(s, n)[2] \in Seq(S)
<1>1. Len(s) \in Nat /\ \A i \in 1 .. Len(s) : s[i] \in S
  BY LenProperties, ElementOfSeq
<1>2. SubSeq(s, 1, n) \in Seq(S) /\ Len(SubSeq(s, 1, n)) = n
  <2>1. \A i \in 1 .. n : s[i] \in S
    BY <1>1
  <2>2. QED
    BY <1>1, <2>1, SubSeqProperties
<1>3. SubSeq(s, n + 1, Len(s)) \in Seq(S)
  <2>1. n + 1 \in Int /\ \A i \in n + 1 .. Len(s) : s[i] \in S
    BY <1>1
  <2>2. QED
    BY <1>1, <2>1, SubSeqProperties
<1>4. QED
  BY <1>2, <1>3 DEF Dziel

\* Where enough is left, nothing is read from behind the packet.
LEMMA PodzialWGranicach ==
    ASSUME NEW s, NEW n, n <= Len(s)
    PROVE  Podziel(s, n) = Dziel(s, n)
BY DEF Podziel

\* What is read is as long as was asked for, and made of numbers, whatever is left.
LEMMA PodzialTyp ==
    ASSUME NEW s \in Seq(Nat), NEW n \in Nat
    PROVE  /\ Podziel(s, n)[1] \in Seq(Nat) /\ Len(Podziel(s, n)[1]) = n
           /\ Podziel(s, n)[2] \in Seq(Nat)
<1>1. Len(s) \in Nat
  BY LenProperties
<1>2. ASSUME NEW m \in Nat
      PROVE  Obce(m) \in Seq(Nat) /\ Len(Obce(m)) = m
  BY DEF Obce
<1>3. CASE n <= Len(s)
  <2>1. n \in 0 .. Len(s)
    BY <1>1, <1>3
  <2>2. QED
    BY <1>3, <2>1, Podzial, PodzialWGranicach
<1>4. CASE ~(n <= Len(s))
  <2> DEFINE a == n - Len(s)
             b == ((Len(s) - n) % RozmiarT)
  <2>1. a \in Nat /\ Len(s) + a = n
    BY <1>1, <1>4
  <2>2. b \in Nat
    <3>1. Len(s) - n \in Int
      BY <1>1
    <3>2. QED
      BY <3>1, Rozmiary
  <2>3. Podziel(s, n) = <<s \o Obce(a), Obce(b)>>
    BY <1>4 DEF Podziel, PozaKoniec
  <2> HIDE DEF a, b
  <2>4. /\ Obce(a) \in Seq(Nat) /\ Len(Obce(a)) = a
        /\ Obce(b) \in Seq(Nat)
    BY <1>2, <2>1, <2>2
  <2>5. s \o Obce(a) \in Seq(Nat) /\ Len(s \o Obce(a)) = n
    BY <2>1, <2>4, ConcatProperties
  <2>6. QED
    BY <2>3, <2>4, <2>5
<1>5. QED
  BY <1>3, <1>4

\* What the receive queue takes of the data fits into it.
LEMMA ZmiesciSie ==
    ASSUME KolejkiOK, NEW dane \in Seq(Bajty)
    PROVE  /\ rxKolejka \o Zmiesci(dane) \in Seq(Bajty)
           /\ Len(rxKolejka \o Zmiesci(dane)) <= RxRozmiar
<1> DEFINE miejsce == RxRozmiar - Len(rxKolejka)
           n == IF Len(dane) <= miejsce THEN Len(dane) ELSE miejsce
<1>1. Len(dane) \in Nat /\ \A i \in 1 .. Len(dane) : dane[i] \in Bajty
  BY LenProperties, ElementOfSeq
<1>2. Len(rxKolejka) \in Nat /\ Len(rxKolejka) <= RxRozmiar /\ rxKolejka \in Seq(Bajty)
  BY LenProperties DEF KolejkiOK
<1>3. n \in Nat /\ n <= Len(dane) /\ n <= miejsce /\ miejsce \in Nat
  BY <1>1, <1>2, Rozmiary
<1>4. Zmiesci(dane) = SubSeq(dane, 1, n)
  BY DEF Zmiesci
<1> HIDE DEF n
<1>5. SubSeq(dane, 1, n) \in Seq(Bajty) /\ Len(SubSeq(dane, 1, n)) = n
  <2>1. \A i \in 1 .. n : dane[i] \in Bajty
    BY <1>1, <1>3
  <2>2. QED
    BY <1>3, <2>1, SubSeqProperties
<1>6. /\ rxKolejka \o Zmiesci(dane) \in Seq(Bajty)
      /\ Len(rxKolejka \o Zmiesci(dane)) = Len(rxKolejka) + n
  BY <1>2, <1>4, <1>5, ConcatProperties
<1>7. QED
  BY <1>2, <1>3, <1>6, Rozmiary

\* A copy leaves numbers in the buffer.
LEMMA WklejoneTyp ==
    ASSUME bufor \in [0 .. TxMax - 1 -> Nat], NEW dane \in Seq(Nat), NEW od \in Nat
    PROVE  Wklejone(dane, od) \in [0 .. TxMax - 1 -> Nat]
<1>1. Len(dane) \in Nat /\ \A i \in 1 .. Len(dane) : dane[i] \in Nat
  BY LenProperties, ElementOfSeq
<1>2. ASSUME NEW i \in 0 .. TxMax - 1, i \in od .. od + Len(dane) - 1
      PROVE  dane[i - od + 1] \in Nat
  <2>1. i - od + 1 \in 1 .. Len(dane)
    BY <1>1, <1>2, Rozmiary
  <2>2. QED
    BY <1>1, <2>1
<1>3. QED
  BY <1>2 DEF Wklejone

-----------------------------------------------------------------------------
(* SesjaOK: the callbacks. *)

\* A link opens: as the client or to be refused.
LEMMA SesjaSrvOpen ==
    ASSUME SesjaOK, NEW h \in Uchwyty, SrvOpen(h)
    PROVE  SesjaOK'
<1>1. lacza[h] = "zamkniety" /\ h \notin Otwarte /\ h # Brak
  BY Rozmiary DEF SrvOpen, Otwarte
<1>2. CASE klient = Brak
  <2>1. klient' = h /\ drugi' = drugi /\ ~drugi
    BY <1>2 DEF SrvOpen, SesjaOK, PortWraca
  <2>2. h \in Otwarte'
    BY <1>2 DEF SrvOpen, Otwarte, SesjaOK
  <2>3. QED
    BY <1>2, <2>1, <2>2 DEF SrvOpen, SesjaOK, PortWraca
<1>3. CASE klient # Brak
  <2>1. PICK g \in Otwarte : TRUE
    BY <1>3 DEF SesjaOK, PortWraca
  <2>2. g # h /\ g \in Otwarte' /\ h \in Otwarte'
    BY <1>1, <1>3, <2>1 DEF SrvOpen, Otwarte, SesjaOK
  <2>3. PortWraca'
    BY <1>3, <2>2 DEF SrvOpen, PortWraca
  <2>4. QED
    BY <1>3, <2>3 DEF SrvOpen, SesjaOK
<1>4. QED
  BY <1>2, <1>3

\* A link closes, whichever the callback takes it for.
LEMMA SesjaClose ==
    ASSUME SesjaOK, NEW h \in Uchwyty, Close(h)
    PROVE  SesjaOK'
<1>1. drugi' = FALSE
  BY DEF Close
<1>2. CASE drugi
  <2>1. PICK g \in Otwarte : g # h
    BY <1>2 DEF SesjaOK, PortWraca
  <2>2. g \in Otwarte'
    BY <2>1 DEF Close, Otwarte, SesjaOK
  <2>3. QED
    BY <1>1, <1>2, <2>2 DEF Close, SesjaOK, PortWraca
<1>3. CASE ~drugi
  BY <1>1, <1>3 DEF Close, SesjaOK, PortWraca
<1>4. QED
  BY <1>2, <1>3 DEF SesjaOK

\* Every step keeps the state of the session.
LEMMA SesjaKrok ==
    ASSUME SesjaOK, [Next]_vars
    PROVE  SesjaOK'
<1>1. CASE \E h \in Uchwyty : SrvOpen(h)
  BY <1>1, SesjaSrvOpen
<1>2. CASE \E h \in Uchwyty : Close(h)
  BY <1>2, SesjaClose
<1>3. ASSUME UNCHANGED <<klient, drugi, lacza>>, Cong \/ WriteEvt
      PROVE  SesjaOK'
  BY <1>3 DEF Cong, WriteEvt, SesjaOK, PortWraca, Otwarte
<1>4. ASSUME UNCHANGED sesjaVars
      PROVE  SesjaOK'
  BY <1>4 DEF sesjaVars, SesjaOK, PortWraca, Otwarte
<1>5. Zadanie => UNCHANGED sesjaVars
  BY DEF Zadanie, Odbierz, Rozdziel, Kopiuj, Dolicz, Zapisz, Sprawdz, Nadaj, NieNadaj,
         Zatkane, Potwierdzone, BezPotwierdzenia, Dalej
<1>6. Petla => UNCHANGED sesjaVars
  BY DEF Petla, Przebieg, Czytaj, BezLinii, Wykonaj, Odpowiadaj, PoOdpowiedzi, Koniec,
         sppVars, read, write, BezKlienta, Wstaw, Odrzuc
<1>7. ASSUME NEW h \in Uchwyty, Wyslij(h) \/ Dane(h)
      PROVE  UNCHANGED sesjaVars
  BY <1>7 DEF Wyslij, Dane, DataInd, sppVars
<1>8. Cong \/ WriteEvt => UNCHANGED <<klient, drugi, lacza>>
  BY DEF Cong, WriteEvt
<1>9. UNCHANGED vars => UNCHANGED sesjaVars
  BY DEF vars, sppVars
<1>10. QED
  BY <1>1, <1>2, <1>3, <1>4, <1>5, <1>6, <1>7, <1>8, <1>9
     DEF Next, ZdarzenieStosu, Rozlacz

-----------------------------------------------------------------------------
(* ZapisOK: the acknowledgements. *)

\* Every step keeps the count of writes and acknowledgements.
LEMMA ZapisKrok ==
    ASSUME ZapisOK, ZadanieOK, [Next]_vars
    PROVE  ZapisOK'
<1> DEFINE potwVars == <<txDone, wToku, przekroczenia, tx>>
<1> USE DEF ZapisOK, JedenZapis
<1>1. ASSUME NEW h \in Uchwyty, Close(h)
      PROVE  ZapisOK'
  <2>1. (wToku' = wToku \/ wToku' = 0) /\ UNCHANGED <<txDone, przekroczenia, tx>>
    BY <1>1 DEF Close, txVars, histVars
  <2>2. CASE wToku' = wToku
    BY <2>1, <2>2
  <2>3. CASE wToku' = 0
    <3>1. txDone <= przekroczenia + (IF tx = "ack" THEN 1 ELSE 0)
      OBVIOUS
    <3>2. QED
      BY <2>1, <2>3, <3>1
  <2>4. QED
    BY <2>1, <2>2, <2>3
<1>2. CASE WriteEvt
  BY <1>2 DEF WriteEvt, txVars, histVars
<1>3. CASE Nadaj
  BY <1>3 DEF Nadaj
<1>4. wyslij.powrot # "ack"
  BY DEF ZadanieOK, Zlecenia
<1>5. CASE NieNadaj \/ Zatkane
  BY <1>4, <1>5 DEF NieNadaj, Zatkane, Wroc
<1>6. CASE Potwierdzone
  BY <1>4, <1>6 DEF Potwierdzone, Wroc
<1>7. CASE BezPotwierdzenia
  BY <1>4, <1>7 DEF BezPotwierdzenia, Wroc
<1>8. CASE Odbierz \/ Rozdziel \/ Kopiuj \/ Dolicz \/ Zapisz \/ Sprawdz \/ Dalej
  BY <1>8 DEF Odbierz, Rozdziel, Kopiuj, Dolicz, Zapisz, Sprawdz, Dalej, histVars
<1>9. ASSUME UNCHANGED potwVars
      PROVE  ZapisOK'
  BY <1>9
<1>10. Petla => UNCHANGED potwVars
  BY DEF Petla, Przebieg, Czytaj, BezLinii, Wykonaj, Odpowiadaj, PoOdpowiedzi, Koniec,
         sppVars, txVars, histVars, read, write, BezKlienta, Wstaw, Odrzuc
<1>11. ASSUME NEW h \in Uchwyty, Wyslij(h) \/ Dane(h) \/ SrvOpen(h)
       PROVE  UNCHANGED potwVars
  BY <1>11 DEF Wyslij, Dane, DataInd, SrvOpen, sppVars, txVars, histVars
<1>12. Cong \/ UNCHANGED vars => UNCHANGED potwVars
  BY DEF Cong, vars, sppVars, txVars, histVars
<1> HIDE DEF potwVars, ZapisOK, JedenZapis
<1>13. QED
  BY <1>1, <1>2, <1>3, <1>5, <1>6, <1>7, <1>8, <1>9, <1>10, <1>11, <1>12
     DEF Next, ZdarzenieStosu, Rozlacz, Zadanie

-----------------------------------------------------------------------------
(* ZadanieOK: the task spp_tx. *)

\* The length of a sequence of numbers, when only its type is known.
LEMMA DlugoscLiczba ==
    ASSUME NEW s \in Seq(Nat)
    PROVE  Len(s) \in Nat /\ (s # <<>> => Len(s) > 0)
BY EmptySeq

\* The task takes a packet.
LEMMA ZadanieOdbierz ==
    ASSUME ZadanieOK, KolejkiOK, Odbierz
    PROVE  ZadanieOK'
<1> DEFINE pakiet == Head(txKolejka)
<1>1. pakiet \in Seq(Nat)
  BY HeadTailProperties DEF KolejkiOK, Odbierz
<1>2. Len(pakiet) \in Nat /\ dlugosc \in 0 .. TxMax /\ 0 \in 0 .. TxMax
  BY <1>1, DlugoscLiczba, Rozmiary DEF ZadanieOK
<1>3. UNCHANGED <<bufor, dlugosc, stracone, zderzenie>>
  BY DEF Odbierz, histVars
<1>4. CASE Len(pakiet) <= TxMax - dlugosc
  <2>1. /\ wyslij' = [kopia |-> pakiet, reszta |-> <<>>, suma |-> 0, powrot |-> "odbior"]
        /\ tx' = "kopiuj"
    BY <1>4 DEF Odbierz
  <2> HIDE DEF pakiet
  <2>2. wyslij' \in Zlecenia /\ wyslij'.kopia = pakiet
    BY <1>1, <1>2, <2>1, EmptySeq DEF Zlecenia
  <2>3. dlugosc + Len(pakiet) <= TxMax
    BY <1>2, <1>4, Rozmiary
  <2>4. QED
    BY <1>3, <2>1, <2>2, <2>3 DEF ZadanieOK
<1>5. CASE ~(Len(pakiet) <= TxMax - dlugosc)
  <2>1. /\ wyslij' = [kopia |-> <<>>, reszta |-> pakiet, suma |-> 0, powrot |-> "dalej"]
        /\ tx' = "podziel"
    BY <1>5 DEF Odbierz
  <2> HIDE DEF pakiet
  <2>2. wyslij' \in Zlecenia /\ wyslij'.powrot = "dalej"
    BY <1>1, <1>2, <2>1, EmptySeq DEF Zlecenia
  <2>3. QED
    BY <1>3, <2>1, <2>2 DEF ZadanieOK
<1>6. QED
  BY <1>4, <1>5

\* The task takes a part of the packet, as long as the room it reads now.
LEMMA ZadanieRozdziel ==
    ASSUME ZadanieOK, Rozdziel
    PROVE  ZadanieOK'
<1> DEFINE n == TxMax - dlugosc
           czesci == Podziel(wyslij.reszta, n)
<1>1. /\ wyslij' = [wyslij EXCEPT !.kopia = czesci[1], !.reszta = czesci[2]]
      /\ tx' = "kopiuj" /\ UNCHANGED <<bufor, dlugosc, stracone, zderzenie>>
  BY DEF Rozdziel, histVars
<1>2. n \in Nat /\ dlugosc + n <= TxMax
  BY Rozmiary DEF ZadanieOK
<1> HIDE DEF n
<1>3. czesci[1] \in Seq(Nat) /\ Len(czesci[1]) = n /\ czesci[2] \in Seq(Nat)
  BY <1>2, PodzialTyp DEF ZadanieOK, Zlecenia
<1> HIDE DEF czesci
<1>4. wyslij' \in Zlecenia /\ wyslij'.kopia = czesci[1]
  BY <1>1, <1>3 DEF ZadanieOK, Zlecenia
<1>5. QED
  BY <1>1, <1>2, <1>3, <1>4 DEF ZadanieOK

\* The task copies into the buffer.
LEMMA ZadanieKopiuj ==
    ASSUME ZadanieOK, Kopiuj
    PROVE  ZadanieOK'
<1>1. bufor' \in [0 .. TxMax - 1 -> Nat]
  BY WklejoneTyp DEF Kopiuj, ZadanieOK, Zlecenia
<1>2. tx = "kopiuj" /\ tx' = "dolicz" /\ UNCHANGED <<dlugosc, wyslij, stracone, zderzenie>>
  BY DEF Kopiuj, histVars
<1>3. QED
  BY <1>1, <1>2 DEF ZadanieOK

\* The task works out the new length.
LEMMA ZadanieDolicz ==
    ASSUME ZadanieOK, Dolicz
    PROVE  ZadanieOK'
<1> DEFINE s == IF wyslij.powrot = "dalej" THEN TxMax ELSE dlugosc + Len(wyslij.kopia)
<1>1. tx = "dolicz" /\ tx' = "zapisz" /\ UNCHANGED <<bufor, dlugosc, stracone, zderzenie>>
  BY DEF Dolicz, histVars
<1>2. wyslij' = [wyslij EXCEPT !.suma = s]
  BY DEF Dolicz
<1>3. s \in 0 .. TxMax
  <2>1. Len(wyslij.kopia) \in Nat /\ dlugosc \in 0 .. TxMax
    BY DlugoscLiczba DEF ZadanieOK, Zlecenia
  <2>2. wyslij.powrot # "dalej" => dlugosc + Len(wyslij.kopia) <= TxMax
    BY <1>1 DEF ZadanieOK, Zlecenia
  <2>3. QED
    BY <2>1, <2>2, Rozmiary
<1> HIDE DEF s
<1>4. wyslij' \in Zlecenia
  BY <1>2, <1>3 DEF ZadanieOK, Zlecenia
<1>5. QED
  BY <1>1, <1>4 DEF ZadanieOK

\* The task stores it, and looks whether to send.
LEMMA ZadanieZapisz ==
    ASSUME ZadanieOK, Zapisz \/ Sprawdz
    PROVE  ZadanieOK'
<1>1. CASE Zapisz
  BY <1>1 DEF ZadanieOK, Zapisz, Zlecenia, histVars
<1>2. CASE Sprawdz
  <2>1. tx' \in {"wolne", "odbior"} /\ UNCHANGED <<bufor, dlugosc, wyslij, stracone, zderzenie>>
    BY <1>2 DEF Sprawdz, histVars
  <2>2. QED
    BY <2>1 DEF ZadanieOK
<1>3. QED
  BY <1>1, <1>2

\* The return of _spp_send_buffer(), which the buffer must have left empty if the
\* rest of a packet is to follow.
LEMMA WrocZachowuje ==
    ASSUME ZadanieOK, NEW udane \in BOOLEAN, Wroc(udane), udane => dlugosc = 0,
           UNCHANGED <<bufor, dlugosc, zderzenie>>
    PROVE  ZadanieOK'
<1>1. wyslij' = [wyslij EXCEPT !.reszta = IF udane THEN wyslij.reszta ELSE <<>>]
  BY DEF Wroc
<1> DEFINE r == IF udane THEN wyslij.reszta ELSE <<>>
<1>2. wyslij \in Zlecenia /\ r \in Seq(Nat) /\ (~udane => r = <<>>)
  BY DEF ZadanieOK, Zlecenia
<1> HIDE DEF r
<1>3. wyslij' \in Zlecenia /\ (~udane => wyslij'.reszta = <<>>)
  <2>1. wyslij' = [wyslij EXCEPT !.reszta = r]
    BY <1>1 DEF r
  <2>2. QED
    BY <1>2, <2>1 DEF Zlecenia
<1>4. tx' \in {"odbior", "dalej"} /\ stracone' \in BOOLEAN
  BY DEF Wroc, ZadanieOK, Zlecenia
<1>5. QED
  BY <1>3, <1>4 DEF ZadanieOK

\* The task goes on after a send, done or failed.
LEMMA ZadanieDalej ==
    ASSUME ZadanieOK, Dalej
    PROVE  ZadanieOK'
<1>1. tx = "dalej" /\ UNCHANGED <<dlugosc, stracone, zderzenie>>
  BY DEF Dalej, histVars
<1>2. CASE wyslij.reszta = <<>>
  BY <1>1, <1>2 DEF Dalej, ZadanieOK
<1>3. CASE wyslij.reszta # <<>>
  <2> DEFINE pelny == Len(wyslij.reszta) >= TxMax
             n == IF pelny THEN TxMax ELSE Len(wyslij.reszta)
             czesci == Dziel(wyslij.reszta, n)
             powrot == IF pelny THEN "dalej" ELSE "odbior"
  <2>1. wyslij.reszta \in Seq(Nat) /\ Len(wyslij.reszta) \in Nat
    BY DlugoscLiczba DEF ZadanieOK, Zlecenia
  <2>2. n \in 0 .. Len(wyslij.reszta) /\ n <= TxMax
    BY <2>1, Rozmiary
  <2>p. Podziel(wyslij.reszta, n) = czesci
    BY <2>1, <2>2, PodzialWGranicach
  <2>3. /\ bufor' = Wklejone(czesci[1], 0)
        /\ wyslij' = [wyslij EXCEPT !.kopia = czesci[1], !.reszta = czesci[2],
                                    !.powrot = powrot]
        /\ tx' = "dolicz"
    BY <1>3, <2>p DEF Dalej
  <2> HIDE DEF n
  <2>4. czesci[1] \in Seq(Nat) /\ Len(czesci[1]) = n /\ czesci[2] \in Seq(Nat)
    BY <2>1, <2>2, Podzial
  <2>5. powrot \in {"odbior", "dalej"}
    OBVIOUS
  <2> HIDE DEF czesci, powrot, pelny
  <2>6. wyslij' \in Zlecenia /\ wyslij'.kopia = czesci[1]
    BY <2>3, <2>4, <2>5 DEF ZadanieOK, Zlecenia
  <2>7. bufor' \in [0 .. TxMax - 1 -> Nat]
    BY <2>3, <2>4, WklejoneTyp DEF ZadanieOK
  <2>8. dlugosc = 0
    BY <1>1, <1>3 DEF ZadanieOK
  <2>9. QED
    BY <1>1, <2>2, <2>3, <2>4, <2>6, <2>7, <2>8 DEF ZadanieOK
<1>4. QED
  BY <1>2, <1>3

\* Every step keeps the types of the task, and no copy writes behind the buffer.
LEMMA ZadanieKrok ==
    ASSUME ZadanieOK, KolejkiOK, [Next]_vars
    PROVE  ZadanieOK'
<1> DEFINE zadVars == <<bufor, dlugosc, tx, wyslij, stracone, zderzenie>>
<1>1. CASE Odbierz
  BY <1>1, ZadanieOdbierz
<1>2. CASE Kopiuj
  BY <1>2, ZadanieKopiuj
<1>3. CASE Dolicz
  BY <1>3, ZadanieDolicz
<1>4. CASE Zapisz \/ Sprawdz
  BY <1>4, ZadanieZapisz
<1>r. CASE Rozdziel
  BY <1>r, ZadanieRozdziel
<1>5. CASE Nadaj
  BY <1>5, Rozmiary DEF Nadaj, ZadanieOK, Zlecenia
<1>6. CASE NieNadaj \/ Zatkane \/ BezPotwierdzenia
  <2>1. Wroc(FALSE) /\ UNCHANGED <<bufor, dlugosc, zderzenie>>
    BY <1>6 DEF NieNadaj, Zatkane, BezPotwierdzenia
  <2>2. QED
    BY <2>1, WrocZachowuje
<1>7. CASE Potwierdzone
  <2>1. Wroc(TRUE) /\ dlugosc = 0 /\ UNCHANGED <<bufor, dlugosc, zderzenie>>
    BY <1>7 DEF Potwierdzone, ZadanieOK
  <2>2. QED
    BY <2>1, WrocZachowuje
<1>8. CASE Dalej
  BY <1>8, ZadanieDalej
<1>9. ASSUME NEW h \in Uchwyty, SrvOpen(h)
      PROVE  ZadanieOK'
  <2>1. dlugosc' \in {0, dlugosc} /\ stracone' \in BOOLEAN /\ zderzenie' \in BOOLEAN
    BY <1>9 DEF SrvOpen, ZadanieOK
  <2>2. UNCHANGED <<bufor, tx, wyslij>>
    BY <1>9 DEF SrvOpen
  <2>3. CASE dlugosc' = dlugosc
    BY <2>1, <2>2, <2>3 DEF ZadanieOK
  <2>4. CASE dlugosc' = 0
    <3>1. Len(wyslij.kopia) \in Nat /\ dlugosc \in 0 .. TxMax /\ 0 \in 0 .. TxMax
      BY DlugoscLiczba, Rozmiary DEF ZadanieOK, Zlecenia
    <3>2. dlugosc + Len(wyslij.kopia) <= TxMax => 0 + Len(wyslij.kopia) <= TxMax
      BY <3>1, Rozmiary
    <3>3. QED
      BY <2>1, <2>2, <2>4, <3>1, <3>2 DEF ZadanieOK
  <2>5. QED
    BY <2>1, <2>3, <2>4
<1>10. ASSUME UNCHANGED zadVars
       PROVE  ZadanieOK'
  BY <1>10 DEF ZadanieOK
<1>11. Petla => UNCHANGED zadVars
  BY DEF Petla, Przebieg, Czytaj, BezLinii, Wykonaj, Odpowiadaj, PoOdpowiedzi, Koniec,
         sppVars, txVars, histVars, read, write, BezKlienta, Wstaw, Odrzuc
<1>12. ASSUME NEW h \in Uchwyty, Wyslij(h) \/ Dane(h) \/ Close(h)
       PROVE  UNCHANGED zadVars
  BY <1>12 DEF Wyslij, Dane, DataInd, Close, sppVars, txVars, histVars
<1>13. Cong \/ WriteEvt \/ UNCHANGED vars => UNCHANGED zadVars
  BY DEF Cong, WriteEvt, vars, sppVars, txVars, histVars
<1> HIDE DEF zadVars
<1>14. QED
  BY <1>1, <1>2, <1>3, <1>4, <1>5, <1>6, <1>7, <1>8, <1>9, <1>10, <1>11, <1>12, <1>13, <1>r
     DEF Next, ZdarzenieStosu, Rozlacz, Zadanie

-----------------------------------------------------------------------------
(* KolejkiOK: the queues. *)

\* println() puts a packet in the queue.
LEMMA KolejkiWstaw ==
    ASSUME KolejkiOK, NEW n \in Nat, Wstaw(n)
    PROVE  /\ txKolejka' \in Seq(Seq(Nat)) /\ Len(txKolejka') <= TxRozmiar
           /\ nadane' \in Nat
<1> DEFINE pakiet == [i \in 1 .. n |-> nadane + i]
<1>1. nadane \in Nat /\ txKolejka \in Seq(Seq(Nat)) /\ Len(txKolejka) \in Nat
  BY EmptySeq DEF KolejkiOK
<1>2. pakiet \in Seq(Nat)
  BY <1>1
<1>3. txKolejka' = Append(txKolejka, pakiet) /\ nadane' = nadane + n
  BY DEF Wstaw
<1> HIDE DEF pakiet
<1>4. txKolejka' \in Seq(Seq(Nat)) /\ Len(txKolejka') = Len(txKolejka) + 1
  BY <1>1, <1>2, <1>3, AppendProperties
<1>5. QED
  BY <1>1, <1>3, <1>4, Rozmiary DEF Wstaw

\* What an application sends is made of the characters of commands and of EndMarker.
LEMMA TekstBajty ==
    ASSUME NEW m \in Komunikaty
    PROVE  Tekst(m) \in Seq(Bajty)
<1>1. Znaki[m] \in Seq(STRING)
  BY OdbiornikAssumption
<1>2. Len(Znaki[m]) \in Nat /\ DOMAIN Znaki[m] = 1 .. Len(Znaki[m])
  BY <1>1, LenProperties
<1>3. \A i \in 1 .. Len(Znaki[m]) : Znaki[m][i] \in Bajty
  BY <1>2 DEF Bajty, Znak
<1>4. Znaki[m] \in Seq(Bajty)
  <2>1. SubSeq(Znaki[m], 1, Len(Znaki[m])) \in Seq(Bajty)
    BY <1>2, <1>3, SubSeqProperties
  <2>2. Znaki[m] = SubSeq(Znaki[m], 1, Len(Znaki[m]))
    BY <1>1, SubSeqFull
  <2>3. QED
    BY <2>1, <2>2
<1>5. EndMarker \in Bajty
  BY DEF Bajty
<1>6. QED
  BY <1>4, <1>5, AppendProperties DEF Tekst

\* What a step does to the two receiving ends of the port.
TxKolejkaOK == txKolejka \in Seq(Seq(Nat)) /\ Len(txKolejka) <= TxRozmiar /\ nadane \in Nat
RxKolejkaOK == rxKolejka \in Seq(Bajty) /\ Len(rxKolejka) <= RxRozmiar
ApkaOK == wLocie \in [Uchwyty -> Seq(Bajty)]

\* The task takes a packet out of the queue.
LEMMA KolejkiOdbierz ==
    ASSUME KolejkiOK, Odbierz
    PROVE  TxKolejkaOK'
<1>1. txKolejka \in Seq(Seq(Nat)) /\ txKolejka # <<>> /\ txKolejka' = Tail(txKolejka)
  BY DEF KolejkiOK, Odbierz
<1>2. txKolejka' \in Seq(Seq(Nat)) /\ Len(txKolejka') = Len(txKolejka) - 1
  BY <1>1, HeadTailProperties
<1>3. Len(txKolejka) \in Nat /\ Len(txKolejka) <= TxRozmiar /\ nadane' \in Nat
  BY EmptySeq DEF KolejkiOK, Odbierz, histVars
<1>4. QED
  BY <1>2, <1>3, Rozmiary DEF TxKolejkaOK

\* read() takes a byte out of the queue.
LEMMA KolejkiCzytaj ==
    ASSUME KolejkiOK, read
    PROVE  RxKolejkaOK' /\ Head(rxKolejka) \in Bajty
<1>1. rxKolejka \in Seq(Bajty) /\ rxKolejka # <<>> /\ rxKolejka' = Tail(rxKolejka)
  BY DEF KolejkiOK, read
<1>2. /\ rxKolejka' \in Seq(Bajty) /\ Len(rxKolejka') = Len(rxKolejka) - 1
      /\ Head(rxKolejka) \in Bajty
  BY <1>1, HeadTailProperties
<1>3. Len(rxKolejka) \in Nat /\ Len(rxKolejka) <= RxRozmiar
  BY EmptySeq DEF KolejkiOK
<1>4. QED
  BY <1>2, <1>3, Rozmiary DEF RxKolejkaOK

\* The stack delivers bytes.
LEMMA KolejkiDane ==
    ASSUME KolejkiOK, NEW h \in Uchwyty, Dane(h)
    PROVE  RxKolejkaOK' /\ ApkaOK'
<1>1. wLocie[h] \in Seq(Bajty) /\ Len(wLocie[h]) \in Nat
  BY EmptySeq DEF KolejkiOK
<1>2. PICK n \in 1 .. Len(wLocie[h]) :
         /\ rxKolejka' = rxKolejka \o Zmiesci(Dziel(wLocie[h], n)[1])
         /\ wLocie' = [wLocie EXCEPT ![h] = Dziel(wLocie[h], n)[2]]
  BY DEF Dane, DataInd
<1>3. n \in 0 .. Len(wLocie[h])
  BY <1>1
<1>4. Dziel(wLocie[h], n)[1] \in Seq(Bajty) /\ Dziel(wLocie[h], n)[2] \in Seq(Bajty)
  BY <1>1, <1>3, Podzial
<1>5. RxKolejkaOK'
  BY <1>2, <1>4, ZmiesciSie DEF RxKolejkaOK
<1>6. ApkaOK'
  BY <1>2, <1>4 DEF ApkaOK, KolejkiOK
<1>7. QED
  BY <1>5, <1>6

\* Every step keeps the queues.
LEMMA KolejkiKrok ==
    ASSUME KolejkiOK, [Next]_vars
    PROVE  KolejkiOK'
<1> DEFINE txk == <<txKolejka, nadane>>
<1>1. /\ TxKolejkaOK /\ RxKolejkaOK /\ ApkaOK /\ zapisy \in Seq(Nat)
      /\ TxKolejkaOK' /\ RxKolejkaOK' /\ ApkaOK' /\ (zapisy \in Seq(Nat))' => KolejkiOK'
  BY DEF KolejkiOK, TxKolejkaOK, RxKolejkaOK, ApkaOK
<1>2. /\ UNCHANGED txk => TxKolejkaOK'
      /\ UNCHANGED rxKolejka => RxKolejkaOK'
      /\ UNCHANGED wLocie => ApkaOK'
      /\ UNCHANGED zapisy => (zapisy \in Seq(Nat))'
  BY <1>1 DEF TxKolejkaOK, RxKolejkaOK, ApkaOK
<1>3. ASSUME Petla
      PROVE  KolejkiOK'
  <2>1. CASE Przebieg \/ BezLinii \/ Koniec \/ PoOdpowiedzi
    BY <1>1, <1>2, <2>1 DEF Przebieg, BezLinii, Koniec, PoOdpowiedzi, sppVars, histVars,
       apkaVars
  <2>2. CASE Czytaj
    <3>1. RxKolejkaOK'
      BY <2>2, KolejkiCzytaj DEF Czytaj
    <3>2. UNCHANGED txk /\ UNCHANGED wLocie /\ UNCHANGED zapisy
      BY <2>2 DEF Czytaj, read, histVars, apkaVars
    <3>3. QED
      BY <1>1, <1>2, <3>1, <3>2
  <2>3. CASE Wykonaj
    <3>1. UNCHANGED txk /\ UNCHANGED wLocie /\ UNCHANGED rxKolejka
      BY <2>3 DEF Wykonaj, sppVars, histVars, apkaVars
    <3>2. zapisy' \in {Odpowiedz, <<>>, zapisy}
      BY <2>3 DEF Wykonaj
    <3>3. (zapisy \in Seq(Nat))'
      BY <1>1, <3>2, Rozmiary, EmptySeq
    <3>4. QED
      BY <1>1, <1>2, <3>1, <3>3
  <2>4. CASE Odpowiadaj
    <3>1. Head(zapisy) \in Nat /\ (zapisy \in Seq(Nat))'
      BY <1>1, <2>4, HeadTailProperties DEF Odpowiadaj
    <3>2. UNCHANGED wLocie
      BY <2>4 DEF Odpowiadaj, apkaVars
    <3>3. UNCHANGED rxKolejka
      BY <2>4 DEF Odpowiadaj, write, BezKlienta, Wstaw, Odrzuc, sppVars
    <3>4. CASE Wstaw(Head(zapisy))
      BY <1>1, <1>2, <3>1, <3>2, <3>3, <3>4, KolejkiWstaw DEF TxKolejkaOK
    <3>5. CASE BezKlienta \/ Odrzuc
      BY <1>1, <1>2, <3>1, <3>2, <3>3, <3>5 DEF BezKlienta, Odrzuc, sppVars, histVars
    <3>6. QED
      BY <2>4, <3>4, <3>5 DEF Odpowiadaj, write
  <2>5. QED
    BY <1>3, <2>1, <2>2, <2>3, <2>4 DEF Petla
<1>4. ASSUME ZdarzenieStosu
      PROVE  KolejkiOK'
  <2>1. UNCHANGED wLocie /\ UNCHANGED zapisy
    BY <1>4 DEF ZdarzenieStosu, petlaVars, apkaVars
  <2>2. CASE Odbierz
    <3>1. UNCHANGED rxKolejka
      BY <2>2 DEF Odbierz
    <3>2. QED
      BY <1>1, <1>2, <2>1, <2>2, <3>1, KolejkiOdbierz
  <2>3. UNCHANGED txk /\ UNCHANGED rxKolejka => KolejkiOK'
    BY <1>1, <1>2, <2>1
  <2>4. Zadanie /\ ~Odbierz => UNCHANGED txk /\ UNCHANGED rxKolejka
    BY DEF Zadanie, Rozdziel, Kopiuj, Dolicz, Zapisz, Sprawdz, Nadaj, NieNadaj, Zatkane,
       Potwierdzone, BezPotwierdzenia, Dalej, histVars
  <2>5. ASSUME NEW h \in Uchwyty, SrvOpen(h)
        PROVE  UNCHANGED txk /\ UNCHANGED rxKolejka
    BY <2>5 DEF SrvOpen
  <2>6. Cong \/ WriteEvt => UNCHANGED txk /\ UNCHANGED rxKolejka
    BY DEF Cong, WriteEvt, histVars
  <2>7. QED
    BY <1>4, <2>2, <2>3, <2>4, <2>5, <2>6 DEF ZdarzenieStosu
<1>5. ASSUME NEW h \in Uchwyty, Wyslij(h)
      PROVE  KolejkiOK'
  <2>1. UNCHANGED txk /\ UNCHANGED rxKolejka /\ UNCHANGED zapisy
    BY <1>5 DEF Wyslij, sppVars, histVars, petlaVars
  <2>2. PICK m \in Komunikaty : wLocie' = [wLocie EXCEPT ![h] = Tekst(m)]
    BY <1>5 DEF Wyslij
  <2>3. ApkaOK'
    BY <1>1, <2>2, TekstBajty DEF ApkaOK
  <2>4. QED
    BY <1>1, <1>2, <2>1, <2>3
<1>6. ASSUME NEW h \in Uchwyty, Dane(h)
      PROVE  KolejkiOK'
  <2>1. UNCHANGED txk /\ UNCHANGED zapisy
    BY <1>6 DEF Dane, DataInd, histVars, petlaVars
  <2>2. QED
    BY <1>1, <1>2, <1>6, <2>1, KolejkiDane
<1>7. ASSUME NEW h \in Uchwyty, Rozlacz(h)
      PROVE  KolejkiOK'
  <2>1. UNCHANGED txk /\ UNCHANGED rxKolejka /\ UNCHANGED zapisy
    BY <1>7 DEF Rozlacz, Close, histVars, petlaVars
  <2>2. wLocie' = [wLocie EXCEPT ![h] = <<>>]
    BY <1>7 DEF Rozlacz
  <2>3. ApkaOK'
    BY <1>1, <2>2, EmptySeq DEF ApkaOK
  <2>4. QED
    BY <1>1, <1>2, <2>1, <2>3
<1>8. CASE UNCHANGED vars
  BY <1>1, <1>2, <1>8 DEF vars, sppVars, histVars, petlaVars, apkaVars
<1>9. QED
  BY <1>3, <1>4, <1>5, <1>6, <1>7, <1>8 DEF Next

-----------------------------------------------------------------------------
(* PetlaOK: loop(). *)

\* The loop reads one byte.
LEMMA PetlaCzytaj ==
    ASSUME PetlaOK, KolejkiOK, Czytaj
    PROVE  PetlaOK'
<1>1. UNCHANGED <<petla, audio, wyslane, usterka>>
  BY DEF Czytaj, apkaVars
<1>2. CASE Head(rxKolejka) = EndMarker
  <2>1. /\ receivedChars' = [receivedChars EXCEPT ![ndx] = NUL]
        /\ ndx' = 0 /\ newData' = TRUE
    BY <1>2 DEF Czytaj, Linia
  <2>2. QED
    BY <1>1, <2>1, Rozmiary DEF PetlaOK
<1>3. CASE Head(rxKolejka) # EndMarker
  <2>1. Head(rxKolejka) \in Znak
    BY <1>3, KolejkiCzytaj DEF Czytaj, Bajty
  <2>2. /\ receivedChars' = [receivedChars EXCEPT ![ndx] = Head(rxKolejka)]
        /\ ndx' = Nastepny(ndx) /\ newData' = newData
    BY <1>3 DEF Czytaj
  <2>3. ndx' \in 0 .. NumChars - 1
    BY <2>2, Rozmiary DEF PetlaOK, Nastepny
  <2>4. QED
    BY <1>1, <2>1, <2>2, <2>3 DEF PetlaOK
<1>4. QED
  BY <1>2, <1>3

\* The loop carries out a line.
LEMMA PetlaWykonaj ==
    ASSUME PetlaOK, Wykonaj
    PROVE  PetlaOK'
<1>1. UNCHANGED <<newData, receivedChars, ndx, wyslane, usterka>>
  BY DEF Wykonaj, apkaVars
<1>2. petla' \in {"odpowiedz", "koniec"}
  BY DEF Wykonaj
<1>3. audio' \in Zgody
  <2>1. audio' = audio \/ stanNiePolaczony
    BY DEF Wykonaj
  <2>2. CASE audio' = audio
    BY <2>2 DEF PetlaOK
  <2>3. CASE stanNiePolaczony
    BY <2>3 DEF stanNiePolaczony, Zgody
  <2>4. QED
    BY <2>1, <2>2, <2>3
<1>4. QED
  BY <1>1, <1>2, <1>3 DEF PetlaOK

\* Every step keeps the types of the receiver.
LEMMA PetlaKrok ==
    ASSUME PetlaOK, KolejkiOK, [Next]_vars
    PROVE  PetlaOK'
<1>1. CASE Czytaj
  BY <1>1, PetlaCzytaj
<1>2. CASE Wykonaj
  BY <1>2, PetlaWykonaj
<1>3. CASE Przebieg \/ BezLinii \/ Koniec
  BY <1>3 DEF PetlaOK, Przebieg, BezLinii, Koniec, apkaVars, kronikaVars
<1>4. CASE PoOdpowiedzi
  BY <1>4 DEF PetlaOK, Zgody, PoOdpowiedzi, stanPolaczony, apkaVars, kronikaVars
<1>5. CASE Odpowiadaj
  BY <1>5 DEF PetlaOK, Odpowiadaj, apkaVars, kronikaVars
<1>6. CASE ZdarzenieStosu
  BY <1>6 DEF PetlaOK, ZdarzenieStosu, petlaVars, apkaVars, kronikaVars
<1>7. ASSUME NEW h \in Uchwyty, Wyslij(h)
      PROVE  PetlaOK'
  <2>1. UNCHANGED petlaVars
    BY <1>7 DEF Wyslij
  <2>2. wyslane' \subseteq Komunikaty /\ usterka' \in BOOLEAN
    <3>1. PICK m \in Komunikaty \ wyslane :
             /\ wyslane' = wyslane \cup {m}
             /\ Kronika(Append(doWykonania, m),
                        \/ Len(Znaki[m]) >= NumChars
                        \/ \E g \in Uchwyty \ {h} : wLocie[g] # <<>>)
      BY <1>7 DEF Wyslij
    <3>2. QED
      BY <3>1 DEF PetlaOK, Kronika
  <2>3. QED
    BY <2>1, <2>2 DEF PetlaOK, petlaVars
<1>8. ASSUME NEW h \in Uchwyty, Dane(h) \/ Rozlacz(h)
      PROVE  PetlaOK'
  <2>1. UNCHANGED petlaVars /\ UNCHANGED wyslane
    BY <1>8 DEF Dane, Rozlacz
  <2>2. usterka' \in BOOLEAN
    BY <1>8 DEF Dane, Rozlacz, Kronika, PetlaOK
  <2>3. QED
    BY <2>1, <2>2 DEF PetlaOK, petlaVars
<1>9. CASE UNCHANGED vars
  BY <1>9 DEF PetlaOK, vars, petlaVars, apkaVars, kronikaVars
<1>10. QED
  BY <1>1, <1>2, <1>3, <1>4, <1>5, <1>6, <1>7, <1>8, <1>9 DEF Next, Petla

-----------------------------------------------------------------------------
(* The invariant. *)

\* The invariant holds after setup().
LEMMA Poczatkowo == OdbiornikInit => IInv
<1> SUFFICES ASSUME OdbiornikInit
             PROVE  IInv
  OBVIOUS
<1> USE DEF OdbiornikInit, Init
<1>1. SesjaOK
  BY DEF SesjaOK, PortWraca, Otwarte
<1>2. ZadanieOK
  <2>1. bufor \in [0 .. TxMax - 1 -> Nat]
    OBVIOUS
  <2>2. wyslij \in Zlecenia
    <3>1. <<>> \in Seq(Nat) /\ 0 \in 0 .. TxMax
      BY Rozmiary, EmptySeq
    <3>2. QED
      BY <3>1 DEF Zlecenia
  <2>3. dlugosc \in 0 .. TxMax /\ tx = "odbior" /\ ~stracone /\ ~zderzenie
    BY Rozmiary
  <2>4. stracone \in BOOLEAN /\ zderzenie \in BOOLEAN
    OBVIOUS
  <2>5. QED
    BY <2>1, <2>2, <2>3, <2>4 DEF ZadanieOK
<1>3. ZapisOK
  BY DEF ZapisOK, JedenZapis
<1>4. KolejkiOK
  <2>1. /\ <<>> \in Seq(Seq(Nat)) /\ <<>> \in Seq(Bajty) /\ <<>> \in Seq(Nat)
        /\ Len(<<>>) = 0
    BY EmptySeq
  <2>2. QED
    BY <2>1, Rozmiary DEF KolejkiOK
<1>5. PetlaOK
  <2>1. receivedChars \in [0 .. NumChars - 1 -> Znak \cup {NUL}] /\ ndx \in 0 .. NumChars - 1
    BY Rozmiary
  <2>2. audio \in Zgody
    BY DEF Zgody
  <2>3. QED
    BY <2>1, <2>2 DEF PetlaOK
<1>6. QED
  BY <1>1, <1>2, <1>3, <1>4, <1>5 DEF IInv

\* Whatever the stack, the radio, the application, the task and the loop do and in
\* whatever order, the invariant holds.
THEOREM Niezmiennik == Spec => []IInv
<1>1. IInv /\ [Next]_vars => IInv'
  BY SesjaKrok, ZadanieKrok, ZapisKrok, KolejkiKrok, PetlaKrok DEF IInv
<1>2. QED
  BY Poczatkowo, <1>1, PTL DEF Spec

\* The port and the loop keep their types: the length stays within _spp_tx_buffer, no
\* queue grows past its size and ndx stays in receivedChars.
THEOREM Typowanie == Spec => []TypeOK
<1>1. IInv => TypeOK
  BY DEF IInv, SesjaOK, ZadanieOK, Zlecenia, ZapisOK, KolejkiOK, PetlaOK, Zgody,
     TypeOK, SppTypeOK
<1>2. QED
  BY Niezmiennik, <1>1, PTL

\* With any number of links, a client always has a link still to be closed and a
\* second attempt one more, so the port is free when all of them are closed
\* (secondConnectionAttempt, ESP_SPP_SRV_OPEN_EVT and ESP_SPP_CLOSE_EVT).
THEOREM WolnyPort == Spec => []PortWraca
<1>1. IInv => PortWraca
  BY DEF IInv, SesjaOK
<1>2. QED
  BY Niezmiennik, <1>1, PTL

\* Writes under way and acknowledgements not yet taken never outnumber the ones given
\* up by more than the one spp_tx is waiting for (_spp_send_buffer).
THEOREM BezSpietrzenia == Spec => []JedenZapis
<1>1. IInv => JedenZapis
  BY DEF IInv, ZapisOK
<1>2. QED
  BY Niezmiennik, <1>1, PTL

-----------------------------------------------------------------------------
(* What the task reads of a packet. *)

Pakiety == Seq(Nat \ {0})

\* The bytes in hand are those of a packet, and the room for them is less than the
\* packet, as long as no session began between the two readings of the length.
BajtyOK ==
    /\ txKolejka \in Seq(Pakiety)
    /\ ~zderzenie =>
          /\ wyslij.kopia \in Pakiety /\ wyslij.reszta \in Pakiety
          /\ tx = "podziel" => TxMax - dlugosc <= Len(wyslij.reszta)

\* A packet is queued: its bytes have numbers from 1 on.
LEMMA BajtyWstaw ==
    ASSUME BajtyOK, KolejkiOK, NEW n \in Nat, Wstaw(n)
    PROVE  BajtyOK'
<1> DEFINE pakiet == [i \in 1 .. n |-> nadane + i]
<1>1. nadane \in Nat
  BY DEF KolejkiOK
<1>2. pakiet \in Pakiety
  BY <1>1 DEF Pakiety
<1>3. txKolejka' = Append(txKolejka, pakiet) /\ UNCHANGED <<dlugosc, tx, wyslij, zderzenie>>
  BY DEF Wstaw, txVars
<1> HIDE DEF pakiet
<1>4. txKolejka' \in Seq(Pakiety)
  BY <1>2, <1>3, AppendProperties DEF BajtyOK
<1>5. QED
  BY <1>3, <1>4 DEF BajtyOK

\* A packet is taken.
LEMMA BajtyOdbierz ==
    ASSUME BajtyOK, ZadanieOK, Odbierz
    PROVE  BajtyOK'
<1> DEFINE pakiet == Head(txKolejka)
<1>1. pakiet \in Pakiety /\ txKolejka' \in Seq(Pakiety)
  BY HeadTailProperties DEF BajtyOK, Odbierz
<1>2. Len(pakiet) \in Nat /\ dlugosc \in 0 .. TxMax /\ UNCHANGED <<dlugosc, zderzenie>>
  BY <1>1, LenProperties DEF Pakiety, ZadanieOK, Odbierz, histVars
<1>3. <<>> \in Pakiety
  BY EmptySeq DEF Pakiety
<1>4. CASE Len(pakiet) <= TxMax - dlugosc
  <2>1. /\ wyslij' = [kopia |-> pakiet, reszta |-> <<>>, suma |-> 0, powrot |-> "odbior"]
        /\ tx' = "kopiuj"
    BY <1>4 DEF Odbierz
  <2> HIDE DEF pakiet
  <2>2. QED
    BY <1>1, <1>3, <2>1 DEF BajtyOK
<1>5. CASE ~(Len(pakiet) <= TxMax - dlugosc)
  <2>1. /\ wyslij' = [kopia |-> <<>>, reszta |-> pakiet, suma |-> 0, powrot |-> "dalej"]
        /\ tx' = "podziel"
    BY <1>5 DEF Odbierz
  <2>2. TxMax - dlugosc <= Len(pakiet)
    BY <1>2, <1>5, Rozmiary
  <2> HIDE DEF pakiet
  <2>3. QED
    BY <1>1, <1>2, <1>3, <2>1, <2>2 DEF BajtyOK
<1>6. QED
  BY <1>4, <1>5

\* A part of it is taken, and a part of the rest.
LEMMA BajtyPodzial ==
    ASSUME BajtyOK, ZadanieOK, Rozdziel \/ Dalej
    PROVE  BajtyOK'
<1>1. UNCHANGED <<txKolejka, dlugosc, zderzenie>> /\ tx' \in {"kopiuj", "dolicz", "odbior"}
  BY DEF Rozdziel, Dalej, histVars
<1>2. ASSUME ~zderzenie
      PROVE  wyslij'.kopia \in Pakiety /\ wyslij'.reszta \in Pakiety
  <2> DEFINE s == wyslij.reszta
  <2>1. s \in Pakiety /\ Len(s) \in Nat
    BY <1>2, LenProperties DEF BajtyOK, Pakiety
  <2>2. ASSUME NEW n \in Nat, n <= Len(s)
        PROVE  Podziel(s, n)[1] \in Pakiety /\ Podziel(s, n)[2] \in Pakiety
    <3>1. n \in 0 .. Len(s)
      BY <2>1, <2>2
    <3>2. QED
      BY <2>1, <2>2, <3>1, Podzial, PodzialWGranicach DEF Pakiety
  <2> HIDE DEF s
  <2>3. CASE Rozdziel
    <3> DEFINE n == TxMax - dlugosc
    <3>1. n \in Nat /\ n <= Len(s)
      BY <1>2, <2>3, Rozmiary DEF ZadanieOK, BajtyOK, Rozdziel, s
    <3>2. wyslij' = [wyslij EXCEPT !.kopia = Podziel(s, n)[1], !.reszta = Podziel(s, n)[2]]
      BY <2>3 DEF Rozdziel, s
    <3> HIDE DEF n
    <3>3. QED
      BY <2>2, <3>1, <3>2 DEF ZadanieOK, Zlecenia
  <2>4. CASE Dalej /\ s # <<>>
    <3> DEFINE n == IF Len(s) >= TxMax THEN TxMax ELSE Len(s)
    <3>1. n \in Nat /\ n <= Len(s)
      BY <2>1, Rozmiary
    <3>2. PICK powrot \in {"odbior", "dalej"} :
             wyslij' = [wyslij EXCEPT !.kopia = Podziel(s, n)[1], !.reszta = Podziel(s, n)[2],
                                      !.powrot = powrot]
      BY <2>4 DEF Dalej, s
    <3> HIDE DEF n
    <3>3. QED
      BY <2>2, <3>1, <3>2 DEF ZadanieOK, Zlecenia
  <2>5. CASE Dalej /\ s = <<>>
    <3>1. UNCHANGED wyslij
      BY <2>5 DEF Dalej, s
    <3>2. QED
      BY <1>2, <3>1 DEF BajtyOK
  <2>6. QED
    BY <2>3, <2>4, <2>5
<1>3. QED
  BY <1>1, <1>2 DEF BajtyOK

\* A session begins: if the task was to measure the room again, the length it measured
\* it by is kept or the step is a collision.
LEMMA BajtySrvOpen ==
    ASSUME BajtyOK, NEW h \in Uchwyty, SrvOpen(h)
    PROVE  BajtyOK'
<1>1. UNCHANGED <<txKolejka, tx, wyslij>>
  BY DEF SrvOpen
<1>2. ~zderzenie' => ~zderzenie /\ (tx = "podziel" => dlugosc' = dlugosc)
  BY DEF SrvOpen
<1>3. QED
  BY <1>1, <1>2 DEF BajtyOK

\* Every step keeps them.
LEMMA BajtyKrok ==
    ASSUME BajtyOK, ZadanieOK, KolejkiOK, [Next]_vars
    PROVE  BajtyOK'
<1> DEFINE bajtyVars == <<txKolejka, dlugosc, tx, wyslij, zderzenie>>
<1>1. ASSUME UNCHANGED bajtyVars
      PROVE  BajtyOK'
  BY <1>1 DEF BajtyOK
<1>2. CASE Odpowiadaj
  <2>1. Head(zapisy) \in Nat
    BY <1>2, HeadTailProperties DEF Odpowiadaj, KolejkiOK
  <2>2. BezKlienta \/ Odrzuc => UNCHANGED bajtyVars
    BY DEF BezKlienta, Odrzuc, sppVars, txVars, histVars
  <2>3. QED
    BY <1>1, <1>2, <2>1, <2>2, BajtyWstaw DEF Odpowiadaj, write
<1>3. Przebieg \/ Czytaj \/ BezLinii \/ Wykonaj \/ PoOdpowiedzi \/ Koniec
         => UNCHANGED bajtyVars
  BY DEF Przebieg, Czytaj, BezLinii, Wykonaj, PoOdpowiedzi, Koniec, read, sppVars,
     txVars, histVars
<1>4. CASE Odbierz
  BY <1>4, BajtyOdbierz
<1>5. CASE Rozdziel \/ Dalej
  BY <1>5, BajtyPodzial
<1>6. CASE Kopiuj \/ Dolicz \/ Zapisz \/ Sprawdz \/ Nadaj
  <2>1. /\ UNCHANGED <<txKolejka, zderzenie>> /\ tx' # "podziel"
        /\ wyslij'.kopia = wyslij.kopia /\ wyslij'.reszta = wyslij.reszta
    BY <1>6 DEF Kopiuj, Dolicz, Zapisz, Sprawdz, Nadaj, histVars, ZadanieOK, Zlecenia
  <2>2. QED
    BY <2>1 DEF BajtyOK
<1>7. CASE NieNadaj \/ Zatkane \/ Potwierdzone \/ BezPotwierdzenia
  <2>1. /\ UNCHANGED <<txKolejka, zderzenie>> /\ tx' # "podziel"
        /\ wyslij'.kopia = wyslij.kopia
        /\ wyslij'.reszta \in {wyslij.reszta, <<>>}
    BY <1>7 DEF NieNadaj, Zatkane, Potwierdzone, BezPotwierdzenia, Wroc, ZadanieOK, Zlecenia
  <2>2. <<>> \in Pakiety
    BY EmptySeq DEF Pakiety
  <2>3. QED
    BY <2>1, <2>2 DEF BajtyOK
<1>8. ASSUME NEW h \in Uchwyty, SrvOpen(h)
      PROVE  BajtyOK'
  BY <1>8, BajtySrvOpen
<1>9. ASSUME NEW h \in Uchwyty, Wyslij(h) \/ Dane(h) \/ Rozlacz(h)
      PROVE  UNCHANGED bajtyVars
  BY <1>9 DEF Wyslij, Dane, DataInd, Rozlacz, Close, sppVars, txVars, histVars
<1>10. Cong \/ WriteEvt \/ UNCHANGED vars => UNCHANGED bajtyVars
  BY DEF Cong, WriteEvt, vars, sppVars, txVars, histVars
<1> HIDE DEF bajtyVars
<1>11. QED
  BY <1>1, <1>2, <1>3, <1>4, <1>5, <1>6, <1>7, <1>8, <1>9, <1>10
     DEF Next, Petla, ZdarzenieStosu, Zadanie

\* While no session began as the task filled the buffer, it reads of packets only.
LEMMA BajtyZawsze == Spec => []BajtyOK
<1>1. OdbiornikInit => BajtyOK
  <2> SUFFICES ASSUME OdbiornikInit
               PROVE  BajtyOK
    OBVIOUS
  <2>1. <<>> \in Seq(Pakiety) /\ <<>> \in Pakiety
    BY EmptySeq DEF Pakiety
  <2>2. QED
    BY <2>1 DEF OdbiornikInit, Init, BajtyOK
<1>2. IInv /\ BajtyOK /\ [Next]_vars => BajtyOK'
  BY BajtyKrok DEF IInv
<1>3. QED
  BY Niezmiennik, <1>1, <1>2, PTL DEF Spec

\* For every size of buffer, queue and packet, and whenever a session resets the
\* length: no copy writes behind _spp_tx_buffer, and none reads behind its packet
\* unless a session began while the task filled the buffer (the memcpy() calls of
\* _spp_tx_task, esp_spp_cb).
THEOREM KopieZawsze == Spec => []KopieWGranicach
<1>1. IInv /\ BajtyOK => KopieWGranicach
  <2> SUFFICES ASSUME IInv, BajtyOK
               PROVE  KopieWGranicach
    OBVIOUS
  <2>1. ASSUME NEW s \in Pakiety
        PROVE  0 \notin Range(s)
    <3>1. \A i \in DOMAIN s : s[i] # 0
      BY LenProperties, ElementOfSeq DEF Pakiety
    <3>2. QED
      BY <3>1 DEF Range
  <2>2. ~zderzenie => 0 \notin Range(wyslij.kopia) \cup Range(wyslij.reszta)
    BY <2>1 DEF BajtyOK
  <2>3. /\ tx = "kopiuj" => dlugosc + Len(wyslij.kopia) <= TxMax
        /\ (tx = "dolicz" /\ wyslij.powrot = "odbior") => dlugosc + Len(wyslij.kopia) <= TxMax
    BY DEF IInv, ZadanieOK
  <2>4. QED
    BY <2>2, <2>3 DEF KopieWGranicach
<1>2. QED
  BY Niezmiennik, BajtyZawsze, <1>1, PTL

-----------------------------------------------------------------------------
(* receivedChars and the line it was filled with. *)

\* The number of characters of the line that found a place.
Zapisane == IF Len(linia) <= NumChars - 1 THEN Len(linia) ELSE NumChars - 1

\* While a line is read ndx counts them; a finished line is closed behind them and
\* ndx is back at the beginning; a new line begins only when newData is reset.
LiniaOK ==
    /\ linia \in Seq(Znak)
    /\ \A i \in 0 .. Zapisane - 1 : receivedChars[i] = linia[i + 1]
    /\ ndx = IF newData THEN 0 ELSE Zapisane
    /\ newData /\ petla = "odbior" => receivedChars[Zapisane] = NUL
    /\ petla \in {"odpowiedz", "koniec"} => newData /\ linia = <<>>
    /\ petla = "przebieg" => ~newData

\* The places written are inside receivedChars.
LEMMA ZapisaneZakres ==
    ASSUME linia \in Seq(Znak)
    PROVE  Len(linia) \in Nat /\ Zapisane \in 0 .. NumChars - 1 /\ Zapisane <= Len(linia)
BY EmptySeq, Rozmiary DEF Zapisane

\* No character of a command ends a string.
LEMMA BezNUL == NUL \notin Znak
BY OdbiornikAssumption DEF Znak

\* An empty line has written nothing.
LEMMA PustaLinia ==
    ASSUME linia = <<>>
    PROVE  linia \in Seq(Znak) /\ Zapisane = 0
BY EmptySeq, Rozmiary DEF Zapisane

\* A character goes to the buffer, or over its last place.
LEMMA LiniaZnak ==
    ASSUME LiniaOK, PetlaOK, KolejkiOK, Czytaj, Head(rxKolejka) # EndMarker
    PROVE  LiniaOK'
<1> DEFINE z == Head(rxKolejka)
<1>1. /\ petla = "odbior" /\ ~newData
      /\ receivedChars' = [receivedChars EXCEPT ![ndx] = z]
      /\ ndx' = Nastepny(ndx) /\ linia' = Append(linia, z)
      /\ UNCHANGED <<newData, petla>>
  BY DEF Czytaj, Wolno, PetlaOK
<1>2. z \in Znak /\ linia \in Seq(Znak)
  BY KolejkiCzytaj DEF Czytaj, Bajty, LiniaOK
<1> HIDE DEF z
<1>3. /\ linia' \in Seq(Znak) /\ Len(linia') = Len(linia) + 1
      /\ \A i \in 1 .. Len(linia) : linia'[i] = linia[i]
      /\ linia'[Len(linia) + 1] = z
  BY <1>1, <1>2, AppendProperties
<1>4. Len(linia) \in Nat /\ Zapisane \in 0 .. NumChars - 1 /\ Zapisane <= Len(linia)
  BY <1>2, ZapisaneZakres
<1>5. ndx = Zapisane
  BY <1>1 DEF LiniaOK
<1>6. CASE Len(linia) + 1 <= NumChars - 1
  <2>1. Zapisane = Len(linia) /\ Zapisane' = Len(linia) + 1
    BY <1>3, <1>4, <1>6, Rozmiary DEF Zapisane
  <2>2. ndx' = Zapisane'
    BY <1>1, <1>4, <1>5, <1>6, <2>1, Rozmiary DEF Nastepny
  <2>3. \A i \in 0 .. Zapisane' - 1 : receivedChars'[i] = linia'[i + 1]
    <3>1. TAKE i \in 0 .. Zapisane' - 1
    <3>2. i \in 0 .. NumChars - 1
      BY <1>4, <1>6, <2>1, Rozmiary
    <3>3. CASE i = Len(linia)
      BY <1>1, <1>3, <1>5, <2>1, <3>2, <3>3 DEF PetlaOK
    <3>4. CASE i # Len(linia)
      <4>1. i \in 0 .. Zapisane - 1 /\ i + 1 \in 1 .. Len(linia)
        BY <1>4, <2>1, <3>4
      <4>2. receivedChars'[i] = receivedChars[i]
        BY <1>1, <1>5, <2>1, <3>2, <3>4 DEF PetlaOK
      <4>3. QED
        BY <1>3, <4>1, <4>2 DEF LiniaOK
    <3>5. QED
      BY <3>3, <3>4
  <2>4. QED
    BY <1>1, <1>3, <2>2, <2>3 DEF LiniaOK
<1>7. CASE ~(Len(linia) + 1 <= NumChars - 1)
  <2>1. Zapisane = NumChars - 1 /\ Zapisane' = NumChars - 1
    BY <1>3, <1>4, <1>7, Rozmiary DEF Zapisane
  <2>2. ndx' = Zapisane'
    BY <1>1, <1>5, <2>1, Rozmiary DEF Nastepny
  <2>3. \A i \in 0 .. Zapisane' - 1 : receivedChars'[i] = linia'[i + 1]
    <3>1. TAKE i \in 0 .. Zapisane' - 1
    <3>2. i \in 0 .. NumChars - 1 /\ i # ndx /\ i \in 0 .. Zapisane - 1
      BY <1>5, <2>1, Rozmiary
    <3>3. i + 1 \in 1 .. Len(linia)
      BY <1>4, <2>1, <3>1
    <3>4. receivedChars'[i] = receivedChars[i]
      BY <1>1, <3>2 DEF PetlaOK
    <3>5. QED
      BY <1>3, <3>2, <3>3, <3>4 DEF LiniaOK
  <2>4. QED
    BY <1>1, <1>3, <2>2, <2>3 DEF LiniaOK
<1>8. QED
  BY <1>6, <1>7

\* The line end closes the line.
LEMMA LiniaKoniec ==
    ASSUME LiniaOK, PetlaOK, Czytaj, Head(rxKolejka) = EndMarker
    PROVE  LiniaOK'
<1>1. /\ petla = "odbior" /\ ~newData /\ newData' = TRUE /\ ndx' = 0
      /\ receivedChars' = [receivedChars EXCEPT ![ndx] = NUL]
      /\ UNCHANGED <<linia, petla>>
  BY DEF Czytaj, Wolno, Linia, PetlaOK
<1>2. Zapisane' = Zapisane /\ ndx = Zapisane /\ Zapisane \in 0 .. NumChars - 1
  BY <1>1, ZapisaneZakres DEF LiniaOK, Zapisane
<1>3. receivedChars'[Zapisane] = NUL
  BY <1>1, <1>2 DEF PetlaOK
<1>4. \A i \in 0 .. Zapisane - 1 : receivedChars'[i] = receivedChars[i]
  <2>1. TAKE i \in 0 .. Zapisane - 1
  <2>2. i \in 0 .. NumChars - 1 /\ i # Zapisane
    BY <1>2, <2>1, Rozmiary
  <2>3. QED
    BY <1>1, <1>2, <2>2 DEF PetlaOK
<1>5. QED
  BY <1>1, <1>2, <1>3, <1>4 DEF LiniaOK

\* Every step keeps the buffer what arrived since the line end.
LEMMA LiniaKrok ==
    ASSUME LiniaOK, PetlaOK, KolejkiOK, [Next]_vars
    PROVE  LiniaOK'
<1> DEFINE wiersz == <<linia, receivedChars, ndx, newData>>
<1>1. CASE Czytaj
  BY <1>1, LiniaZnak, LiniaKoniec
<1>2. CASE Wykonaj
  <2>1. /\ newData = TRUE /\ linia' = <<>> /\ petla' \in {"odpowiedz", "koniec"}
        /\ UNCHANGED <<newData, receivedChars, ndx>>
    BY <1>2 DEF Wykonaj
  <2>2. linia' \in Seq(Znak) /\ Zapisane' = 0
    BY <2>1, EmptySeq, Rozmiary DEF Zapisane
  <2>3. QED
    BY <2>1, <2>2 DEF LiniaOK
<1>3. CASE Koniec
  <2>1. /\ newData' = FALSE /\ petla = "koniec" /\ petla' = "przebieg"
        /\ UNCHANGED <<receivedChars, ndx, linia>>
    BY <1>3 DEF Koniec, kronikaVars
  <2>2. linia = <<>> /\ ndx = 0
    BY <2>1 DEF LiniaOK
  <2>3. Zapisane' = 0 /\ linia' \in Seq(Znak)
    BY <2>1, <2>2, EmptySeq, Rozmiary DEF Zapisane
  <2>4. QED
    BY <2>1, <2>2, <2>3 DEF LiniaOK
<1>4. ASSUME UNCHANGED wiersz, \/ petla' = petla
                               \/ petla = "przebieg" /\ petla' = "odbior"
                               \/ petla = "odbior" /\ petla' = "przebieg" /\ ~newData
                               \/ petla = "odpowiedz" /\ petla' = "koniec"
      PROVE  LiniaOK'
  <2>1. Zapisane' = Zapisane
    BY <1>4 DEF Zapisane
  <2>2. QED
    BY <1>4, <2>1 DEF LiniaOK
<1>5. CASE Przebieg \/ BezLinii \/ Odpowiadaj \/ PoOdpowiedzi
  BY <1>4, <1>5 DEF Przebieg, BezLinii, Odpowiadaj, PoOdpowiedzi, kronikaVars
<1>6. ZdarzenieStosu => UNCHANGED wiersz /\ petla' = petla
  BY DEF ZdarzenieStosu, petlaVars, kronikaVars
<1>7. ASSUME NEW h \in Uchwyty, Wyslij(h) \/ Dane(h) \/ Rozlacz(h)
      PROVE  UNCHANGED wiersz /\ petla' = petla
  BY <1>7 DEF Wyslij, Dane, Rozlacz, petlaVars
<1>8. UNCHANGED vars => UNCHANGED wiersz /\ petla' = petla
  BY DEF vars, petlaVars, kronikaVars
<1> HIDE DEF wiersz
<1>9. QED
  BY <1>1, <1>2, <1>3, <1>4, <1>5, <1>6, <1>7, <1>8 DEF Next, Petla

\* The string ends at the first NUL, which is behind the characters written.
LEMMA NapisLinii ==
    ASSUME LiniaOK, PetlaOK
    PROVE  WierszWierny
<1> SUFFICES ASSUME newData, petla = "odbior"
             PROVE  Napis = Poczatek(linia, NumChars - 1)
  BY DEF WierszWierny
<1> DEFINE konce == {i \in 0 .. NumChars - 1 : receivedChars[i] = NUL}
<1>1. /\ Len(linia) \in Nat /\ linia \in Seq(Znak)
      /\ Zapisane \in 0 .. NumChars - 1 /\ Zapisane <= Len(linia)
  BY ZapisaneZakres DEF LiniaOK
<1>2. Zapisane \in konce
  BY <1>1 DEF LiniaOK
<1>3. \A i \in 0 .. Zapisane - 1 : i \notin konce
  <2>1. TAKE i \in 0 .. Zapisane - 1
  <2>2. i + 1 \in 1 .. Len(linia)
    BY <1>1, <2>1
  <2>3. linia[i + 1] \in Znak
    BY <1>1, <2>2, ElementOfSeq
  <2>4. QED
    BY <2>3, BezNUL DEF LiniaOK
<1>4. \A j \in konce : Zapisane <= j
  <2>1. TAKE j \in konce
  <2>2. j \in 0 .. NumChars - 1
    OBVIOUS
  <2>3. QED
    BY <1>1, <1>3, <2>1, <2>2, Rozmiary
<1>5. ASSUME NEW k \in konce, \A j \in konce : k <= j
      PROVE  k = Zapisane
  <2>1. k <= Zapisane /\ Zapisane <= k /\ k \in 0 .. NumChars - 1
    BY <1>2, <1>4, <1>5
  <2>2. QED
    BY <1>1, <2>1, Rozmiary
<1> DEFINE koniec == CHOOSE i \in konce : \A j \in konce : i <= j
<1>6. koniec \in konce /\ \A j \in konce : koniec <= j
  <2>1. \E i \in konce : \A j \in konce : i <= j
    BY <1>2, <1>4
  <2> HIDE DEF konce
  <2>2. QED
    BY <2>1
<1>7. koniec = Zapisane
  <2> HIDE DEF koniec
  <2>1. QED
    BY <1>5, <1>6
<1>8. Napis = [i \in 1 .. koniec |-> receivedChars[i - 1]]
  BY DEF Napis
<1> HIDE DEF koniec, konce
<1> DEFINE t == SubSeq(linia, 1, Zapisane)
<1>9. Poczatek(linia, NumChars - 1) = t
  BY DEF Poczatek, Zapisane
<1>10. t = [i \in 1 .. Zapisane |-> linia[i]]
  BY <1>1 DEF LiniaOK
<1>11. \A i \in 1 .. Zapisane : receivedChars[i - 1] = linia[i]
  <2>1. TAKE i \in 1 .. Zapisane
  <2>2. i - 1 \in 0 .. Zapisane - 1 /\ (i - 1) + 1 = i
    BY <1>1, <2>1
  <2>3. QED
    BY <2>2 DEF LiniaOK
<1> HIDE DEF t
<1>12. QED
  BY <1>7, <1>8, <1>9, <1>10, <1>11

\* At the start the line is empty.
LEMMA LiniaPoczatek == OdbiornikInit => LiniaOK
<1> SUFFICES ASSUME OdbiornikInit
             PROVE  LiniaOK
  OBVIOUS
<1>1. linia = <<>> /\ petla = "przebieg" /\ newData = FALSE /\ ndx = 0
  BY DEF OdbiornikInit
<1>2. linia \in Seq(Znak) /\ Zapisane = 0
  BY <1>1, PustaLinia
<1>3. QED
  BY <1>1, <1>2 DEF LiniaOK

\* For every buffer and every text, a line end finds in receivedChars exactly the
\* characters since the one before it, cut at numChars - 1 (loop(), ndx and newData).
THEOREM WierszJestWierny == Spec => []WierszWierny
<1>1. OdbiornikInit => LiniaOK
  BY LiniaPoczatek
<1>2. IInv /\ LiniaOK /\ [Next]_vars => LiniaOK'
  BY LiniaKrok DEF IInv
<1>3. IInv /\ LiniaOK => WierszWierny
  BY NapisLinii DEF IInv
<1>4. QED
  BY Niezmiennik, <1>1, <1>2, <1>3, PTL DEF Spec

-----------------------------------------------------------------------------
(* The commands on their way.  What is still to be read is the commands that *)
(* wait to be carried out, one after another; the witness is where each ends. *)

\* s is the texts of the commands d, one behind another.  That the ends grow is part of
\* the statement: it would follow only by induction.
Ciag(s, d, konce) ==
    /\ konce \in [0 .. Len(d) -> 0 .. Len(s)]
    /\ konce[0] = 0 /\ konce[Len(d)] = Len(s)
    /\ \A i, k \in 0 .. Len(d) : i <= k => konce[i] <= konce[k]
    /\ \A i \in 1 .. Len(d) :
          /\ konce[i] = konce[i - 1] + Len(Tekst(d[i]))
          /\ \A j \in 1 .. Len(Tekst(d[i])) : s[konce[i - 1] + j] = Tekst(d[i])[j]

Zlozony(s, d) == \E konce \in [0 .. Len(d) -> 0 .. Len(s)] : Ciag(s, d, konce)

\* What the only application that is sending has still to deliver.
WDrodze ==
    IF \A h \in Uchwyty : wLocie[h] = <<>>
    THEN <<>>
    ELSE wLocie[CHOOSE h \in Uchwyty : wLocie[h] # <<>>]

JednaNadaje ==
    \A g, h \in Uchwyty : wLocie[g] # <<>> /\ wLocie[h] # <<>> => g = h

\* A line end that was read belongs to the line until it has been carried out.
Odczytane == IF newData /\ petla = "odbior" THEN Append(linia, EndMarker) ELSE linia

Bieg == Odczytane \o (rxKolejka \o WDrodze)

KolejnoOK ==
    /\ doWykonania \in Seq(Komunikaty)
    /\ ~usterka =>
          /\ JednaNadaje
          /\ \A i \in 1 .. Len(doWykonania) : Len(Znaki[doWykonania[i]]) < NumChars
          /\ Zlozony(Bieg, doWykonania)

\* A text ends with the only EndMarker in it.
LEMMA TekstKoniec ==
    ASSUME NEW m \in Komunikaty
    PROVE  /\ Znaki[m] \in Seq(STRING) /\ Len(Znaki[m]) \in Nat
           /\ Tekst(m) \in Seq(Bajty) /\ Len(Tekst(m)) = Len(Znaki[m]) + 1
           /\ Tekst(m)[Len(Znaki[m]) + 1] = EndMarker
           /\ \A j \in 1 .. Len(Znaki[m]) :
                 Tekst(m)[j] = Znaki[m][j] /\ Znaki[m][j] # EndMarker
<1>1. Znaki[m] \in Seq(STRING) /\ EndMarker \in STRING
  BY OdbiornikAssumption
<1>2. Len(Znaki[m]) \in Nat /\ DOMAIN Znaki[m] = 1 .. Len(Znaki[m])
  BY <1>1, LenProperties
<1>3. /\ Len(Tekst(m)) = Len(Znaki[m]) + 1
      /\ Tekst(m)[Len(Znaki[m]) + 1] = EndMarker
      /\ \A j \in 1 .. Len(Znaki[m]) : Tekst(m)[j] = Znaki[m][j]
  BY <1>1, AppendProperties DEF Tekst
<1>4. \A j \in 1 .. Len(Znaki[m]) : Znaki[m][j] # EndMarker
  BY <1>2, OdbiornikAssumption
<1>5. QED
  BY <1>1, <1>2, <1>3, <1>4, TekstBajty

\* No character of a command is a line end.
LEMMA BezKonca == EndMarker \notin Znak
BY OdbiornikAssumption DEF Znak

\* A command that is sent is added at the end.
LEMMA Dopisany ==
    ASSUME NEW s \in Seq(Bajty), NEW d \in Seq(Komunikaty), NEW m \in Komunikaty,
           Zlozony(s, d)
    PROVE  Zlozony(s \o Tekst(m), Append(d, m))
<1> DEFINE t == Tekst(m)
           n == Len(d)
           s2 == s \o t
           d2 == Append(d, m)
<1>1. /\ t \in Seq(Bajty) /\ Len(t) \in Nat /\ Len(s) \in Nat /\ n \in Nat
      /\ \A i \in 1 .. n : d[i] \in Komunikaty
  BY TekstBajty, EmptySeq, ElementOfSeq
<1>2. /\ Len(s2) = Len(s) + Len(t)
      /\ \A i \in 1 .. Len(s) + Len(t) : s2[i] = IF i <= Len(s) THEN s[i] ELSE t[i - Len(s)]
  BY <1>1, ConcatProperties
<1>3. /\ Len(d2) = n + 1
      /\ \A i \in 1 .. n : d2[i] = d[i]
      /\ d2[n + 1] = m
  BY AppendProperties
<1>4. PICK k \in [0 .. n -> 0 .. Len(s)] : Ciag(s, d, k)
  BY DEF Zlozony
<1> DEFINE k2 == [i \in 0 .. n + 1 |-> IF i <= n THEN k[i] ELSE Len(s) + Len(t)]
<1>5. k2 \in [0 .. n + 1 -> 0 .. Len(s) + Len(t)]
  BY <1>1
<1>6. /\ \A i \in 0 .. n : k2[i] = k[i]
      /\ k2[n + 1] = Len(s) + Len(t)
  BY <1>1
<1>7. /\ k[0] = 0 /\ k[n] = Len(s)
      /\ \A i, j \in 0 .. n : i <= j => k[i] <= k[j]
      /\ \A i \in 1 .. n :
            /\ k[i] = k[i - 1] + Len(Tekst(d[i]))
            /\ \A j \in 1 .. Len(Tekst(d[i])) : s[k[i - 1] + j] = Tekst(d[i])[j]
  BY <1>4 DEF Ciag
<1> HIDE DEF k2, s2, d2, t, n
<1>8. k2[0] = 0
  BY <1>1, <1>6, <1>7
<1>9. ASSUME NEW i \in 0 .. n + 1, NEW j \in 0 .. n + 1, i <= j
      PROVE  k2[i] <= k2[j]
  <2>1. CASE j = n + 1
    BY <1>1, <1>5, <1>6, <2>1
  <2>2. CASE j # n + 1
    <3>1. i \in 0 .. n /\ j \in 0 .. n
      BY <1>1, <1>9, <2>2
    <3>2. QED
      BY <1>6, <1>7, <1>9, <3>1
  <2>3. QED
    BY <2>1, <2>2
<1>10. ASSUME NEW i \in 1 .. n + 1
       PROVE  /\ k2[i] = k2[i - 1] + Len(Tekst(d2[i]))
              /\ \A j \in 1 .. Len(Tekst(d2[i])) : s2[k2[i - 1] + j] = Tekst(d2[i])[j]
  <2>1. CASE i = n + 1
    <3>1. d2[i] = m /\ k2[i - 1] = Len(s) /\ Tekst(d2[i]) = t
      BY <1>1, <1>3, <1>6, <1>7, <2>1 DEF t
    <3>2. \A j \in 1 .. Len(t) : s2[Len(s) + j] = t[j]
      BY <1>1, <1>2
    <3>3. QED
      BY <1>6, <2>1, <3>1, <3>2
  <2>2. CASE i # n + 1
    <3>1. i \in 1 .. n /\ i \in 0 .. n /\ i - 1 \in 0 .. n
      BY <1>1, <1>10, <2>2
    <3>2. d2[i] = d[i] /\ k2[i] = k[i] /\ k2[i - 1] = k[i - 1]
      BY <1>3, <1>6, <3>1
    <3>3. Len(Tekst(d[i])) \in Nat /\ k[i] \in 0 .. Len(s) /\ k[i - 1] \in 0 .. Len(s)
      BY <1>1, <1>4, <3>1, TekstKoniec
    <3>4. ASSUME NEW j \in 1 .. Len(Tekst(d[i]))
          PROVE  s2[k[i - 1] + j] = Tekst(d[i])[j]
      <4>0. k[i] = k[i - 1] + Len(Tekst(d[i]))
        BY <1>7, <3>1
      <4>1. k[i - 1] + j \in 1 .. Len(s)
        BY <1>1, <3>3, <4>0
      <4>2. s2[k[i - 1] + j] = s[k[i - 1] + j]
        BY <1>1, <1>2, <4>1
      <4>3. QED
        BY <1>7, <3>1, <3>4, <4>2
    <3>5. QED
      BY <1>7, <3>1, <3>2, <3>4
  <2>3. QED
    BY <2>1, <2>2
<1>11. Ciag(s2, d2, k2)
  BY <1>2, <1>3, <1>5, <1>6, <1>8, <1>9, <1>10 DEF Ciag
<1>12. QED
  BY <1>2, <1>3, <1>5, <1>11 DEF Zlozony, s2, d2, t

\* The first command is read to its end when the first line end is read.
LEMMA PierwszyCaly ==
    ASSUME NEW w \in Seq(Znak), NEW r \in Seq(Bajty), NEW d \in Seq(Komunikaty),
           Zlozony(Append(w, EndMarker) \o r, d)
    PROVE  d # <<>> /\ w = Znaki[d[1]]
<1> DEFINE a == Append(w, EndMarker)
           s == a \o r
           n == Len(d)
<1>1. Len(w) \in Nat /\ Len(r) \in Nat /\ n \in Nat /\ w \in Seq(Bajty)
  BY EmptySeq, SeqMonotonic DEF Bajty
<1>2. /\ a \in Seq(Bajty) /\ Len(a) = Len(w) + 1
      /\ a[Len(w) + 1] = EndMarker
      /\ \A i \in 1 .. Len(w) : a[i] = w[i] /\ w[i] \in Znak
  BY <1>1, AppendProperties, ElementOfSeq DEF Bajty
<1> HIDE DEF a
<1>3. /\ Len(s) = Len(w) + 1 + Len(r)
      /\ \A i \in 1 .. Len(w) + 1 : s[i] = a[i]
  <2>1. /\ Len(s) = Len(a) + Len(r)
        /\ \A i \in 1 .. Len(a) + Len(r) : s[i] = IF i <= Len(a) THEN a[i] ELSE r[i - Len(a)]
    BY <1>2, ConcatProperties
  <2>2. Len(a) = Len(w) + 1 /\ 1 .. Len(w) + 1 \subseteq 1 .. Len(a) + Len(r)
    BY <1>1, <1>2
  <2> HIDE DEF s
  <2>3. QED
    BY <1>1, <2>1, <2>2
<1>4. PICK k \in [0 .. n -> 0 .. Len(s)] : Ciag(s, d, k)
  BY DEF Zlozony, a
<1> HIDE DEF s, n
<1>5. n # 0
  BY <1>1, <1>3, <1>4 DEF Ciag, n
<1>6. d # <<>> /\ 1 \in 1 .. n /\ d[1] \in Komunikaty
  BY <1>1, <1>5, EmptySeq, ElementOfSeq DEF n
<1> DEFINE t == Tekst(d[1])
           l == Len(Znaki[d[1]])
<1>7. /\ l \in Nat /\ Len(t) = l + 1 /\ t[l + 1] = EndMarker
      /\ Znaki[d[1]] \in Seq(STRING)
      /\ \A j \in 1 .. l : t[j] = Znaki[d[1]][j] /\ Znaki[d[1]][j] # EndMarker
  BY <1>6, TekstKoniec
<1> HIDE DEF t, l
<1>8. /\ k[1] = Len(t) /\ k[1] \in 0 .. Len(s)
      /\ \A j \in 1 .. Len(t) : s[j] = t[j]
  <2>1. k[0] = 0 /\ k[1] = k[0] + Len(t) /\ \A j \in 1 .. Len(t) : s[k[0] + j] = t[j]
    BY <1>4, <1>6 DEF Ciag, n, t
  <2>2. QED
    BY <1>1, <1>4, <1>6, <1>7, <2>1
<1>9. l = Len(w)
  <2>1. CASE l < Len(w)
    <3>1. l + 1 \in 1 .. Len(w) /\ l + 1 \in 1 .. Len(w) + 1 /\ l + 1 \in 1 .. Len(t)
      BY <1>1, <1>7, <2>1
    <3>2. s[l + 1] = EndMarker /\ s[l + 1] = w[l + 1] /\ w[l + 1] \in Znak
      BY <1>2, <1>3, <1>7, <1>8, <3>1
    <3>3. QED
      BY <3>2, BezKonca
  <2>2. CASE Len(w) < l
    <3>1. Len(w) + 1 \in 1 .. l /\ Len(w) + 1 \in 1 .. Len(w) + 1 /\ Len(w) + 1 \in 1 .. Len(t)
      BY <1>1, <1>7, <2>2
    <3>2. s[Len(w) + 1] = EndMarker /\ s[Len(w) + 1] = t[Len(w) + 1]
          /\ t[Len(w) + 1] # EndMarker
      BY <1>2, <1>3, <1>7, <1>8, <3>1
    <3>3. QED
      BY <3>2
  <2>3. QED
    BY <1>1, <1>7, <2>1, <2>2
<1>10. \A j \in 1 .. l : w[j] = Znaki[d[1]][j]
  <2>1. TAKE j \in 1 .. l
  <2>2. j \in 1 .. Len(w) /\ j \in 1 .. Len(w) + 1 /\ j \in 1 .. Len(t)
    BY <1>1, <1>7, <1>9
  <2>3. QED
    BY <1>2, <1>3, <1>7, <1>8, <2>2
<1>11. w \in Seq(STRING)
  <2>1. Znak \subseteq STRING
    <3>1. \A m \in Komunikaty : \A i \in DOMAIN Znaki[m] : Znaki[m][i] \in STRING
      BY OdbiornikAssumption, LenProperties
    <3>2. QED
      BY <3>1 DEF Znak
  <2>2. QED
    BY <2>1, SeqMonotonic
<1>12. QED
  BY <1>6, <1>7, <1>9, <1>10, <1>11, SeqEqual DEF l

\* A command that has been carried out is taken away at the beginning.
LEMMA Zdjety ==
    ASSUME NEW r \in Seq(Bajty), NEW d \in Seq(Komunikaty), d # <<>>,
           Zlozony(Tekst(d[1]) \o r, d)
    PROVE  Zlozony(r, Tail(d))
<1> DEFINE t == Tekst(d[1])
           s == t \o r
           n == Len(d)
           d2 == Tail(d)
<1>1. /\ Len(r) \in Nat /\ n \in Nat \ {0} /\ d[1] \in Komunikaty
      /\ \A i \in 1 .. n : d[i] \in Komunikaty
  BY EmptySeq, ElementOfSeq
<1>2. t \in Seq(Bajty) /\ Len(t) \in Nat
  BY <1>1, TekstKoniec
<1> HIDE DEF t
<1>3. /\ Len(s) = Len(t) + Len(r)
      /\ \A i \in 1 .. Len(t) + Len(r) : s[i] = IF i <= Len(t) THEN t[i] ELSE r[i - Len(t)]
  BY <1>1, <1>2, ConcatProperties
<1>4. PICK k \in [0 .. n -> 0 .. Len(s)] : Ciag(s, d, k)
  BY DEF Zlozony, t
<1>5. Len(d2) = n - 1 /\ \A i \in 1 .. n - 1 : d2[i] = d[i + 1]
  BY <1>1, HeadTailProperties
<1> HIDE DEF s, n, d2
<1>6. /\ k[0] = 0 /\ k[n] = Len(s)
      /\ \A i, j \in 0 .. n : i <= j => k[i] <= k[j]
      /\ \A i \in 1 .. n :
            /\ k[i] = k[i - 1] + Len(Tekst(d[i]))
            /\ \A j \in 1 .. Len(Tekst(d[i])) : s[k[i - 1] + j] = Tekst(d[i])[j]
  BY <1>4 DEF Ciag, n
<1>7. k[1] = Len(t)
  <2>1. 1 \in 1 .. n /\ k[1] = k[1 - 1] + Len(t) /\ 1 - 1 = 0
    BY <1>1, <1>6 DEF t
  <2>2. QED
    BY <1>2, <1>6, <2>1
<1> DEFINE k2 == [i \in 0 .. n - 1 |-> k[i + 1] - Len(t)]
<1>8. ASSUME NEW i \in 0 .. n - 1
      PROVE  k[i + 1] \in Len(t) .. Len(s) /\ k2[i] = k[i + 1] - Len(t)
  <2>1. i + 1 \in 0 .. n /\ 1 \in 0 .. n /\ 1 <= i + 1
    BY <1>1
  <2>2. k[1] <= k[i + 1] /\ k[i + 1] \in 0 .. Len(s)
    BY <1>4, <1>6, <2>1
  <2>3. QED
    BY <1>1, <1>2, <1>3, <1>7, <2>2
<1>9. k2 \in [0 .. n - 1 -> 0 .. Len(r)]
  <2>1. ASSUME NEW i \in 0 .. n - 1
        PROVE  k[i + 1] - Len(t) \in 0 .. Len(r)
    BY <1>1, <1>2, <1>3, <1>8
  <2>2. QED
    BY <2>1
<1> HIDE DEF k2
<1>10. k2[0] = 0 /\ k2[n - 1] = Len(r)
  <2>1. 0 \in 0 .. n - 1 /\ n - 1 \in 0 .. n - 1 /\ 0 + 1 = 1 /\ (n - 1) + 1 = n
    BY <1>1
  <2>2. k2[0] = k[1] - Len(t) /\ k2[n - 1] = k[n] - Len(t)
    BY <1>8, <2>1
  <2>3. QED
    BY <1>1, <1>2, <1>3, <1>6, <1>7, <2>2
<1>11. ASSUME NEW i \in 0 .. n - 1, NEW j \in 0 .. n - 1, i <= j
       PROVE  k2[i] <= k2[j]
  <2>0. i + 1 \in 0 .. n /\ j + 1 \in 0 .. n /\ i + 1 <= j + 1
    BY <1>1, <1>11
  <2>1. k[i + 1] <= k[j + 1]
    BY <1>6, <2>0
  <2>2. /\ k[i + 1] \in Len(t) .. Len(s) /\ k2[i] = k[i + 1] - Len(t)
        /\ k[j + 1] \in Len(t) .. Len(s) /\ k2[j] = k[j + 1] - Len(t)
    BY <1>8
  <2>3. QED
    BY <1>1, <1>2, <1>3, <2>1, <2>2
<1>12. ASSUME NEW i \in 1 .. n - 1
       PROVE  /\ k2[i] = k2[i - 1] + Len(Tekst(d2[i]))
              /\ \A j \in 1 .. Len(Tekst(d2[i])) : r[k2[i - 1] + j] = Tekst(d2[i])[j]
  <2>1. /\ i + 1 \in 1 .. n /\ i \in 0 .. n - 1 /\ i - 1 \in 0 .. n - 1
        /\ (i + 1) - 1 = i /\ (i - 1) + 1 = i
    BY <1>1
  <2>2. d2[i] = d[i + 1] /\ d[i + 1] \in Komunikaty
    BY <1>1, <1>5, <2>1
  <2> DEFINE u == Tekst(d[i + 1])
  <2>3. k[i + 1] = k[i] + Len(u) /\ \A j \in 1 .. Len(u) : s[k[i] + j] = u[j]
    BY <1>6, <2>1
  <2>4. /\ k[i + 1] \in Len(t) .. Len(s) /\ k2[i] = k[i + 1] - Len(t)
        /\ k[i] \in Len(t) .. Len(s) /\ k2[i - 1] = k[i] - Len(t)
    BY <1>8, <2>1
  <2>5. Len(u) \in Nat
    BY <2>2, TekstKoniec
  <2> HIDE DEF u
  <2>6. k2[i] = k2[i - 1] + Len(u)
    BY <1>1, <1>2, <1>3, <2>3, <2>4, <2>5
  <2>7. ASSUME NEW j \in 1 .. Len(u)
        PROVE  r[k2[i - 1] + j] = u[j]
    <3>0. /\ k[i + 1] = k[i] + Len(u) /\ k[i] \in Len(t) .. Len(s)
          /\ k[i + 1] \in Len(t) .. Len(s) /\ Len(s) = Len(t) + Len(r)
          /\ k2[i - 1] = k[i] - Len(t)
      BY <1>3, <2>3, <2>4
    <3>a. PICK x \in Nat : x = k[i] /\ Len(t) <= x /\ x + Len(u) <= Len(t) + Len(r)
      BY <1>1, <1>2, <2>5, <3>0
    <3>1. /\ k[i] + j \in 1 .. Len(t) + Len(r) /\ ~(k[i] + j <= Len(t))
          /\ (k[i] + j) - Len(t) = k2[i - 1] + j
      <4>1. /\ x + j \in 1 .. Len(t) + Len(r) /\ ~(x + j <= Len(t))
            /\ (x + j) - Len(t) = (x - Len(t)) + j
        BY <1>1, <1>2, <2>5, <3>a
      <4>2. QED
        BY <3>0, <3>a, <4>1
    <3>2. s[k[i] + j] = r[(k[i] + j) - Len(t)]
      BY <1>3, <3>1
    <3>3. QED
      BY <2>3, <3>1, <3>2
  <2>8. QED
    BY <2>2, <2>6, <2>7 DEF u
<1>13. Ciag(r, d2, k2)
  BY <1>5, <1>9, <1>10, <1>11, <1>12 DEF Ciag
<1>14. QED
  BY <1>5, <1>9, <1>13 DEF Zlozony, d2

WDrodzeOK ==
    /\ WDrodze \in Seq(Bajty)
    /\ \A h \in Uchwyty : wLocie[h] # <<>> => WDrodze = wLocie[h]
    /\ (\A h \in Uchwyty : wLocie[h] = <<>>) => WDrodze = <<>>

\* What is on its way is what the only sender has left.
LEMMA WDrodzeJednej == JednaNadaje /\ ApkaOK => WDrodzeOK
<1> SUFFICES ASSUME JednaNadaje, ApkaOK
             PROVE  WDrodzeOK
  OBVIOUS
<1> USE DEF WDrodzeOK
<1>1. CASE \A h \in Uchwyty : wLocie[h] = <<>>
  BY <1>1, EmptySeq DEF WDrodze
<1>2. CASE \E h \in Uchwyty : wLocie[h] # <<>>
  <2> DEFINE c == CHOOSE h \in Uchwyty : wLocie[h] # <<>>
  <2>1. c \in Uchwyty /\ wLocie[c] # <<>>
    BY <1>2
  <2>2. WDrodze = wLocie[c]
    BY <1>2 DEF WDrodze
  <2> HIDE DEF c
  <2>3. WDrodze \in Seq(Bajty)
    BY <2>1, <2>2 DEF ApkaOK
  <2>4. \A h \in Uchwyty : wLocie[h] # <<>> => h = c
    BY <2>1 DEF JednaNadaje
  <2>5. QED
    BY <1>2, <2>2, <2>3, <2>4
<1>3. QED
  BY <1>1, <1>2

\* What has been read, with its line end.
LEMMA OdczytaneTyp ==
    ASSUME LiniaOK
    PROVE  Odczytane \in Seq(Bajty) /\ linia \in Seq(Bajty) /\ linia \in Seq(Znak)
<1>1. linia \in Seq(Bajty) /\ linia \in Seq(Znak)
  BY SeqMonotonic DEF LiniaOK, Bajty
<1>2. EndMarker \in Bajty
  BY DEF Bajty
<1>3. QED
  BY <1>1, <1>2, AppendProperties DEF Odczytane

\* A line that waits to be carried out is the first command, and its string is its text.
LEMMA NapisPierwszego ==
    ASSUME KolejnoOK, LiniaOK, PetlaOK, ApkaOK, RxKolejkaOK, ~usterka,
           newData, petla = "odbior"
    PROVE  /\ doWykonania # <<>> /\ linia = Znaki[doWykonania[1]]
           /\ Napis = Znaki[doWykonania[1]]
<1>1. /\ rxKolejka \in Seq(Bajty) /\ WDrodze \in Seq(Bajty)
      /\ linia \in Seq(Znak) /\ doWykonania \in Seq(Komunikaty)
  BY WDrodzeJednej, OdczytaneTyp DEF KolejnoOK, RxKolejkaOK, WDrodzeOK
<1>2. rxKolejka \o WDrodze \in Seq(Bajty)
  BY <1>1, ConcatProperties
<1>3. Zlozony(Append(linia, EndMarker) \o (rxKolejka \o WDrodze), doWykonania)
  BY DEF KolejnoOK, Bieg, Odczytane
<1>4. doWykonania # <<>> /\ linia = Znaki[doWykonania[1]]
  BY <1>1, <1>2, <1>3, PierwszyCaly
<1>5. Len(linia) <= NumChars - 1 /\ Len(linia) \in Nat
  <2>1. 1 \in 1 .. Len(doWykonania) /\ Len(linia) \in Nat
    BY <1>1, <1>4, EmptySeq
  <2>2. Len(linia) < NumChars
    BY <1>4, <2>1 DEF KolejnoOK
  <2>3. QED
    BY <2>1, <2>2, Rozmiary
<1>6. Napis = SubSeq(linia, 1, Len(linia))
  BY <1>5, NapisLinii DEF WierszWierny, Poczatek
<1>7. QED
  BY <1>1, <1>4, <1>6, SubSeqFull

\* A step that leaves the stream, the list and the fault alone.
LEMMA KolejnoBezZmian ==
    ASSUME KolejnoOK, doWykonania' = doWykonania, ~usterka' => ~usterka,
           ~usterka => Bieg' = Bieg /\ JednaNadaje'
    PROVE  KolejnoOK'
BY DEF KolejnoOK

\* After a fault nothing is followed any more.
LEMMA KolejnoPoUsterce ==
    ASSUME NEW o, NEW blad, Kronika(o, blad), usterka'
    PROVE  KolejnoOK'
BY EmptySeq DEF Kronika, KolejnoOK

\* An application starts to send.
LEMMA KolejnoWyslij ==
    ASSUME KolejnoOK, LiniaOK, KolejkiOK, PetlaOK, NEW h \in Uchwyty, Wyslij(h)
    PROVE  KolejnoOK'
<1>1. PICK m \in Komunikaty :
         /\ wLocie' = [wLocie EXCEPT ![h] = Tekst(m)]
         /\ Kronika(Append(doWykonania, m),
                    \/ Len(Znaki[m]) >= NumChars
                    \/ \E g \in Uchwyty \ {h} : wLocie[g] # <<>>)
  BY DEF Wyslij
<1>2. CASE usterka'
  BY <1>1, <1>2, KolejnoPoUsterce
<1>3. CASE ~usterka'
  <2>1. /\ ~usterka /\ doWykonania' = Append(doWykonania, m)
        /\ ~(Len(Znaki[m]) >= NumChars)
        /\ \A g \in Uchwyty \ {h} : wLocie[g] = <<>>
    BY <1>1, <1>3 DEF Kronika
  <2>2. wLocie[h] = <<>> /\ UNCHANGED <<rxKolejka, newData, petla, linia>>
    BY DEF Wyslij, sppVars, petlaVars
  <2>3. ApkaOK /\ ApkaOK' /\ rxKolejka \in Seq(Bajty) /\ Tekst(m) \in Seq(Bajty)
    BY <1>1, TekstBajty DEF KolejkiOK, ApkaOK
  <2>4. \A g \in Uchwyty : g # h => wLocie'[g] = <<>>
    BY <1>1, <2>1, <2>3 DEF ApkaOK
  <2>5. JednaNadaje'
    BY <2>4 DEF JednaNadaje
  <2>6. WDrodze = <<>>
    BY <2>1, <2>2 DEF WDrodze
  <2>7. Tekst(m) # <<>> /\ wLocie'[h] = Tekst(m)
    BY <1>1, <2>3, TekstKoniec, EmptySeq DEF ApkaOK
  <2>8. WDrodze' = Tekst(m)
    <3>1. WDrodzeOK'
      BY <2>3, <2>5, WDrodzeJednej, PTL
    <3>2. QED
      BY <2>7, <3>1 DEF WDrodzeOK
  <2>9. Bieg' = Bieg \o Tekst(m)
    <3>1. Odczytane' = Odczytane /\ Odczytane \in Seq(Bajty) /\ rxKolejka' = rxKolejka
      BY <2>2, OdczytaneTyp DEF Odczytane
    <3>2. Bieg = Odczytane \o rxKolejka /\ Bieg' = Odczytane \o (rxKolejka \o Tekst(m))
      BY <2>3, <2>6, <2>8, <3>1, ConcatEmptySeq DEF Bieg
    <3>3. QED
      BY <2>3, <3>1, <3>2, ConcatAssociative
  <2>10. Bieg \in Seq(Bajty) /\ doWykonania \in Seq(Komunikaty) /\ Zlozony(Bieg, doWykonania)
    BY <2>1, <2>3, <2>6, OdczytaneTyp, EmptySeq, ConcatProperties DEF Bieg, KolejnoOK
  <2>11. Zlozony(Bieg', doWykonania')
    BY <2>1, <2>9, <2>10, Dopisany
  <2>12. /\ doWykonania' \in Seq(Komunikaty)
         /\ \A i \in 1 .. Len(doWykonania') : Len(Znaki[doWykonania'[i]]) < NumChars
    <3>1. /\ doWykonania' \in Seq(Komunikaty) /\ Len(doWykonania') = Len(doWykonania) + 1
          /\ \A i \in 1 .. Len(doWykonania) : doWykonania'[i] = doWykonania[i]
          /\ doWykonania'[Len(doWykonania) + 1] = m
      BY <2>1, <2>10, AppendProperties
    <3>2. Len(doWykonania) \in Nat /\ Len(Znaki[m]) \in Nat /\ Len(Znaki[m]) < NumChars
      BY <2>1, <2>10, EmptySeq, TekstKoniec, Rozmiary
    <3>3. \A i \in 1 .. Len(doWykonania) : Len(Znaki[doWykonania[i]]) < NumChars
      BY <2>1 DEF KolejnoOK
    <3>4. ASSUME NEW i \in 1 .. Len(doWykonania')
          PROVE  Len(Znaki[doWykonania'[i]]) < NumChars
      <4>1. i \in 1 .. Len(doWykonania) \/ i = Len(doWykonania) + 1
        BY <3>1, <3>2
      <4>2. QED
        BY <3>1, <3>2, <3>3, <4>1
    <3>5. QED
      BY <3>1, <3>4
  <2>13. QED
    BY <2>5, <2>11, <2>12 DEF KolejnoOK
<1>4. QED
  BY <1>2, <1>3

\* Bytes go from the air to the queue.
LEMMA KolejnoDane ==
    ASSUME KolejnoOK, LiniaOK, KolejkiOK, NEW h \in Uchwyty, Dane(h)
    PROVE  KolejnoOK'
<1>1. wLocie[h] \in Seq(Bajty) /\ Len(wLocie[h]) \in Nat /\ wLocie[h] # <<>>
  BY EmptySeq DEF KolejkiOK, Dane
<1>2. PICK n \in 1 .. Len(wLocie[h]) :
         /\ rxKolejka' = rxKolejka \o Zmiesci(Dziel(wLocie[h], n)[1])
         /\ wLocie' = [wLocie EXCEPT ![h] = Dziel(wLocie[h], n)[2]]
         /\ Kronika(doWykonania, Zmiesci(Dziel(wLocie[h], n)[1]) # Dziel(wLocie[h], n)[1])
  BY DEF Dane, DataInd
<1>3. CASE usterka'
  BY <1>2, <1>3, KolejnoPoUsterce
<1>4. CASE ~usterka'
  <2> DEFINE a == Dziel(wLocie[h], n)[1]
             b == Dziel(wLocie[h], n)[2]
  <2>1. /\ ~usterka /\ doWykonania' = doWykonania
        /\ rxKolejka' = rxKolejka \o a /\ wLocie' = [wLocie EXCEPT ![h] = b]
    BY <1>2, <1>4 DEF Kronika
  <2>2. UNCHANGED <<newData, petla, linia>>
    BY DEF Dane, petlaVars
  <2>3. a \in Seq(Bajty) /\ b \in Seq(Bajty) /\ a \o b = wLocie[h]
    <3>1. n \in 0 .. Len(wLocie[h]) /\ 1 \in 1 .. Len(wLocie[h]) + 1 /\ n \in 1 - 1 .. Len(wLocie[h])
          /\ Len(wLocie[h]) \in n .. Len(wLocie[h])
      BY <1>1
    <3>2. a \o b = SubSeq(wLocie[h], 1, Len(wLocie[h]))
      BY <1>1, <3>1, ConcatAdjacentSubSeq DEF Dziel
    <3>3. QED
      BY <1>1, <3>1, <3>2, Podzial, SubSeqFull
  <2> HIDE DEF a, b
  <2>4. ApkaOK /\ ApkaOK' /\ rxKolejka \in Seq(Bajty)
    BY <2>1, <2>3 DEF KolejkiOK, ApkaOK
  <2>5. \A g \in Uchwyty : g # h => wLocie[g] = <<>> /\ wLocie'[g] = <<>>
    BY <1>1, <2>1, <2>4 DEF KolejnoOK, JednaNadaje, ApkaOK
  <2>6. JednaNadaje' /\ wLocie'[h] = b
    BY <2>1, <2>4, <2>5 DEF JednaNadaje, ApkaOK
  <2>7. WDrodze = wLocie[h]
    BY <1>1, <2>1, <2>4, WDrodzeJednej DEF KolejnoOK, WDrodzeOK
  <2>8. WDrodze' = b
    <3>1. WDrodzeOK'
      BY <2>4, <2>6, WDrodzeJednej, PTL
    <3>2. CASE b = <<>>
      BY <2>5, <2>6, <3>1, <3>2 DEF WDrodzeOK
    <3>3. CASE b # <<>>
      BY <2>6, <3>1, <3>3 DEF WDrodzeOK
    <3>4. QED
      BY <3>2, <3>3
  <2>9. Bieg' = Bieg
    <3>1. Odczytane' = Odczytane
      BY <2>2 DEF Odczytane
    <3>a. rxKolejka \in Seq(Bajty) /\ a \in Seq(Bajty) /\ b \in Seq(Bajty)
      BY <2>3, <2>4
    <3>2. (rxKolejka \o a) \o b = rxKolejka \o (a \o b)
      BY <3>a, ConcatAssociative
    <3>3. QED
      BY <2>1, <2>3, <2>7, <2>8, <3>1, <3>2 DEF Bieg
  <2>10. QED
    BY <1>4, <2>1, <2>6, <2>9, KolejnoBezZmian
<1>5. QED
  BY <1>3, <1>4

\* A link that closes between two commands loses nothing.
LEMMA KolejnoRozlacz ==
    ASSUME KolejnoOK, KolejkiOK, NEW h \in Uchwyty, Rozlacz(h)
    PROVE  KolejnoOK'
<1>1. /\ wLocie' = [wLocie EXCEPT ![h] = <<>>]
      /\ Kronika(doWykonania, wLocie[h] # <<>>)
      /\ UNCHANGED <<newData, petla, linia, rxKolejka>>
  BY DEF Rozlacz, Close, petlaVars
<1>2. CASE usterka'
  BY <1>1, <1>2, KolejnoPoUsterce
<1>3. CASE ~usterka'
  <2>1. ~usterka /\ doWykonania' = doWykonania /\ wLocie[h] = <<>>
    BY <1>1, <1>3 DEF Kronika
  <2>2. wLocie' = wLocie
    BY <1>1, <2>1 DEF KolejkiOK
  <2>3. Bieg' = Bieg /\ (JednaNadaje => JednaNadaje')
    BY <1>1, <2>2 DEF Bieg, Odczytane, WDrodze, JednaNadaje
  <2>4. QED
    BY <1>3, <2>1, <2>3, KolejnoBezZmian DEF KolejnoOK
<1>4. QED
  BY <1>2, <1>3

\* The loop reads a byte: it moves from the queue to the line.
LEMMA KolejnoCzytaj ==
    ASSUME KolejnoOK, LiniaOK, KolejkiOK, PetlaOK, Czytaj
    PROVE  KolejnoOK'
<1> DEFINE z == Head(rxKolejka)
<1>1. /\ petla = "odbior" /\ ~newData /\ petla' = petla
      /\ rxKolejka # <<>> /\ rxKolejka' = Tail(rxKolejka)
      /\ UNCHANGED <<wLocie, doWykonania, usterka>>
  BY DEF Czytaj, Wolno, read, apkaVars, PetlaOK
<1>2. /\ rxKolejka \in Seq(Bajty) /\ z \in Bajty /\ linia \in Seq(Bajty)
      /\ Tail(rxKolejka) \in Seq(Bajty)
  BY <1>1, OdczytaneTyp, HeadTailProperties DEF KolejkiOK
<1>3. Odczytane' = Append(linia, z)
  <2>1. CASE z = EndMarker
    BY <1>1, <2>1 DEF Czytaj, Linia, Odczytane
  <2>2. CASE z # EndMarker
    <3>1. newData' = newData /\ linia' = Append(linia, z)
      BY <2>2 DEF Czytaj
    <3>2. QED
      BY <1>1, <3>1 DEF Odczytane
  <2>3. QED
    BY <2>1, <2>2
<1>4. WDrodze' = WDrodze /\ (JednaNadaje => JednaNadaje')
  BY <1>1 DEF WDrodze, JednaNadaje
<1>5. Odczytane = linia
  BY <1>1 DEF Odczytane
<1> HIDE DEF z
<1>6. ASSUME JednaNadaje
      PROVE  Bieg' = Bieg
  <2> DEFINE r == Tail(rxKolejka)
             w == WDrodze
  <2>1. w \in Seq(Bajty)
    BY <1>6, WDrodzeJednej DEF WDrodzeOK, KolejkiOK, ApkaOK
  <2>2. rxKolejka = <<z>> \o r
    BY <1>1, <1>2 DEF z
  <2>3. Append(linia, z) = linia \o <<z>> /\ <<z>> \in Seq(Bajty)
    BY <1>2
  <2> HIDE DEF r, w
  <2>4. r \in Seq(Bajty) /\ r \o w \in Seq(Bajty)
    BY <1>2, <2>1, ConcatProperties DEF r
  <2>5. (<<z>> \o r) \o w = <<z>> \o (r \o w)
    BY <2>1, <2>3, <2>4, ConcatAssociative
  <2>6. linia \o (<<z>> \o (r \o w)) = (linia \o <<z>>) \o (r \o w)
    BY <1>2, <2>3, <2>4, ConcatAssociative
  <2>7. Bieg = linia \o ((<<z>> \o r) \o w)
    BY <1>5, <2>2 DEF Bieg, w
  <2>8. Bieg' = (linia \o <<z>>) \o (r \o w)
    BY <1>1, <1>3, <1>4, <2>3 DEF Bieg, r, w
  <2>9. QED
    BY <2>5, <2>6, <2>7, <2>8
<1>7. QED
  BY <1>1, <1>4, <1>6, KolejnoBezZmian DEF KolejnoOK

\* The loop carries out the line: it is the first command.
LEMMA KolejnoWykonaj ==
    ASSUME KolejnoOK, LiniaOK, KolejkiOK, PetlaOK, Wykonaj
    PROVE  KolejnoOK'
<1>1. /\ petla = "odbior" /\ newData = TRUE /\ linia' = <<>> /\ petla' # "odbior"
      /\ UNCHANGED <<rxKolejka, wLocie, usterka>>
  BY DEF Wykonaj, sppVars, apkaVars
<1>2. ApkaOK /\ RxKolejkaOK /\ doWykonania \in Seq(Komunikaty)
  BY DEF KolejkiOK, ApkaOK, RxKolejkaOK, KolejnoOK
<1>3. doWykonania' \in {doWykonania, <<>>, Tail(doWykonania)}
  BY DEF Wykonaj
<1>4. doWykonania' \in Seq(Komunikaty)
  <2>1. CASE doWykonania = <<>>
    <3>1. doWykonania' = <<>>
      BY <2>1 DEF Wykonaj
    <3>2. QED
      BY <3>1, EmptySeq
  <2>2. CASE doWykonania # <<>>
    BY <1>2, <1>3, <2>2, EmptySeq, HeadTailProperties
  <2>3. QED
    BY <2>1, <2>2
<1>5. ASSUME ~usterka
      PROVE  /\ JednaNadaje'
             /\ \A i \in 1 .. Len(doWykonania') : Len(Znaki[doWykonania'[i]]) < NumChars
             /\ Zlozony(Bieg', doWykonania')
  <2> DEFINE d == doWykonania
             r == rxKolejka \o WDrodze
  <2>1. /\ d # <<>> /\ linia = Znaki[d[1]] /\ Napis = Znaki[d[1]]
        /\ JednaNadaje /\ Zlozony(Bieg, d)
        /\ \A i \in 1 .. Len(d) : Len(Znaki[d[i]]) < NumChars
    BY <1>1, <1>2, <1>5, NapisPierwszego DEF KolejnoOK
  <2>2. Len(d) \in Nat /\ 1 \in 1 .. Len(d) /\ d[1] \in Komunikaty
    BY <1>2, <2>1, EmptySeq, ElementOfSeq
  <2>3. doWykonania' = Tail(d)
    BY <2>1, <2>2 DEF Wykonaj
  <2>4. r \in Seq(Bajty)
    BY <1>2, <2>1, WDrodzeJednej, ConcatProperties DEF WDrodzeOK, RxKolejkaOK
  <2>5. WDrodze' = WDrodze /\ JednaNadaje'
    BY <1>1, <2>1 DEF WDrodze, JednaNadaje
  <2>6. Bieg = Tekst(d[1]) \o r
    BY <1>1, <2>1 DEF Bieg, Odczytane, Tekst
  <2>7. Bieg' = r
    <3>1. Odczytane' = <<>>
      BY <1>1 DEF Odczytane
    <3>2. Bieg' = <<>> \o r
      BY <1>1, <2>5, <3>1 DEF Bieg
    <3> HIDE DEF r
    <3>3. QED
      BY <2>4, <3>2, ConcatEmptySeq
  <2> HIDE DEF r
  <2>8. Zlozony(Bieg', doWykonania')
    BY <1>2, <2>1, <2>3, <2>4, <2>6, <2>7, Zdjety
  <2>9. \A i \in 1 .. Len(doWykonania') : Len(Znaki[doWykonania'[i]]) < NumChars
    <3>1. Len(Tail(d)) = Len(d) - 1 /\ \A i \in 1 .. Len(Tail(d)) : Tail(d)[i] = d[i + 1]
      BY <1>2, <2>1, HeadTailProperties
    <3>2. \A i \in 1 .. Len(Tail(d)) : i + 1 \in 1 .. Len(d)
      BY <2>2, <3>1
    <3>3. QED
      BY <2>1, <2>3, <3>1, <3>2
  <2>10. QED
    BY <2>5, <2>8, <2>9
<1>6. QED
  BY <1>1, <1>4, <1>5 DEF KolejnoOK

\* Every step keeps the order of the commands.
LEMMA KolejnoKrok ==
    ASSUME KolejnoOK, LiniaOK, KolejkiOK, PetlaOK, [Next]_vars
    PROVE  KolejnoOK'
<1> DEFINE droga == <<rxKolejka, wLocie, linia, doWykonania, usterka>>
<1>1. ASSUME UNCHANGED droga, Odczytane' = Odczytane
      PROVE  KolejnoOK'
  <2>1. Bieg' = Bieg /\ (JednaNadaje => JednaNadaje')
    BY <1>1 DEF Bieg, WDrodze, JednaNadaje
  <2>2. QED
    BY <1>1, <2>1, KolejnoBezZmian DEF KolejnoOK
<1>2. CASE Czytaj
  BY <1>2, KolejnoCzytaj
<1>3. CASE Wykonaj
  BY <1>3, KolejnoWykonaj
<1>4. CASE Przebieg \/ BezLinii \/ Koniec \/ PoOdpowiedzi
  <2>1. UNCHANGED droga
    BY <1>4 DEF Przebieg, BezLinii, Koniec, PoOdpowiedzi, sppVars, apkaVars, kronikaVars
  <2>2. Odczytane' = Odczytane
    BY <1>4 DEF LiniaOK, Przebieg, BezLinii, Koniec, PoOdpowiedzi, kronikaVars, Odczytane
  <2>3. QED
    BY <1>1, <2>1, <2>2
<1>5. CASE Odpowiadaj
  <2>1. UNCHANGED droga /\ UNCHANGED <<petla, newData>>
    BY <1>5 DEF Odpowiadaj, write, BezKlienta, Wstaw, Odrzuc, sppVars, apkaVars, kronikaVars
  <2>2. QED
    BY <1>1, <2>1 DEF Odczytane
<1>6. CASE ZdarzenieStosu
  <2>1. UNCHANGED <<wLocie, linia, doWykonania, usterka, petla, newData>>
    BY <1>6 DEF ZdarzenieStosu, petlaVars, apkaVars, kronikaVars
  <2>2. UNCHANGED rxKolejka
    <3>1. Zadanie => UNCHANGED rxKolejka
      BY DEF Zadanie, Odbierz, Rozdziel, Kopiuj, Dolicz, Zapisz, Sprawdz, Nadaj, NieNadaj, Zatkane,
         Potwierdzone, BezPotwierdzenia, Dalej
    <3>2. Cong \/ WriteEvt => UNCHANGED rxKolejka
      BY DEF Cong, WriteEvt
    <3>3. ASSUME NEW h \in Uchwyty, SrvOpen(h)
          PROVE  UNCHANGED rxKolejka
      BY <3>3 DEF SrvOpen
    <3>4. QED
      BY <1>6, <3>1, <3>2, <3>3 DEF ZdarzenieStosu
  <2>3. QED
    BY <1>1, <2>1, <2>2 DEF Odczytane
<1>7. ASSUME NEW h \in Uchwyty, Wyslij(h) \/ Dane(h) \/ Rozlacz(h)
      PROVE  KolejnoOK'
  BY <1>7, KolejnoWyslij, KolejnoDane, KolejnoRozlacz
<1>8. CASE UNCHANGED vars
  <2>1. UNCHANGED droga /\ UNCHANGED <<petla, newData>>
    BY <1>8 DEF vars, sppVars, petlaVars, apkaVars, kronikaVars
  <2>2. QED
    BY <1>1, <2>1 DEF Odczytane
<1>9. QED
  BY <1>2, <1>3, <1>4, <1>5, <1>6, <1>7, <1>8 DEF Next, Petla

\* At the start nothing waits and nothing is on its way.
LEMMA KolejnoPoczatek == OdbiornikInit => KolejnoOK
<1> SUFFICES ASSUME OdbiornikInit
             PROVE  KolejnoOK
  OBVIOUS
<1>1. /\ linia = <<>> /\ rxKolejka = <<>> /\ doWykonania = <<>>
      /\ newData = FALSE /\ \A h \in Uchwyty : wLocie[h] = <<>>
  BY DEF OdbiornikInit, Init
<1>2. Bieg = <<>> /\ JednaNadaje
  BY <1>1 DEF Bieg, Odczytane, WDrodze, JednaNadaje
<1>3. Len(<<>>) = 0 /\ <<>> \in Seq(Komunikaty)
  BY EmptySeq
<1>4. Zlozony(<<>>, <<>>)
  <2> DEFINE k == [i \in 0 .. 0 |-> 0]
  <2>1. k \in [0 .. 0 -> 0 .. 0] /\ k[0] = 0 /\ \A i \in 0 .. 0 : i = 0
    OBVIOUS
  <2> HIDE DEF k
  <2>2. Ciag(<<>>, <<>>, k)
    BY <1>3, <2>1 DEF Ciag
  <2>3. QED
    BY <1>3, <2>1, <2>2 DEF Zlozony
<1>5. QED
  BY <1>1, <1>2, <1>3, <1>4 DEF KolejnoOK

\* As long as nothing is cut, mixed, discarded or too long, the loop carries out each
\* command once and in the order in which they were sent, however the bytes were
\* portioned and whenever the loop read them (loop(), receivedChars, deserializeJson).
THEOREM KazdePolecenieRaz == Spec => KazdeRaz
<1>1. IInv /\ LiniaOK /\ KolejnoOK /\ [Next]_vars => LiniaOK' /\ KolejnoOK'
  BY LiniaKrok, KolejnoKrok DEF IInv
<1>2. IInv /\ LiniaOK /\ KolejnoOK /\ [Next]_vars
         => [(Wykonaj /\ ~usterka) =>
                doWykonania # <<>> /\ Napis = Znaki[Head(doWykonania)]]_vars
  <2> SUFFICES ASSUME IInv, LiniaOK, KolejnoOK, Wykonaj, ~usterka
               PROVE  doWykonania # <<>> /\ Napis = Znaki[Head(doWykonania)]
    OBVIOUS
  <2>1. newData /\ petla = "odbior" /\ ApkaOK /\ RxKolejkaOK /\ PetlaOK
    BY DEF Wykonaj, IInv, KolejkiOK, ApkaOK, RxKolejkaOK
  <2>2. doWykonania # <<>> /\ Napis = Znaki[doWykonania[1]]
    BY <2>1, NapisPierwszego
  <2>3. doWykonania[1] = Head(doWykonania)
    BY <2>2 DEF KolejnoOK
  <2>4. QED
    BY <2>2, <2>3
<1>3. QED
  BY Niezmiennik, LiniaPoczatek, KolejnoPoczatek, <1>1, <1>2, PTL DEF Spec, KazdeRaz

-----------------------------------------------------------------------------
(* The bytes on their way out.  A byte is its number: those in the queue, of *)
(* the packet in hand and of the buffer follow one another.                  *)

\* The packets q hold the numbers from k + 1 to koniec; g says where each ends.
Kolejno(q, k, koniec, g) ==
    /\ g[0] = k /\ g[Len(q)] = koniec
    /\ \A i \in 1 .. Len(q) :
          /\ g[i] = g[i - 1] + Len(q[i])
          /\ \A j \in 1 .. Len(q[i]) : q[i][j] = g[i - 1] + j

KolejkaOd(q, k, koniec) == \E g \in [0 .. Len(q) -> Nat] : Kolejno(q, k, koniec, g)

\* The first n bytes of b grow from above pop to c, without a hole when ciagle.
Ulozone(b, n, pop, c, ciagle) ==
    /\ pop <= c
    /\ n > 0 => pop < b[0] /\ b[n - 1] <= c
    /\ \A i \in 1 .. n - 1 : b[i - 1] < b[i]
    /\ ciagle => c = pop + n /\ \A i \in 0 .. n - 1 : b[i] = pop + 1 + i

DoKopii == IF tx = "kopiuj" THEN wyslij.kopia ELSE <<>>

\* How much of the buffer is filled, the length being stored last of all.
Zajete ==
    CASE tx = "dolicz" -> dlugosc + Len(wyslij.kopia)
      [] tx = "zapisz" -> wyslij.suma
      [] OTHER         -> dlugosc

\* The buffer reaches to c, the packet in hand from there to k, the queue to nadane.
Porzadek(k, c) ==
    /\ KolejkaOd(txKolejka, k, nadane)
    /\ k = c + Len(DoKopii) + Len(wyslij.reszta)
    /\ \A j \in 1 .. Len(DoKopii) : DoKopii[j] = c + j
    /\ \A j \in 1 .. Len(wyslij.reszta) : wyslij.reszta[j] = c + Len(DoKopii) + j
    /\ Ulozone(bufor, Zajete, ostatni, c, ~stracone)

\* The rest of a packet is there only while its parts are sent, and a part that is
\* followed by a rest fills the buffer.
StrumienOK ==
    /\ ostatni \in Nat
    /\ tx = "odbior" \/ wyslij.powrot = "odbior" => wyslij.reszta = <<>>
    /\ ~zderzenie =>
          /\ tx \in {"kopiuj", "dolicz"} /\ wyslij.powrot = "dalej"
                => dlugosc + Len(wyslij.kopia) = TxMax
          /\ \E k, c \in Nat : Porzadek(k, c)

\* The elements of what is divided after n of them.
LEMMA PodzialElementy ==
    ASSUME NEW s \in Seq(Nat), NEW n \in 0 .. Len(s)
    PROVE  /\ Dziel(s, n)[1] \in Seq(Nat) /\ Len(Dziel(s, n)[1]) = n
           /\ Dziel(s, n)[2] \in Seq(Nat) /\ Len(Dziel(s, n)[2]) = Len(s) - n
           /\ \A j \in 1 .. n : Dziel(s, n)[1][j] = s[j]
           /\ \A j \in 1 .. Len(s) - n : Dziel(s, n)[2][j] = s[n + j]
<1>1. Len(s) \in Nat /\ \A i \in 1 .. Len(s) : s[i] \in Nat
  BY LenProperties, ElementOfSeq
<1>2. \A j \in 1 .. n : SubSeq(s, 1, n)[j] = s[j]
  <2>1. \A i \in 1 .. n : s[i] \in Nat
    BY <1>1
  <2>2. \A j \in 1 .. n - 1 + 1 : SubSeq(s, 1, n)[j] = s[1 + j - 1]
    BY <1>1, <2>1, SubSeqProperties
  <2>3. QED
    BY <1>1, <2>2
<1>3. /\ Len(SubSeq(s, n + 1, Len(s))) = Len(s) - n
      /\ \A j \in 1 .. Len(s) - n : SubSeq(s, n + 1, Len(s))[j] = s[n + j]
  <2>1. n + 1 \in Int /\ Len(s) \in Int /\ \A i \in n + 1 .. Len(s) : s[i] \in Nat
    BY <1>1
  <2>2. /\ Len(SubSeq(s, n + 1, Len(s))) = IF n + 1 <= Len(s) THEN Len(s) - (n + 1) + 1 ELSE 0
        /\ \A j \in 1 .. Len(s) - (n + 1) + 1 : SubSeq(s, n + 1, Len(s))[j] = s[n + 1 + j - 1]
    BY <2>1, SubSeqProperties
  <2>3. QED
    BY <1>1, <2>2
<1>4. QED
  BY <1>2, <1>3, Podzial DEF Dziel

\* A packet that is written follows the last one.
LEMMA KolejkaDopisana ==
    ASSUME NEW q \in Seq(Seq(Nat)), NEW k \in Nat, NEW o \in Nat, NEW n \in Nat,
           KolejkaOd(q, k, o)
    PROVE  KolejkaOd(Append(q, [i \in 1 .. n |-> o + i]), k, o + n)
<1> DEFINE p == [i \in 1 .. n |-> o + i]
           q2 == Append(q, p)
           l == Len(q)
<1>1. p \in Seq(Nat) /\ Len(p) = n /\ \A j \in 1 .. n : p[j] = o + j
  OBVIOUS
<1> HIDE DEF p
<1>2. l \in Nat /\ Len(q2) = l + 1 /\ (\A i \in 1 .. l : q2[i] = q[i]) /\ q2[l + 1] = p
  BY <1>1, EmptySeq, AppendProperties
<1>3. PICK g \in [0 .. l -> Nat] : Kolejno(q, k, o, g)
  BY DEF KolejkaOd
<1> HIDE DEF l, q2
<1> DEFINE g2 == [i \in 0 .. l + 1 |-> IF i <= l THEN g[i] ELSE o + n]
<1>4. /\ g2 \in [0 .. l + 1 -> Nat]
      /\ \A i \in 0 .. l : g2[i] = g[i]
      /\ g2[l + 1] = o + n
  BY <1>2
<1> HIDE DEF g2
<1>5. g[0] = k /\ g[l] = o
  BY <1>3 DEF Kolejno, l
<1>6. ASSUME NEW i \in 1 .. l + 1
      PROVE  /\ g2[i] = g2[i - 1] + Len(q2[i])
             /\ \A j \in 1 .. Len(q2[i]) : q2[i][j] = g2[i - 1] + j
  <2>1. CASE i = l + 1
    <3>1. i - 1 = l /\ l \in 0 .. l
      BY <1>2, <2>1
    <3>2. g2[i] = o + n /\ g2[i - 1] = o /\ q2[i] = p
      BY <1>2, <1>4, <1>5, <2>1, <3>1
    <3>3. QED
      BY <1>1, <3>2
  <2>2. CASE i # l + 1
    <3>1. i \in 1 .. l /\ i \in 0 .. l /\ i - 1 \in 0 .. l
      BY <1>2, <2>2
    <3>2. g2[i] = g[i] /\ g2[i - 1] = g[i - 1] /\ q2[i] = q[i]
      BY <1>2, <1>4, <3>1
    <3>3. QED
      BY <1>3, <3>1, <3>2 DEF Kolejno, l
  <2>3. QED
    BY <2>1, <2>2
<1>7. Kolejno(q2, k, o + n, g2)
  BY <1>2, <1>4, <1>5, <1>6 DEF Kolejno
<1>8. QED
  BY <1>2, <1>4, <1>7 DEF KolejkaOd, q2, p

\* A packet that is taken holds the numbers behind k.
LEMMA KolejkaZdjeta ==
    ASSUME NEW q \in Seq(Seq(Nat)), q # <<>>, NEW k \in Nat, NEW o \in Nat,
           KolejkaOd(q, k, o)
    PROVE  /\ Head(q) \in Seq(Nat) /\ Len(Head(q)) \in Nat
           /\ KolejkaOd(Tail(q), k + Len(Head(q)), o)
           /\ \A j \in 1 .. Len(Head(q)) : Head(q)[j] = k + j
<1> DEFINE q2 == Tail(q)
           l == Len(q)
<1>1. l \in Nat \ {0} /\ Len(q2) = l - 1 /\ \A i \in 1 .. l - 1 : q2[i] = q[i + 1]
  BY EmptySeq, HeadTailProperties
<1>2. Head(q) = q[1] /\ Head(q) \in Seq(Nat) /\ Len(Head(q)) \in Nat
  BY HeadTailProperties, EmptySeq
<1>3. PICK g \in [0 .. l -> Nat] : Kolejno(q, k, o, g)
  BY DEF KolejkaOd
<1> HIDE DEF q2
<1>4. g[0] = k /\ g[l] = o /\ g[1] = k + Len(Head(q))
      /\ \A j \in 1 .. Len(Head(q)) : Head(q)[j] = k + j
  <2>1. 1 \in 1 .. l /\ 1 - 1 = 0
    BY <1>1
  <2>2. QED
    BY <1>2, <1>3, <2>1 DEF Kolejno
<1> DEFINE g2 == [i \in 0 .. l - 1 |-> g[i + 1]]
<1>5. g2 \in [0 .. l - 1 -> Nat] /\ \A i \in 0 .. l - 1 : g2[i] = g[i + 1]
  BY <1>1
<1> HIDE DEF g2
<1>6. g2[0] = k + Len(Head(q)) /\ g2[l - 1] = o
  <2>1. 0 \in 0 .. l - 1 /\ l - 1 \in 0 .. l - 1 /\ 0 + 1 = 1 /\ (l - 1) + 1 = l
    BY <1>1
  <2>2. QED
    BY <1>4, <1>5, <2>1
<1>7. ASSUME NEW i \in 1 .. l - 1
      PROVE  /\ g2[i] = g2[i - 1] + Len(q2[i])
             /\ \A j \in 1 .. Len(q2[i]) : q2[i][j] = g2[i - 1] + j
  <2>1. /\ i + 1 \in 1 .. l /\ i \in 0 .. l - 1 /\ i - 1 \in 0 .. l - 1
        /\ (i + 1) - 1 = i /\ (i - 1) + 1 = i
    BY <1>1
  <2>2. g2[i] = g[i + 1] /\ g2[i - 1] = g[i] /\ q2[i] = q[i + 1]
    BY <1>1, <1>5, <2>1
  <2>3. /\ g[i + 1] = g[(i + 1) - 1] + Len(q[i + 1])
        /\ \A j \in 1 .. Len(q[i + 1]) : q[i + 1][j] = g[(i + 1) - 1] + j
    BY <1>3, <2>1 DEF Kolejno
  <2>4. QED
    BY <2>1, <2>2, <2>3
<1>8. Kolejno(q2, k + Len(Head(q)), o, g2)
  BY <1>1, <1>5, <1>6, <1>7 DEF Kolejno
<1>9. QED
  BY <1>1, <1>2, <1>4, <1>5, <1>8 DEF KolejkaOd, q2

\* A copy behind what the buffer holds continues it.
LEMMA UlozoneDolaczone ==
    ASSUME ZadanieOK, NEW n \in 0 .. TxMax, NEW dane \in Seq(Nat), n + Len(dane) <= TxMax,
           NEW pop \in Nat, NEW c \in Nat, NEW ciagle,
           Ulozone(bufor, n, pop, c, ciagle),
           \A j \in 1 .. Len(dane) : dane[j] = c + j
    PROVE  Ulozone(Wklejone(dane, n), n + Len(dane), pop, c + Len(dane), ciagle)
<1> DEFINE b == Wklejone(dane, n)
           d == Len(dane)
<1>1. d \in Nat /\ TxMax \in Nat /\ n \in Nat /\ n + d <= TxMax
  BY EmptySeq, Rozmiary
<1>2. \A i \in 0 .. TxMax - 1 :
         b[i] = IF i \in n .. n + d - 1 THEN dane[i - n + 1] ELSE bufor[i]
  BY DEF Wklejone
<1> HIDE DEF b, d
<1>3. ASSUME NEW i \in 0 .. n - 1
      PROVE  b[i] = bufor[i] /\ bufor[i] \in Nat
  <2>1. i \in 0 .. TxMax - 1 /\ i \notin n .. n + d - 1
    BY <1>1
  <2>2. QED
    BY <1>2, <2>1 DEF ZadanieOK
<1>4. ASSUME NEW i \in n .. n + d - 1
      PROVE  b[i] = c + (i - n) + 1
  <2>1. i \in 0 .. TxMax - 1 /\ i - n + 1 \in 1 .. d
    BY <1>1
  <2>2. b[i] = dane[i - n + 1] /\ dane[i - n + 1] = c + (i - n + 1)
    BY <1>2, <2>1 DEF d
  <2>3. QED
    BY <1>1, <2>2
<1>5. /\ pop <= c
      /\ n > 0 => pop < bufor[0] /\ bufor[n - 1] <= c
      /\ \A i \in 1 .. n - 1 : bufor[i - 1] < bufor[i]
      /\ ciagle => c = pop + n /\ \A i \in 0 .. n - 1 : bufor[i] = pop + 1 + i
  BY DEF Ulozone
<1>6. n + d > 0 => pop < b[0] /\ b[n + d - 1] <= c + d
  <2> SUFFICES ASSUME n + d > 0
               PROVE  pop < b[0] /\ b[n + d - 1] <= c + d
    OBVIOUS
  <2>1. pop < b[0]
    <3>1. CASE n > 0
      <4>1. 0 \in 0 .. n - 1
        BY <1>1, <3>1
      <4>2. QED
        BY <1>3, <1>5, <3>1, <4>1
    <3>2. CASE ~(n > 0)
      <4>1. n = 0 /\ 0 \in n .. n + d - 1
        BY <1>1, <3>2
      <4>2. b[0] = c + (0 - n) + 1
        BY <1>4, <4>1
      <4>3. QED
        BY <1>1, <1>5, <4>1, <4>2
    <3>3. QED
      BY <3>1, <3>2
  <2>2. b[n + d - 1] <= c + d
    <3>1. CASE d > 0
      <4>1. n + d - 1 \in n .. n + d - 1
        BY <1>1, <3>1
      <4>2. PICK x \in n .. n + d - 1 : x = n + d - 1
        BY <4>1
      <4>3. b[x] = c + (x - n) + 1
        BY <1>4
      <4>4. QED
        BY <1>1, <4>2, <4>3
    <3>2. CASE ~(d > 0)
      <4>1. d = 0 /\ n > 0 /\ n - 1 \in 0 .. n - 1 /\ n + d - 1 = n - 1 /\ c + d = c
        BY <1>1, <3>2
      <4>2. QED
        BY <1>3, <1>5, <4>1
    <3>3. QED
      BY <3>1, <3>2
  <2>3. QED
    BY <2>1, <2>2
<1>7. ASSUME NEW i \in 1 .. n + d - 1
      PROVE  b[i - 1] < b[i]
  <2>1. CASE i <= n - 1
    <3>1. i \in 1 .. n - 1 /\ i \in 0 .. n - 1 /\ i - 1 \in 0 .. n - 1
      BY <1>1, <2>1
    <3>2. QED
      BY <1>3, <1>5, <3>1
  <2>2. CASE i = n
    <3>1. n > 0 /\ n - 1 \in 0 .. n - 1 /\ n \in n .. n + d - 1 /\ i - 1 = n - 1
      BY <1>1, <2>2
    <3>2. b[i] = c + (n - n) + 1 /\ b[i - 1] = bufor[n - 1] /\ bufor[n - 1] \in Nat
          /\ bufor[n - 1] <= c
      BY <1>3, <1>4, <1>5, <2>2, <3>1
    <3>3. QED
      BY <1>1, <3>2
  <2>3. CASE i >= n + 1
    <3>1. i \in n .. n + d - 1 /\ i - 1 \in n .. n + d - 1
      BY <1>1, <2>3
    <3>2. b[i] = c + (i - n) + 1 /\ b[i - 1] = c + ((i - 1) - n) + 1
      BY <1>4, <3>1
    <3>3. QED
      BY <1>1, <3>2
  <2>4. QED
    BY <1>1, <2>1, <2>2, <2>3
<1>8. ASSUME ciagle
      PROVE  c + d = pop + (n + d) /\ \A i \in 0 .. n + d - 1 : b[i] = pop + 1 + i
  <2>1. c = pop + n
    BY <1>5, <1>8
  <2>2. ASSUME NEW i \in 0 .. n + d - 1
        PROVE  b[i] = pop + 1 + i
    <3>1. CASE i <= n - 1
      <4>1. i \in 0 .. n - 1
        BY <1>1, <3>1
      <4>2. QED
        BY <1>3, <1>5, <1>8, <4>1
    <3>2. CASE ~(i <= n - 1)
      <4>1. i \in n .. n + d - 1
        BY <1>1, <3>2
      <4>2. b[i] = c + (i - n) + 1
        BY <1>4, <4>1
      <4>3. QED
        BY <1>1, <2>1, <4>2
    <3>3. QED
      BY <3>1, <3>2
  <2>3. QED
    BY <1>1, <2>1, <2>2
<1>9. pop <= c + d
  BY <1>1, <1>5
<1>10. QED
  BY <1>6, <1>7, <1>8, <1>9 DEF Ulozone, b, d

\* A step that leaves the way out alone.
LEMMA StrumienBezZmian ==
    ASSUME StrumienOK, UNCHANGED <<txKolejka, nadane, bufor, dlugosc, tx, wyslij, ostatni,
                                   stracone, zderzenie>>
    PROVE  StrumienOK'
BY DEF StrumienOK, Porzadek, DoKopii, Zajete

\* A packet is queued.
LEMMA StrumienWstaw ==
    ASSUME StrumienOK, KolejkiOK, NEW n \in Nat, Wstaw(n)
    PROVE  StrumienOK'
<1>1. /\ txKolejka' = Append(txKolejka, [i \in 1 .. n |-> nadane + i])
      /\ nadane' = nadane + n
      /\ UNCHANGED <<bufor, dlugosc, tx, wyslij, ostatni, stracone, zderzenie>>
  BY DEF Wstaw, txVars
<1>2. ASSUME NEW k \in Nat, NEW c \in Nat, Porzadek(k, c)
      PROVE  Porzadek(k, c)'
  <2>1. KolejkaOd(txKolejka', k, nadane')
    BY <1>1, <1>2, KolejkaDopisana DEF KolejkiOK, Porzadek
  <2>2. QED
    BY <1>1, <1>2, <2>1 DEF Porzadek, DoKopii, Zajete
<1>3. QED
  BY <1>1, <1>2 DEF StrumienOK

\* A packet is taken: what fits is to be copied, what does not is to be divided.
LEMMA StrumienOdbierz ==
    ASSUME StrumienOK, ZadanieOK, KolejkiOK, Odbierz
    PROVE  StrumienOK'
<1> DEFINE p == Head(txKolejka)
           miesci == Len(p) <= TxMax - dlugosc
<1>1. /\ tx = "odbior" /\ txKolejka # <<>> /\ txKolejka' = Tail(txKolejka)
      /\ UNCHANGED <<bufor, dlugosc, nadane, ostatni, stracone, zderzenie>>
  BY DEF Odbierz, histVars
<1>2. /\ miesci => /\ wyslij'.kopia = p /\ wyslij'.reszta = <<>>
                   /\ wyslij'.powrot = "odbior" /\ tx' = "kopiuj"
      /\ ~miesci => /\ wyslij'.reszta = p
                    /\ wyslij'.powrot = "dalej" /\ tx' = "podziel"
  BY DEF Odbierz
<1>3. Len(p) \in Nat
  BY <1>1, HeadTailProperties, EmptySeq DEF KolejkiOK
<1> HIDE DEF miesci, p
<1>4. ASSUME NEW k \in Nat, NEW c \in Nat, Porzadek(k, c)
      PROVE  \E k2 \in Nat : Porzadek(k2, c)'
  <2>1. /\ DoKopii = <<>> /\ wyslij.reszta = <<>> /\ Zajete = dlugosc
        /\ miesci => DoKopii' = p
        /\ ~miesci => DoKopii' = <<>>
        /\ Zajete' = dlugosc
    BY <1>1, <1>2 DEF StrumienOK, DoKopii, Zajete
  <2>2. k = c
    <3>1. k = c + 0 + 0
      BY <1>4, <2>1 DEF Porzadek
    <3>2. QED
      BY <3>1
  <2>3. /\ KolejkaOd(txKolejka', k + Len(p), nadane')
        /\ \A j \in 1 .. Len(p) : p[j] = k + j
    BY <1>1, <1>4, KolejkaZdjeta DEF KolejkiOK, Porzadek, p
  <2>4. PICK k2 \in Nat : k2 = k + Len(p)
    BY <1>3
  <2>5. Ulozone(bufor', Zajete', ostatni', c, ~stracone')
    BY <1>1, <1>4, <2>1 DEF Porzadek
  <2>6. CASE miesci
    <3>1. DoKopii' = p /\ wyslij'.reszta = <<>> /\ Len(<<>>) = 0
      BY <1>2, <2>1, <2>6
    <3>2. k2 = c + Len(p) + 0
      BY <1>3, <2>2, <2>4
    <3>3. QED
      BY <2>2, <2>3, <2>4, <2>5, <3>1, <3>2 DEF Porzadek
  <2>7. CASE ~miesci
    <3>1. DoKopii' = <<>> /\ wyslij'.reszta = p /\ Len(<<>>) = 0
      BY <1>2, <2>1, <2>7
    <3>2. k2 = c + 0 + Len(p) /\ \A j \in 1 .. Len(p) : p[j] = c + 0 + j
      BY <1>3, <2>2, <2>3, <2>4
    <3>3. QED
      BY <2>3, <2>4, <2>5, <3>1, <3>2 DEF Porzadek
  <2>8. QED
    BY <2>6, <2>7
<1>5. tx' # "odbior" /\ (wyslij'.powrot = "odbior" => wyslij'.reszta = <<>>)
  BY <1>2
<1>6. ~(tx' \in {"kopiuj", "dolicz"} /\ wyslij'.powrot = "dalej")
  BY <1>2
<1>7. ~zderzenie' => \E k, c \in Nat : Porzadek(k, c)'
  BY <1>1, <1>4 DEF StrumienOK
<1>8. QED
  BY <1>1, <1>5, <1>6, <1>7 DEF StrumienOK

\* The packet in hand and its parts.
LEMMA StrumienRozdziel ==
    ASSUME StrumienOK, ZadanieOK, BajtyOK, Rozdziel
    PROVE  StrumienOK'
<1> DEFINE p == wyslij.reszta
           n == TxMax - dlugosc
           czesci == Podziel(p, n)
<1>1. /\ tx = "podziel" /\ tx' = "kopiuj"
      /\ wyslij' = [wyslij EXCEPT !.kopia = czesci[1], !.reszta = czesci[2]]
      /\ UNCHANGED <<txKolejka, bufor, dlugosc, nadane, ostatni, stracone, zderzenie>>
  BY DEF Rozdziel, histVars
<1>2. p \in Seq(Nat) /\ Len(p) \in Nat /\ n \in Nat /\ dlugosc + n = TxMax
  BY EmptySeq, Rozmiary DEF ZadanieOK, Zlecenia
<1>3. /\ wyslij'.kopia = czesci[1] /\ wyslij'.reszta = czesci[2]
      /\ wyslij'.powrot = "dalej"
  BY <1>1 DEF ZadanieOK, Zlecenia
<1>4. ~zderzenie => n \in 0 .. Len(p)
  BY <1>1, <1>2 DEF BajtyOK
<1> HIDE DEF n, p
<1>5. Len(czesci[1]) = n
  BY <1>2, PodzialTyp
<1>6. ~zderzenie =>
         /\ Len(czesci[2]) = Len(p) - n
         /\ \A j \in 1 .. n : czesci[1][j] = p[j]
         /\ \A j \in 1 .. Len(p) - n : czesci[2][j] = p[n + j]
  <2> SUFFICES ASSUME ~zderzenie
               PROVE  /\ Len(czesci[2]) = Len(p) - n
                      /\ \A j \in 1 .. n : czesci[1][j] = p[j]
                      /\ \A j \in 1 .. Len(p) - n : czesci[2][j] = p[n + j]
    OBVIOUS
  <2>1. n \in 0 .. Len(p) /\ n <= Len(p)
    BY <1>2, <1>4
  <2>2. czesci = Dziel(p, n)
    BY <2>1, PodzialWGranicach
  <2>3. QED
    BY <1>2, <2>1, <2>2, PodzialElementy
<1> HIDE DEF czesci
<1>7. ASSUME ~zderzenie, NEW k \in Nat, NEW c \in Nat, Porzadek(k, c)
      PROVE  Porzadek(k, c)'
  <2>1. /\ DoKopii = <<>> /\ Zajete = dlugosc
        /\ DoKopii' = czesci[1] /\ wyslij'.reszta = czesci[2] /\ Zajete' = dlugosc
    BY <1>1, <1>3 DEF DoKopii, Zajete
  <2>2. k = c + 0 + Len(p) /\ \A j \in 1 .. Len(p) : p[j] = c + 0 + j
    BY <1>7, <2>1 DEF Porzadek, p
  <2>3. Len(DoKopii') = n /\ Len(wyslij'.reszta) = Len(p) - n
    BY <1>5, <1>6, <1>7, <2>1
  <2>4. k = c + Len(DoKopii') + Len(wyslij'.reszta)
    <3>1. k = c + n + (Len(p) - n)
      BY <1>2, <2>2
    <3>2. QED
      BY <2>3, <3>1
  <2>5. \A j \in 1 .. Len(DoKopii') : DoKopii'[j] = c + j
    <3>1. \A j \in 1 .. n : j \in 1 .. Len(p) /\ c + 0 + j = c + j
      BY <1>2, <1>4, <1>7
    <3>2. QED
      BY <1>6, <1>7, <2>1, <2>2, <2>3, <3>1
  <2>6. \A j \in 1 .. Len(wyslij'.reszta) : wyslij'.reszta[j] = c + Len(DoKopii') + j
    <3>1. \A j \in 1 .. Len(p) - n : n + j \in 1 .. Len(p) /\ c + 0 + (n + j) = c + n + j
      BY <1>2, <1>4, <1>7
    <3>2. \A j \in 1 .. Len(p) - n : czesci[2][j] = c + n + j
      BY <1>6, <1>7, <2>2, <3>1
    <3>3. QED
      BY <2>1, <2>3, <3>2
  <2>7. Ulozone(bufor', Zajete', ostatni', c, ~stracone')
    BY <1>1, <1>7, <2>1 DEF Porzadek
  <2>8. KolejkaOd(txKolejka', k, nadane')
    BY <1>1, <1>7 DEF Porzadek
  <2>9. QED
    BY <2>4, <2>5, <2>6, <2>7, <2>8 DEF Porzadek
<1>8. dlugosc' + Len(wyslij'.kopia) = TxMax
  BY <1>1, <1>2, <1>3, <1>5
<1>9. QED
  BY <1>1, <1>3, <1>7, <1>8 DEF StrumienOK

\* The part is copied: the buffer reaches as far as the part did.
LEMMA StrumienKopiuj ==
    ASSUME StrumienOK, ZadanieOK, Kopiuj
    PROVE  StrumienOK'
<1> DEFINE l == Len(wyslij.kopia)
<1>1. /\ tx = "kopiuj" /\ tx' = "dolicz" /\ bufor' = Wklejone(wyslij.kopia, dlugosc)
      /\ UNCHANGED <<txKolejka, dlugosc, wyslij, nadane, ostatni, stracone, zderzenie>>
  BY DEF Kopiuj, histVars
<1>2. /\ wyslij.kopia \in Seq(Nat) /\ l \in Nat /\ dlugosc \in 0 .. TxMax
      /\ dlugosc + l <= TxMax
  BY <1>1, EmptySeq DEF ZadanieOK, Zlecenia
<1>3. ASSUME NEW k \in Nat, NEW c \in Nat, Porzadek(k, c)
      PROVE  \E c2 \in Nat : Porzadek(k, c2)'
  <2>1. /\ DoKopii = wyslij.kopia /\ Zajete = dlugosc
        /\ DoKopii' = <<>> /\ Zajete' = dlugosc + l
    BY <1>1 DEF DoKopii, Zajete
  <2>2. Ulozone(bufor', dlugosc + l, ostatni, c + l, ~stracone)
    BY <1>1, <1>2, <1>3, <2>1, UlozoneDolaczone DEF Porzadek, StrumienOK
  <2>3. PICK c2 \in Nat : c2 = c + l
    BY <1>2
  <2>4. /\ k = c2 + Len(wyslij.reszta)
        /\ \A j \in 1 .. Len(wyslij.reszta) : wyslij.reszta[j] = c2 + j
    BY <1>3, <2>1, <2>3 DEF Porzadek
  <2>5. Len(DoKopii') = 0 /\ c2 + 0 = c2
    BY <2>1
  <2>6. Porzadek(k, c2)'
    BY <1>1, <1>3, <2>1, <2>2, <2>3, <2>4, <2>5 DEF Porzadek
  <2>7. QED
    BY <2>6
<1>4. QED
  BY <1>1, <1>3 DEF StrumienOK

\* The length is counted and stored: as much as has been copied.
LEMMA StrumienDolicz ==
    ASSUME StrumienOK, ZadanieOK, Dolicz \/ Zapisz \/ Sprawdz
    PROVE  StrumienOK'
<1>1. UNCHANGED <<txKolejka, bufor, nadane, ostatni, stracone, zderzenie>>
  BY DEF Dolicz, Zapisz, Sprawdz, histVars
<1>2. /\ wyslij'.reszta = wyslij.reszta /\ wyslij'.powrot = wyslij.powrot
      /\ tx' \notin {"kopiuj", "dolicz"} /\ tx # "kopiuj" /\ tx # "odbior"
      /\ tx' = "odbior" => wyslij.powrot # "dalej"
  BY DEF Dolicz, Zapisz, Sprawdz, ZadanieOK, Zlecenia
<1>3. tx' = "odbior" \/ wyslij'.powrot = "odbior" => wyslij'.reszta = <<>>
  BY <1>2 DEF StrumienOK, ZadanieOK, Zlecenia
<1>4. ~zderzenie => Zajete' = Zajete
  <2>1. CASE Dolicz
    BY <2>1 DEF Dolicz, Zajete, StrumienOK, ZadanieOK, Zlecenia
  <2>2. CASE Zapisz
    BY <2>2 DEF Zapisz, Zajete
  <2>3. CASE Sprawdz
    BY <2>3 DEF Sprawdz, Zajete
  <2>4. QED
    BY <2>1, <2>2, <2>3
<1>5. DoKopii' = DoKopii
  BY <1>2 DEF DoKopii
<1>6. ASSUME ~zderzenie, NEW k \in Nat, NEW c \in Nat, Porzadek(k, c)
      PROVE  Porzadek(k, c)'
  BY <1>1, <1>2, <1>4, <1>5, <1>6 DEF Porzadek
<1>7. QED
  BY <1>1, <1>2, <1>3, <1>6 DEF StrumienOK

\* The stack takes the buffer: its last byte is the last one sent.
LEMMA StrumienNadaj ==
    ASSUME StrumienOK, ZadanieOK, Nadaj
    PROVE  StrumienOK'
<1>1. /\ tx = "wolne" /\ tx' = "ack" /\ dlugosc' = 0
      /\ ostatni' = IF dlugosc = 0 THEN ostatni ELSE bufor[dlugosc - 1]
      /\ UNCHANGED <<txKolejka, bufor, wyslij, nadane, stracone, zderzenie>>
  BY DEF Nadaj
<1>2. dlugosc \in 0 .. TxMax /\ TxMax \in Nat /\ ostatni \in Nat
  BY Rozmiary DEF ZadanieOK, StrumienOK
<1>3. ostatni' \in Nat
  <2>1. CASE dlugosc = 0
    BY <1>1, <1>2, <2>1
  <2>2. CASE dlugosc # 0
    <3>1. dlugosc - 1 \in 0 .. TxMax - 1
      BY <1>2, <2>2
    <3>2. QED
      BY <1>1, <2>2, <3>1 DEF ZadanieOK
  <2>3. QED
    BY <2>1, <2>2
<1>4. ASSUME NEW k \in Nat, NEW c \in Nat, Porzadek(k, c)
      PROVE  Porzadek(k, c)'
  <2>1. /\ DoKopii' = DoKopii /\ Zajete = dlugosc /\ Zajete' = 0
    BY <1>1 DEF DoKopii, Zajete
  <2>2. PICK o \in Nat : o = ostatni'
    BY <1>3
  <2>3. o <= c /\ (~stracone => c = o + 0)
    <3>1. /\ ostatni <= c
          /\ dlugosc > 0 => bufor[dlugosc - 1] <= c
          /\ ~stracone => /\ c = ostatni + dlugosc
                          /\ \A i \in 0 .. dlugosc - 1 : bufor[i] = ostatni + 1 + i
      BY <1>4, <2>1 DEF Porzadek, Ulozone
    <3>2. CASE dlugosc = 0
      BY <1>1, <1>2, <2>2, <3>1, <3>2
    <3>3. CASE dlugosc # 0
      <4>1. dlugosc - 1 \in 0 .. dlugosc - 1 /\ dlugosc > 0 /\ o = bufor[dlugosc - 1]
        BY <1>1, <1>2, <2>2, <3>3
      <4>2. o <= c /\ (~stracone => c = ostatni + dlugosc /\ o = ostatni + 1 + (dlugosc - 1))
        BY <3>1, <4>1
      <4>3. QED
        BY <1>2, <4>2
    <3>4. QED
      BY <3>2, <3>3
  <2>4. Ulozone(bufor', 0, o, c, ~stracone)
    BY <2>3 DEF Ulozone
  <2>5. QED
    BY <1>1, <1>4, <2>1, <2>2, <2>4 DEF Porzadek
<1>5. QED
  BY <1>1, <1>3, <1>4 DEF StrumienOK

\* _spp_send_buffer() returns: what is thrown away leaves a hole and nothing else.
LEMMA StrumienWroc ==
    ASSUME StrumienOK, ZadanieOK, NEW udane \in BOOLEAN, Wroc(udane), tx \in {"wolne", "ack"},
           UNCHANGED <<txKolejka, bufor, dlugosc, nadane, ostatni, zderzenie>>
    PROVE  StrumienOK'
<1> DEFINE r == IF udane THEN wyslij.reszta ELSE <<>>
<1>1. /\ wyslij' = [wyslij EXCEPT !.reszta = r] /\ tx' = wyslij.powrot
      /\ stracone' = (stracone \/ (~udane /\ wyslij.reszta # <<>>))
  BY DEF Wroc
<1>2. /\ wyslij.reszta \in Seq(Nat) /\ Len(wyslij.reszta) \in Nat
      /\ wyslij \in Zlecenia /\ wyslij.powrot \in {"odbior", "dalej"}
  BY EmptySeq DEF ZadanieOK, Zlecenia
<1>3. wyslij'.reszta = r /\ wyslij'.powrot = wyslij.powrot /\ wyslij'.kopia = wyslij.kopia
  BY <1>1, <1>2 DEF Zlecenia
<1>4. wyslij.powrot = "odbior" => wyslij'.reszta = <<>>
  BY <1>3 DEF StrumienOK
<1>5. ASSUME NEW k \in Nat, NEW c \in Nat, Porzadek(k, c)
      PROVE  \E c2 \in Nat : Porzadek(k, c2)'
  <2>1. /\ DoKopii = <<>> /\ DoKopii' = <<>> /\ Zajete = dlugosc /\ Zajete' = dlugosc
    BY <1>1, <1>2 DEF DoKopii, Zajete
  <2>2. /\ k = c + 0 + Len(wyslij.reszta)
        /\ Ulozone(bufor, dlugosc, ostatni, c, ~stracone)
        /\ \A j \in 1 .. Len(wyslij.reszta) : wyslij.reszta[j] = c + 0 + j
    BY <1>5, <2>1 DEF Porzadek
  <2>3. CASE r = wyslij.reszta
    <3>1. ~stracone' => ~stracone
      BY <1>1
    <3>2. Ulozone(bufor', dlugosc, ostatni', c, ~stracone')
      BY <2>2, <3>1 DEF Ulozone
    <3>3. wyslij'.reszta = wyslij.reszta
      BY <1>3, <2>3
    <3>4. Porzadek(k, c)'
      BY <1>5, <2>1, <3>2, <3>3 DEF Porzadek
    <3>5. QED
      BY <3>4
  <2>4. CASE r # wyslij.reszta
    <3>1. r = <<>> /\ stracone' /\ Len(r) = 0
      BY <1>1, <2>4
    <3>2. c <= k
      BY <1>2, <2>2
    <3>3. Ulozone(bufor', dlugosc, ostatni', k, ~stracone')
      <4>1. /\ ostatni <= c /\ (dlugosc > 0 => ostatni < bufor[0] /\ bufor[dlugosc - 1] <= c)
            /\ \A i \in 1 .. dlugosc - 1 : bufor[i - 1] < bufor[i]
        BY <2>2 DEF Ulozone
      <4>2. ostatni \in Nat /\ (dlugosc > 0 => bufor[dlugosc - 1] \in Nat)
        <5>1. dlugosc > 0 => dlugosc - 1 \in 0 .. TxMax - 1
          BY Rozmiary DEF ZadanieOK
        <5>2. QED
          BY <5>1 DEF ZadanieOK, StrumienOK
      <4>3. ostatni <= k /\ (dlugosc > 0 => bufor[dlugosc - 1] <= k)
        BY <3>2, <4>1, <4>2
      <4>4. QED
        BY <3>1, <4>1, <4>3 DEF Ulozone
    <3>4. k = k + 0 + 0
      OBVIOUS
    <3>5. wyslij'.reszta = <<>> /\ Len(wyslij'.reszta) = 0 /\ Len(DoKopii') = 0
      BY <1>3, <2>1, <3>1
    <3>6. KolejkaOd(txKolejka', k, nadane')
      BY <1>5 DEF Porzadek
    <3>7. Ulozone(bufor', Zajete', ostatni', k, ~stracone')
      BY <2>1, <3>3
    <3>8. Porzadek(k, k)'
      BY <2>1, <3>4, <3>5, <3>6, <3>7 DEF Porzadek
    <3>9. QED
      BY <3>8
  <2>5. QED
    BY <2>3, <2>4
<1> HIDE DEF r
<1>6. tx' \notin {"kopiuj", "dolicz"} /\ ostatni' \in Nat
  BY <1>1, <1>2 DEF StrumienOK
<1>7. ~zderzenie' => \E k, c \in Nat : Porzadek(k, c)'
  BY <1>5 DEF StrumienOK
<1>8. tx' = "odbior" \/ wyslij'.powrot = "odbior" => wyslij'.reszta = <<>>
  BY <1>1, <1>3, <1>4
<1>9. QED
  BY <1>6, <1>7, <1>8 DEF StrumienOK

\* The next part of a large packet goes to the empty buffer.
LEMMA StrumienDalej ==
    ASSUME StrumienOK, ZadanieOK, Dalej
    PROVE  StrumienOK'
<1>1. /\ tx = "dalej"
      /\ UNCHANGED <<txKolejka, dlugosc, nadane, ostatni, stracone, zderzenie>>
  BY DEF Dalej, histVars
<1>2. CASE wyslij.reszta = <<>>
  <2>1. tx' = "odbior" /\ UNCHANGED <<bufor, wyslij>>
    BY <1>2 DEF Dalej
  <2>2. DoKopii' = DoKopii /\ Zajete' = Zajete
    BY <1>1, <2>1 DEF DoKopii, Zajete
  <2>3. QED
    BY <1>1, <1>2, <2>1, <2>2 DEF StrumienOK, Porzadek
<1>3. CASE wyslij.reszta # <<>>
  <2> DEFINE s == wyslij.reszta
             pelny == Len(s) >= TxMax
             n == IF pelny THEN TxMax ELSE Len(s)
             czesci == Dziel(s, n)
             powrot == IF pelny THEN "dalej" ELSE "odbior"
  <2>1. s \in Seq(Nat) /\ Len(s) \in Nat /\ TxMax \in Nat /\ dlugosc = 0
    BY <1>1, <1>3, EmptySeq, Rozmiary DEF ZadanieOK, Zlecenia
  <2>2. n \in 0 .. Len(s) /\ n <= TxMax /\ (pelny => n = TxMax) /\ (~pelny => n = Len(s))
    BY <2>1
  <2>p. Podziel(s, n) = czesci
    BY <2>1, <2>2, PodzialWGranicach
  <2>3. /\ bufor' = Wklejone(czesci[1], 0)
        /\ wyslij' = [wyslij EXCEPT !.kopia = czesci[1], !.reszta = czesci[2],
                                    !.powrot = powrot]
        /\ tx' = "dolicz"
    BY <1>3, <2>p DEF Dalej
  <2>4. powrot = "odbior" => ~pelny
    OBVIOUS
  <2>5. powrot = "dalej" => pelny
    OBVIOUS
  <2> HIDE DEF n, pelny, powrot, s
  <2>6. /\ czesci[1] \in Seq(Nat) /\ Len(czesci[1]) = n
        /\ czesci[2] \in Seq(Nat) /\ Len(czesci[2]) = Len(s) - n
        /\ \A j \in 1 .. n : czesci[1][j] = s[j]
        /\ \A j \in 1 .. Len(s) - n : czesci[2][j] = s[n + j]
    BY <2>1, <2>2, PodzialElementy
  <2> HIDE DEF czesci
  <2>7. wyslij'.kopia = czesci[1] /\ wyslij'.reszta = czesci[2] /\ wyslij'.powrot = powrot
    BY <2>3 DEF ZadanieOK, Zlecenia
  <2>8. wyslij'.powrot = "odbior" => wyslij'.reszta = <<>>
    <3>1. ~pelny => Len(czesci[2]) = 0
      BY <2>1, <2>2, <2>6
    <3>2. QED
      BY <2>4, <2>6, <2>7, <3>1, EmptySeq
  <2>9. wyslij'.powrot = "dalej" => dlugosc' + Len(wyslij'.kopia) = TxMax
    BY <1>1, <2>1, <2>2, <2>5, <2>6, <2>7
  <2>10. ASSUME NEW k \in Nat, NEW c \in Nat, Porzadek(k, c)
         PROVE  \E c2 \in Nat : Porzadek(k, c2)'
    <3>1. /\ DoKopii = <<>> /\ DoKopii' = <<>> /\ Zajete = 0 /\ Zajete' = 0 + n
      BY <1>1, <2>1, <2>3, <2>6, <2>7 DEF DoKopii, Zajete
    <3>2. /\ k = c + 0 + Len(s) /\ \A j \in 1 .. Len(s) : s[j] = c + 0 + j
          /\ Ulozone(bufor, 0, ostatni, c, ~stracone)
      BY <2>10, <3>1 DEF Porzadek, s
    <3>3. \A j \in 1 .. Len(czesci[1]) : czesci[1][j] = c + j
      <4>1. \A j \in 1 .. n : j \in 1 .. Len(s) /\ c + 0 + j = c + j
        BY <2>1, <2>2
      <4>2. QED
        BY <2>6, <3>2, <4>1
    <3>4. 0 \in 0 .. TxMax /\ 0 + Len(czesci[1]) <= TxMax /\ ostatni \in Nat
      BY <2>1, <2>2, <2>6 DEF StrumienOK
    <3>5. Ulozone(Wklejone(czesci[1], 0), 0 + Len(czesci[1]), ostatni, c + Len(czesci[1]), ~stracone)
      BY <2>6, <3>2, <3>3, <3>4, UlozoneDolaczone
    <3>6. PICK c2 \in Nat : c2 = c + n
      BY <2>1, <2>2
    <3>7. Ulozone(bufor', Zajete', ostatni', c2, ~stracone')
      BY <1>1, <2>3, <2>6, <3>1, <3>5, <3>6
    <3>8. k = c2 + 0 + (Len(s) - n)
      BY <2>1, <2>2, <3>2, <3>6
    <3>9. \A j \in 1 .. Len(s) - n : czesci[2][j] = c2 + 0 + j
      <4>1. \A j \in 1 .. Len(s) - n : n + j \in 1 .. Len(s) /\ c + 0 + (n + j) = c2 + 0 + j
        BY <2>1, <2>2, <3>6
      <4>2. QED
        BY <2>6, <3>2, <4>1
    <3>10. Len(DoKopii') = 0
      BY <3>1
    <3>11. KolejkaOd(txKolejka', k, nadane')
      BY <1>1, <2>10 DEF Porzadek
    <3>12. Porzadek(k, c2)'
      BY <2>6, <2>7, <3>1, <3>7, <3>8, <3>9, <3>10, <3>11 DEF Porzadek
    <3>13. QED
      BY <3>12
  <2>11. QED
    BY <1>1, <2>3, <2>8, <2>9, <2>10 DEF StrumienOK
<1>4. QED
  BY <1>2, <1>3

\* A session begins: what the buffer held is lost, unless the task was filling it.
LEMMA StrumienSrvOpen ==
    ASSUME StrumienOK, ZadanieOK, NEW h \in Uchwyty, SrvOpen(h)
    PROVE  StrumienOK'
<1>1. UNCHANGED <<txKolejka, bufor, tx, wyslij, nadane, ostatni>>
  BY DEF SrvOpen
<1>2. CASE klient # Brak
  <2>1. UNCHANGED <<dlugosc, stracone, zderzenie>>
    BY <1>2 DEF SrvOpen
  <2>2. QED
    BY <1>1, <2>1, StrumienBezZmian
<1>3. CASE klient = Brak
  <2>1. /\ dlugosc' = 0
        /\ stracone' = (stracone \/ dlugosc > 0)
        /\ zderzenie' = (zderzenie \/ tx \in {"podziel", "kopiuj", "dolicz", "zapisz"})
    BY <1>3 DEF SrvOpen
  <2>2. ASSUME ~zderzenie', NEW k \in Nat, NEW c \in Nat, Porzadek(k, c)
        PROVE  Porzadek(k, c)'
    <3>1. /\ DoKopii' = DoKopii /\ Zajete = dlugosc /\ Zajete' = 0
      BY <1>1, <2>1, <2>2 DEF DoKopii, Zajete
    <3>2. Ulozone(bufor, dlugosc, ostatni, c, ~stracone)
      BY <2>2, <3>1 DEF Porzadek
    <3>3. Ulozone(bufor, 0, ostatni, c, ~stracone')
      <4>1. ostatni <= c /\ (~stracone => c = ostatni + dlugosc)
        BY <3>2 DEF Ulozone
      <4>2. ~stracone' => ~stracone /\ ~(dlugosc > 0)
        BY <2>1
      <4>3. dlugosc \in Nat /\ ostatni \in Nat
        BY Rozmiary DEF ZadanieOK, StrumienOK
      <4>4. ~(dlugosc > 0) => dlugosc = 0
        BY <4>3
      <4>5. QED
        BY <4>1, <4>2, <4>3, <4>4 DEF Ulozone
    <3>4. QED
      BY <1>1, <2>2, <3>1, <3>3 DEF Porzadek
  <2>3. ~zderzenie' => ~zderzenie /\ tx \notin {"kopiuj", "dolicz"}
    BY <2>1
  <2>4. QED
    BY <1>1, <2>2, <2>3 DEF StrumienOK
<1>4. QED
  BY <1>2, <1>3

\* Every step keeps the bytes in their order.
LEMMA StrumienKrok ==
    ASSUME StrumienOK, ZadanieOK, KolejkiOK, BajtyOK, [Next]_vars
    PROVE  StrumienOK'
<1> DEFINE wyjscie == <<txKolejka, nadane, bufor, dlugosc, tx, wyslij, ostatni,
                        stracone, zderzenie>>
<1>1. CASE Odpowiadaj
  <2>1. Head(zapisy) \in Nat
    BY <1>1, HeadTailProperties DEF Odpowiadaj, KolejkiOK
  <2>2. CASE Wstaw(Head(zapisy))
    BY <2>1, <2>2, StrumienWstaw
  <2>3. BezKlienta \/ Odrzuc => UNCHANGED wyjscie
    BY DEF BezKlienta, Odrzuc, sppVars, txVars, histVars
  <2>4. QED
    BY <1>1, <2>2, <2>3, StrumienBezZmian DEF Odpowiadaj, write
<1>2. CASE Przebieg \/ Czytaj \/ BezLinii \/ Wykonaj \/ PoOdpowiedzi \/ Koniec
  <2>1. UNCHANGED wyjscie
    BY <1>2 DEF Przebieg, Czytaj, BezLinii, Wykonaj, PoOdpowiedzi, Koniec, read, sppVars,
       txVars, histVars
  <2>2. QED
    BY <2>1, StrumienBezZmian
<1>3. CASE Odbierz
  BY <1>3, StrumienOdbierz
<1>4. CASE Kopiuj
  BY <1>4, StrumienKopiuj
<1>r. CASE Rozdziel
  BY <1>r, StrumienRozdziel
<1>5. CASE Dolicz \/ Zapisz \/ Sprawdz
  BY <1>5, StrumienDolicz
<1>6. CASE Nadaj
  BY <1>6, StrumienNadaj
<1>7. CASE NieNadaj \/ Zatkane \/ BezPotwierdzenia
  <2>1. /\ Wroc(FALSE) /\ tx \in {"wolne", "ack"}
        /\ UNCHANGED <<txKolejka, bufor, dlugosc, nadane, ostatni, zderzenie>>
    BY <1>7 DEF NieNadaj, Zatkane, BezPotwierdzenia
  <2>2. QED
    BY <2>1, StrumienWroc
<1>8. CASE Potwierdzone
  <2>1. /\ Wroc(TRUE) /\ tx \in {"wolne", "ack"}
        /\ UNCHANGED <<txKolejka, bufor, dlugosc, nadane, ostatni, zderzenie>>
    BY <1>8 DEF Potwierdzone
  <2>2. QED
    BY <2>1, StrumienWroc
<1>9. CASE Dalej
  BY <1>9, StrumienDalej
<1>10. ASSUME NEW h \in Uchwyty, SrvOpen(h)
       PROVE  StrumienOK'
  BY <1>10, StrumienSrvOpen
<1>11. ASSUME NEW h \in Uchwyty, Wyslij(h) \/ Dane(h) \/ Rozlacz(h)
       PROVE  StrumienOK'
  <2>1. UNCHANGED wyjscie
    BY <1>11 DEF Wyslij, Dane, DataInd, Rozlacz, Close, sppVars, txVars, histVars
  <2>2. QED
    BY <2>1, StrumienBezZmian
<1>12. CASE Cong \/ WriteEvt \/ UNCHANGED vars
  <2>1. UNCHANGED wyjscie
    BY <1>12 DEF Cong, WriteEvt, vars, sppVars, txVars, histVars
  <2>2. QED
    BY <2>1, StrumienBezZmian
<1> HIDE DEF wyjscie
<1>13. QED
  BY <1>1, <1>2, <1>3, <1>4, <1>5, <1>6, <1>7, <1>8, <1>9, <1>10, <1>11, <1>12, <1>r
     DEF Next, Petla, ZdarzenieStosu, Zadanie

\* At the start nothing has been written.
LEMMA StrumienPoczatek == OdbiornikInit => StrumienOK
<1> SUFFICES ASSUME OdbiornikInit
             PROVE  StrumienOK
  OBVIOUS
<1>1. /\ txKolejka = <<>> /\ nadane = 0 /\ ostatni = 0 /\ dlugosc = 0 /\ tx = "odbior"
      /\ wyslij = [kopia |-> <<>>, reszta |-> <<>>, suma |-> 0, powrot |-> "odbior"]
  BY DEF OdbiornikInit, Init
<1>2. KolejkaOd(<<>>, 0, 0)
  <2> DEFINE g == [i \in 0 .. 0 |-> 0]
  <2>1. g \in [0 .. 0 -> Nat] /\ g[0] = 0 /\ Len(<<>>) = 0
    OBVIOUS
  <2> HIDE DEF g
  <2>2. Kolejno(<<>>, 0, 0, g)
    BY <2>1 DEF Kolejno
  <2>3. QED
    BY <2>1, <2>2 DEF KolejkaOd
<1>3. DoKopii = <<>> /\ Zajete = 0 /\ wyslij.reszta = <<>> /\ Len(<<>>) = 0
  BY <1>1 DEF DoKopii, Zajete
<1>4. Ulozone(bufor, 0, 0, 0, ~stracone)
  BY DEF Ulozone
<1>5. Porzadek(0, 0)
  BY <1>1, <1>2, <1>3, <1>4 DEF Porzadek
<1>6. QED
  BY <1>1, <1>5 DEF StrumienOK

\* What is handed to the stack is what was written, in its order and without a repeat;
\* while no part of a packet and no session was lost, without a hole.  This is so for
\* every size of buffer, queue and packet (_spp_tx_task, _spp_send_buffer).
THEOREM StrumienZawsze == Spec => Strumien
<1>1. IInv /\ BajtyOK /\ StrumienOK /\ [Next]_vars => StrumienOK'
  BY StrumienKrok DEF IInv
<1>2. IInv /\ StrumienOK /\ [Next]_vars
         => [(wToku' > wToku /\ ~zderzenie) => Rosnie(ostatni)]_sppVars
  <2> SUFFICES ASSUME IInv, StrumienOK, [Next]_vars, wToku' > wToku, ~zderzenie
               PROVE  Rosnie(ostatni)
    OBVIOUS
  <2>1. wToku \in Nat
    BY DEF IInv, ZapisOK
  <2>2. Nadaj
    <3>1. wToku' = wToku => FALSE
      BY <2>1
    <3>2. Close(klient) => wToku' \in {wToku, 0}
      BY DEF Close
    <3>3. ASSUME NEW h \in Uchwyty, Wyslij(h) \/ Dane(h) \/ SrvOpen(h)
          PROVE  FALSE
      BY <3>1, <3>3 DEF Wyslij, Dane, DataInd, SrvOpen, sppVars
    <3>4. ASSUME NEW h \in Uchwyty, Rozlacz(h)
          PROVE  FALSE
      BY <2>1, <3>4 DEF Rozlacz, Close
    <3>5. Petla \/ Cong \/ UNCHANGED vars => FALSE
      BY <3>1 DEF Petla, Przebieg, Czytaj, BezLinii, Wykonaj, Odpowiadaj, PoOdpowiedzi,
         Koniec, read, write, BezKlienta, Wstaw, Odrzuc, Cong, vars, sppVars
    <3>6. WriteEvt => FALSE
      BY <2>1 DEF WriteEvt
    <3>7. Odbierz \/ Rozdziel \/ Kopiuj \/ Dolicz \/ Zapisz \/ Sprawdz \/ NieNadaj \/ Zatkane
             \/ Potwierdzone \/ BezPotwierdzenia \/ Dalej => FALSE
      BY <3>1 DEF Odbierz, Rozdziel, Kopiuj, Dolicz, Zapisz, Sprawdz, NieNadaj, Zatkane,
         Potwierdzone, BezPotwierdzenia, Dalej
    <3>8. QED
      BY <3>3, <3>4, <3>5, <3>6, <3>7 DEF Next, ZdarzenieStosu, Zadanie
  <2>3. PICK k \in Nat, c \in Nat : Porzadek(k, c)
    BY DEF StrumienOK
  <2>4. Zajete = dlugosc
    BY <2>2 DEF Nadaj, Zajete
  <2>5. /\ dlugosc > 0 => ostatni < bufor[0]
        /\ \A i \in 1 .. dlugosc - 1 : bufor[i - 1] < bufor[i]
        /\ ~stracone => \A i \in 0 .. dlugosc - 1 : bufor[i] = ostatni + 1 + i
    BY <2>3, <2>4 DEF Porzadek, Ulozone
  <2>6. dlugosc \in 0 .. TxMax /\ TxMax \in Nat /\ ostatni \in Nat
    BY Rozmiary DEF IInv, ZadanieOK, StrumienOK
  <2>7. ASSUME NEW i \in 0 .. dlugosc - 1
        PROVE  LET przed == IF i = 0 THEN ostatni ELSE bufor[i - 1]
               IN  bufor[i] > przed /\ (~stracone => bufor[i] = przed + 1)
    <3>1. bufor[i] \in Nat /\ (i # 0 => bufor[i - 1] \in Nat)
      <4>1. i \in 0 .. TxMax - 1 /\ (i # 0 => i - 1 \in 0 .. TxMax - 1)
        BY <2>6
      <4>2. QED
        BY <4>1 DEF IInv, ZadanieOK
    <3>2. CASE i = 0
      <4>1. dlugosc > 0
        BY <2>6, <3>2
      <4>2. ~stracone => bufor[0] = ostatni + 1 + 0
        BY <2>5, <3>2
      <4>3. QED
        BY <2>5, <2>6, <3>1, <3>2, <4>1, <4>2
    <3>3. CASE i # 0
      <4>1. i \in 1 .. dlugosc - 1 /\ i - 1 \in 0 .. dlugosc - 1
        BY <2>6, <3>3
      <4>2. bufor[i - 1] < bufor[i]
        BY <2>5, <4>1
      <4>3. ~stracone => bufor[i] = ostatni + 1 + i /\ bufor[i - 1] = ostatni + 1 + (i - 1)
        BY <2>5, <4>1
      <4>4. QED
        BY <2>6, <3>1, <3>3, <4>2, <4>3
    <3>4. QED
      BY <3>2, <3>3
  <2>8. QED
    BY <2>7 DEF Rosnie
<1>3. QED
  BY Niezmiennik, BajtyZawsze, StrumienPoczatek, <1>1, <1>2, PTL DEF Spec, Strumien
=============================================================================
