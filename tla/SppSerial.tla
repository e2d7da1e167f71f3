----------------------------- MODULE SppSerial -----------------------------
(***************************************************************************)
(* Class BdlBluetoothSerial in slave mode                                  *)
(* (src/src/wspolne/BdlBluetoothSerial.cpp): what the callbacks of the     *)
(* Bluetooth stack, the transmitting task spp_tx and the caller do to the  *)
(* shared globals of the file.                                             *)
(*                                                                         *)
(* Each step is what one of them does without looking at the globals of    *)
(* another in between; _spp_tx_buffer_len is not protected, so each read   *)
(* and each write of it by the task is a step of its own.  A byte to send  *)
(* is its number among the bytes write() accepted, and 0 when it was read  *)
(* from behind its packet.                                                 *)
(***************************************************************************)
EXTENDS Integers, Sequences, Functions

CONSTANTS
    Uchwyty,        \* handles of connections
    Brak,           \* no client (_spp_client = 0)
    TxMax,          \* SPP_TX_MAX (330)
    TxRozmiar,      \* TX_QUEUE_SIZE (32)
    RxRozmiar,      \* RX_QUEUE_SIZE (512)
    RozmiarT,       \* values of a size_t (2^32)
    MaxPolaczen     \* bound: connections opened

ASSUME SppAssumption ==
    /\ Brak \notin Uchwyty
    /\ TxMax \in Nat \ {0} /\ TxRozmiar \in Nat \ {0} /\ RxRozmiar \in Nat \ {0}
    /\ RozmiarT \in Nat \ {0}
    /\ MaxPolaczen \in Nat

VARIABLES
    klient,         \* _spp_client
    drugi,          \* secondConnectionAttempt
    bity,           \* _spp_event_group; CONGESTED set means: not congested
    lacza,          \* the stack: state of the link of each handle
    txKolejka,      \* _spp_tx_queue: packets, each the numbers of its bytes
    bufor,          \* _spp_tx_buffer
    dlugosc,        \* _spp_tx_buffer_len
    txDone,         \* _spp_tx_done
    tx,             \* where _spp_tx_task is
    wyslij,         \* its locals: bytes about to be copied, bytes after them,
                    \*   the length read for the sum, and where to go on
    wToku,          \* the stack: writes not yet reported by ESP_SPP_WRITE_EVT
    rxKolejka,      \* _spp_rx_queue
    nadane,         \* history: number of bytes write() accepted
    ostatni,        \* history: the last byte given to esp_spp_write()
    przekroczenia,  \* history: acknowledgements given up
    stracone,       \* history: bytes of a packet were thrown away
    zderzenie,      \* history: the buffer was reset while the task filled it
    polaczenia      \* history: connections opened

txVars == <<bufor, dlugosc, tx, wyslij>>
sesjaVars == <<klient, drugi, bity, lacza, polaczenia>>
histVars == <<nadane, ostatni, przekroczenia, stracone, zderzenie>>
sppVars == <<sesjaVars, txKolejka, txVars, txDone, wToku, rxKolejka, histVars>>

Otwarte == {h \in Uchwyty : lacza[h] # "zamkniety"}

\* _init_bt: the event group, the queues and an empty semaphore.
Init ==
    /\ klient = Brak
    /\ drugi = FALSE
    /\ bity = {"CONGESTED", "DISCONNECTED", "RUNNING"}
    /\ lacza = [h \in Uchwyty |-> "zamkniety"]
    /\ txKolejka = <<>>
    /\ bufor = [i \in 0 .. TxMax - 1 |-> 0]
    /\ dlugosc = 0
    /\ txDone = 0
    /\ tx = "odbior"
    /\ wyslij = [kopia |-> <<>>, reszta |-> <<>>, suma |-> 0, powrot |-> "odbior"]
    /\ wToku = 0
    /\ rxKolejka = <<>>
    /\ nadane = 0
    /\ ostatni = 0
    /\ przekroczenia = 0
    /\ stracone = FALSE
    /\ zderzenie = FALSE
    /\ polaczenia = 0

-----------------------------------------------------------------------------
(* esp_spp_cb: the callbacks, one task of the stack. *)

\* ESP_SPP_SRV_OPEN_EVT: the first connection becomes the client and the buffer is
\* reset; another one is disconnected.  Both set the bits.
SrvOpen(h) ==
    /\ lacza[h] = "zamkniety"
    /\ polaczenia < MaxPolaczen
    /\ polaczenia' = polaczenia + 1
    /\ IF klient = Brak
       THEN /\ klient' = h
            /\ dlugosc' = 0
            /\ lacza' = [lacza EXCEPT ![h] = "otwarty"]
            /\ stracone' = (stracone \/ dlugosc > 0)
            /\ zderzenie' = (zderzenie \/ tx \in {"podziel", "kopiuj", "dolicz", "zapisz"})
            /\ UNCHANGED drugi
       ELSE /\ drugi' = TRUE
            /\ lacza' = [lacza EXCEPT ![h] = "zamyka"]
            /\ UNCHANGED <<klient, dlugosc, stracone, zderzenie>>
    /\ bity' = (bity \ {"DISCONNECTED"}) \cup {"CONNECTED"}
    /\ UNCHANGED <<txKolejka, bufor, tx, wyslij, txDone, wToku, rxKolejka, nadane,
                   ostatni, przekroczenia>>

\* Fault: secondConnectionAttempt stays set.
CloseBezZerowania(h) ==
    /\ lacza[h] # "zamkniety"
    /\ lacza' = [lacza EXCEPT ![h] = "zamkniety"]
    /\ klient' = IF drugi THEN klient ELSE Brak
    /\ bity' = bity \ {"CONNECTED"}
    /\ UNCHANGED <<drugi, polaczenia, txKolejka, txVars, txDone, wToku, rxKolejka, histVars>>

\* ESP_SPP_CLOSE_EVT, of a link the peer, the program or the radio ended: a pending
\* second attempt takes it for its own, whichever link it was.  The stack may drop
\* what it had not yet reported.
Close(h) ==
    /\ lacza[h] # "zamkniety"
    /\ lacza' = [lacza EXCEPT ![h] = "zamkniety"]
    /\ drugi' = FALSE
    /\ IF drugi
       THEN klient' = klient /\ bity' = bity \ {"CONNECTED"}
       ELSE /\ klient' = Brak
            /\ bity' = (bity \cup {"DISCONNECTED", "CONGESTED"}) \ {"CONNECTED"}
    /\ wToku' \in {wToku, 0}
    /\ UNCHANGED <<polaczenia, txKolejka, txVars, txDone, rxKolejka, histVars>>

\* Fault: the end of congestion is taken for an acknowledgement.
CongZPotwierdzeniem ==
    /\ Otwarte # {}
    /\ \E cong \in BOOLEAN :
          bity' = IF cong THEN bity \ {"CONGESTED"} ELSE bity \cup {"CONGESTED"}
    /\ txDone' = 1
    /\ UNCHANGED <<klient, drugi, lacza, polaczenia, txKolejka, txVars, wToku,
                   rxKolejka, histVars>>

\* ESP_SPP_CONG_EVT: the bit is the opposite of its name.
Cong ==
    /\ Otwarte # {}
    /\ \E cong \in BOOLEAN :
          bity' = IF cong THEN bity \ {"CONGESTED"} ELSE bity \cup {"CONGESTED"}
    /\ UNCHANGED <<klient, drugi, lacza, polaczenia, txKolejka, txVars, txDone, wToku,
                   rxKolejka, histVars>>

\* ESP_SPP_WRITE_EVT, successful or not, maybe with congestion.
WriteEvt ==
    /\ wToku > 0
    /\ wToku' = wToku - 1
    /\ txDone' = 1
    /\ \E cong \in BOOLEAN :
          bity' = IF cong THEN bity \ {"CONGESTED"} ELSE bity
    /\ UNCHANGED <<klient, drugi, lacza, polaczenia, txKolejka, txVars, rxKolejka,
                   histVars>>

\* ESP_SPP_DATA_IND_EVT: what does not fit into the receive queue is discarded.
Zmiesci(dane) ==
    LET miejsce == RxRozmiar - Len(rxKolejka)
    IN  SubSeq(dane, 1, IF Len(dane) <= miejsce THEN Len(dane) ELSE miejsce)

DataInd(h, dane) ==
    /\ lacza[h] # "zamkniety"
    /\ rxKolejka' = rxKolejka \o Zmiesci(dane)
    /\ UNCHANGED <<sesjaVars, txKolejka, txVars, txDone, wToku, histVars>>

-----------------------------------------------------------------------------
(* _spp_tx_task. *)

\* memcpy() into the buffer.
Wklejone(dane, od) ==
    [i \in 0 .. TxMax - 1 |->
        IF i \in od .. od + Len(dane) - 1 THEN dane[i - od + 1] ELSE bufor[i]]

Dziel(dane, n) == <<SubSeq(dane, 1, n), SubSeq(dane, n + 1, Len(dane))>>

\* Bytes that are not the packet's, which memcpy() finds behind its end.
Obce(n) == [i \in 1 .. n |-> 0]

\* n bytes where fewer are left; the difference of the lengths is a size_t.
PozaKoniec(dane, n) ==
    <<dane \o Obce(n - Len(dane)), Obce((Len(dane) - n) % RozmiarT)>>

\* Fault: data is not moved on by what was taken of it.
PodzielBezPrzesuniecia(dane, n) ==
    IF n <= Len(dane) THEN <<SubSeq(dane, 1, n), SubSeq(dane, 1, Len(dane) - n)>>
                      ELSE PozaKoniec(dane, n)

\* data += to_send, len -= to_send.
Podziel(dane, n) == IF n <= Len(dane) THEN Dziel(dane, n) ELSE PozaKoniec(dane, n)

\* Fault: the packet is measured against the whole buffer.
OdbierzCalyBufor ==
    /\ tx = "odbior"
    /\ txKolejka # <<>>
    /\ LET pakiet == Head(txKolejka)
       IN  IF Len(pakiet) <= TxMax
           THEN /\ wyslij' = [kopia |-> pakiet, reszta |-> <<>>, suma |-> 0,
                              powrot |-> "odbior"]
                /\ tx' = "kopiuj"
           ELSE /\ wyslij' = [kopia |-> <<>>, reszta |-> pakiet, suma |-> 0,
                              powrot |-> "dalej"]
                /\ tx' = "podziel"
    /\ txKolejka' = Tail(txKolejka)
    /\ UNCHANGED <<sesjaVars, bufor, dlugosc, txDone, wToku, rxKolejka, histVars>>

\* xQueueReceive, and whether the packet fits into the rest of the buffer.
Odbierz ==
    /\ tx = "odbior"
    /\ txKolejka # <<>>
    /\ LET pakiet == Head(txKolejka)
       IN  IF Len(pakiet) <= TxMax - dlugosc
           THEN /\ wyslij' = [kopia |-> pakiet, reszta |-> <<>>, suma |-> 0,
                              powrot |-> "odbior"]
                /\ tx' = "kopiuj"
           ELSE /\ wyslij' = [kopia |-> <<>>, reszta |-> pakiet, suma |-> 0,
                              powrot |-> "dalej"]
                /\ tx' = "podziel"
    /\ txKolejka' = Tail(txKolejka)
    /\ UNCHANGED <<sesjaVars, bufor, dlugosc, txDone, wToku, rxKolejka, histVars>>

\* It does not: to_send is the room as it is read now.
Rozdziel ==
    /\ tx = "podziel"
    /\ LET czesci == Podziel(wyslij.reszta, TxMax - dlugosc)
       IN  wyslij' = [wyslij EXCEPT !.kopia = czesci[1], !.reszta = czesci[2]]
    /\ tx' = "kopiuj"
    /\ UNCHANGED <<sesjaVars, txKolejka, bufor, dlugosc, txDone, wToku, rxKolejka, histVars>>

\* memcpy() behind what the buffer holds.
Kopiuj ==
    /\ tx = "kopiuj"
    /\ bufor' = Wklejone(wyslij.kopia, dlugosc)
    /\ tx' = "dolicz"
    /\ UNCHANGED <<sesjaVars, txKolejka, dlugosc, wyslij, txDone, wToku, rxKolejka, histVars>>

\* The new length: a sum with the length read now, or SPP_TX_MAX.
Dolicz ==
    /\ tx = "dolicz"
    /\ wyslij' = [wyslij EXCEPT !.suma =
                     IF wyslij.powrot = "dalej" THEN TxMax ELSE dlugosc + Len(wyslij.kopia)]
    /\ tx' = "zapisz"
    /\ UNCHANGED <<sesjaVars, txKolejka, bufor, dlugosc, txDone, wToku, rxKolejka, histVars>>

\* It is stored; a part of a larger packet is sent then.
Zapisz ==
    /\ tx = "zapisz"
    /\ dlugosc' = wyslij.suma
    /\ tx' = IF wyslij.powrot = "dalej" THEN "wolne" ELSE "sprawdz"
    /\ UNCHANGED <<sesjaVars, txKolejka, bufor, wyslij, txDone, wToku, rxKolejka, histVars>>

\* Anything else is sent when the buffer is full or nothing more waits.
Sprawdz ==
    /\ tx = "sprawdz"
    /\ tx' = IF dlugosc = TxMax \/ txKolejka = <<>> THEN "wolne" ELSE "odbior"
    /\ UNCHANGED <<sesjaVars, txKolejka, bufor, dlugosc, wyslij, txDone, wToku,
                   rxKolejka, histVars>>

\* _spp_send_buffer() returns: false throws the rest of the packet away.
Wroc(udane) ==
    /\ tx' = wyslij.powrot
    /\ wyslij' = [wyslij EXCEPT !.reszta = IF udane THEN @ ELSE <<>>]
    /\ stracone' = (stracone \/ (~udane /\ wyslij.reszta # <<>>))

\* The stack takes the buffer, which is empty from then on (a reset between the two
\* comes to the same).
Nadaj ==
    /\ tx = "wolne"
    /\ "CONGESTED" \in bity
    /\ klient # Brak
    /\ wToku' = wToku + 1
    /\ ostatni' = IF dlugosc = 0 THEN ostatni ELSE bufor[dlugosc - 1]
    /\ dlugosc' = 0
    /\ tx' = "ack"
    /\ UNCHANGED <<sesjaVars, txKolejka, bufor, wyslij, txDone, rxKolejka, nadane,
                   przekroczenia, stracone, zderzenie>>

\* The client is gone, or esp_spp_write() fails: the buffer keeps what it holds.
NieNadaj ==
    /\ tx = "wolne"
    /\ "CONGESTED" \in bity
    /\ Wroc(FALSE)
    /\ UNCHANGED <<sesjaVars, txKolejka, bufor, dlugosc, txDone, wToku, rxKolejka,
                   nadane, ostatni, przekroczenia, zderzenie>>

\* Fault: the task waits for the end of the congestion for ever.
CzekajBezKonca == FALSE /\ UNCHANGED sppVars

\* SPP_CONGESTED_TIMEOUT.
Zatkane ==
    /\ tx = "wolne"
    /\ "CONGESTED" \notin bity
    /\ Wroc(FALSE)
    /\ UNCHANGED <<sesjaVars, txKolejka, bufor, dlugosc, txDone, wToku, rxKolejka,
                   nadane, ostatni, przekroczenia, zderzenie>>

\* The semaphore is taken: by the acknowledgement of this write or by a late one.
Potwierdzone ==
    /\ tx = "ack"
    /\ txDone = 1
    /\ txDone' = 0
    /\ Wroc(TRUE)
    /\ UNCHANGED <<sesjaVars, txKolejka, bufor, dlugosc, wToku, rxKolejka, nadane,
                   ostatni, przekroczenia, zderzenie>>

\* SPP_TX_DONE_TIMEOUT.
BezPotwierdzenia ==
    /\ tx = "ack"
    /\ txDone = 0
    /\ przekroczenia' = przekroczenia + 1
    /\ Wroc(FALSE)
    /\ UNCHANGED <<sesjaVars, txKolejka, bufor, dlugosc, txDone, wToku, rxKolejka,
                   nadane, ostatni, zderzenie>>

\* After a part of a large packet: another full buffer, the remainder (copied to the
\* beginning, counted with +=), or the end of the packet.
Dalej ==
    /\ tx = "dalej"
    /\ LET pelny == Len(wyslij.reszta) >= TxMax
           czesci == Podziel(wyslij.reszta, IF pelny THEN TxMax ELSE Len(wyslij.reszta))
       IN  IF wyslij.reszta = <<>>
           THEN tx' = "odbior" /\ UNCHANGED <<bufor, wyslij>>
           ELSE /\ bufor' = Wklejone(czesci[1], 0)
                /\ wyslij' = [wyslij EXCEPT
                                 !.kopia = czesci[1], !.reszta = czesci[2],
                                 !.powrot = IF pelny THEN "dalej" ELSE "odbior"]
                /\ tx' = "dolicz"
    /\ UNCHANGED <<sesjaVars, txKolejka, dlugosc, txDone, wToku, rxKolejka, histVars>>

Zadanie ==
    \/ Odbierz \/ Rozdziel \/ Kopiuj \/ Dolicz \/ Zapisz \/ Sprawdz
    \/ Nadaj \/ NieNadaj \/ Zatkane \/ Potwierdzone \/ BezPotwierdzenia \/ Dalej

-----------------------------------------------------------------------------
(* The methods the program calls. *)

\* write() of n bytes without a client: nothing is queued.
BezKlienta ==
    /\ klient = Brak
    /\ UNCHANGED sppVars

\* _spp_queue_packet.
Wstaw(n) ==
    /\ klient # Brak
    /\ Len(txKolejka) < TxRozmiar
    /\ txKolejka' = Append(txKolejka, [i \in 1 .. n |-> nadane + i])
    /\ nadane' = nadane + n
    /\ UNCHANGED <<sesjaVars, txVars, txDone, wToku, rxKolejka, ostatni, przekroczenia,
                   stracone, zderzenie>>

\* SPP_TX_QUEUE_TIMEOUT, or malloc() fails: the packet is not queued.
Odrzuc ==
    /\ klient # Brak
    /\ UNCHANGED sppVars

write(n) == BezKlienta \/ Wstaw(n) \/ Odrzuc

\* read() of the next byte.
read ==
    /\ rxKolejka # <<>>
    /\ rxKolejka' = Tail(rxKolejka)
    /\ UNCHANGED <<sesjaVars, txKolejka, txVars, txDone, wToku, histVars>>

-----------------------------------------------------------------------------
(* Properties of the port, whoever calls it. *)

\* The port keeps its types; the length stays within the buffer.
SppTypeOK ==
    /\ klient \in Uchwyty \cup {Brak}
    /\ drugi \in BOOLEAN
    /\ bity \subseteq {"RUNNING", "CONNECTED", "CONGESTED", "DISCONNECTED"}
    /\ lacza \in [Uchwyty -> {"zamkniety", "otwarty", "zamyka"}]
    /\ Len(txKolejka) <= TxRozmiar /\ Len(rxKolejka) <= RxRozmiar
    /\ bufor \in [0 .. TxMax - 1 -> Nat]
    /\ dlugosc \in 0 .. TxMax
    /\ txDone \in 0 .. 1
    /\ tx \in {"odbior", "podziel", "kopiuj", "dolicz", "zapisz", "sprawdz", "wolne",
               "ack", "dalej"}
    /\ wyslij.powrot \in {"odbior", "dalej"}
    /\ wyslij.suma \in 0 .. TxMax
    /\ wToku \in Nat /\ przekroczenia \in Nat
    /\ stracone \in BOOLEAN /\ zderzenie \in BOOLEAN

\* Whenever a new session resets the length of the buffer, no copy writes behind its
\* end, and the new length is that of what it holds.  No copy reads behind its
\* packet, unless a session began between the test of the room and the storing of
\* the new length: then one may.
KopieWGranicach ==
    /\ tx = "kopiuj" => dlugosc + Len(wyslij.kopia) <= TxMax
    /\ (tx = "dolicz" /\ wyslij.powrot = "odbior") => dlugosc + Len(wyslij.kopia) <= TxMax
    /\ ~zderzenie => 0 \notin Range(wyslij.kopia) \cup Range(wyslij.reszta)

\* However connections and second attempts come and go, and whichever link a close
\* event belonged to: as long as there is a client some link is still to be closed,
\* and a pending second attempt has one more.  So the port is free again when all
\* links are closed, and a new client gets in.
PortWraca ==
    /\ klient # Brak => Otwarte # {}
    /\ drugi => klient # Brak /\ \E g, h \in Otwarte : g # h

\* "we can try to send another packet": writes are not piled up in the stack.  One is
\* under way, and one more for each acknowledgement that was given up, because a late
\* one lets a later write through.
JedenZapis ==
    wToku + txDone <= przekroczenia + (IF tx = "ack" THEN 1 ELSE 0)

\* What is sent to the stack is what was written, in its order and without a repeat;
\* as long as no send failed over a large packet and no session began, without a hole.
\* (A new session that resets the buffer while the task fills it is excepted: the
\* buffer then holds bytes of the old one.)
Rosnie(poprzedni) ==
    \A i \in 0 .. dlugosc - 1 :
        LET przed == IF i = 0 THEN poprzedni ELSE bufor[i - 1]
        IN  bufor[i] > przed /\ (~stracone => bufor[i] = przed + 1)

Strumien == [][(wToku' > wToku /\ ~zderzenie) => Rosnie(ostatni)]_sppVars
=============================================================================
