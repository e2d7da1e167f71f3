----------------------------- MODULE Odbiornik -----------------------------
(***************************************************************************)
(* The reception of commands in loop() (src/RoboYtesHardware01.ino) over   *)
(* the port SppSerial: bytes are collected into receivedChars up to a line *)
(* end, the line is parsed and its command carried out, and an answer is   *)
(* written back while the stack and the task spp_tx go on.                 *)
(*                                                                         *)
(* A command is a member of Komunikaty and travels as the characters of    *)
(* Znaki, of which no command shares any, followed by EndMarker; a line is *)
(* valid JSON when it is the whole text of a command.  What naped, audio   *)
(* and ledy do with their part of it is in their own modules.              *)
(***************************************************************************)
EXTENDS SppSerial, FiniteSets

CONSTANTS
    Komunikaty,     \* what an application sends
    Znaki,          \* the text of each of them
    EndMarker,      \* endMarker
    NumChars,       \* numChars (512)
    Odpowiedz,      \* lengths of the two writes of bt.println(pelnaOdpowiedz())
    MaxWyslanych    \* bound: commands sent, each of them at most once

\* The character that ends a string.
NUL == "NUL"

ASSUME OdbiornikAssumption ==
    /\ {"DANE_PROSZE", "PAPA"} \subseteq Komunikaty
    /\ NumChars \in Nat \ {0}
    /\ \A m \in Komunikaty :
          /\ Znaki[m] \in Seq(STRING) /\ Znaki[m] # <<>>
          /\ \A i \in DOMAIN Znaki[m] : Znaki[m][i] \notin {NUL, EndMarker}
    /\ EndMarker \in STRING
    /\ Odpowiedz \in Seq(Nat)

VARIABLES
    petla,          \* where loop() is
    newData,        \* newData
    receivedChars,  \* receivedChars; NUL ends a string
    ndx,            \* ndx
    zapisy,         \* lengths println() has still to write
    audio,          \* robotSparowany, uwzglednijRadar and uwzglednijZyroskop
    wLocie,         \* what each link has still to deliver of a command
    wyslane,        \* history: commands sent
    linia,          \* history: characters read since the last line end
    doWykonania,    \* history: commands delivered whole and not yet carried out
    usterka         \* history: something was cut, mixed, discarded or too long

petlaVars == <<petla, newData, receivedChars, ndx, zapisy, audio>>
apkaVars == <<wLocie, wyslane>>
kronikaVars == <<linia, doWykonania, usterka>>
vars == <<sppVars, petlaVars, apkaVars, kronikaVars>>

Tekst(m) == Append(Znaki[m], EndMarker)

OdbiornikInit ==
    /\ Init
    /\ petla = "przebieg"
    /\ newData = FALSE
    /\ receivedChars = [i \in 0 .. NumChars - 1 |-> NUL]
    /\ ndx = 0
    /\ zapisy = <<>>
    /\ audio = [robotSparowany |-> FALSE, uwzglednijRadar |-> TRUE,
                uwzglednijZyroskop |-> TRUE]
    /\ wLocie = [h \in Uchwyty |-> <<>>]
    /\ wyslane = {}
    /\ linia = <<>>
    /\ doWykonania = <<>>
    /\ usterka = FALSE

-----------------------------------------------------------------------------
(* The application and the stack. *)

\* What is to be carried out is followed until the first fault.
Kronika(oczekiwane, blad) ==
    /\ usterka' = (usterka \/ blad)
    /\ doWykonania' = IF usterka' THEN <<>> ELSE oczekiwane

\* An application starts to send a command.
Wyslij(h) ==
    /\ lacza[h] = "otwarty"
    /\ wLocie[h] = <<>>
    /\ Cardinality(wyslane) < MaxWyslanych
    /\ \E m \in Komunikaty \ wyslane :
          /\ wyslane' = wyslane \cup {m}
          /\ wLocie' = [wLocie EXCEPT ![h] = Tekst(m)]
          /\ Kronika(Append(doWykonania, m),
                     \/ Len(Znaki[m]) >= NumChars
                     \/ \E g \in Uchwyty \ {h} : wLocie[g] # <<>>)
    /\ UNCHANGED <<sppVars, petlaVars, linia>>

\* The bytes arrive in portions.
Dane(h) ==
    /\ wLocie[h] # <<>>
    /\ \E n \in 1 .. Len(wLocie[h]) :
          LET czesci == Dziel(wLocie[h], n)
          IN  /\ DataInd(h, czesci[1])
              /\ wLocie' = [wLocie EXCEPT ![h] = czesci[2]]
              /\ Kronika(doWykonania, Zmiesci(czesci[1]) # czesci[1])
    /\ UNCHANGED <<petlaVars, wyslane, linia>>

\* A link that closes in the middle of a command cuts it.
Rozlacz(h) ==
    /\ Close(h)
    /\ wLocie' = [wLocie EXCEPT ![h] = <<>>]
    /\ Kronika(doWykonania, wLocie[h] # <<>>)
    /\ UNCHANGED <<petlaVars, wyslane, linia>>

ZdarzenieStosu ==
    /\ Cong \/ WriteEvt \/ (\E h \in Uchwyty : SrvOpen(h)) \/ Zadanie
    /\ UNCHANGED <<petlaVars, apkaVars, kronikaVars>>

-----------------------------------------------------------------------------
(* loop(). *)

\* The rest of a pass: the sensors and audioHandler() before the reception.
Przebieg ==
    /\ petla = "przebieg"
    /\ petla' = "odbior"
    /\ UNCHANGED <<sppVars, newData, receivedChars, ndx, zapisy, audio, apkaVars, kronikaVars>>

\* Faults: the limit is missed by one; ndx stays where it is at a line end; the loop
\* reads on after a line end.
NastepnyZaBufor(n) == n + 1

LiniaBezZerowania ==
    /\ receivedChars' = [receivedChars EXCEPT ![ndx] = NUL]
    /\ newData' = TRUE
    /\ UNCHANGED <<ndx, linia>>

ZawszeWolno == TRUE

\* ndx++, which never passes the last character.
Nastepny(n) == IF n + 1 >= NumChars THEN NumChars - 1 ELSE n + 1

\* At the line end the string is closed and ndx goes back to the beginning.
Linia ==
    /\ receivedChars' = [receivedChars EXCEPT ![ndx] = NUL]
    /\ ndx' = 0
    /\ newData' = TRUE
    /\ UNCHANGED linia

Wolno == newData = FALSE

\* while (bt.available() > 0 && newData == false): one character.
Czytaj ==
    /\ petla = "odbior"
    /\ Wolno
    /\ read
    /\ IF Head(rxKolejka) = EndMarker
       THEN Linia
       ELSE /\ receivedChars' = [receivedChars EXCEPT ![ndx] = Head(rxKolejka)]
            /\ ndx' = Nastepny(ndx)
            /\ linia' = Append(linia, Head(rxKolejka))
            /\ UNCHANGED newData
    /\ UNCHANGED <<petla, zapisy, audio, apkaVars, doWykonania, usterka>>

\* Nothing more to read and no line: the pass ends with naped->zatrzymaj().
BezLinii ==
    /\ petla = "odbior"
    /\ rxKolejka = <<>> /\ newData = FALSE
    /\ petla' = "przebieg"
    /\ UNCHANGED <<sppVars, newData, receivedChars, ndx, zapisy, audio, apkaVars, kronikaVars>>

\* receivedChars as a string of C.
Napis ==
    LET konce == {i \in 0 .. NumChars - 1 : receivedChars[i] = NUL}
        koniec == CHOOSE i \in konce : \A j \in konce : i <= j
    IN  [i \in 1 .. koniec |-> receivedChars[i - 1]]

stanPolaczony == audio' = [audio EXCEPT !.robotSparowany = TRUE]

stanNiePolaczony ==
    audio' = [robotSparowany |-> FALSE, uwzglednijRadar |-> FALSE,
              uwzglednijZyroskop |-> FALSE]

\* deserializeJson() and the test of "cmd".  A request for data is first answered.
Wykonaj ==
    /\ petla = "odbior"
    /\ newData = TRUE
    /\ linia' = <<>>
    /\ IF \E m \in Komunikaty : Znaki[m] = Napis
       THEN LET m == CHOOSE k \in Komunikaty : Znaki[k] = Napis
            IN  /\ doWykonania' = IF doWykonania = <<>> THEN <<>> ELSE Tail(doWykonania)
                /\ zapisy' = IF m = "DANE_PROSZE" THEN Odpowiedz ELSE <<>>
                /\ petla' = IF m = "DANE_PROSZE" THEN "odpowiedz" ELSE "koniec"
                /\ IF m = "PAPA" THEN stanNiePolaczony ELSE UNCHANGED audio
       ELSE /\ petla' = "koniec"
            /\ UNCHANGED <<doWykonania, zapisy, audio>>
    /\ UNCHANGED <<sppVars, newData, receivedChars, ndx, apkaVars, usterka>>

\* bt.println(): each of its writes waits for room in the queue or gives up.
Odpowiadaj ==
    /\ petla = "odpowiedz"
    /\ zapisy # <<>>
    /\ write(Head(zapisy))
    /\ zapisy' = Tail(zapisy)
    /\ UNCHANGED <<petla, newData, receivedChars, ndx, audio, apkaVars, kronikaVars>>

\* stanPolaczony(), whether the answer was queued or not.
PoOdpowiedzi ==
    /\ petla = "odpowiedz"
    /\ zapisy = <<>>
    /\ stanPolaczony
    /\ petla' = "koniec"
    /\ UNCHANGED <<sppVars, newData, receivedChars, ndx, zapisy, apkaVars, kronikaVars>>

\* Fault: newData is not reset.
KoniecBezZerowania ==
    /\ petla = "koniec"
    /\ petla' = "przebieg"
    /\ UNCHANGED <<sppVars, newData, receivedChars, ndx, zapisy, audio, apkaVars, kronikaVars>>

\* newData = false, and naped->zatrzymaj().
Koniec ==
    /\ petla = "koniec"
    /\ newData' = FALSE
    /\ petla' = "przebieg"
    /\ UNCHANGED <<sppVars, receivedChars, ndx, zapisy, audio, apkaVars, kronikaVars>>

Petla == Przebieg \/ Czytaj \/ BezLinii \/ Wykonaj \/ Odpowiadaj \/ PoOdpowiedzi \/ Koniec

Next ==
    \/ Petla
    \/ ZdarzenieStosu
    \/ \E h \in Uchwyty : Wyslij(h) \/ Dane(h) \/ Rozlacz(h)

Spec == OdbiornikInit /\ [][Next]_vars

\* The scheduler runs the loop and the task spp_tx, whose waits all end.  Nothing is
\* assumed of the stack and of the application.
SpecZywa ==
    /\ Spec
    /\ WF_vars(Petla)
    /\ WF_vars(Zadanie /\ UNCHANGED <<petlaVars, apkaVars, kronikaVars>>)

-----------------------------------------------------------------------------
(* Properties. *)

Znak == UNION {{Znaki[m][i] : i \in DOMAIN Znaki[m]} : m \in Komunikaty}

\* The fields keep their types and ndx never leaves the buffer.
TypeOK ==
    /\ SppTypeOK
    /\ petla \in {"przebieg", "odbior", "odpowiedz", "koniec"}
    /\ newData \in BOOLEAN
    /\ receivedChars \in [0 .. NumChars - 1 -> Znak \cup {NUL}]
    /\ ndx \in 0 .. NumChars - 1
    /\ audio \in [robotSparowany : BOOLEAN, uwzglednijRadar : BOOLEAN,
                  uwzglednijZyroskop : BOOLEAN]
    /\ wyslane \subseteq Komunikaty
    /\ usterka \in BOOLEAN

\* A line end finds in receivedChars exactly the characters since the one before it,
\* the first numChars - 1 of them when there are more: whatever arrives in whatever
\* portions, no character of an older line is left among them.
Poczatek(s, n) == SubSeq(s, 1, IF Len(s) <= n THEN Len(s) ELSE n)

WierszWierny ==
    newData /\ petla = "odbior" => Napis = Poczatek(linia, NumChars - 1)

\* While nothing is cut, mixed, discarded or too long, the commands are carried out
\* as they were sent: each of them, once, in their order, and none is taken for an
\* error.
KazdeRaz ==
    [][(Wykonaj /\ ~usterka) =>
            doWykonania # <<>> /\ Napis = Znaki[Head(doWykonania)]]_vars

\* Whatever the peer does (silence, congestion for ever, a lost link in the middle of
\* an answer), the loop gets on with its passes, and with them naped->zatrzymaj():
\* what was received is used up.
RxOprozniana == rxKolejka # <<>> ~> rxKolejka = <<>>

\* ... and the task drains its queue, sending or giving up.
TxOprozniana == []<>(txKolejka = <<>>)
=============================================================================
