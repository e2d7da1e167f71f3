---------------------------- MODULE MCOdbiornik ----------------------------
(***************************************************************************)
(* Constants for checking Odbiornik (and SppSerial under it) with TLC.     *)
(***************************************************************************)
EXTENDS Odbiornik, TLC

\* A request, a farewell, and a command longer than the buffer.
MCZnaki == "DANE_PROSZE" :> <<"d1">> @@ "PAPA" :> <<"p1">>
           @@ "dlugi" :> <<"x1", "x2">>

\* A text longer than the transmit buffer, and the line end of println().
MCOdpowiedz == <<3, 1>>
=============================================================================
