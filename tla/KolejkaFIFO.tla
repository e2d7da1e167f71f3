---------------------------- MODULE KolejkaFIFO ----------------------------
(***************************************************************************)
(* What YtesAudioPolecenie promises to YtesAudio: a queue of commands that *)
(* a player carries out one at a time, the oldest first.  A command may be *)
(* refused (no memory), in which case the queue does not change.           *)
(***************************************************************************)
EXTENDS Integers, Sequences, SequencesExt

CONSTANTS
    Polecenia,  \* commands
    Brak        \* no command yet; not a command

VARIABLES
    kolejka,    \* the commands that wait, the oldest first
    wyslane     \* the command sent to the player last

vars == <<kolejka, wyslane>>

Init == kolejka = <<>> /\ wyslane = Brak

Dodaj ==
    /\ \E p \in Polecenia : kolejka' = Append(kolejka, p)
    /\ UNCHANGED wyslane

Usun ==
    /\ \E i \in DOMAIN kolejka : kolejka' = RemoveAt(kolejka, i)
    /\ UNCHANGED wyslane

Wykonaj ==
    /\ kolejka # <<>>
    /\ wyslane' = Head(kolejka)
    /\ kolejka' = Tail(kolejka)

Next == Dodaj \/ Usun \/ Wykonaj

Spec == Init /\ [][Next]_vars
=============================================================================
