-------------------------------- MODULE Zegar -------------------------------
(***************************************************************************)
(* The clock of the main loop, as the two halves of class YtesRadar read   *)
(* it: millis() and the time that the current pass has taken so far.       *)
(***************************************************************************)

CONSTANTS
    MaxPrzebieg,    \* bound: ticks in one pass of the loop
    Koniec          \* bound: value at which the clock stops

VARIABLES
    teraz,          \* millis()
    przebieg        \* history: ticks since this pass began
=============================================================================
