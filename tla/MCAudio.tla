------------------------------ MODULE MCAudio ------------------------------
(***************************************************************************)
(* Constants for checking Audio with TLC.                                  *)
(***************************************************************************)
EXTENDS Audio, TLC

\* An effect and its end, the three modes, volumes (280 becomes 24 on its way to
\* the player, 31 is refused) and tracks, and objects that carry several keys
\* whose order matters.
MCPolecenia ==
    {"LO" :> 1, "LO" :> 0, "PG" :> 280, "PG" :> 31, "LG" :> 20, "TRYB" :> 0,
     "PO" :> 2 @@ "PW" :> 40, "TRYB" :> 2 @@ "LO" :> 1, "TRYB" :> 7 @@ "LO" :> 1,
     "TOR" :> 1 @@ "PG" :> 15 @@ "PO" :> 1 @@ "LO" :> 2}

\* A volume above 30 and an effect.
MCPoleceniaGlosne == {"PG" :> 31, "LO" :> 1}
=============================================================================
