----------------------------- MODULE MCHwelTable -----------------------------
(* A small instance of HwelTable for TLC. *)
EXTENDS HwelTable, TLC

CONSTANTS s1, s2, a, b

\* One source gets past the largest byte, the other past its first array.
MCSetups == s1 :> 6 @@ s2 :> 3
=============================================================================
