---------------------------- MODULE MCSessions ----------------------------
(***************************************************************************)
(* Two connections, used over and over, and two PCBs: the pool can run     *)
(* out, a client can be pushed out of the table by a newer one, and frames *)
(* can be joined.                                                          *)
(***************************************************************************)
EXTENDS Sessions

AllAbrupt == {"reset", "timeout"}
===========================================================================
