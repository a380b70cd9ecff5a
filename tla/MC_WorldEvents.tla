--------------------------- MODULE MC_WorldEvents ---------------------------
(* An instance of WorldEvents for TLC: a thread of its own reads each world. *)
EXTENDS WorldEvents, TLC

CONSTANTS w1, w2, r1, r2

MCReaderOf == (w1 :> r1) @@ (w2 :> r2)

MCMaxEvents == (w1 :> 2) @@ (w2 :> 0)
=============================================================================
