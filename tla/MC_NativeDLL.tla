---------------------------- MODULE MC_NativeDLL ----------------------------
(* An instance of NativeDLL for TLC.                                          *)
EXTENDS NativeDLL, TLC

EachOnce == [k \in Kinds |-> 1]

Symmetry == Permutations(Threads)
=============================================================================
