------------------------------- MODULE MC_AND -------------------------------
(* Instances of AND for TLC.  Session s1 is the oldest of each peer; the      *)
(* others are created in one and the same millisecond.                       *)
EXTENDS AND

CONSTANTS s1, h1

MCHostOf == [l \in Lsids |-> h1]

MCTimeOf == [s \in Sessions |-> IF s = s1 THEN 1 ELSE 2]

Symmetry == Permutations(Peers) \cup Permutations(Sessions \ {s1})
=============================================================================
