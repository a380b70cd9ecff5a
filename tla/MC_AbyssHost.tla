---------------------------- MODULE MC_AbyssHost ----------------------------
(* Instances of AbyssHost for TLC; session s1 is older than the others.       *)
EXTENDS AbyssHost

CONSTANT s1

MCHostOf == [l \in Lsids |-> Local]

MCTimeOf == [s \in Sessions |-> IF s = s1 THEN 1 ELSE 2]
=============================================================================
