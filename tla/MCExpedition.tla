---------------------------- MODULE MCExpedition ----------------------------
(* Small instances of Expedition for TLC.                                   *)
EXTENDS Expedition

CONSTANTS l1, l2, l3, ann, bob, w1

\* Two requests of one Player, and one of another.
TwoOfAnn == [l \in Launches |-> IF l = l3 THEN bob ELSE ann]
=============================================================================
