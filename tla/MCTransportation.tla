-------------------------- MODULE MCTransportation --------------------------
(* A small fleet: the pools run empty at different times.                    *)
EXTENDS Transportation, TLC

CONSTANTS r1, r2, r3, r4

MCFleet == [k \in Kinds |-> IF k = "trailer" THEN 2 ELSE 3]
MCSymmetry == Permutations(Runs \ Outbound)
=============================================================================
