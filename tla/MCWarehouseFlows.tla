-------------------------- MODULE MCWarehouseFlows --------------------------
(* Small instances of WarehouseFlows: one or two products, two locations    *)
(* too small for everything, one worker.                                    *)
EXTENDS WarehouseFlows, TLC

CONSTANTS p1, p2, l1, l2, w1

MCSymmetry == Permutations(Products)
=============================================================================
