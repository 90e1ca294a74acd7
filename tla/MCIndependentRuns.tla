------------------------- MODULE MCIndependentRuns -------------------------
(* A small instance of IndependentRuns: two API processes, a correlation id *)
(* shared by the three flows, and chains cut down to the transactions the   *)
(* service tells apart.                                                     *)
EXTENDS IndependentRuns, TLC

CONSTANTS t1, t2, p1, p2, s1, s2, c1

MCThreads   == {t1, t2}
MCProcesses == {p1, p2}
MCProcOf    == (t1 :> p1) @@ (t2 :> p2)
MCSims      == {s1, s2}
MCCorrs     == {c1}
MCChain     == [inbound        |-> <<"PurchaseOrderCreated", "InventoryPutaway">>,
                outbound       |-> <<"OrderCreated", "ShipmentReady", "CarrierAssigned">>,
                transportation |-> <<"SeedShipment", "CarrierAssigned">>]
=============================================================================
