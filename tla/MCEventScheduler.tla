------------------------- MODULE MCEventScheduler -------------------------
(* Two short chains with the code's own names: one the morning allows as a   *)
(* whole, one the afternoon cuts and the night does not.                     *)
EXTENDS EventScheduler, TLC

MCTypes == {"PurchaseOrderApproved", "SupplierShipmentCreated",
            "ShipmentReady", "CarrierAssigned"}
MCSuccessor == [e \in MCTypes |->
  CASE e = "PurchaseOrderApproved" -> "SupplierShipmentCreated"
    [] e = "ShipmentReady" -> "CarrierAssigned"
    [] OTHER -> NoType]
MCRank == [e \in MCTypes |->
  IF e \in {"PurchaseOrderApproved", "SupplierShipmentCreated"} THEN 0 ELSE 1]
MCGuarded == {"PurchaseOrderApproved"}
MCRoots == {"PurchaseOrderApproved", "ShipmentReady"}
MCWindows == {"morning", "afternoon", "night"}
MCAllowed == [w \in MCWindows |->
  CASE w = "morning" -> {"PurchaseOrderApproved", "SupplierShipmentCreated"}
    [] w = "afternoon" -> {"ShipmentReady"}
    [] w = "night" -> {"ShipmentReady", "CarrierAssigned"}]
\* Without the night two seeded chains fit the bounds; one chain meets all windows.
MCDay == {"morning", "afternoon"}
MCAllowedByDay == [w \in MCDay |-> MCAllowed[w]]
MCAggs == {"order", "shipment"}
MCAggAfter == [e \in MCTypes |-> [a \in MCAggs |->
  IF e = "SupplierShipmentCreated" THEN "shipment" ELSE a]]
MCOneAgg == {"order"}
MCSameAgg == [e \in MCTypes |-> [a \in MCOneAgg |-> a]]
MCSymmetry == Permutations(Corrs)
=============================================================================
