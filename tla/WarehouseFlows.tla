--------------------------- MODULE WarehouseFlows ---------------------------
(***************************************************************************)
(* Inbound and outbound runs over one warehouse, one run at a time, each   *)
(* free to stop between two generators.                                    *)
(***************************************************************************)
EXTENDS InboundFlow, OutboundFlow

inboundVars  == <<receipts>>
outboundVars == <<orders, allocations, picking>>
vars         == <<warehouseVars, inboundVars, outboundVars>>

Init == WarehouseInit /\ InboundInit /\ OutboundInit

\* A client's request is let through, a run ends, or a run is cut short.
StartsRun(r) ==
  /\ \E flow \in Flows : StartRun(r, flow)
  /\ UNCHANGED <<inventory, utilization, busy, todo, interrupts, inboundVars, outboundVars>>

EndsRun(r) == (RunnerExits(r) \/ Interrupt(r)) /\ UNCHANGED <<inboundVars, outboundVars>>

\* Every request of the bound has been served.
AllServed ==
  /\ \A r \in Runs : run[r].status \notin {"WAITING", "RUNNING"}
  /\ UNCHANGED vars

Next ==
  \/ \E r \in Runs : \/ StartsRun(r)
                     \/ InboundNext(r) /\ UNCHANGED outboundVars
                     \/ OutboundNext(r) /\ UNCHANGED inboundVars
                     \/ EndsRun(r)
  \/ AllServed

Spec == Init /\ [][Next]_vars

-----------------------------------------------------------------------------
(* Type.                                                                    *)

OutboundSteps == {"SeedInventory", "OrderCreated", "OrderItemCreated",
  "InventoryAllocationCreated", "InventoryReserved", "PickingTaskCreated",
  "PickingTaskStarted", "PickingCompleted", "PackingTaskCreated", "PackingTaskStarted",
  "PackingCompleted", "ShipmentReady", "Transportation"}

InboundSteps == {"PurchaseOrderCreated", "PurchaseOrderApproved", "SupplierShipmentCreated",
  "ASNReceived", "SupplierShipmentDelivered", "ReceivingTaskCreated",
  "ReceivingTaskStarted", "GoodsReceived", "StockIncreased", "InventoryPutaway"}

RunRecords ==
  [flow : Flows \cup {"none"}, stamp : Int,
   status : {"WAITING", "RUNNING", "SUCCESS", "FAILED", "INTERRUPTED"},
   step : OutboundSteps \cup InboundSteps \cup {"Exit", "none"}]

\* Every column holds a value of its domain; quantities are never negative.
TypeOK ==
  /\ inventory \in [Products -> InventoryRows]
  /\ utilization \in [Locations -> Nat]
  /\ busy \subseteq Workers
  /\ run \in [Runs -> RunRecords]
  /\ todo \subseteq Products \cup TaskIds
  /\ interrupts \in Nat
  /\ receipts \in [Runs -> Receipts]
  /\ orders \in [Runs -> Orders]
  /\ allocations \in [AllocationIds -> Allocations]
  /\ picking \in [TaskIds -> PickingTasks]

-----------------------------------------------------------------------------
(* Safety, whatever timestamps clients send.                                *)

Completed == {t \in TaskIds : picking[t].status = "COMPLETED"}

\* Stock is conserved: what is on hand of a product is what was seeded and
\* received less what completed picking tasks took.
StockIsConserved ==
  \A p \in Products :
    LET in  == Total([r \in Runs |-> receipts[r].lines[p]],
                     {r \in Runs : receipts[r].shipment = "RECEIVED"})
        out == Total([t \in TaskIds |-> Quantity(AllocationOf(t))],
                     {t \in Completed : AllocationOf(t)[2] = p})
        c   == inventory[p].creator
    IN  inventory[p].onHand =
          in - out + (IF c # 0 /\ run[c].flow = "outbound" THEN SeedQty ELSE 0)

\* A worker is BUSY exactly while a STARTED receiving task holds it: the only
\* way out is GoodsReceived of the run that started the task.
BusyWhileReceiving ==
  \A w \in Workers :
    w \in busy <=> \E r \in Runs : receipts[r].task = "STARTED" /\ receipts[r].worker = w

\* A run that ends well leaves its work finished: a received product lies AVAILABLE
\* at a location, or the order is delivered with every allocation picked, every
\* task completed and a package that holds at least what was ordered.
SuccessIsComplete ==
  [][\A r \in Runs : run[r].status = "RUNNING" /\ run'[r].status = "SUCCESS" =>
       IF run[r].flow = "inbound"
       THEN \A p \in Received(r) : /\ inventory[p].status = "AVAILABLE"
                                   /\ inventory[p].location # NoLocation
       ELSE /\ orders[r].status = "DELIVERED"
            /\ \A t \in TasksOf(r) : t \in Completed
            /\ \A p \in Ordered(r) : /\ allocations[<<r, p>>].status = "PICKED"
                                     /\ orders[r].package[p] >= orders[r].items[p]]_vars

\* The flows implement the ledger of promised and issued stock, in which no more
\* is promised of a product than there is of it.
Ledger == INSTANCE StockLedger WITH
  onHand   <- [p \in Products |-> inventory[p].onHand],
  reserved <- [p \in Products |-> inventory[p].reserved]

ImplementsLedger == Ledger!Spec

-----------------------------------------------------------------------------
(* Safety when runs carry the times of their requests: with the timestamps  *)
(* of its client (Stamps) a run may complete the picking of an older order  *)
(* in place of its own, and none of these holds: stock may be issued twice  *)
(* for an allocation at a location that holds none of it any more.          *)

\* reserved_quantity is what the RESERVED allocations of the product add up to.
ReservedIsAllocated ==
  \A p \in Products :
    inventory[p].reserved =
      Total([a \in AllocationIds |-> Quantity(a)], {a \in ReservedAllocations : a[2] = p})

\* Putaway never fills a location beyond its capacity, and the locations together
\* never claim more units than the warehouse holds.
UtilizationIsBacked ==
  /\ \A l \in Locations : utilization[l] \in 0..Capacity
  /\ Total(utilization, Locations)
       <= Total([p \in Products |-> inventory[p].onHand], Products)

\* The units of an allocation are taken from stock at most once, and exactly
\* when it is PICKED; a package holds its own order's items in the quantities
\* ordered.
PickedOnce ==
  /\ \A a \in AllocationIds :
       Cardinality({t \in Completed : AllocationOf(t) = a}) =
         (IF allocations[a].status = "PICKED" THEN 1 ELSE 0)
  /\ \A o \in Runs : orders[o].packing = "COMPLETED" => orders[o].package = orders[o].items

-----------------------------------------------------------------------------
(* What the repository says of the flows.                                   *)

\* simulator_schema.py:34, "a new value starts an independent run": an order that
\* has its stock reserved gets picking tasks, whatever became of other runs.
RunsAreIndependent ==
  [][\A r \in Runs : Running(r, "PickingTaskCreated") /\ run'[r] # run[r] =>
       run'[r].status # "FAILED"]_vars
=============================================================================
