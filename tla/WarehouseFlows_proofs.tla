------------------------ MODULE WarehouseFlows_proofs ------------------------
(***************************************************************************)
(* Proofs about WarehouseFlows, for any products, locations, workers,      *)
(* quantities and number of runs: what every column may hold, who holds a  *)
(* worker, that no stock is promised or issued twice, that the locations   *)
(* count no more than the warehouse has, what a run that ended well has    *)
(* done, that every generator finds what it looks for, and why runs fail.  *)
(***************************************************************************)
EXTENDS WarehouseFlows, Warehouse_proofs

\* How far the outbound run o has come: before it ordered, allocated, reserved
\* and assigned anything.
Unordered(o) ==
  run[o].flow # "outbound" \/ run[o].step \in {"SeedInventory", "OrderCreated", "OrderItemCreated"}

Unallocated(o) == Unordered(o) \/ run[o].step = "InventoryAllocationCreated"

Unreserved(o) == Unallocated(o) \/ run[o].step = "InventoryReserved"

Unassigned(o) == Unreserved(o) \/ Running(o, "PickingTaskCreated")

\* Generators that run once an order is picked, and once it has picking tasks.
Packing == {"PackingTaskStarted", "PackingCompleted", "ShipmentReady", "Transportation", "Exit"}

Assigned == Packing \cup {"PickingTaskStarted", "PickingCompleted", "PackingTaskCreated"}

\* Runs start in order, one at a time, and stay in their flow.
RunInv ==
  \A r \in Runs :
    /\ run[r].status = "WAITING" <=> run[r].flow = "none"
    /\ run[r].flow = "none" <=> run[r].step = "none"
    /\ run[r].flow = "inbound" => run[r].step \in InboundSteps \cup {"Exit"}
    /\ run[r].flow = "outbound" => run[r].step \in OutboundSteps \cup {"Exit"}
    /\ run[r].status = "RUNNING" => \A q \in Runs : q # r => run[q].status # "RUNNING"
    /\ run[r].status \in {"WAITING", "RUNNING"} =>
         \A q \in Runs : q > r => run[q].status = "WAITING"

\* What the step a run stands at says of its receipt.
ReceiptInv ==
  \A r \in Runs :
    /\ receipts[r].shipment = "RECEIVED" <=>
         /\ run[r].flow = "inbound"
         /\ run[r].step \in {"StockIncreased", "InventoryPutaway", "Exit"}
    /\ receipts[r].task = "STARTED" <=> run[r].step = "GoodsReceived"
    /\ receipts[r].task # "NONE" => receipts[r].worker \in Workers

\* A worker who is assigned is free until the task starts, and is held by one task.
WorkerInv ==
  /\ BusyWhileReceiving
  /\ \A r \in Runs : Running(r, "ReceivingTaskStarted") =>
       receipts[r].worker \in Workers \ busy
  /\ \A q, r \in Runs : receipts[q].task = "STARTED" /\ receipts[r].task = "STARTED"
       /\ receipts[q].worker = receipts[r].worker => q = r

\* Stock without a row is blank; no more is reserved than there is.
StockInv ==
  \A p \in Products :
    /\ inventory[p].creator = 0 => inventory[p] = NoRow
    /\ inventory[p].creator # 0 => run[inventory[p].creator].flow # "none"
    /\ inventory[p].reserved <= inventory[p].onHand

\* What the step a run stands at says of its order's items and allocations.
AllocationInv ==
  \A o \in Runs, p \in Products :
    LET a == allocations[<<o, p>>]
        q == orders[o].items[p]
    IN  /\ Unordered(o) => q = 0
        /\ Unallocated(o) => a.status = "NONE"
        /\ Unreserved(o) => a.status \in {"NONE", "ALLOCATED"}
        /\ a.status # "NONE" => q > 0 /\ a.location \in Locations
        /\ ~Unallocated(o) /\ q > 0 => a.status # "NONE"
        /\ ~Unreserved(o) /\ q > 0 => a.status \in {"RESERVED", "PICKED"}

\* A picking task works on stock that is reserved, and completing it picks it.
TaskInv ==
  \A t \in TaskIds :
    /\ picking[t].status # "NONE" => allocations[t[2]].status \in {"RESERVED", "PICKED"}
    /\ picking[t].status = "COMPLETED" => allocations[t[2]].status = "PICKED"
    /\ Unassigned(t[1]) => picking[t].status = "NONE"

\* What the runner's loops iterate over.
TodoInv ==
  \A r \in Runs : run[r].status = "RUNNING" =>
    /\ run[r].step \in {"StockIncreased", "InventoryPutaway"} => todo \subseteq Received(r)
    /\ run[r].step \in {"PickingTaskStarted", "PickingCompleted"} => todo \subseteq TaskIds

IInv == /\ TypeOK /\ RunInv /\ ReceiptInv /\ WorkerInv /\ StockInv /\ AllocationInv /\ TaskInv
        /\ TodoInv

\* One step of run r.
Step(r) ==
  \/ StartsRun(r)
  \/ InboundNext(r) /\ UNCHANGED outboundVars
  \/ OutboundNext(r) /\ UNCHANGED inboundVars
  \/ EndsRun(r)

-----------------------------------------------------------------------------
(* Frames.                                                                  *)

\* Which generators write which table.
LEMMA Frames ==
  ASSUME NEW r \in Runs, Step(r)
  PROVE  /\ \/ inventory' = inventory
            \/ SeedInventory(r) \/ GoodsReceived(r) \/ StockIncreased(r)
            \/ InventoryPutaway(r) \/ InventoryReserved(r) \/ PickingCompleted(r)
         /\ utilization' = utilization \/ InventoryPutaway(r) \/ PickingCompleted(r)
         /\ busy' = busy \/ ReceivingTaskStarted(r) \/ GoodsReceived(r)
         /\ receipts' = receipts \/ InboundNext(r)
         /\ \/ orders' = orders
            \/ OrderCreated(r) \/ OrderItemCreated(r) \/ PackingTaskCreated(r)
            \/ PackingTaskStarted(r) \/ PackingCompleted(r) \/ ShipmentReady(r) \/ Transportation(r)
         /\ \/ allocations' = allocations
            \/ InventoryAllocationCreated(r) \/ InventoryReserved(r) \/ PickingCompleted(r)
         /\ \/ picking' = picking
            \/ PickingTaskCreated(r) \/ PickingTaskStarted(r) \/ PickingCompleted(r)
  <1> USE DEF inboundVars, outboundVars
  <1>1. CASE StartsRun(r)
    BY <1>1 DEF StartsRun
  <1>2. CASE EndsRun(r)
    BY <1>2 DEF EndsRun, RunnerExits, Interrupt
  <1>3. CASE InboundNext(r) /\ UNCHANGED outboundVars
    <2>1. UNCHANGED <<orders, allocations, picking>>
      BY <1>3
    <2>2. \/ inventory' = inventory
          \/ GoodsReceived(r) \/ StockIncreased(r) \/ InventoryPutaway(r)
      BY <1>3 DEF InboundNext, PurchaseOrderCreated, PurchaseOrderApproved, SupplierShipmentCreated,
         ASNReceived, SupplierShipmentDelivered, ReceivingTaskCreated, ReceivingTaskStarted
    <2>3. utilization' = utilization \/ InventoryPutaway(r)
      BY <1>3 DEF InboundNext, PurchaseOrderCreated, PurchaseOrderApproved, SupplierShipmentCreated,
         ASNReceived, SupplierShipmentDelivered, ReceivingTaskCreated, ReceivingTaskStarted,
         GoodsReceived, StockIncreased
    <2>4. busy' = busy \/ ReceivingTaskStarted(r) \/ GoodsReceived(r)
      BY <1>3 DEF InboundNext, PurchaseOrderCreated, PurchaseOrderApproved, SupplierShipmentCreated,
         ASNReceived, SupplierShipmentDelivered, ReceivingTaskCreated, StockIncreased, InventoryPutaway
    <2> QED
      BY <1>3, <2>1, <2>2, <2>3, <2>4
  <1>4. CASE OutboundNext(r) /\ UNCHANGED inboundVars
    <2>1. receipts' = receipts
      BY <1>4
    <2>2. inventory' = inventory \/ SeedInventory(r) \/ InventoryReserved(r) \/ PickingCompleted(r)
      BY <1>4 DEF OutboundNext, OrderCreated, OrderItemCreated, InventoryAllocationCreated,
         PickingTaskCreated, PickingTaskStarted, PackingTaskCreated, PackingTaskStarted,
         PackingCompleted, ShipmentReady, Transportation
    <2>3. busy' = busy /\ (utilization' = utilization \/ PickingCompleted(r))
      BY <1>4 DEF OutboundNext, SeedInventory, OrderCreated, OrderItemCreated,
         InventoryAllocationCreated, InventoryReserved,
         PickingTaskCreated, PickingTaskStarted, PickingCompleted, PackingTaskCreated,
         PackingTaskStarted, PackingCompleted, ShipmentReady, Transportation
    <2>4. \/ orders' = orders
          \/ OrderCreated(r) \/ OrderItemCreated(r) \/ PackingTaskCreated(r)
          \/ PackingTaskStarted(r) \/ PackingCompleted(r) \/ ShipmentReady(r) \/ Transportation(r)
      BY <1>4 DEF OutboundNext, SeedInventory, InventoryAllocationCreated, InventoryReserved,
         PickingTaskCreated, PickingTaskStarted, PickingCompleted
    <2>5. \/ allocations' = allocations
          \/ InventoryAllocationCreated(r) \/ InventoryReserved(r) \/ PickingCompleted(r)
      BY <1>4 DEF OutboundNext, SeedInventory, OrderCreated, OrderItemCreated,
         PickingTaskCreated, PickingTaskStarted, PackingTaskCreated,
         PackingTaskStarted, PackingCompleted, ShipmentReady, Transportation
    <2>6. picking' = picking \/ PickingTaskCreated(r) \/ PickingTaskStarted(r) \/ PickingCompleted(r)
      BY <1>4 DEF OutboundNext, SeedInventory, OrderCreated, OrderItemCreated,
         InventoryAllocationCreated, InventoryReserved, PackingTaskCreated,
         PackingTaskStarted, PackingCompleted, ShipmentReady, Transportation
    <2> QED
      BY <2>1, <2>2, <2>3, <2>4, <2>5, <2>6
  <1> QED
    BY <1>1, <1>2, <1>3, <1>4 DEF Step

-----------------------------------------------------------------------------
(* Runs.                                                                    *)

\* The fields of a run.
LEMMA RunFields ==
  ASSUME TypeOK, NEW r \in Runs
  PROVE  /\ run[r].flow \in Flows \cup {"none"} /\ run[r].stamp \in Int
         /\ run[r].status \in {"WAITING", "RUNNING", "SUCCESS", "FAILED", "INTERRUPTED"}
         /\ run[r].step \in OutboundSteps \cup InboundSteps \cup {"Exit", "none"}
  <1>1. run[r] \in RunRecords
    BY DEF TypeOK
  <1> QED
    BY <1>1 DEF RunRecords

\* What Advance does.
LEMMA AdvanceRun ==
  ASSUME TypeOK, NEW r \in Runs, NEW step \in OutboundSteps \cup InboundSteps \cup {"Exit", "none"},
         Advance(r, step)
  PROVE  /\ run'[r].step = step /\ run'[r].status = run[r].status
         /\ run'[r].flow = run[r].flow /\ run'[r].stamp = run[r].stamp
         /\ \A q \in Runs : q # r => run'[q] = run[q]
         /\ run' \in [Runs -> RunRecords]
  <1>1. run \in [Runs -> RunRecords]
    BY DEF TypeOK
  <1>2. run[r] \in RunRecords
    BY <1>1
  <1>3. [run[r] EXCEPT !.step = step] \in RunRecords
    BY <1>2 DEF RunRecords
  <1>4. run' = [run EXCEPT ![r] = [run[r] EXCEPT !.step = step]]
    BY DEF Advance
  <1>5. run'[r] = [run[r] EXCEPT !.step = step] /\ \A q \in Runs : q # r => run'[q] = run[q]
    BY <1>1, <1>4
  <1>6. run' \in [Runs -> RunRecords]
    BY <1>1, <1>3, <1>4
  <1>7. /\ run'[r].step = step /\ run'[r].status = run[r].status
        /\ run'[r].flow = run[r].flow /\ run'[r].stamp = run[r].stamp
    BY <1>2, <1>5 DEF RunRecords
  <1> QED
    BY <1>5, <1>6, <1>7

\* What a change of a run's status does.
LEMMA EndRun ==
  ASSUME TypeOK, NEW r \in Runs, NEW status \in {"SUCCESS", "FAILED", "INTERRUPTED"},
         run' = [run EXCEPT ![r].status = status]
  PROVE  /\ run'[r].step = run[r].step /\ run'[r].status = status
         /\ run'[r].flow = run[r].flow /\ run'[r].stamp = run[r].stamp
         /\ \A q \in Runs : q # r => run'[q] = run[q]
         /\ run' \in [Runs -> RunRecords]
  <1>1. run \in [Runs -> RunRecords]
    BY DEF TypeOK
  <1>2. run[r] \in RunRecords
    BY <1>1
  <1>3. [run[r] EXCEPT !.status = status] \in RunRecords
    BY <1>2 DEF RunRecords
  <1>4. run' = [run EXCEPT ![r] = [run[r] EXCEPT !.status = status]]
    OBVIOUS
  <1>5. run'[r] = [run[r] EXCEPT !.status = status] /\ \A q \in Runs : q # r => run'[q] = run[q]
    BY <1>1, <1>4
  <1>6. run' \in [Runs -> RunRecords]
    BY <1>1, <1>3, <1>4
  <1>7. /\ run'[r].step = run[r].step /\ run'[r].status = status
        /\ run'[r].flow = run[r].flow /\ run'[r].stamp = run[r].stamp
    BY <1>2, <1>5 DEF RunRecords
  <1> QED
    BY <1>5, <1>6, <1>7

\* A generator advances its run, fails it, or leaves it in the runner's loop.
LEMMA GeneratorRun ==
  ASSUME NEW r \in Runs
  PROVE  /\ InboundNext(r) =>
              /\ run[r].status = "RUNNING" /\ run[r].step \in InboundSteps
              /\ \/ \E step \in InboundSteps \cup {"Exit"} : Advance(r, step)
                 \/ Fail(r) \/ UNCHANGED run
         /\ OutboundNext(r) =>
              /\ run[r].status = "RUNNING" /\ run[r].step \in OutboundSteps
              /\ (\E step \in OutboundSteps \cup {"Exit"} : Advance(r, step)) \/ Fail(r)
  <1> USE DEF Running
  <1>1. ASSUME InboundNext(r)
        PROVE  /\ run[r].status = "RUNNING" /\ run[r].step \in InboundSteps
               /\ \/ \E step \in InboundSteps \cup {"Exit"} : Advance(r, step)
                  \/ Fail(r) \/ UNCHANGED run
    <2>1. run[r].status = "RUNNING" /\ run[r].step \in InboundSteps
      BY <1>1 DEF InboundNext, PurchaseOrderCreated, PurchaseOrderApproved, SupplierShipmentCreated,
         ASNReceived, SupplierShipmentDelivered, ReceivingTaskCreated, ReceivingTaskStarted,
         GoodsReceived, StockIncreased, InventoryPutaway, InboundSteps
    <2>2. \/ \E step \in InboundSteps \cup {"Exit"} : Advance(r, step)
          \/ Fail(r) \/ UNCHANGED run
      BY <1>1 DEF InboundNext, PurchaseOrderCreated, PurchaseOrderApproved, SupplierShipmentCreated,
         ASNReceived, SupplierShipmentDelivered, ReceivingTaskCreated, ReceivingTaskStarted,
         GoodsReceived, StockIncreased, InventoryPutaway, InboundSteps
    <2> QED
      BY <2>1, <2>2
  <1>2. ASSUME OutboundNext(r)
        PROVE  /\ run[r].status = "RUNNING" /\ run[r].step \in OutboundSteps
               /\ (\E step \in OutboundSteps \cup {"Exit"} : Advance(r, step)) \/ Fail(r)
    <2>1. run[r].status = "RUNNING" /\ run[r].step \in OutboundSteps
      BY <1>2 DEF OutboundNext, SeedInventory, OrderCreated, OrderItemCreated,
         InventoryAllocationCreated, InventoryReserved,
         PickingTaskCreated, PickingTaskStarted, PickingCompleted, PackingTaskCreated,
         PackingTaskStarted, PackingCompleted, ShipmentReady, Transportation, OutboundSteps
    <2>2. (\E step \in OutboundSteps \cup {"Exit"} : Advance(r, step)) \/ Fail(r)
      <3>1. CASE SeedInventory(r) \/ OrderCreated(r) \/ OrderItemCreated(r)
                   \/ InventoryAllocationCreated(r) \/ InventoryReserved(r)
        BY <3>1 DEF SeedInventory, OrderCreated, OrderItemCreated,
           InventoryAllocationCreated, InventoryReserved, OutboundSteps
      <3>2. CASE PickingTaskCreated(r) \/ PickingTaskStarted(r) \/ PickingCompleted(r)
        BY <3>2 DEF PickingTaskCreated, PickingTaskStarted, PickingCompleted, OutboundSteps
      <3>3. CASE PackingTaskCreated(r) \/ PackingTaskStarted(r) \/ PackingCompleted(r)
                   \/ ShipmentReady(r) \/ Transportation(r)
        BY <3>3 DEF PackingTaskCreated, PackingTaskStarted, PackingCompleted, ShipmentReady,
           Transportation, OutboundSteps
      <3> QED
        BY <1>2, <3>1, <3>2, <3>3 DEF OutboundNext
    <2> QED
      BY <2>1, <2>2
  <1> QED
    BY <1>1, <1>2

\* What a step of run r does to the runs: r starts in its flow, or it is the one
\* that runs, stays in its flow, and stands where it stood once it has stopped.
LEMMA RunStep ==
  ASSUME IInv, NEW r \in Runs, Step(r)
  PROVE  /\ run' \in [Runs -> RunRecords]
         /\ \A q \in Runs : q # r => run'[q] = run[q] /\ run[q].status # "RUNNING"
         /\ \/ /\ StartsRun(r) /\ run[r].status = "WAITING" /\ run'[r].status = "RUNNING"
               /\ \A q \in Runs : q < r => run[q].status # "WAITING"
               /\ run'[r].stamp \in {r} \cup Stamps
               /\ \/ run'[r].flow = "inbound" /\ run'[r].step = "PurchaseOrderCreated"
                  \/ run'[r].flow = "outbound" /\ run'[r].step = "SeedInventory"
            \/ /\ run[r].status = "RUNNING" /\ run'[r].status # "WAITING"
               /\ run'[r].flow = run[r].flow /\ run'[r].stamp = run[r].stamp
               /\ run'[r].status # "RUNNING" => run'[r].step = run[r].step
               /\ \/ EndsRun(r) /\ run'[r].step = run[r].step /\ run'[r].status # "RUNNING"
                  \/ /\ InboundNext(r) /\ UNCHANGED outboundVars
                     /\ run[r].flow = "inbound" /\ run[r].step \in InboundSteps
                     /\ run'[r].step \in InboundSteps \cup {"Exit"}
                  \/ /\ OutboundNext(r) /\ UNCHANGED inboundVars
                     /\ run[r].flow = "outbound" /\ run[r].step \in OutboundSteps
                     /\ run'[r].step \in OutboundSteps \cup {"Exit"}
  <1>0. TypeOK /\ RunInv
    BY DEF IInv
  <1>1. CASE StartsRun(r)
    <2>1. PICK flow \in Flows : StartRun(r, flow)
      BY <1>1 DEF StartsRun
    <2>2. PICK t \in {r} \cup Stamps :
            run' = [run EXCEPT ![r] = [flow |-> flow, stamp |-> t,
                                       status |-> "RUNNING", step |-> FirstStep[flow]]]
      BY <2>1 DEF StartRun
    <2>3. \/ flow = "inbound" /\ FirstStep[flow] = "PurchaseOrderCreated"
          \/ flow = "outbound" /\ FirstStep[flow] = "SeedInventory"
      BY DEF Flows, FirstStep
    <2>4. t \in Int
      BY RunAssumption DEF Runs
    <2>5. run \in [Runs -> RunRecords]
      BY <1>0 DEF TypeOK
    <2>6. PICK step : step = FirstStep[flow]
      OBVIOUS
    <2>7. PICK rec : rec = [flow |-> flow, stamp |-> t, status |-> "RUNNING", step |-> step]
      OBVIOUS
    <2>8. rec \in RunRecords /\ rec.flow = flow /\ rec.stamp = t /\ rec.status = "RUNNING"
            /\ rec.step = step
      BY <2>3, <2>4, <2>6, <2>7 DEF RunRecords, OutboundSteps, InboundSteps
    <2>9. run'[r] = rec /\ \A q \in Runs : q # r => run'[q] = run[q]
      BY <2>2, <2>5, <2>6, <2>7
    <2>10. run' \in [Runs -> RunRecords]
      BY <2>2, <2>5, <2>6, <2>7, <2>8
    <2>11. /\ \A q \in Runs : run[q].status # "RUNNING"
           /\ \A q \in Runs : q < r => run[q].status # "WAITING"
           /\ run[r].status = "WAITING"
      BY <2>1 DEF StartRun, Quiet, Runs
    <2> QED
      BY <1>1, <2>3, <2>6, <2>8, <2>9, <2>10, <2>11
  <1>2. CASE EndsRun(r)
    <2>1. run[r].status = "RUNNING"
            /\ \E status \in {"SUCCESS", "FAILED", "INTERRUPTED"} :
                 run' = [run EXCEPT ![r].status = status]
      BY <1>2 DEF EndsRun, RunnerExits, Interrupt, Running
    <2>2. \A q \in Runs : q # r => run[q].status # "RUNNING"
      BY <1>0, <2>1 DEF RunInv
    <2> QED
      BY <1>0, <1>2, <2>1, <2>2, EndRun
  <1>3. CASE InboundNext(r) /\ UNCHANGED outboundVars
    <2>1. /\ run[r].status = "RUNNING" /\ run[r].step \in InboundSteps
          /\ \/ \E step \in InboundSteps \cup {"Exit"} : Advance(r, step)
             \/ Fail(r) \/ UNCHANGED run
      BY <1>3, GeneratorRun
    <2>2. \A q \in Runs : q # r => run[q].status # "RUNNING"
      BY <1>0, <2>1 DEF RunInv
    <2>3. run[r].flow = "inbound"
      BY <1>0, <2>1, RunFields DEF RunInv, Flows, FirstStep, InboundSteps, OutboundSteps
    <2>4. CASE \E step \in InboundSteps \cup {"Exit"} : Advance(r, step)
      BY <1>0, <1>3, <2>1, <2>2, <2>3, <2>4, AdvanceRun
    <2>5. CASE Fail(r)
      BY <1>0, <1>3, <2>1, <2>2, <2>3, <2>5, EndRun DEF Fail
    <2>6. CASE UNCHANGED run
      BY <1>0, <1>3, <2>1, <2>2, <2>3, <2>6 DEF TypeOK
    <2> QED
      BY <2>1, <2>4, <2>5, <2>6
  <1>4. CASE OutboundNext(r) /\ UNCHANGED inboundVars
    <2>1. /\ run[r].status = "RUNNING" /\ run[r].step \in OutboundSteps
          /\ (\E step \in OutboundSteps \cup {"Exit"} : Advance(r, step)) \/ Fail(r)
      BY <1>4, GeneratorRun
    <2>2. \A q \in Runs : q # r => run[q].status # "RUNNING"
      BY <1>0, <2>1 DEF RunInv
    <2>3. run[r].flow = "outbound"
      BY <1>0, <2>1, RunFields DEF RunInv, Flows, FirstStep, InboundSteps, OutboundSteps
    <2>4. CASE \E step \in OutboundSteps \cup {"Exit"} : Advance(r, step)
      BY <1>0, <1>4, <2>1, <2>2, <2>3, <2>4, AdvanceRun
    <2>5. CASE Fail(r)
      BY <1>0, <1>4, <2>1, <2>2, <2>3, <2>5, EndRun DEF Fail
    <2> QED
      BY <2>1, <2>4, <2>5
  <1> QED
    BY <1>1, <1>2, <1>3, <1>4 DEF Step

\* Runs keep starting in order, one at a time.
LEMMA RunInvStep ==
  ASSUME IInv, NEW r \in Runs, Step(r)
  PROVE  RunInv'
  <1>0. TypeOK /\ RunInv
    BY DEF IInv
  <1>1. /\ \A q \in Runs : q # r => run'[q] = run[q] /\ run[q].status # "RUNNING"
        /\ \A q \in Runs : q \in Int
    BY RunStep DEF Runs
  <1>2. ASSUME NEW q \in Runs, q # r
        PROVE  /\ run'[q].status = "WAITING" <=> run'[q].flow = "none"
               /\ run'[q].flow = "none" <=> run'[q].step = "none"
               /\ run'[q].flow = "inbound" => run'[q].step \in InboundSteps \cup {"Exit"}
               /\ run'[q].flow = "outbound" => run'[q].step \in OutboundSteps \cup {"Exit"}
               /\ run'[q].status # "RUNNING"
    BY <1>0, <1>1, <1>2 DEF RunInv
  <1>3. /\ run'[r].status = "WAITING" <=> run'[r].flow = "none"
        /\ run'[r].flow = "none" <=> run'[r].step = "none"
        /\ run'[r].flow = "inbound" => run'[r].step \in InboundSteps \cup {"Exit"}
        /\ run'[r].flow = "outbound" => run'[r].step \in OutboundSteps \cup {"Exit"}
    BY <1>0, RunStep DEF RunInv, InboundSteps, OutboundSteps
  <1>4. ASSUME NEW q \in Runs, NEW o \in Runs, o > q, run'[q].status \in {"WAITING", "RUNNING"}
        PROVE  run'[o].status = "WAITING"
    <2>1. CASE o = r
      <3>1. q # r /\ run'[q] = run[q]
        BY <1>1, <1>4, <2>1
      <3>2. run[q].status = "WAITING"
        BY <1>1, <1>4, <3>1
      <3>3. run[r].status = "WAITING"
        BY <1>0, <1>4, <2>1, <3>2 DEF RunInv
      <3>4. StartsRun(r)
        BY <3>3, RunStep
      <3>5. run[q].status # "WAITING"
        BY <1>4, <2>1, <3>4 DEF StartsRun, StartRun, Runs
      <3> QED
        BY <3>2, <3>5
    <2>2. CASE o # r
      <3>1. run'[o] = run[o]
        BY <1>1, <2>2
      <3>2. run[q].status \in {"WAITING", "RUNNING"}
        <4>1. CASE q = r
          BY <4>1, RunStep
        <4>2. CASE q # r
          BY <1>1, <1>4, <4>2
        <4> QED
          BY <4>1, <4>2
      <3> QED
        BY <1>0, <1>4, <3>1, <3>2 DEF RunInv
    <2> QED
      BY <2>1, <2>2
  <1> QED
    BY <1>1, <1>2, <1>3, <1>4 DEF RunInv

-----------------------------------------------------------------------------
(* Inventory.                                                               *)

\* The fields of an inventory row.
LEMMA RowFields ==
  ASSUME NEW row \in InventoryRows
  PROVE  /\ row.onHand \in Nat /\ row.reserved \in Nat
         /\ row.status \in {"NONE", "RECEIVED", "AVAILABLE"}
         /\ row.location \in Locations \cup {NoLocation} /\ row.creator \in 0..MaxRuns
  BY DEF InventoryRows

\* Receiving stock: a blank row becomes a row of this run, and units are added.
LEMMA Arrival ==
  ASSUME IInv, NEW r \in Runs, NEW p \in Products
  PROVE  /\ Arrived(r)[p] \in InventoryRows
         /\ p \notin Received(r) => Arrived(r)[p] = inventory[p]
         /\ p \in Received(r) =>
              /\ Arrived(r)[p].onHand = inventory[p].onHand + receipts[r].lines[p]
              /\ Arrived(r)[p].reserved = inventory[p].reserved
              /\ Arrived(r)[p].status = "RECEIVED"
              /\ Arrived(r)[p].location = inventory[p].location
              /\ Arrived(r)[p].creator = IF inventory[p].creator = 0 THEN r ELSE inventory[p].creator
  <1>1. /\ inventory[p] \in InventoryRows /\ receipts[r].lines[p] \in Nat
        /\ inventory[p].creator = 0 => inventory[p] = NoRow
        /\ r \in 0..MaxRuns
    BY RunAssumption, QuantityAssumption DEF IInv, TypeOK, StockInv, Receipts, Runs
  <1>2. PICK row, new, n : row = inventory[p] /\ new = Arrived(r)[p] /\ n = receipts[r].lines[p]
    OBVIOUS
  <1>3. /\ row.onHand \in Nat /\ row.reserved \in Nat
        /\ row.location \in Locations \cup {NoLocation} /\ row.creator \in 0..MaxRuns
        /\ n \in Nat
    BY <1>1, <1>2, RowFields
  <1>4. CASE p \notin Received(r)
    BY <1>1, <1>4 DEF Arrived
  <1>5. CASE p \in Received(r) /\ row.creator = 0
    <2>1. new = [NoRow EXCEPT !.onHand = n, !.status = "RECEIVED", !.creator = r]
      BY <1>2, <1>5 DEF Arrived
    <2>2. new = [onHand |-> n, reserved |-> 0, status |-> "RECEIVED",
                 location |-> NoLocation, creator |-> r]
      BY <2>1 DEF NoRow
    <2>3. row.onHand = 0 /\ row.reserved = 0 /\ row.location = NoLocation
      BY <1>1, <1>2, <1>5 DEF NoRow
    <2>4. /\ new \in InventoryRows /\ new.onHand = n /\ new.reserved = 0
          /\ new.status = "RECEIVED" /\ new.location = NoLocation /\ new.creator = r
      BY <1>1, <1>3, <2>2 DEF InventoryRows
    <2> QED
      BY <1>2, <1>3, <1>5, <2>3, <2>4
  <1>6. CASE p \in Received(r) /\ row.creator # 0
    <2>1. new = [row EXCEPT !.onHand = @ + n, !.status = "RECEIVED"]
      BY <1>2, <1>6 DEF Arrived
    <2>2. row \in InventoryRows
      BY <1>1, <1>2
    <2>3. new = [onHand |-> row.onHand + n, reserved |-> row.reserved, status |-> "RECEIVED",
                 location |-> row.location, creator |-> row.creator]
      BY <2>1, <2>2 DEF InventoryRows
    <2>4. /\ new \in InventoryRows /\ new.onHand = row.onHand + n /\ new.reserved = row.reserved
          /\ new.status = "RECEIVED" /\ new.location = row.location /\ new.creator = row.creator
      BY <1>3, <2>3 DEF InventoryRows
    <2> QED
      BY <1>2, <1>6, <2>4
  <1> QED
    BY <1>2, <1>4, <1>5, <1>6

\* The quantity of a picking task is at most what its product has reserved, and positive.
LEMMA TaskQuantity ==
  ASSUME IInv, NEW t \in TaskIds, picking[t].status # "NONE"
  PROVE  /\ AllocationOf(t) \in AllocationIds
         /\ AllocationOf(t)[1] \in Runs /\ AllocationOf(t)[2] \in Products
         /\ Quantity(AllocationOf(t)) \in Nat \ {0}
         /\ allocations[AllocationOf(t)].location \in Locations
         /\ allocations[AllocationOf(t)].status \in {"RESERVED", "PICKED"}
  <1>1. PICK o \in Runs, p \in Products : t[2] = <<o, p>>
    BY DEF TaskIds, AllocationIds
  <1>2. allocations[<<o, p>>].status \in {"RESERVED", "PICKED"}
    BY <1>1 DEF IInv, TaskInv
  <1>3. orders[o].items[p] > 0 /\ allocations[<<o, p>>].location \in Locations
    BY <1>2 DEF IInv, AllocationInv
  <1>4. orders[o].items[p] \in Nat
    BY QuantityAssumption DEF IInv, TypeOK, Orders
  <1>5. <<o, p>> \in AllocationIds /\ <<o, p>>[1] = o /\ <<o, p>>[2] = p
    BY DEF AllocationIds
  <1> QED
    BY <1>1, <1>2, <1>3, <1>4, <1>5 DEF AllocationOf, Quantity

\* What a step of run r does to the stock of one product.
StockEffect(r, p) ==
  LET old == inventory[p]
      new == inventory'[p]
  IN
  \/ new = old
  \/ /\ SeedInventory(r) /\ old.creator = 0 /\ new.creator = r
     /\ new.onHand = SeedQty /\ new.reserved = 0
  \/ /\ GoodsReceived(r) /\ p \in Received(r)
     /\ new.onHand = old.onHand + receipts[r].lines[p] /\ new.reserved = old.reserved
     /\ new.creator = IF old.creator = 0 THEN r ELSE old.creator
  \/ /\ StockIncreased(r) \/ InventoryPutaway(r)
     /\ old.status # "NONE"
     /\ new.onHand = old.onHand /\ new.reserved = old.reserved /\ new.creator = old.creator
  \/ /\ InventoryReserved(r) /\ p \in Ordered(r)
     /\ orders[r].items[p] <= Available(p)
     /\ new.onHand = old.onHand /\ new.reserved = old.reserved + orders[r].items[p]
     /\ new.creator = old.creator
  \/ /\ PickingCompleted(r)
     /\ \E t \in TaskIds :
          LET q == Quantity(AllocationOf(t)) IN
          /\ picking[t].status = "STARTED" /\ picking' = [picking EXCEPT ![t].status = "COMPLETED"]
          /\ AllocationOf(t)[2] = p
          /\ q <= old.onHand /\ q <= old.reserved
          /\ new.onHand = old.onHand - q /\ new.reserved = old.reserved - q
          /\ new.creator = old.creator

LEMMA SeedEffect ==
  ASSUME IInv, NEW r \in Runs, SeedInventory(r), NEW p \in Products
  PROVE  inventory'[p] \in InventoryRows /\ StockEffect(r, p)
  <1>1. inventory'[p] = IF inventory[p].creator # 0 THEN inventory[p]
                        ELSE [onHand |-> SeedQty, reserved |-> 0, status |-> "AVAILABLE",
                              location |-> SeedLocation, creator |-> r]
    BY DEF SeedInventory
  <1>2. inventory[p] \in InventoryRows /\ r \in 0..MaxRuns
    BY RunAssumption DEF IInv, TypeOK, Runs
  <1>3. CASE inventory[p].creator # 0
    BY <1>1, <1>2, <1>3 DEF StockEffect
  <1>4. CASE inventory[p].creator = 0
    <2>1. inventory'[p] = [onHand |-> SeedQty, reserved |-> 0, status |-> "AVAILABLE",
                           location |-> SeedLocation, creator |-> r]
      BY <1>1, <1>4
    <2>2. inventory'[p] \in InventoryRows
      BY <1>2, <2>1, QuantityAssumption, LocationAssumption DEF InventoryRows
    <2>3. inventory'[p].onHand = SeedQty /\ inventory'[p].reserved = 0 /\ inventory'[p].creator = r
      BY <2>1
    <2> QED
      BY <1>4, <2>2, <2>3 DEF StockEffect
  <1> QED
    BY <1>3, <1>4

LEMMA ReceiveEffect ==
  ASSUME IInv, NEW r \in Runs, GoodsReceived(r), NEW p \in Products
  PROVE  inventory'[p] \in InventoryRows /\ StockEffect(r, p)
  <1>1. inventory' = Arrived(r)
    BY DEF GoodsReceived
  <1> QED
    BY <1>1, Arrival DEF StockEffect

\* Putaway and the release of what arrived write no quantity.
LEMMA PutawayEffect ==
  ASSUME IInv, NEW r \in Runs, StockIncreased(r) \/ InventoryPutaway(r), NEW p \in Products
  PROVE  inventory'[p] \in InventoryRows /\ StockEffect(r, p)
  <1>1. inventory \in [Products -> InventoryRows]
    BY DEF IInv, TypeOK
  <1>2. inventory[p] \in InventoryRows
    BY <1>1
  <1>3. CASE inventory' = inventory
    BY <1>2, <1>3 DEF StockEffect
  <1>4. CASE \E q \in todo : /\ inventory[q].status # "NONE"
                              /\ inventory' = [inventory EXCEPT ![q].status = "AVAILABLE"]
    <2>1. \/ inventory'[p] = inventory[p]
          \/ /\ inventory'[p] = [inventory[p] EXCEPT !.status = "AVAILABLE"]
             /\ inventory[p].status # "NONE"
      BY <1>1, <1>4
    <2> QED
      BY <1>2, <2>1 DEF StockEffect, InventoryRows
  <1>5. CASE \E q \in todo, l \in Locations : /\ inventory[q].status # "NONE"
                                               /\ inventory' = [inventory EXCEPT ![q].location = l]
    <2>1. PICK l \in Locations :
            \/ inventory'[p] = inventory[p]
            \/ /\ inventory'[p] = [inventory[p] EXCEPT !.location = l]
               /\ inventory[p].status # "NONE"
      BY <1>1, <1>5
    <2> QED
      BY <1>2, <2>1 DEF StockEffect, InventoryRows
  <1>6. CASE StockIncreased(r)
    BY <1>3, <1>4, <1>6 DEF StockIncreased
  <1>7. CASE InventoryPutaway(r)
    <2>1. CASE inventory' = inventory
      BY <1>3, <2>1
    <2>2. CASE inventory' # inventory
      <3>0. PICK q \in todo : \E put \in Putaways(q, receipts[r].lines[q]) :
              /\ inventory[q].status = "AVAILABLE"
              /\ inventory' = [inventory EXCEPT ![q].location = put.location]
        BY <1>7, <2>2 DEF InventoryPutaway
      <3>1. PICK put \in Putaways(q, receipts[r].lines[q]) :
              /\ inventory[q].status = "AVAILABLE"
              /\ inventory' = [inventory EXCEPT ![q].location = put.location]
        BY <3>0
      <3>2. q \in Products \/ inventory' = inventory
        BY <1>1, <3>1
      <3>3. q \in Products => put.location \in Locations
        <4>1. ASSUME q \in Products, put.location = inventory[q].location, put.location # NoLocation
              PROVE  put.location \in Locations
          BY <1>1, <4>1, RowFields
        <4>2. \/ put.location \in StorageFor(Available(q), inventory[q].location)
              \/ put.location = inventory[q].location /\ put.location # NoLocation
          BY <3>1 DEF Putaways
        <4> QED
          BY <4>1, <4>2 DEF StorageFor
      <3> QED
        BY <1>5, <2>2, <3>1, <3>2, <3>3
    <2> QED
      BY <2>1, <2>2
  <1> QED
    BY <1>6, <1>7

LEMMA ReserveEffect ==
  ASSUME IInv, NEW r \in Runs, InventoryReserved(r), NEW p \in Products
  PROVE  inventory'[p] \in InventoryRows /\ StockEffect(r, p)
  <1>1. inventory[p] \in InventoryRows /\ orders[r].items[p] \in Nat
    BY QuantityAssumption DEF IInv, TypeOK, Orders
  <1>2. CASE inventory'[p] = inventory[p]
    BY <1>1, <1>2 DEF StockEffect
  <1>3. CASE inventory'[p] # inventory[p]
    <2>1. PICK n : n = orders[r].items[p]
      OBVIOUS
    <2>2. /\ p \in Ordered(r) /\ n <= Available(p)
          /\ inventory'[p] = [inventory[p] EXCEPT !.reserved = @ + n, !.status = "AVAILABLE"]
      BY <1>3, <2>1 DEF InventoryReserved
    <2>3. /\ inventory'[p].onHand = inventory[p].onHand
          /\ inventory'[p].reserved = inventory[p].reserved + n
          /\ inventory'[p].creator = inventory[p].creator
          /\ inventory'[p] \in InventoryRows
      <3>1. PICK x : x = inventory[p].reserved + n
        OBVIOUS
      <3>2. inventory'[p] = [inventory[p] EXCEPT !.reserved = x, !.status = "AVAILABLE"]
        BY <1>1, <2>2, <3>1 DEF InventoryRows
      <3>3. x \in Nat
        BY <1>1, <2>1, <3>1, RowFields
      <3> QED
        BY <1>1, <3>1, <3>2, <3>3 DEF InventoryRows
    <2> QED
      BY <2>1, <2>2, <2>3 DEF StockEffect
  <1> QED
    BY <1>2, <1>3

\* The task that PickingCompleted completes, and what it takes.
LEMMA PickEffect ==
  ASSUME IInv, NEW r \in Runs, PickingCompleted(r)
  PROVE  \/ Fail(r) /\ UNCHANGED <<inventory, utilization, allocations, picking>>
         \/ \E t \in TaskIds : LET a == AllocationOf(t) IN
              /\ picking[t].status = "STARTED"
              /\ \A s \in TaskIds : picking[s].status = "STARTED" => run[t[1]].stamp <= run[s[1]].stamp
              /\ Quantity(a) <= inventory[a[2]].onHand /\ Quantity(a) <= inventory[a[2]].reserved
              /\ inventory' = [inventory EXCEPT ![a[2]].onHand = @ - Quantity(a),
                                                ![a[2]].reserved = @ - Quantity(a)]
              /\ utilization' = [utilization EXCEPT ![allocations[a].location] =
                                   AtLeastZero(@ - Quantity(a))]
              /\ allocations' = [allocations EXCEPT ![a].status = "PICKED"]
              /\ picking' = [picking EXCEPT ![t].status = "COMPLETED"]
              /\ \E step \in {"PackingTaskCreated", "PickingTaskStarted"} : Advance(r, step)
              /\ todo = {} <=> run'[r].step = "PackingTaskCreated"
              /\ UNCHANGED todo
  <1>1. PICK t \in Earliest({s \in TaskIds : picking[s].status = "STARTED"}) :
          IF CanPick(AllocationOf(t))
          THEN /\ inventory' = Picked(AllocationOf(t))
               /\ utilization' = [utilization EXCEPT ![allocations[AllocationOf(t)].location] =
                                    AtLeastZero(@ - Quantity(AllocationOf(t)))]
               /\ allocations' = [allocations EXCEPT ![AllocationOf(t)].status = "PICKED"]
               /\ picking' = [picking EXCEPT ![t].status = "COMPLETED"]
               /\ Advance(r, IF todo = {} THEN "PackingTaskCreated" ELSE "PickingTaskStarted")
               /\ UNCHANGED todo
          ELSE Fail(r) /\ UNCHANGED <<inventory, utilization, allocations, picking>>
    BY DEF PickingCompleted
  <1>2. CASE ~CanPick(AllocationOf(t))
    BY <1>1, <1>2
  <1>3. CASE CanPick(AllocationOf(t))
    <2>1. /\ t \in TaskIds /\ picking[t].status = "STARTED"
          /\ \A s \in TaskIds : picking[s].status = "STARTED" => run[t[1]].stamp <= run[s[1]].stamp
      BY DEF Earliest
    <2>2. AllocationOf(t) \in AllocationIds /\ AllocationOf(t)[2] \in Products
            /\ Quantity(AllocationOf(t)) \in Nat
      BY <2>1, TaskQuantity
    <2>3. inventory[AllocationOf(t)[2]].onHand \in Nat /\ inventory[AllocationOf(t)[2]].reserved \in Nat
      BY <2>2, RowFields DEF IInv, TypeOK
    <2>4. PICK step : step = IF todo = {} THEN "PackingTaskCreated" ELSE "PickingTaskStarted"
      OBVIOUS
    <2>5. Advance(r, step) /\ step \in {"PackingTaskCreated", "PickingTaskStarted"}
      BY <1>1, <1>3, <2>4
    <2>6. run'[r].step = step
      <3>1. step \in OutboundSteps
        BY <2>5 DEF OutboundSteps
      <3> QED
        BY <2>5, <3>1, AdvanceRun DEF IInv
    <2>7. todo = {} <=> run'[r].step = "PackingTaskCreated"
      BY <2>4, <2>6
    <2> QED
      BY <1>1, <1>3, <2>1, <2>2, <2>3, <2>5, <2>7 DEF CanPick, Picked
  <1> QED
    BY <1>2, <1>3

LEMMA IssueEffect ==
  ASSUME IInv, NEW r \in Runs, PickingCompleted(r), NEW p \in Products
  PROVE  inventory'[p] \in InventoryRows /\ StockEffect(r, p)
  <1>1. inventory \in [Products -> InventoryRows] /\ inventory[p] \in InventoryRows
    BY DEF IInv, TypeOK
  <1>2. CASE inventory'[p] = inventory[p]
    BY <1>1, <1>2 DEF StockEffect
  <1>3. CASE inventory'[p] # inventory[p]
    <2>1. PICK t \in TaskIds : LET a == AllocationOf(t) IN
            /\ picking[t].status = "STARTED"
            /\ Quantity(a) <= inventory[a[2]].onHand /\ Quantity(a) <= inventory[a[2]].reserved
            /\ inventory' = [inventory EXCEPT ![a[2]].onHand = @ - Quantity(a),
                                              ![a[2]].reserved = @ - Quantity(a)]
            /\ picking' = [picking EXCEPT ![t].status = "COMPLETED"]
      BY <1>3, PickEffect
    <2>2. PICK q : q = Quantity(AllocationOf(t))
      OBVIOUS
    <2>3. PICK k : k = AllocationOf(t)[2]
      OBVIOUS
    <2>4. q \in Nat /\ k \in Products
      BY <2>1, <2>2, <2>3, TaskQuantity
    <2>5. inventory' = [inventory EXCEPT ![k].onHand = @ - q, ![k].reserved = @ - q]
      BY <2>1, <2>2, <2>3
    <2>6. k = p
      BY <1>1, <1>3, <2>4, <2>5
    <2>7. inventory'[p] = [inventory[p] EXCEPT !.onHand = @ - q, !.reserved = @ - q]
      BY <1>1, <2>5, <2>6
    <2>8. q <= inventory[p].onHand /\ q <= inventory[p].reserved
      BY <2>1, <2>2, <2>3, <2>6
    <2>9. /\ inventory'[p].onHand = inventory[p].onHand - q
          /\ inventory'[p].reserved = inventory[p].reserved - q
          /\ inventory'[p].creator = inventory[p].creator
      BY <1>1, <2>7 DEF InventoryRows
    <2>10. inventory'[p] \in InventoryRows
      <3>1. inventory[p].onHand - q \in Nat /\ inventory[p].reserved - q \in Nat
        BY <1>1, <2>4, <2>8, RowFields
      <3>2. PICK x, y : x = inventory[p].onHand - q /\ y = inventory[p].reserved - q
        OBVIOUS
      <3>3. inventory'[p] = [inventory[p] EXCEPT !.onHand = x, !.reserved = y]
        BY <1>1, <2>7, <3>2
      <3> QED
        BY <1>1, <3>1, <3>2, <3>3 DEF InventoryRows
    <2> QED
      BY <2>1, <2>2, <2>3, <2>6, <2>8, <2>9, <2>10 DEF StockEffect
  <1> QED
    BY <1>2, <1>3

\* Every step writes rows, and moves stock in one of these ways.
LEMMA InventoryStep ==
  ASSUME IInv, NEW r \in Runs, Step(r)
  PROVE  inventory' \in [Products -> InventoryRows] /\ \A p \in Products : StockEffect(r, p)
  <1>1. inventory \in [Products -> InventoryRows]
    BY DEF IInv, TypeOK
  <1>2. ASSUME NEW p \in Products
        PROVE  inventory'[p] \in InventoryRows /\ StockEffect(r, p)
    <2>1. CASE inventory' = inventory
      BY <1>1, <2>1 DEF StockEffect
    <2> QED
      BY <2>1, Frames, SeedEffect, ReceiveEffect, PutawayEffect, ReserveEffect, IssueEffect
  <1>3. inventory' = [p \in Products |-> inventory'[p]]
    <2>1. DOMAIN inventory' = Products /\ inventory' = [p \in DOMAIN inventory' |-> inventory'[p]]
      BY <1>1, Frames DEF SeedInventory, GoodsReceived, Arrived, StockIncreased, InventoryPutaway,
         InventoryReserved, PickingCompleted, Picked
    <2> QED
      BY <2>1
  <1> QED
    BY <1>2, <1>3

\* Blank rows stay blank until a run creates them; no more is reserved than there is.
LEMMA StockInvStep ==
  ASSUME IInv, NEW r \in Runs, Step(r)
  PROVE  StockInv'
  <1>1. ASSUME NEW p \in Products
        PROVE  /\ inventory'[p].creator = 0 => inventory'[p] = NoRow
               /\ inventory'[p].creator # 0 => run'[inventory'[p].creator].flow # "none"
               /\ inventory'[p].reserved <= inventory'[p].onHand
    <2> DEFINE old == inventory[p]
               new == inventory'[p]
    <2>1. /\ inventory[p].creator = 0 => inventory[p] = NoRow
          /\ inventory[p].creator # 0 => run[inventory[p].creator].flow # "none"
          /\ inventory[p].reserved <= inventory[p].onHand
      BY DEF IInv, StockInv
    <2>2. inventory[p] \in InventoryRows /\ inventory'[p] \in InventoryRows /\ StockEffect(r, p)
      BY InventoryStep DEF IInv, TypeOK
    <2>3. /\ inventory[p].onHand \in Nat /\ inventory[p].reserved \in Nat /\ inventory[p].creator \in 0..MaxRuns
          /\ inventory'[p].onHand \in Nat /\ inventory'[p].reserved \in Nat
          /\ r # 0
      BY <2>2, RowFields DEF Runs
    <2>4. \A q \in Runs : run[q].flow # "none" => run'[q].flow # "none"
      BY RunStep DEF IInv, RunInv
    <2>5. SeedInventory(r) \/ GoodsReceived(r) => run'[r].flow # "none"
      <3>1. SeedInventory(r) \/ GoodsReceived(r) => run[r].flow # "none"
        BY DEF SeedInventory, GoodsReceived, Running, IInv, RunInv
      <3> QED
        BY <2>4, <3>1
    <2>6. old.creator # 0 => old.creator \in Runs
      BY <2>3, RunAssumption DEF Runs
    <2>7. orders[r].items[p] \in Nat /\ (p \in Ordered(r) => orders[r].items[p] > 0)
      BY QuantityAssumption DEF Ordered, IInv, TypeOK, Orders
    <2>8. NoRow.onHand = 0 /\ NoRow.reserved = 0 /\ NoRow.status = "NONE"
      BY DEF NoRow
    <2>9. SeedQty \in Nat /\ receipts[r].lines[p] \in Nat
      BY QuantityAssumption DEF IInv, TypeOK, Receipts
    <2>10. CASE new = old
      BY <2>1, <2>4, <2>6, <2>10
    <2>11. CASE SeedInventory(r) /\ new.creator = r /\ new.onHand = SeedQty /\ new.reserved = 0
      BY <2>3, <2>5, <2>9, <2>11
    <2>12. CASE /\ GoodsReceived(r)
                /\ new.onHand = old.onHand + receipts[r].lines[p] /\ new.reserved = old.reserved
                /\ new.creator = IF old.creator = 0 THEN r ELSE old.creator
      BY <2>1, <2>3, <2>4, <2>5, <2>6, <2>9, <2>12
    <2>13. CASE /\ old.status # "NONE" /\ new.onHand = old.onHand /\ new.reserved = old.reserved
                /\ new.creator = old.creator
      BY <2>1, <2>3, <2>4, <2>6, <2>8, <2>13
    <2>14. CASE /\ p \in Ordered(r) /\ orders[r].items[p] <= Available(p)
                /\ new.onHand = old.onHand /\ new.reserved = old.reserved + orders[r].items[p]
                /\ new.creator = old.creator
      <3>1. orders[r].items[p] <= old.onHand - old.reserved
        BY <2>14 DEF Available
      <3>2. old.creator # 0
        BY <2>1, <2>7, <2>8, <2>14, <3>1
      <3> QED
        BY <2>1, <2>3, <2>4, <2>6, <2>7, <2>14, <3>1, <3>2
    <2>15. CASE \E t \in TaskIds :
                  /\ picking[t].status = "STARTED"
                  /\ Quantity(AllocationOf(t)) <= old.onHand
                  /\ new.onHand = old.onHand - Quantity(AllocationOf(t))
                  /\ new.reserved = old.reserved - Quantity(AllocationOf(t))
                  /\ new.creator = old.creator
      <3>1. PICK q \in Nat \ {0} :
              /\ q <= old.onHand /\ new.onHand = old.onHand - q /\ new.reserved = old.reserved - q
              /\ new.creator = old.creator
        BY <2>15, TaskQuantity
      <3>2. old.creator # 0
        BY <2>1, <2>8, <3>1
      <3> QED
        BY <2>1, <2>3, <2>4, <2>6, <3>1, <3>2
    <2> HIDE DEF old, new
    <2> QED
      BY <2>2, <2>10, <2>11, <2>12, <2>13, <2>14, <2>15 DEF StockEffect, old, new
  <1> QED
    BY <1>1 DEF StockInv

-----------------------------------------------------------------------------
(* Receipts and workers.                                                    *)

\* The fields of a receipt.
LEMMA ReceiptFields ==
  ASSUME NEW rec \in Receipts
  PROVE  /\ rec.po \in {"NONE", "CREATED", "APPROVED"} /\ rec.lines \in [Products -> 0..MaxOrdered]
         /\ rec.shipment \in {"NONE", "CREATED", "ASN_RECEIVED", "DELIVERED", "RECEIVING", "RECEIVED"}
         /\ rec.task \in {"NONE", "CREATED", "STARTED", "COMPLETED"}
         /\ rec.worker \in Workers \cup {NoWorker}
  BY DEF Receipts

\* The step that follows a generator whose step is known.
LEMMA Advanced ==
  ASSUME IInv, NEW r \in Runs, NEW step \in OutboundSteps \cup InboundSteps \cup {"Exit"},
         Advance(r, step)
  PROVE  run'[r].step = step
  BY AdvanceRun DEF IInv

LEMMA Failed ==
  ASSUME IInv, NEW r \in Runs, Fail(r)
  PROVE  run'[r].step = run[r].step /\ run'[r].status = "FAILED"
  BY EndRun DEF IInv, Fail

\* What an inbound generator does to the receipt of its run.
ReceiptEffect(r) ==
  LET old == receipts[r]
      new == receipts'[r]
      at  == run[r].step
      to  == run'[r].step
  IN
  \/ /\ at \in {"PurchaseOrderCreated", "PurchaseOrderApproved"}
     /\ to \in {"PurchaseOrderApproved", "SupplierShipmentCreated"}
     /\ new.shipment = old.shipment /\ new.task = old.task /\ new.worker = old.worker
  \/ /\ at \in {"SupplierShipmentCreated", "ASNReceived", "SupplierShipmentDelivered"}
     /\ to \in {"ASNReceived", "SupplierShipmentDelivered", "ReceivingTaskCreated"}
     /\ new.shipment # "RECEIVED" /\ new.task = old.task /\ new.worker = old.worker
     /\ new.lines = old.lines
  \/ /\ at = "ReceivingTaskCreated" /\ to = "ReceivingTaskStarted"
     /\ new.shipment = old.shipment /\ new.task = "CREATED" /\ new.worker \in AvailableWorkers
     /\ new.lines = old.lines
  \/ /\ at = "ReceivingTaskCreated" /\ run'[r].status # "RUNNING" /\ to = at /\ new = old
  \/ /\ ReceivingTaskStarted(r) /\ at = "ReceivingTaskStarted" /\ to = "GoodsReceived"
     /\ old.task = "CREATED"
     /\ new.shipment = "RECEIVING" /\ new.task = "STARTED" /\ new.worker = old.worker
     /\ new.lines = old.lines
  \/ /\ GoodsReceived(r) /\ at = "GoodsReceived" /\ to = "StockIncreased"
     /\ new.shipment = "RECEIVED" /\ new.task = "COMPLETED" /\ new.worker = old.worker
     /\ new.lines = old.lines
  \/ /\ at \in {"StockIncreased", "InventoryPutaway"}
     /\ to \in {"StockIncreased", "InventoryPutaway", "Exit"} /\ new = old

LEMMA ReceiptsStep ==
  ASSUME IInv, NEW r \in Runs, InboundNext(r)
  PROVE  /\ receipts' \in [Runs -> Receipts]
         /\ \A q \in Runs : q # r => receipts'[q] = receipts[q]
         /\ ReceiptEffect(r)
  <1> USE DEF Running
  <1>0. /\ receipts \in [Runs -> Receipts] /\ receipts[r] \in Receipts
        /\ {"PurchaseOrderApproved", "SupplierShipmentCreated", "ASNReceived",
            "SupplierShipmentDelivered", "ReceivingTaskCreated", "ReceivingTaskStarted",
            "GoodsReceived", "StockIncreased", "InventoryPutaway"} \subseteq InboundSteps
    BY DEF IInv, TypeOK, InboundSteps
  <1>1. CASE PurchaseOrderCreated(r)
    <2>1. PICK lines \in [Products -> 0..MaxOrdered] :
            receipts' = [receipts EXCEPT ![r].po = "CREATED", ![r].lines = lines]
      BY <1>1 DEF PurchaseOrderCreated
    <2>2. run'[r].step = "PurchaseOrderApproved" /\ run[r].step = "PurchaseOrderCreated"
      BY <1>0, <1>1, Advanced DEF PurchaseOrderCreated
    <2>3. /\ receipts'[r] = [receipts[r] EXCEPT !.po = "CREATED", !.lines = lines]
          /\ \A q \in Runs : q # r => receipts'[q] = receipts[q]
      BY <1>0, <2>1
    <2>4. receipts'[r] \in Receipts
      BY <1>0, <2>3 DEF Receipts
    <2>5. receipts' \in [Runs -> Receipts]
      BY <1>0, <2>1, <2>3, <2>4
    <2>6. /\ receipts'[r].shipment = receipts[r].shipment /\ receipts'[r].task = receipts[r].task
          /\ receipts'[r].worker = receipts[r].worker
      BY <1>0, <2>3 DEF Receipts
    <2> QED
      BY <2>2, <2>3, <2>5, <2>6 DEF ReceiptEffect
  <1>2. CASE PurchaseOrderApproved(r)
    <2>1. run'[r].step = "SupplierShipmentCreated" /\ run[r].step = "PurchaseOrderApproved"
      BY <1>0, <1>2, Advanced DEF PurchaseOrderApproved
    <2>2. /\ receipts'[r] = [receipts[r] EXCEPT !.po = "APPROVED"]
          /\ \A q \in Runs : q # r => receipts'[q] = receipts[q]
          /\ DOMAIN receipts' = Runs /\ receipts' = [q \in DOMAIN receipts' |-> receipts'[q]]
      BY <1>0, <1>2 DEF PurchaseOrderApproved
    <2>3. receipts'[r] \in Receipts
      BY <1>0, <2>2 DEF Receipts
    <2>4. receipts' \in [Runs -> Receipts]
      BY <1>0, <2>2, <2>3
    <2>5. /\ receipts'[r].shipment = receipts[r].shipment /\ receipts'[r].task = receipts[r].task
          /\ receipts'[r].worker = receipts[r].worker
      BY <1>0, <2>2 DEF Receipts
    <2> QED
      BY <2>1, <2>2, <2>4, <2>5 DEF ReceiptEffect
  <1>3. CASE SupplierShipmentCreated(r) \/ ASNReceived(r) \/ SupplierShipmentDelivered(r)
    <2>1. PICK status \in {"CREATED", "ASN_RECEIVED", "DELIVERED"} :
            receipts' = [receipts EXCEPT ![r].shipment = status]
      BY <1>3 DEF SupplierShipmentCreated, ASNReceived, SupplierShipmentDelivered
    <2>2. /\ run[r].step \in {"SupplierShipmentCreated", "ASNReceived", "SupplierShipmentDelivered"}
          /\ run'[r].step \in {"ASNReceived", "SupplierShipmentDelivered", "ReceivingTaskCreated"}
      BY <1>0, <1>3, Advanced DEF SupplierShipmentCreated, ASNReceived, SupplierShipmentDelivered
    <2>3. /\ receipts'[r] = [receipts[r] EXCEPT !.shipment = status]
          /\ \A q \in Runs : q # r => receipts'[q] = receipts[q]
      BY <1>0, <2>1
    <2>4. receipts'[r] \in Receipts
      BY <1>0, <2>3 DEF Receipts
    <2>5. receipts' \in [Runs -> Receipts]
      BY <1>0, <2>1, <2>3, <2>4
    <2>6. /\ receipts'[r].shipment = status /\ receipts'[r].task = receipts[r].task
          /\ receipts'[r].worker = receipts[r].worker /\ receipts'[r].lines = receipts[r].lines
      BY <1>0, <2>3 DEF Receipts
    <2> QED
      BY <2>2, <2>3, <2>5, <2>6 DEF ReceiptEffect
  <1>4. CASE ReceivingTaskCreated(r)
    <2>1. CASE Fail(r) /\ UNCHANGED receipts
      BY <1>0, <1>4, <2>1, Failed DEF ReceiptEffect, ReceivingTaskCreated
    <2>2. CASE \E w \in AvailableWorkers :
                 /\ receipts' = [receipts EXCEPT ![r].task = "CREATED", ![r].worker = w]
                 /\ Advance(r, "ReceivingTaskStarted")
      <3>1. PICK w \in AvailableWorkers :
              receipts' = [receipts EXCEPT ![r].task = "CREATED", ![r].worker = w]
        BY <2>2
      <3>2. run'[r].step = "ReceivingTaskStarted" /\ run[r].step = "ReceivingTaskCreated"
        BY <1>0, <1>4, <2>2, Advanced DEF ReceivingTaskCreated
      <3>3. /\ receipts'[r] = [receipts[r] EXCEPT !.task = "CREATED", !.worker = w]
            /\ \A q \in Runs : q # r => receipts'[q] = receipts[q]
        BY <1>0, <3>1
      <3>4. receipts'[r] \in Receipts
        BY <1>0, <3>3 DEF Receipts, AvailableWorkers
      <3>5. receipts' \in [Runs -> Receipts]
        BY <1>0, <3>1, <3>3, <3>4
      <3>6. /\ receipts'[r].shipment = receipts[r].shipment /\ receipts'[r].task = "CREATED"
            /\ receipts'[r].worker = w /\ receipts'[r].lines = receipts[r].lines
        BY <1>0, <3>3 DEF Receipts
      <3> QED
        BY <3>2, <3>3, <3>5, <3>6 DEF ReceiptEffect
    <2> QED
      BY <1>4, <2>1, <2>2 DEF ReceivingTaskCreated
  <1>5. CASE ReceivingTaskStarted(r)
    <2>1. run'[r].step = "GoodsReceived" /\ run[r].step = "ReceivingTaskStarted"
      BY <1>0, <1>5, Advanced DEF ReceivingTaskStarted
    <2>2. /\ receipts'[r] = [receipts[r] EXCEPT !.task = "STARTED", !.shipment = "RECEIVING"]
          /\ \A q \in Runs : q # r => receipts'[q] = receipts[q]
          /\ DOMAIN receipts' = Runs /\ receipts' = [q \in DOMAIN receipts' |-> receipts'[q]]
      BY <1>0, <1>5 DEF ReceivingTaskStarted
    <2>3. receipts'[r] \in Receipts
      BY <1>0, <2>2 DEF Receipts
    <2>4. receipts' \in [Runs -> Receipts]
      BY <1>0, <2>2, <2>3
    <2>5. /\ receipts'[r].shipment = "RECEIVING" /\ receipts'[r].task = "STARTED"
          /\ receipts'[r].worker = receipts[r].worker /\ receipts'[r].lines = receipts[r].lines
          /\ receipts[r].task = "CREATED"
      BY <1>0, <1>5, <2>2 DEF Receipts, ReceivingTaskStarted
    <2> QED
      BY <1>5, <2>1, <2>2, <2>4, <2>5 DEF ReceiptEffect
  <1>6. CASE GoodsReceived(r)
    <2>1. run'[r].step = "StockIncreased" /\ run[r].step = "GoodsReceived"
      BY <1>0, <1>6, Advanced DEF GoodsReceived
    <2>2. /\ receipts'[r] = [receipts[r] EXCEPT !.task = "COMPLETED", !.shipment = "RECEIVED"]
          /\ \A q \in Runs : q # r => receipts'[q] = receipts[q]
          /\ DOMAIN receipts' = Runs /\ receipts' = [q \in DOMAIN receipts' |-> receipts'[q]]
      BY <1>0, <1>6 DEF GoodsReceived
    <2>3. receipts'[r] \in Receipts
      BY <1>0, <2>2 DEF Receipts
    <2>4. receipts' \in [Runs -> Receipts]
      BY <1>0, <2>2, <2>3
    <2>5. /\ receipts'[r].shipment = "RECEIVED" /\ receipts'[r].task = "COMPLETED"
          /\ receipts'[r].worker = receipts[r].worker /\ receipts'[r].lines = receipts[r].lines
      BY <1>0, <2>2 DEF Receipts
    <2> QED
      BY <1>6, <2>1, <2>2, <2>4, <2>5 DEF ReceiptEffect
  <1>7. CASE StockIncreased(r) \/ InventoryPutaway(r)
    <2>1. UNCHANGED receipts /\ run[r].step \in {"StockIncreased", "InventoryPutaway"}
      BY <1>7 DEF StockIncreased, InventoryPutaway
    <2>2. \/ Advance(r, "InventoryPutaway") \/ Advance(r, "Exit") \/ Fail(r) \/ UNCHANGED run
      BY <1>7 DEF StockIncreased, InventoryPutaway
    <2>3. run'[r].step \in {"StockIncreased", "InventoryPutaway", "Exit"}
      BY <1>0, <2>1, <2>2, Advanced, Failed
    <2> QED
      BY <1>0, <2>1, <2>3 DEF ReceiptEffect
  <1> QED
    BY <1>1, <1>2, <1>3, <1>4, <1>5, <1>6, <1>7 DEF InboundNext

\* A receipt keeps step with its run.
LEMMA ReceiptInvStep ==
  ASSUME IInv, NEW r \in Runs, Step(r)
  PROVE  /\ ReceiptInv' /\ receipts' \in [Runs -> Receipts]
         /\ \A q \in Runs : q # r => receipts'[q] = receipts[q]
  <1>0. /\ ReceiptInv /\ receipts \in [Runs -> Receipts]
        /\ \A q \in Runs : q # r => run'[q] = run[q]
    BY RunStep DEF IInv, TypeOK
  <1>1. /\ receipts' \in [Runs -> Receipts]
        /\ \A q \in Runs : q # r => receipts'[q] = receipts[q]
    BY <1>0, Frames, ReceiptsStep
  <1>2. /\ receipts'[r].shipment = "RECEIVED" <=>
             /\ run'[r].flow = "inbound"
             /\ run'[r].step \in {"StockIncreased", "InventoryPutaway", "Exit"}
        /\ receipts'[r].task = "STARTED" <=> run'[r].step = "GoodsReceived"
        /\ receipts'[r].task # "NONE" => receipts'[r].worker \in Workers
    <2>0. /\ receipts[r].shipment = "RECEIVED" <=>
               /\ run[r].flow = "inbound"
               /\ run[r].step \in {"StockIncreased", "InventoryPutaway", "Exit"}
          /\ receipts[r].task = "STARTED" <=> run[r].step = "GoodsReceived"
          /\ receipts[r].task # "NONE" => receipts[r].worker \in Workers
      BY <1>0 DEF ReceiptInv
    <2>1. CASE InboundNext(r) /\ UNCHANGED outboundVars
      <3>1. run[r].flow = "inbound" /\ run'[r].flow = "inbound"
        <4>1. run[r].step \in InboundSteps /\ run[r].status = "RUNNING"
          BY <2>1, GeneratorRun
        <4>2. run[r].flow = "inbound"
          BY <4>1, RunFields DEF IInv, RunInv, Flows, FirstStep, InboundSteps, OutboundSteps
        <4> QED
          BY <4>1, <4>2, RunStep
      <3> QED
        BY <2>0, <2>1, <3>1, ReceiptsStep DEF ReceiptEffect, AvailableWorkers
    <2>2. CASE StartsRun(r) \/ EndsRun(r)
      <3>1. UNCHANGED receipts
        BY <2>2 DEF StartsRun, EndsRun, inboundVars
      <3>2. run[r].status = "WAITING" => run[r].step = "none" /\ run[r].flow = "none"
        BY DEF IInv, RunInv
      <3>3. CASE StartsRun(r)
        <4>1. run[r].status = "WAITING"
          BY <3>3 DEF StartsRun, StartRun
        <4> QED
          BY <2>0, <3>1, <3>2, <4>1, RunStep
      <3>4. CASE EndsRun(r)
        <4>1. run[r].status = "RUNNING" /\ \E status \in {"SUCCESS", "FAILED", "INTERRUPTED"} :
                 run' = [run EXCEPT ![r].status = status]
          BY <3>4 DEF EndsRun, RunnerExits, Interrupt, Running
        <4>2. run'[r].step = run[r].step /\ run'[r].flow = run[r].flow
          BY <4>1, EndRun DEF IInv
        <4> QED
          BY <2>0, <3>1, <4>2
      <3> QED
        BY <2>2, <3>3, <3>4
    <2>3. CASE OutboundNext(r) /\ UNCHANGED inboundVars
      <3>1. UNCHANGED receipts
        BY <2>3 DEF inboundVars
      <3>2. /\ run[r].step \in OutboundSteps /\ run'[r].step \in OutboundSteps \cup {"Exit"}
            /\ run[r].flow = "outbound" /\ run'[r].flow = "outbound"
        <4>1. run[r].status = "RUNNING" /\ run[r].step \in OutboundSteps
          BY <2>3, GeneratorRun
        <4>2. run[r].flow = "outbound"
          BY <4>1, RunFields DEF IInv, RunInv, Flows, FirstStep, InboundSteps, OutboundSteps
        <4>3. run'[r].flow = "outbound"
          BY <4>1, <4>2, RunStep
        <4> QED
          BY <4>1, <4>2, <4>3, RunInvStep DEF RunInv
      <3> QED
        BY <2>0, <3>1, <3>2 DEF OutboundSteps
    <2> QED
      BY <2>1, <2>2, <2>3 DEF Step
  <1>3. ASSUME NEW q \in Runs, q # r
        PROVE  receipts'[q] = receipts[q] /\ run'[q] = run[q]
    BY <1>0, <1>1, <1>3
  <1> QED
    BY <1>0, <1>1, <1>2, <1>3 DEF ReceiptInv

\* A worker stays held by exactly the STARTED tasks.
LEMMA WorkerInvStep ==
  ASSUME IInv, NEW r \in Runs, Step(r)
  PROVE  WorkerInv' /\ busy' \subseteq Workers
  <1>0. /\ ReceiptInv /\ ReceiptInv' /\ busy \subseteq Workers
        /\ \A w \in Workers :
             w \in busy <=> \E q \in Runs : receipts[q].task = "STARTED" /\ receipts[q].worker = w
        /\ \A q \in Runs : Running(q, "ReceivingTaskStarted") => receipts[q].worker \in Workers \ busy
        /\ \A q, o \in Runs : receipts[q].task = "STARTED" /\ receipts[o].task = "STARTED"
             /\ receipts[q].worker = receipts[o].worker => q = o
    BY ReceiptInvStep DEF IInv, TypeOK, WorkerInv, BusyWhileReceiving
  <1>1. /\ \A q \in Runs : q # r => receipts'[q] = receipts[q] /\ run'[q] = run[q]
        /\ \A q \in Runs : q # r => run'[q].status # "RUNNING"
    BY ReceiptInvStep, RunStep
  <1>2. SUFFICES ASSUME NEW b, b = busy', NEW new, new = receipts'[r], NEW old, old = receipts[r]
                 PROVE  /\ b \subseteq Workers
                        /\ \A w \in Workers :
                             w \in b <=> \/ new.task = "STARTED" /\ new.worker = w
                                         \/ \E q \in Runs \ {r} :
                                              receipts[q].task = "STARTED" /\ receipts[q].worker = w
                        /\ run'[r].step = "ReceivingTaskStarted" /\ run'[r].status = "RUNNING"
                             => new.worker \in Workers \ b
                        /\ new.task = "STARTED" =>
                             \A q \in Runs \ {r} :
                               receipts[q].task = "STARTED" => receipts[q].worker # new.worker
    <2>1. ASSUME NEW w \in Workers
          PROVE  (\E q \in Runs : receipts'[q].task = "STARTED" /\ receipts'[q].worker = w)
                 <=> \/ receipts'[r].task = "STARTED" /\ receipts'[r].worker = w
                     \/ \E q \in Runs \ {r} :
                          receipts[q].task = "STARTED" /\ receipts[q].worker = w
      BY <1>1
    <2>2. /\ busy' \subseteq Workers
          /\ \A w \in Workers :
               w \in busy' <=> \E q \in Runs : receipts'[q].task = "STARTED" /\ receipts'[q].worker = w
      BY <1>2, <2>1
    <2>3. \A q \in Runs : run'[q].status = "RUNNING" /\ run'[q].step = "ReceivingTaskStarted" =>
            receipts'[q].worker \in Workers \ busy'
      BY <1>1, <1>2
    <2>4. \A q, o \in Runs : receipts'[q].task = "STARTED" /\ receipts'[o].task = "STARTED"
             /\ receipts'[q].worker = receipts'[o].worker => q = o
      BY <1>0, <1>1, <1>2
    <2> QED
      BY <2>2, <2>3, <2>4 DEF WorkerInv, BusyWhileReceiving, Running
  <1>3. CASE ReceivingTaskStarted(r)
    <2>1. /\ run[r].step = "ReceivingTaskStarted" /\ run[r].status = "RUNNING"
          /\ busy' = busy \cup {receipts[r].worker}
      BY <1>3 DEF ReceivingTaskStarted, Running
    <2>2. /\ old.task = "CREATED" /\ run'[r].step = "GoodsReceived"
          /\ new.task = "STARTED" /\ new.worker = old.worker
      BY <1>2, <1>3, <2>1, ReceiptsStep DEF ReceiptEffect, InboundNext
    <2>3. old.worker \in Workers \ busy
      BY <1>0, <1>2, <2>1 DEF Running
    <2> QED
      BY <1>0, <1>2, <2>1, <2>2, <2>3
  <1>4. CASE GoodsReceived(r)
    <2>1. /\ run[r].step = "GoodsReceived" /\ run[r].status = "RUNNING"
          /\ busy' = busy \ {receipts[r].worker}
      BY <1>4 DEF GoodsReceived, Running
    <2>2. /\ old.task = "STARTED" /\ run'[r].step = "StockIncreased"
          /\ new.task = "COMPLETED"
      BY <1>0, <1>2, <1>4, <2>1, ReceiptsStep DEF ReceiptEffect, InboundNext, ReceiptInv
    <2> QED
      BY <1>0, <1>2, <2>1, <2>2
  <1>5. CASE ~ReceivingTaskStarted(r) /\ ~GoodsReceived(r) /\ InboundNext(r)
    <2>1. busy' = busy
      BY <1>5, Frames
    <2>2. /\ old.task = "STARTED" <=> run[r].step = "GoodsReceived"
          /\ new.task = "STARTED" <=> run'[r].step = "GoodsReceived"
      BY <1>0, <1>2 DEF ReceiptInv
    <2>3. ReceiptEffect(r)
      BY <1>5, ReceiptsStep
    <2>4. old.task # "STARTED" /\ new.task # "STARTED"
      BY <1>2, <1>5, <2>2, <2>3 DEF ReceiptEffect
    <2>5. run'[r].step = "ReceivingTaskStarted" => new.worker \in Workers \ busy
      BY <1>2, <1>5, <2>3 DEF ReceiptEffect, AvailableWorkers
    <2> QED
      BY <1>0, <1>2, <2>1, <2>4, <2>5
  <1>6. CASE ~InboundNext(r)
    <2>1. busy' = busy /\ receipts' = receipts
      BY <1>6, Frames DEF InboundNext
    <2>2. run'[r].step # "ReceivingTaskStarted" \/ run'[r].status # "RUNNING"
      BY <1>6, RunStep DEF OutboundSteps
    <2> QED
      BY <1>0, <1>2, <2>1, <2>2
  <1> QED
    BY <1>3, <1>4, <1>5, <1>6

-----------------------------------------------------------------------------
(* The runner's loops.                                                      *)

\* The generator an outbound run executes, and the one that follows it.
OutboundMove(r) ==
  LET Moves(at, to) == run[r].step = at /\ run'[r].step = to
  IN
  \/ Fail(r) /\ run'[r].step = run[r].step /\ run'[r].status = "FAILED"
  \/ SeedInventory(r) /\ Moves("SeedInventory", "OrderCreated")
  \/ OrderCreated(r) /\ Moves("OrderCreated", "OrderItemCreated")
  \/ OrderItemCreated(r) /\ Moves("OrderItemCreated", "InventoryAllocationCreated")
  \/ InventoryAllocationCreated(r) /\ Moves("InventoryAllocationCreated", "InventoryReserved")
  \/ InventoryReserved(r) /\ Moves("InventoryReserved", "PickingTaskCreated")
  \/ PickingTaskCreated(r) /\ Moves("PickingTaskCreated", "PickingTaskStarted")
  \/ PickingTaskStarted(r) /\ Moves("PickingTaskStarted", "PickingCompleted")
  \/ /\ PickingCompleted(r) /\ run[r].step = "PickingCompleted"
     /\ run'[r].step \in {"PackingTaskCreated", "PickingTaskStarted"}
  \/ PackingTaskCreated(r) /\ Moves("PackingTaskCreated", "PackingTaskStarted")
  \/ PackingTaskStarted(r) /\ Moves("PackingTaskStarted", "PackingCompleted")
  \/ PackingCompleted(r) /\ Moves("PackingCompleted", "ShipmentReady")
  \/ ShipmentReady(r) /\ Moves("ShipmentReady", "Transportation")
  \/ Transportation(r) /\ Moves("Transportation", "Exit")

LEMMA OutboundMoves ==
  ASSUME IInv, NEW r \in Runs, OutboundNext(r)
  PROVE  OutboundMove(r)
  <1> USE DEF Running, OutboundMove
  <1>0. {"SeedInventory", "OrderCreated", "OrderItemCreated",
         "InventoryAllocationCreated", "InventoryReserved", "PickingTaskCreated",
         "PickingTaskStarted", "PickingCompleted", "PackingTaskCreated", "PackingTaskStarted",
         "PackingCompleted", "ShipmentReady", "Transportation"} \subseteq OutboundSteps
    BY DEF OutboundSteps
  <1>1. CASE Fail(r)
    BY <1>1, Failed
  <1>2. CASE ~Fail(r) /\ (SeedInventory(r) \/ OrderCreated(r) \/ OrderItemCreated(r))
    BY <1>0, <1>2, Advanced DEF SeedInventory, OrderCreated, OrderItemCreated
  <1>3. CASE ~Fail(r) /\ (InventoryAllocationCreated(r) \/ InventoryReserved(r))
    BY <1>0, <1>3, Advanced DEF InventoryAllocationCreated, InventoryReserved
  <1>4. CASE ~Fail(r) /\ (PickingTaskCreated(r) \/ PickingTaskStarted(r) \/ PickingCompleted(r))
    BY <1>0, <1>4, Advanced DEF PickingTaskCreated, PickingTaskStarted, PickingCompleted
  <1>5. CASE ~Fail(r) /\ (PackingTaskCreated(r) \/ PackingTaskStarted(r) \/ PackingCompleted(r))
    BY <1>0, <1>5, Advanced DEF PackingTaskCreated, PackingTaskStarted, PackingCompleted
  <1>6. CASE ~Fail(r) /\ (ShipmentReady(r) \/ Transportation(r))
    BY <1>0, <1>6, Advanced DEF ShipmentReady, Transportation
  <1> QED
    BY <1>1, <1>2, <1>3, <1>4, <1>5, <1>6 DEF OutboundNext

\* The loops iterate over received products, then over picking tasks.
LEMMA TodoInvStep ==
  ASSUME IInv, NEW r \in Runs, Step(r)
  PROVE  /\ TodoInv' /\ todo' \subseteq Products \cup TaskIds /\ interrupts' \in Nat
         /\ run'[r].status = "RUNNING" /\ run'[r].step \in {"StockIncreased", "InventoryPutaway"} =>
              Received(r)' = Received(r)
  <1> USE DEF Running
  <1>0. /\ todo \subseteq Products \cup TaskIds /\ interrupts \in Nat /\ TodoInv
        /\ Received(r) \subseteq Products
        /\ \A q \in Runs : q # r => run'[q] = run[q] /\ run[q].status # "RUNNING"
    BY RunStep DEF IInv, TypeOK, Received
  <1>1. SUFFICES /\ todo' \subseteq Products \cup TaskIds /\ interrupts' \in Nat
                 /\ run'[r].status = "RUNNING" =>
                      /\ run'[r].step \in {"StockIncreased", "InventoryPutaway"} =>
                           todo' \subseteq Received(r) /\ Received(r)' = Received(r)
                      /\ run'[r].step \in {"PickingTaskStarted", "PickingCompleted"} =>
                           todo' \subseteq TaskIds
    BY <1>0 DEF TodoInv
  <1>2. CASE StartsRun(r)
    <2>1. UNCHANGED <<todo, interrupts>>
      BY <1>2 DEF StartsRun
    <2>2. run[r].status = "WAITING"
      BY <1>2 DEF StartsRun, StartRun
    <2> QED
      BY <1>0, <2>1, <2>2, RunStep
  <1>3. CASE EndsRun(r)
    <2>1. /\ todo' \subseteq todo /\ (interrupts' = interrupts \/ interrupts' = interrupts + 1)
          /\ run[r].status = "RUNNING"
      BY <1>3 DEF EndsRun, RunnerExits, Interrupt
    <2>2. run'[r].status # "RUNNING"
      <3>1. \E status \in {"SUCCESS", "FAILED", "INTERRUPTED"} :
                 run' = [run EXCEPT ![r].status = status]
        BY <1>3 DEF EndsRun, RunnerExits, Interrupt
      <3> QED
        BY <3>1, EndRun DEF IInv
    <2> QED
      BY <1>0, <2>1, <2>2
  <1>4. CASE InboundNext(r) /\ UNCHANGED outboundVars
    <2>0. interrupts' = interrupts
      BY <1>4 DEF InboundNext, PurchaseOrderCreated, PurchaseOrderApproved, SupplierShipmentCreated,
         ASNReceived, SupplierShipmentDelivered, ReceivingTaskCreated, ReceivingTaskStarted,
         GoodsReceived, StockIncreased, InventoryPutaway
    <2>1. CASE GoodsReceived(r)
      <3>1. todo' = Received(r) /\ run'[r].step = "StockIncreased" /\ run[r].step = "GoodsReceived"
        BY <1>4, <2>1, ReceiptsStep DEF GoodsReceived, ReceiptEffect
      <3>2. receipts'[r].lines = receipts[r].lines
        BY <1>4, <2>1, <3>1, ReceiptsStep DEF ReceiptEffect
      <3>3. Received(r)' = Received(r)
        BY <3>2 DEF Received
      <3> QED
        BY <1>0, <2>0, <3>1, <3>3
    <2>2. CASE StockIncreased(r) \/ InventoryPutaway(r)
      <3>1. /\ run[r].status = "RUNNING" /\ run[r].step \in {"StockIncreased", "InventoryPutaway"}
            /\ UNCHANGED receipts
        BY <2>2 DEF StockIncreased, InventoryPutaway
      <3>2. run'[r].step \in {"StockIncreased", "InventoryPutaway", "Exit"}
        BY <1>4, <3>1, ReceiptsStep DEF ReceiptEffect
      <3>3. todo \subseteq Received(r)
        BY <1>0, <3>1 DEF TodoInv
      <3>4. todo' \subseteq Received(r)
        BY <2>2, <3>3 DEF StockIncreased, InventoryPutaway, Fail, Rest
      <3>5. Received(r)' = Received(r)
        BY <3>1 DEF Received
      <3> QED
        BY <1>0, <2>0, <3>2, <3>4, <3>5
    <2>3. CASE ~GoodsReceived(r) /\ ~StockIncreased(r) /\ ~InventoryPutaway(r)
      <3>1. todo' \subseteq todo
        BY <1>4, <2>3 DEF InboundNext, PurchaseOrderCreated, PurchaseOrderApproved,
           SupplierShipmentCreated, ASNReceived, SupplierShipmentDelivered, ReceivingTaskCreated,
           ReceivingTaskStarted, Fail
      <3>2. run[r].step \notin {"GoodsReceived", "StockIncreased", "InventoryPutaway"}
        BY <1>4, <2>3 DEF InboundNext, PurchaseOrderCreated, PurchaseOrderApproved,
           SupplierShipmentCreated, ASNReceived, SupplierShipmentDelivered, ReceivingTaskCreated,
           ReceivingTaskStarted
      <3>3. run'[r].step \notin {"StockIncreased", "InventoryPutaway", "PickingTaskStarted", "PickingCompleted"}
        BY <1>4, <3>2, ReceiptsStep DEF ReceiptEffect
      <3> QED
        BY <1>0, <2>0, <3>1, <3>3
    <2> QED
      BY <2>1, <2>2, <2>3
  <1>5. CASE OutboundNext(r) /\ UNCHANGED inboundVars
    <2>0. interrupts' = interrupts
      BY <1>5 DEF OutboundNext, SeedInventory, OrderCreated, OrderItemCreated,
         InventoryAllocationCreated, InventoryReserved, PickingTaskCreated, PickingTaskStarted,
         PickingCompleted, PackingTaskCreated, PackingTaskStarted,
         PackingCompleted, ShipmentReady, Transportation
    <2>1. run'[r].step \notin {"StockIncreased", "InventoryPutaway"}
      BY <1>5, OutboundMoves, GeneratorRun DEF OutboundMove, OutboundSteps
    <2>2. todo' \subseteq todo \/ todo' = {r} \X ReservedAllocations
      BY <1>5 DEF OutboundNext, SeedInventory, OrderCreated, OrderItemCreated,
         InventoryAllocationCreated, InventoryReserved, PickingTaskCreated, PickingTaskStarted,
         PickingCompleted, PackingTaskCreated, PackingTaskStarted,
         PackingCompleted, ShipmentReady, Transportation, Fail, Rest
    <2>3. {r} \X ReservedAllocations \subseteq TaskIds
      BY DEF ReservedAllocations, TaskIds
    <2>4. ASSUME run'[r].status = "RUNNING",
                 run'[r].step \in {"PickingTaskStarted", "PickingCompleted"}
          PROVE  todo' \subseteq TaskIds
      <3>1. \/ run[r].step \in {"PickingTaskStarted", "PickingCompleted"}
            \/ PickingTaskCreated(r) /\ run'[r].step = "PickingTaskStarted"
        BY <1>5, <2>4, OutboundMoves DEF OutboundMove
      <3>2. CASE run[r].step \in {"PickingTaskStarted", "PickingCompleted"}
        BY <1>0, <1>5, <2>2, <2>3, <3>2, GeneratorRun DEF TodoInv
      <3>3. CASE PickingTaskCreated(r) /\ run'[r].step = "PickingTaskStarted"
        <4>1. run[r].step = "PickingTaskCreated"
          BY <3>3 DEF PickingTaskCreated
        <4>2. ~Fail(r)
          BY <3>3, <4>1, Failed
        <4> QED
          BY <2>3, <3>3, <4>2 DEF PickingTaskCreated
      <3> QED
        BY <3>1, <3>2, <3>3
    <2> QED
      BY <1>0, <2>0, <2>1, <2>2, <2>3, <2>4
  <1> QED
    BY <1>2, <1>3, <1>4, <1>5 DEF Step

-----------------------------------------------------------------------------
(* Locations.                                                               *)

\* What is left of a quantity is never negative and never more.
LEMMA Clamped ==
  ASSUME NEW u \in Nat, NEW q \in Nat
  PROVE  AtLeastZero(u - q) \in Nat /\ AtLeastZero(u - q) <= u
  BY DEF AtLeastZero

\* Putting a product away: one location gains what it has room for, and at most
\* one other loses something.
LEMMA PutawayStores ==
  ASSUME IInv, NEW p \in Products, NEW arrived \in Nat, NEW put \in Putaways(p, arrived)
  PROVE  /\ put.location \in Locations
         /\ put.utilization \in [Locations -> Nat]
         /\ \A l \in Locations :
              put.utilization[l] <= utilization[l] \/ put.utilization[l] <= Capacity
  <1> DEFINE at == inventory[p].location
             total == Available(p)
             left == [utilization EXCEPT ![at] = AtLeastZero(@ - AtLeastZero(total - arrived))]
             base == IF at = NoLocation THEN utilization ELSE left
  <1>1. /\ utilization \in [Locations -> Nat] /\ at \in Locations \cup {NoLocation}
        /\ NoLocation \notin Locations /\ Capacity \in Nat /\ total \in Nat
    <2>1. inventory[p] \in InventoryRows
      BY DEF IInv, TypeOK
    <2>2. inventory[p].reserved <= inventory[p].onHand
      BY DEF IInv, StockInv
    <2> QED
      BY <2>1, <2>2, RowFields, LocationAssumption, QuantityAssumption DEF IInv, TypeOK, Available
  <1>2. \/ /\ at # NoLocation /\ Capacity - utilization[at] >= arrived
           /\ put = [location |-> at, utilization |-> [utilization EXCEPT ![at] = @ + arrived]]
        \/ \E l \in StorageFor(total, at) :
             put = [location |-> l, utilization |-> [base EXCEPT ![l] = @ + total]]
    BY DEF Putaways
  <1>3. base \in [Locations -> Nat] /\ \A l \in Locations : base[l] <= utilization[l]
                                                         /\ (l # at => base[l] = utilization[l])
    <2>1. CASE at = NoLocation
      BY <1>1, <2>1
    <2>2. CASE at # NoLocation
      <3>1. at \in Locations
        BY <1>1, <2>2
      <3>2. PICK u \in Nat, q \in Nat : u = utilization[at] /\ q = AtLeastZero(total - arrived)
        <4>1. total - arrived \in Int
          BY <1>1
        <4>2. AtLeastZero(total - arrived) \in Nat
          BY <4>1 DEF AtLeastZero
        <4> QED
          BY <1>1, <3>1, <4>2
      <3>3. AtLeastZero(u - q) \in Nat /\ AtLeastZero(u - q) <= u
        BY <3>2, Clamped
      <3>4. PICK v : v = AtLeastZero(u - q)
        OBVIOUS
      <3>5. base = [utilization EXCEPT ![at] = v]
        BY <2>2, <3>2, <3>4
      <3> QED
        BY <1>1, <3>1, <3>2, <3>3, <3>4, <3>5
    <2> QED
      BY <2>1, <2>2
  <1> HIDE DEF total, left, base
  <1>4. CASE /\ at # NoLocation /\ Capacity - utilization[at] >= arrived
             /\ put = [location |-> at, utilization |-> [utilization EXCEPT ![at] = @ + arrived]]
    BY <1>1, <1>4
  <1>5. CASE \E l \in StorageFor(total, at) :
               put = [location |-> l, utilization |-> [base EXCEPT ![l] = @ + total]]
    <2>1. PICK l \in StorageFor(total, at) :
            put = [location |-> l, utilization |-> [base EXCEPT ![l] = @ + total]]
      BY <1>5
    <2>2. l \in Locations /\ l # at /\ Capacity - utilization[l] >= total
      BY DEF StorageFor
    <2>3. PICK v : v = base[l] + total
      OBVIOUS
    <2>4. v \in Nat /\ v <= Capacity
      BY <1>1, <1>3, <2>2, <2>3
    <2>5. put.location = l /\ put.utilization = [base EXCEPT ![l] = v]
      BY <2>1, <2>3
    <2> QED
      BY <1>3, <2>2, <2>4, <2>5
  <1> QED
    BY <1>2, <1>4, <1>5

\* A step leaves every utilization a number, and within the capacity if it was.
LEMMA UtilizationStep ==
  ASSUME IInv, NEW r \in Runs, Step(r)
  PROVE  /\ utilization' \in [Locations -> Nat]
         /\ \A l \in Locations : utilization'[l] <= utilization[l] \/ utilization'[l] <= Capacity
  <1>1. utilization \in [Locations -> Nat]
    BY DEF IInv, TypeOK
  <1>2. CASE utilization' = utilization
    BY <1>1, <1>2
  <1>3. CASE utilization' # utilization /\ InventoryPutaway(r)
    <2>1. todo \subseteq Received(r)
      BY <1>3 DEF InventoryPutaway, Running, IInv, TodoInv
    <2>2. PICK p \in todo : \E put \in Putaways(p, receipts[r].lines[p]) :
            utilization' = put.utilization
      BY <1>3 DEF InventoryPutaway
    <2>3. p \in Products /\ receipts[r].lines[p] \in Nat
      BY <2>1, QuantityAssumption DEF Received, IInv, TypeOK, Receipts
    <2>4. PICK put \in Putaways(p, receipts[r].lines[p]) : utilization' = put.utilization
      BY <2>2
    <2> QED
      BY <2>3, <2>4, PutawayStores
  <1>4. CASE utilization' # utilization /\ PickingCompleted(r)
    <2>1. PICK t \in TaskIds :
            /\ picking[t].status = "STARTED"
            /\ utilization' = [utilization EXCEPT ![allocations[AllocationOf(t)].location] =
                                 AtLeastZero(@ - Quantity(AllocationOf(t)))]
      BY <1>4, PickEffect
    <2>2. PICK l \in Locations, q \in Nat :
            l = allocations[AllocationOf(t)].location /\ q = Quantity(AllocationOf(t))
      BY <2>1, TaskQuantity
    <2>3. utilization[l] \in Nat
      BY <1>1
    <2>4. AtLeastZero(utilization[l] - q) \in Nat /\ AtLeastZero(utilization[l] - q) <= utilization[l]
      BY <2>3, Clamped
    <2>5. PICK v : v = AtLeastZero(utilization[l] - q)
      OBVIOUS
    <2>6. utilization' = [utilization EXCEPT ![l] = v]
      BY <2>1, <2>2, <2>5
    <2> QED
      BY <1>1, <2>4, <2>5, <2>6
  <1> QED
    BY <1>2, <1>3, <1>4, Frames

-----------------------------------------------------------------------------
(* Orders.                                                                  *)

\* The fields of an order.
LEMMA OrderFields ==
  ASSUME NEW order \in Orders
  PROVE  /\ order.status \in {"NONE", "CREATED", "PACKING", "PACKED", "SHIPPED", "DELIVERED"}
         /\ order.items \in [Products -> 0..MaxItem]
         /\ order.packing \in {"NONE", "CREATED", "STARTED", "COMPLETED"}
         /\ order.package \in [Products -> Nat]
  BY DEF Orders

\* Writing the order of one run.
LEMMA OrderWritten ==
  ASSUME TypeOK, NEW r \in Runs, NEW new \in Orders, orders' = [orders EXCEPT ![r] = new]
  PROVE  /\ orders' \in [Runs -> Orders] /\ orders'[r] = new
         /\ \A q \in Runs : q # r => orders'[q] = orders[q]
  BY DEF TypeOK

\* The tasks for one product: finitely many, as there are finitely many runs.
TasksFor(p) == {t \in TaskIds : AllocationOf(t)[2] = p}

LEMMA FiniteTasks == \A p \in Products : IsFiniteSet(TasksFor(p))
  <1> SUFFICES ASSUME NEW p \in Products PROVE IsFiniteSet(TasksFor(p))
    OBVIOUS
  <1>1. IsFiniteSet(Runs)
    BY RunAssumption, FS_Interval DEF Runs
  <1>2. PICK one : one = {p}
    OBVIOUS
  <1>3. IsFiniteSet(one)
    BY <1>2, FS_Singleton
  <1>4. PICK pairs : pairs = Runs \X one
    OBVIOUS
  <1>5. IsFiniteSet(pairs)
    BY <1>1, <1>3, <1>4, FS_Product
  <1>6. IsFiniteSet(Runs \X pairs)
    BY <1>1, <1>5, FS_Product
  <1>7. TasksFor(p) \subseteq Runs \X pairs
    BY <1>2, <1>4 DEF TasksFor, TaskIds, AllocationIds, AllocationOf
  <1> QED
    BY <1>6, <1>7, FS_Subset

\* Quantities are numbers, whatever the allocation.
LEMMA QuantityType ==
  ASSUME TypeOK, NEW t \in TaskIds
  PROVE  /\ AllocationOf(t) \in AllocationIds /\ AllocationOf(t)[1] \in Runs
         /\ AllocationOf(t)[2] \in Products /\ t[1] \in Runs
         /\ Quantity(AllocationOf(t)) \in 0..MaxItem
         /\ t = <<t[1], AllocationOf(t)>>
         /\ AllocationOf(t) = <<AllocationOf(t)[1], AllocationOf(t)[2]>>
  <1>1. PICK s \in Runs, a \in AllocationIds : t = <<s, a>>
    BY DEF TaskIds
  <1>2. PICK o \in Runs, p \in Products : a = <<o, p>>
    BY DEF AllocationIds
  <1>3. orders[o].items[p] \in 0..MaxItem
    BY OrderFields DEF TypeOK
  <1> QED
    BY <1>1, <1>2, <1>3 DEF AllocationOf, Quantity

\* A package holds a number of units of each product.
LEMMA PickedForType ==
  ASSUME TypeOK, NEW o \in Runs, NEW p \in Products
  PROVE  PickedFor(o, p) \in Nat
  <1> DEFINE n == [t \in TaskIds |-> Quantity(AllocationOf(t))]
             S == {t \in TasksOf(o) : AllocationOf(t)[2] = p /\ picking[t].status = "COMPLETED"}
  <1>1. S \subseteq TasksFor(p) /\ S \subseteq TaskIds
    BY DEF TasksOf, TasksFor
  <1>2. IsFiniteSet(S)
    BY <1>1, FiniteTasks, FS_Subset
  <1>3. \A t \in S : n[t] \in Nat
    BY <1>1, QuantityType, QuantityAssumption
  <1>4. PickedFor(o, p) = Total(n, S)
    BY DEF PickedFor
  <1> HIDE DEF n, S
  <1> QED
    BY <1>2, <1>3, <1>4, TotalType

\* What an outbound generator does to the order of its run.
OrderEffect(r) ==
  LET old == orders[r]
      new == orders'[r]
      at  == run[r].step
      to  == run'[r].step
  IN
  /\ \/ new.items = old.items
     \/ at = "OrderItemCreated" /\ to = "InventoryAllocationCreated"
  /\ \/ new.packing = old.packing /\ new.package = old.package
     \/ /\ at \in {"PackingTaskCreated", "PackingTaskStarted"} /\ to # at
        /\ new.packing \in {"CREATED", "STARTED"} /\ new.package = old.package
     \/ /\ at = "PackingCompleted" /\ to = "ShipmentReady" /\ new.packing = "COMPLETED"
        /\ new.package = [p \in Products |-> PickedFor(r, p)]
  /\ at = "PackingCompleted" /\ to = "ShipmentReady" =>
       new.package = [p \in Products |-> PickedFor(r, p)]
  /\ at = "PackingTaskCreated" /\ to = "PackingTaskStarted" => PickingDone(r)
  /\ to = "Exit" => new.status = "DELIVERED"

LEMMA OrdersStep ==
  ASSUME IInv, NEW r \in Runs, OutboundNext(r)
  PROVE  /\ orders' \in [Runs -> Orders]
         /\ \A q \in Runs : q # r => orders'[q] = orders[q]
         /\ OrderEffect(r)
  <1> USE DEF Running
  <1>0. /\ TypeOK /\ orders \in [Runs -> Orders] /\ OutboundMove(r)
        /\ run[r].step \in OutboundSteps
    BY OutboundMoves, GeneratorRun DEF IInv, TypeOK
  <1>1. PICK old \in Orders : old = orders[r]
    BY <1>0
  <1>2. /\ old.status \in {"NONE", "CREATED", "PACKING", "PACKED", "SHIPPED", "DELIVERED"}
        /\ old.items \in [Products -> 0..MaxItem]
        /\ old.packing \in {"NONE", "CREATED", "STARTED", "COMPLETED"}
        /\ old.package \in [Products -> Nat]
    BY OrderFields
  <1>3. CASE Fail(r)
    <2>1. orders' = orders /\ run'[r].step = run[r].step
      <3>1. run'[r].step = run[r].step
        BY <1>3, Failed
      <3>2. CASE orders' # orders
        <4>1. OrderCreated(r) \/ OrderItemCreated(r) \/ PackingTaskCreated(r)
          \/ PackingTaskStarted(r) \/ PackingCompleted(r) \/ ShipmentReady(r) \/ Transportation(r)
          BY <3>2 DEF OutboundNext, SeedInventory, InventoryAllocationCreated, InventoryReserved,
             PickingTaskCreated, PickingTaskStarted, PickingCompleted
        <4>2. CASE OrderCreated(r) \/ OrderItemCreated(r)
          BY <1>0, <3>1, <3>2, <4>2, Advanced DEF OrderCreated, OrderItemCreated, OutboundSteps
        <4>3. CASE PackingTaskCreated(r) \/ PackingTaskStarted(r)
          BY <1>0, <3>1, <3>2, <4>3, Advanced DEF PackingTaskCreated, PackingTaskStarted, OutboundSteps
        <4>4. CASE PackingCompleted(r) \/ ShipmentReady(r) \/ Transportation(r)
          BY <1>0, <3>1, <3>2, <4>4, Advanced DEF PackingCompleted, ShipmentReady, Transportation, OutboundSteps
        <4> QED
          BY <4>1, <4>2, <4>3, <4>4
      <3> QED
        BY <3>1, <3>2
    <2> QED
      BY <1>0, <2>1 DEF OrderEffect, OutboundSteps
  <1>4. CASE ~Fail(r) /\ OrderCreated(r)
    <2>1. PICK new : new = [old EXCEPT !.status = "CREATED"]
      OBVIOUS
    <2>2. orders' = [orders EXCEPT ![r] = new]
      BY <1>1, <1>4, <2>1 DEF OrderCreated
    <2>3. /\ new \in Orders /\ new.items = old.items
          /\ new.packing = old.packing /\ new.package = old.package
      BY <1>2, <2>1 DEF Orders
    <2>4. run[r].step = "OrderCreated" /\ run'[r].step = "OrderItemCreated"
      BY <1>4, Advanced DEF OrderCreated, OutboundSteps
    <2> QED
      BY <1>0, <1>1, <2>2, <2>3, <2>4, OrderWritten DEF OrderEffect
  <1>5. CASE ~Fail(r) /\ OrderItemCreated(r)
    <2>0. PICK items \in [Products -> 0..MaxItem] : orders' = [orders EXCEPT ![r].items = items]
      BY <1>5 DEF OrderItemCreated
    <2>1. PICK new : new = [old EXCEPT !.items = items]
      OBVIOUS
    <2>2. orders' = [orders EXCEPT ![r] = new]
      BY <1>1, <2>0, <2>1
    <2>3. /\ new \in Orders
          /\ new.packing = old.packing /\ new.package = old.package
      BY <1>2, <2>1 DEF Orders
    <2>4. run[r].step = "OrderItemCreated" /\ run'[r].step = "InventoryAllocationCreated"
      BY <1>5, Advanced DEF OrderItemCreated, OutboundSteps
    <2> QED
      BY <1>0, <1>1, <2>2, <2>3, <2>4, OrderWritten DEF OrderEffect
  <1>6. CASE ~Fail(r) /\ PackingTaskCreated(r)
    <2>1. PICK new : new = IF old.packing = "NONE"
                           THEN [old EXCEPT !.packing = "CREATED", !.status = "PACKING"] ELSE old
      OBVIOUS
    <2>2. orders' = [orders EXCEPT ![r] = new]
      BY <1>0, <1>1, <1>6, <2>1 DEF PackingTaskCreated
    <2>3. /\ new \in Orders /\ new.items = old.items /\ new.package = old.package
          /\ new.packing = old.packing \/ new.packing = "CREATED"
      BY <1>2, <2>1 DEF Orders
    <2>4. run[r].step = "PackingTaskCreated" /\ run'[r].step = "PackingTaskStarted" /\ PickingDone(r)
      BY <1>6, Advanced DEF PackingTaskCreated, OutboundSteps
    <2> QED
      BY <1>0, <1>1, <2>2, <2>3, <2>4, OrderWritten DEF OrderEffect
  <1>7. CASE ~Fail(r) /\ PackingTaskStarted(r)
    <2>1. PICK new : new = [old EXCEPT !.packing = IF @ = "CREATED" THEN "STARTED" ELSE @]
      OBVIOUS
    <2>2. orders' = [orders EXCEPT ![r] = new]
      BY <1>1, <1>7, <2>1 DEF PackingTaskStarted
    <2>3. /\ new \in Orders /\ new.items = old.items /\ new.package = old.package
          /\ new.packing = old.packing \/ new.packing = "STARTED"
      BY <1>2, <2>1 DEF Orders
    <2>4. run[r].step = "PackingTaskStarted" /\ run'[r].step = "PackingCompleted"
      BY <1>7, Advanced DEF PackingTaskStarted, OutboundSteps
    <2> QED
      BY <1>0, <1>1, <2>2, <2>3, <2>4, OrderWritten DEF OrderEffect
  <1>8. CASE ~Fail(r) /\ PackingCompleted(r)
    <2>0. PICK package : package = [p \in Products |-> PickedFor(r, p)]
      OBVIOUS
    <2>1. PICK new : new = [old EXCEPT !.packing = "COMPLETED", !.status = "PACKED",
                                       !.package = package]
      OBVIOUS
    <2>2. orders' = [orders EXCEPT ![r] = new]
      BY <1>1, <1>8, <2>0, <2>1 DEF PackingCompleted
    <2>3. package \in [Products -> Nat]
      BY <1>0, <2>0, PickedForType
    <2>4. /\ new \in Orders /\ new.items = old.items /\ new.package = package
          /\ new.packing = "COMPLETED"
      BY <1>2, <2>1, <2>3 DEF Orders
    <2>5. run[r].step = "PackingCompleted" /\ run'[r].step = "ShipmentReady"
      BY <1>8, Advanced DEF PackingCompleted, OutboundSteps
    <2> QED
      BY <1>0, <1>1, <2>0, <2>2, <2>4, <2>5, OrderWritten DEF OrderEffect
  <1>9. CASE ~Fail(r) /\ (ShipmentReady(r) \/ Transportation(r))
    <2>0. PICK status \in {"SHIPPED", "DELIVERED"} :
            /\ orders' = [orders EXCEPT ![r].status = status]
            /\ Transportation(r) => status = "DELIVERED"
      BY <1>9 DEF ShipmentReady, Transportation
    <2>1. PICK new : new = [old EXCEPT !.status = status]
      OBVIOUS
    <2>2. orders' = [orders EXCEPT ![r] = new]
      BY <1>1, <2>0, <2>1
    <2>3. /\ new \in Orders /\ new.items = old.items /\ new.status = status
          /\ new.packing = old.packing /\ new.package = old.package
      BY <1>2, <2>0, <2>1 DEF Orders
    <2>4. /\ run[r].step \in {"ShipmentReady", "Transportation"}
          /\ run'[r].step = "Exit" => Transportation(r)
      BY <1>9, Advanced DEF ShipmentReady, Transportation, OutboundSteps
    <2> QED
      BY <1>0, <1>1, <2>0, <2>2, <2>3, <2>4, OrderWritten DEF OrderEffect
  <1>10. CASE /\ ~Fail(r) /\ orders' = orders
              /\ \/ SeedInventory(r) \/ InventoryAllocationCreated(r) \/ InventoryReserved(r)
                 \/ PickingTaskCreated(r) \/ PickingTaskStarted(r) \/ PickingCompleted(r)
    <2>1. run[r].step \notin {"PackingTaskCreated", "PackingCompleted", "Transportation"}
      BY <1>10 DEF SeedInventory, InventoryAllocationCreated, InventoryReserved, PickingTaskCreated,
         PickingTaskStarted, PickingCompleted
    <2>2. run'[r].step # "Exit"
      BY <1>0, <1>10, <2>1 DEF OutboundMove
    <2> QED
      BY <1>0, <1>10, <2>1, <2>2 DEF OrderEffect
  <1>11. CASE SeedInventory(r) \/ InventoryAllocationCreated(r) \/ InventoryReserved(r)
                 \/ PickingTaskCreated(r) \/ PickingTaskStarted(r) \/ PickingCompleted(r)
    <2>1. orders' = orders
      BY <1>11 DEF SeedInventory, InventoryAllocationCreated, InventoryReserved, PickingTaskCreated,
         PickingTaskStarted, PickingCompleted
    <2> QED
      BY <1>3, <1>10, <1>11, <2>1
  <1> QED
    BY <1>3, <1>4, <1>5, <1>6, <1>7, <1>8, <1>9, <1>11 DEF OutboundNext

-----------------------------------------------------------------------------
(* Allocations.                                                             *)

\* The stages of every order but that of run r stay as they are; that of r stays,
\* or it orders, allocates or reserves.
LEMMA Stages ==
  ASSUME IInv, NEW r \in Runs, Step(r)
  PROVE  /\ \A o \in Runs : o # r =>
              /\ Unordered(o)' <=> Unordered(o)
              /\ Unallocated(o)' <=> Unallocated(o)
              /\ Unreserved(o)' <=> Unreserved(o)
              /\ orders'[o] = orders[o]
         /\ \/ /\ Unordered(r)' <=> Unordered(r)
               /\ Unallocated(r)' <=> Unallocated(r)
               /\ Unreserved(r)' <=> Unreserved(r)
               /\ orders'[r].items = orders[r].items
               /\ OutboundNext(r) /\ run[r].step \in {"InventoryAllocationCreated", "InventoryReserved"}
                    => run'[r].step = run[r].step
            \/ /\ OutboundNext(r)
               /\ run[r].step = "OrderItemCreated" /\ run'[r].step = "InventoryAllocationCreated"
               /\ Unordered(r) /\ ~Unordered(r)' /\ Unallocated(r)'
            \/ /\ OutboundNext(r)
               /\ run[r].step = "InventoryAllocationCreated" /\ run'[r].step = "InventoryReserved"
               /\ ~Unordered(r) /\ Unallocated(r) /\ ~Unallocated(r)' /\ Unreserved(r)'
               /\ orders'[r].items = orders[r].items
            \/ /\ OutboundNext(r)
               /\ run[r].step = "InventoryReserved" /\ run'[r].step = "PickingTaskCreated"
               /\ ~Unallocated(r) /\ Unreserved(r) /\ ~Unreserved(r)'
               /\ orders'[r].items = orders[r].items
  <1> USE DEF Unordered, Unallocated, Unreserved
  <1>1. \A o \in Runs : o # r => run'[o] = run[o]
    BY RunStep
  <1>2. \A o \in Runs : o # r => orders'[o] = orders[o]
    BY Frames, OrdersStep DEF OutboundNext
  <1>3. CASE ~OutboundNext(r)
    <2>1. orders' = orders
      BY <1>3, Frames DEF OutboundNext
    <2>2. CASE StartsRun(r)
      <3>1. run[r].status = "WAITING"
        BY <2>2 DEF StartsRun, StartRun
      <3>2. run[r].flow = "none"
        BY <3>1 DEF IInv, RunInv
      <3>3. \/ run'[r].flow = "inbound"
            \/ run'[r].flow = "outbound" /\ run'[r].step = "SeedInventory"
        BY <3>1, RunStep
      <3> QED
        BY <1>1, <1>2, <1>3, <2>1, <3>2, <3>3
    <2>3. CASE ~StartsRun(r)
      <3>1. /\ run'[r].flow = run[r].flow
            /\ run'[r].step = run[r].step \/ run[r].flow = "inbound"
        BY <1>3, <2>3, RunStep
      <3> QED
        BY <1>1, <1>2, <1>3, <2>1, <3>1
    <2> QED
      BY <2>2, <2>3
  <1>4. CASE OutboundNext(r)
    <2>1. /\ run[r].status = "RUNNING" /\ run[r].step \in OutboundSteps
          /\ OutboundMove(r) /\ OrderEffect(r)
      BY <1>4, OutboundMoves, OrdersStep, GeneratorRun
    <2>2. run[r].flow = "outbound"
      BY <2>1, RunFields DEF IInv, RunInv, Flows, FirstStep, InboundSteps, OutboundSteps
    <2>3. run'[r].flow = "outbound"
      BY <2>1, <2>2, RunStep
    <2>4. \/ /\ run'[r].step = run[r].step
             /\ orders'[r].items = orders[r].items
          \/ run[r].step = "OrderItemCreated" /\ run'[r].step = "InventoryAllocationCreated"
          \/ /\ run[r].step = "InventoryAllocationCreated" /\ run'[r].step = "InventoryReserved"
             /\ orders'[r].items = orders[r].items
          \/ /\ run[r].step = "InventoryReserved" /\ run'[r].step = "PickingTaskCreated"
             /\ orders'[r].items = orders[r].items
          \/ /\ run[r].step \in {"SeedInventory", "OrderCreated"}
             /\ run'[r].step \in {"OrderCreated", "OrderItemCreated"}
             /\ orders'[r].items = orders[r].items
          \/ /\ run[r].step \in Assigned \cup {"PickingTaskCreated"}
             /\ run'[r].step \in Assigned
             /\ orders'[r].items = orders[r].items
      BY <2>1 DEF OutboundMove, OrderEffect, Assigned, Packing
    <2> QED
      BY <1>1, <1>2, <1>4, <2>2, <2>3, <2>4 DEF Assigned, Packing
  <1> QED
    BY <1>3, <1>4

\* What a step of run r does to the allocation of one order and product.
AllocationEffect(r, o, p) ==
  LET old == allocations[<<o, p>>]
      new == allocations'[<<o, p>>]
      at  == run[r].step
      to  == run'[r].step
  IN
  \/ /\ new = old
     /\ o = r /\ OutboundNext(r) /\ at \in {"InventoryAllocationCreated", "InventoryReserved"} =>
          to = at \/ p \notin Ordered(r)
  \/ /\ o = r /\ p \in Ordered(r) /\ OutboundNext(r)
     /\ at = "InventoryAllocationCreated" /\ to = "InventoryReserved"
     /\ new.status = "ALLOCATED" /\ new.location \in Locations
  \/ /\ o = r /\ p \in Ordered(r) /\ InventoryReserved(r) /\ OutboundNext(r)
     /\ at = "InventoryReserved" /\ to = "PickingTaskCreated"
     /\ new.status = "RESERVED" /\ new.location = old.location
  \/ /\ PickingCompleted(r) /\ old.status \in {"RESERVED", "PICKED"}
     /\ new.status = "PICKED" /\ new.location = old.location
     /\ at # to
     /\ \E t \in TaskIds : /\ picking[t].status = "STARTED" /\ AllocationOf(t) = <<o, p>>
                           /\ picking' = [picking EXCEPT ![t].status = "COMPLETED"]

LEMMA AllocationsStep ==
  ASSUME IInv, NEW r \in Runs, Step(r)
  PROVE  /\ allocations' \in [AllocationIds -> Allocations]
         /\ \A o \in Runs, p \in Products : AllocationEffect(r, o, p)
  <1> USE DEF Running
  <1>0. /\ TypeOK /\ allocations \in [AllocationIds -> Allocations]
        /\ \A o \in Runs, p \in Products :
             /\ <<o, p>> \in AllocationIds /\ <<o, p>>[1] = o /\ <<o, p>>[2] = p
        /\ \A a \in AllocationIds : a[1] \in Runs /\ a[2] \in Products
    BY DEF IInv, TypeOK, AllocationIds
  <1>1. CASE /\ allocations' = allocations
             /\ OutboundNext(r) /\ run[r].step \in {"InventoryAllocationCreated", "InventoryReserved"} =>
                  run'[r].step = run[r].step
    BY <1>0, <1>1 DEF AllocationEffect
  <1>2. CASE InventoryAllocationCreated(r) /\ ~Fail(r)
    <2>1. /\ \A p \in Ordered(r) : Allocatable(p)
          /\ allocations' = [a \in AllocationIds |->
               IF a[1] = r /\ a[2] \in Ordered(r)
               THEN [status |-> "ALLOCATED", location |-> inventory[a[2]].location]
               ELSE allocations[a]]
          /\ run[r].step = "InventoryAllocationCreated" /\ run'[r].step = "InventoryReserved"
      BY <1>2, Advanced DEF InventoryAllocationCreated, OutboundSteps
    <2>2. \A p \in Ordered(r) : inventory[p].location \in Locations
      BY <2>1, RowFields DEF Ordered, Allocatable, IInv, TypeOK
    <2>3. ASSUME NEW a \in AllocationIds PROVE allocations'[a] \in Allocations
      <3>1. CASE a[1] = r /\ a[2] \in Ordered(r)
        <4>1. PICK l \in Locations : l = inventory[a[2]].location
          BY <2>2, <3>1
        <4>2. allocations'[a] = [status |-> "ALLOCATED", location |-> l]
          BY <2>1, <3>1, <4>1
        <4> QED
          BY <4>2 DEF Allocations
      <3> QED
        BY <1>0, <2>1, <3>1
    <2>4. allocations' \in [AllocationIds -> Allocations]
      BY <2>1, <2>3
    <2>5. ASSUME NEW o \in Runs, NEW p \in Products
          PROVE  AllocationEffect(r, o, p)
      <3>1. /\ o = r /\ p \in Ordered(r) =>
                 /\ allocations'[<<o, p>>].status = "ALLOCATED"
                 /\ allocations'[<<o, p>>].location \in Locations
            /\ ~(o = r /\ p \in Ordered(r)) => allocations'[<<o, p>>] = allocations[<<o, p>>]
        BY <1>0, <2>1, <2>2
      <3>2. OutboundNext(r)
        BY <1>2 DEF OutboundNext
      <3> QED
        BY <2>1, <3>1, <3>2 DEF AllocationEffect
    <2> QED
      BY <2>4, <2>5
  <1>3. CASE InventoryReserved(r) /\ ~Fail(r)
    <2>1. /\ allocations' = [a \in AllocationIds |->
               IF a[1] = r /\ a[2] \in Ordered(r)
               THEN [allocations[a] EXCEPT !.status = "RESERVED"]
               ELSE allocations[a]]
          /\ run[r].step = "InventoryReserved" /\ run'[r].step = "PickingTaskCreated"
      BY <1>3, Advanced DEF InventoryReserved, OutboundSteps
    <2>2. ASSUME NEW a \in AllocationIds
          PROVE  /\ allocations'[a] \in Allocations
                 /\ a[1] = r /\ a[2] \in Ordered(r) =>
                      /\ allocations'[a].status = "RESERVED"
                      /\ allocations'[a].location = allocations[a].location
                 /\ ~(a[1] = r /\ a[2] \in Ordered(r)) => allocations'[a] = allocations[a]
      <3>1. allocations[a] \in Allocations
        BY <1>0
      <3>2. CASE a[1] = r /\ a[2] \in Ordered(r)
        <4>1. allocations'[a] = [allocations[a] EXCEPT !.status = "RESERVED"]
          BY <2>1, <3>2
        <4> QED
          BY <3>1, <3>2, <4>1 DEF Allocations
      <3> QED
        BY <2>1, <3>1, <3>2
    <2>4. allocations' \in [AllocationIds -> Allocations]
      BY <2>1, <2>2
    <2>5. OutboundNext(r)
      BY <1>3 DEF OutboundNext
    <2>6. ASSUME NEW o \in Runs, NEW p \in Products
          PROVE  AllocationEffect(r, o, p)
      <3>1. PICK a \in AllocationIds : a = <<o, p>> /\ a[1] = o /\ a[2] = p
        BY <1>0
      <3> QED
        BY <1>3, <2>1, <2>2, <2>5, <3>1 DEF AllocationEffect
    <2> QED
      BY <2>4, <2>6
  <1>4. CASE PickingCompleted(r)
    <2>1. run[r].step = "PickingCompleted"
      BY <1>4 DEF PickingCompleted
    <2>2. CASE allocations' = allocations
      BY <1>1, <2>1, <2>2
    <2>3. CASE allocations' # allocations
      <3>1. PICK t \in TaskIds :
              /\ picking[t].status = "STARTED"
              /\ allocations' = [allocations EXCEPT ![AllocationOf(t)].status = "PICKED"]
              /\ picking' = [picking EXCEPT ![t].status = "COMPLETED"]
              /\ \E step \in {"PackingTaskCreated", "PickingTaskStarted"} : Advance(r, step)
        BY <1>4, <2>3, PickEffect
      <3>2. PICK a \in AllocationIds : a = AllocationOf(t)
        BY <1>0, QuantityType
      <3>3. allocations[a].status \in {"RESERVED", "PICKED"} /\ allocations[a] \in Allocations
        BY <1>0, <3>1, <3>2, TaskQuantity
      <3>4. allocations' = [allocations EXCEPT ![a].status = "PICKED"]
        BY <3>1, <3>2
      <3>5. /\ allocations'[a] = [allocations[a] EXCEPT !.status = "PICKED"]
            /\ \A b \in AllocationIds : b # a => allocations'[b] = allocations[b]
        BY <1>0, <3>4
      <3>6. /\ allocations'[a] \in Allocations /\ allocations'[a].status = "PICKED"
            /\ allocations'[a].location = allocations[a].location
        BY <3>3, <3>5 DEF Allocations
      <3>7. allocations' \in [AllocationIds -> Allocations]
        BY <1>0, <3>4, <3>5, <3>6
      <3>8. run'[r].step # run[r].step
        BY <2>1, <3>1, Advanced DEF OutboundSteps
      <3>9. ASSUME NEW o \in Runs, NEW p \in Products
            PROVE  AllocationEffect(r, o, p)
        <4>1. PICK b \in AllocationIds : b = <<o, p>>
          BY <1>0
        <4>2. CASE b = a
          BY <1>4, <3>1, <3>2, <3>3, <3>6, <3>8, <4>1, <4>2 DEF AllocationEffect
        <4>3. CASE b # a
          BY <2>1, <3>5, <4>1, <4>3 DEF AllocationEffect
        <4> QED
          BY <4>2, <4>3
      <3> QED
        BY <3>7, <3>9
    <2> QED
      BY <2>2, <2>3
  <1>5. CASE ~PickingCompleted(r) /\ ~InventoryReserved(r) /\ ~InventoryAllocationCreated(r)
    <2>1. allocations' = allocations
      BY <1>5, Frames
    <2>2. OutboundNext(r) => run[r].step \notin {"InventoryAllocationCreated", "InventoryReserved"}
      BY <1>5 DEF OutboundNext, SeedInventory, OrderCreated, OrderItemCreated,
         PickingTaskCreated, PickingTaskStarted, PackingTaskCreated,
         PackingTaskStarted, PackingCompleted, ShipmentReady, Transportation
    <2> QED
      BY <1>1, <2>1, <2>2
  <1>6. CASE Fail(r) /\ (InventoryAllocationCreated(r) \/ InventoryReserved(r))
    <2>1. run'[r].step = run[r].step
      BY <1>6, Failed
    <2>2. allocations' = allocations
      BY <1>6, <2>1, Advanced DEF InventoryAllocationCreated, InventoryReserved, OutboundSteps
    <2> QED
      BY <1>1, <2>1, <2>2
  <1> QED
    BY <1>2, <1>3, <1>4, <1>5, <1>6

\* An allocation keeps step with its order.
LEMMA AllocationInvStep ==
  ASSUME IInv, NEW r \in Runs, Step(r)
  PROVE  AllocationInv'
  <1> SUFFICES ASSUME NEW o \in Runs, NEW p \in Products
               PROVE  LET a == allocations'[<<o, p>>]
                          q == orders'[o].items[p]
                      IN  /\ Unordered(o)' => q = 0
                          /\ Unallocated(o)' => a.status = "NONE"
                          /\ Unreserved(o)' => a.status \in {"NONE", "ALLOCATED"}
                          /\ a.status # "NONE" => q > 0 /\ a.location \in Locations
                          /\ ~Unallocated(o)' /\ q > 0 => a.status # "NONE"
                          /\ ~Unreserved(o)' /\ q > 0 => a.status \in {"RESERVED", "PICKED"}
    BY DEF AllocationInv
  <1> DEFINE old == allocations[<<o, p>>]
             new == allocations'[<<o, p>>]
             n == orders[o].items[p]
             m == orders'[o].items[p]
  <1>1. /\ Unordered(o) => n = 0
        /\ Unallocated(o) => old.status = "NONE"
        /\ Unreserved(o) => old.status \in {"NONE", "ALLOCATED"}
        /\ old.status # "NONE" => n > 0 /\ old.location \in Locations
        /\ ~Unallocated(o) /\ n > 0 => old.status # "NONE"
        /\ ~Unreserved(o) /\ n > 0 => old.status \in {"RESERVED", "PICKED"}
    BY DEF IInv, AllocationInv
  <1>2. /\ Unordered(o) => Unallocated(o)
        /\ Unallocated(o) => Unreserved(o)
        /\ Unordered(o)' => Unallocated(o)'
        /\ Unallocated(o)' => Unreserved(o)'
    BY DEF Unallocated, Unreserved
  <1>3. AllocationEffect(r, o, p)
    BY AllocationsStep
  <1>4. p \in Ordered(o) <=> n > 0
    BY DEF Ordered
  <1>5. n \in Nat /\ m \in Nat
    <2>1. orders[o] \in Orders /\ orders'[o] \in Orders
      BY Frames, OrdersStep DEF IInv, TypeOK, OutboundNext
    <2> QED
      BY <2>1, OrderFields, QuantityAssumption
  <1>6. CASE /\ Unordered(o)' <=> Unordered(o)
             /\ Unallocated(o)' <=> Unallocated(o)
             /\ Unreserved(o)' <=> Unreserved(o)
             /\ m = n
             /\ \/ new = old
                \/ old.status \in {"RESERVED", "PICKED"} /\ new.status = "PICKED" /\ new.location = old.location
    BY <1>1, <1>2, <1>6
  <1>7. CASE o # r
    <2>1. /\ Unordered(o)' <=> Unordered(o)
          /\ Unallocated(o)' <=> Unallocated(o)
          /\ Unreserved(o)' <=> Unreserved(o)
          /\ m = n
      BY <1>7, Stages
    <2>2. \/ new = old
          \/ old.status \in {"RESERVED", "PICKED"} /\ new.status = "PICKED" /\ new.location = old.location
      BY <1>3, <1>7 DEF AllocationEffect
    <2> QED
      BY <1>6, <2>1, <2>2
  <1>8. CASE o = r
    <2>1. CASE /\ Unordered(r)' <=> Unordered(r)
               /\ Unallocated(r)' <=> Unallocated(r)
               /\ Unreserved(r)' <=> Unreserved(r)
               /\ orders'[r].items = orders[r].items
               /\ OutboundNext(r) /\ run[r].step \in {"InventoryAllocationCreated", "InventoryReserved"}
                    => run'[r].step = run[r].step
      <3>1. \/ new = old
            \/ old.status \in {"RESERVED", "PICKED"} /\ new.status = "PICKED" /\ new.location = old.location
        BY <1>3, <1>8, <2>1 DEF AllocationEffect
      <3> QED
        BY <1>6, <1>8, <2>1, <3>1
    <2>2. CASE /\ OutboundNext(r)
               /\ run[r].step = "OrderItemCreated" /\ run'[r].step = "InventoryAllocationCreated"
               /\ Unordered(r) /\ ~Unordered(r)' /\ Unallocated(r)'
      <3>1. new = old
        BY <1>1, <1>2, <1>3, <1>8, <2>2 DEF AllocationEffect
      <3> QED
        BY <1>1, <1>2, <1>5, <1>8, <2>2, <3>1
    <2>3. CASE /\ OutboundNext(r)
               /\ run[r].step = "InventoryAllocationCreated" /\ run'[r].step = "InventoryReserved"
               /\ ~Unordered(r) /\ Unallocated(r) /\ ~Unallocated(r)' /\ Unreserved(r)'
               /\ orders'[r].items = orders[r].items
      <3>1. \/ new = old /\ ~(n > 0)
            \/ n > 0 /\ new.status = "ALLOCATED" /\ new.location \in Locations
        BY <1>1, <1>2, <1>3, <1>4, <1>8, <2>3 DEF AllocationEffect
      <3> QED
        BY <1>1, <1>2, <1>5, <1>8, <2>3, <3>1
    <2>4. CASE /\ OutboundNext(r)
               /\ run[r].step = "InventoryReserved" /\ run'[r].step = "PickingTaskCreated"
               /\ ~Unallocated(r) /\ Unreserved(r) /\ ~Unreserved(r)'
               /\ orders'[r].items = orders[r].items
      <3>1. \/ new = old /\ ~(n > 0)
            \/ n > 0 /\ new.status = "RESERVED" /\ new.location = old.location
        BY <1>1, <1>2, <1>3, <1>4, <1>8, <2>4 DEF AllocationEffect
      <3> QED
        BY <1>1, <1>2, <1>5, <1>8, <2>4, <3>1
    <2> QED
      BY <2>1, <2>2, <2>3, <2>4, Stages
  <1> QED
    BY <1>7, <1>8

\* Stock that is reserved stays so until it is picked.
LEMMA AllocationKept ==
  ASSUME IInv, NEW r \in Runs, Step(r), NEW a \in AllocationIds,
         allocations[a].status \in {"RESERVED", "PICKED"}
  PROVE  /\ allocations'[a].status \in {"RESERVED", "PICKED"}
         /\ allocations[a].status = "PICKED" => allocations'[a].status = "PICKED"
  <1>1. PICK o \in Runs, p \in Products : a = <<o, p>>
    BY DEF AllocationIds
  <1>2. AllocationEffect(r, o, p)
    BY AllocationsStep
  <1>3. ~Unreserved(o)
    BY <1>1 DEF IInv, AllocationInv
  <1>4. \/ allocations'[a] = allocations[a]
        \/ allocations'[a].status = "PICKED"
        \/ o = r /\ run[r].step \in {"InventoryAllocationCreated", "InventoryReserved"}
    BY <1>1, <1>2 DEF AllocationEffect
  <1>5. ~(o = r /\ run[r].step \in {"InventoryAllocationCreated", "InventoryReserved"})
    BY <1>3 DEF Unreserved, Unallocated
  <1> QED
    BY <1>4, <1>5

-----------------------------------------------------------------------------
(* Picking tasks.                                                           *)

\* No run goes back to before its picking tasks, and creating them leaves it.
LEMMA UnassignedStep ==
  ASSUME IInv, NEW r \in Runs, Step(r)
  PROVE  /\ \A q \in Runs : Unassigned(q)' => Unassigned(q)
         /\ PickingTaskCreated(r) => ~Unassigned(r)'
  <1>1. \A q \in Runs : Unreserved(q)' => Unreserved(q)
    <2>1. \A q \in Runs : Unordered(q) => Unallocated(q)
      BY DEF Unallocated
    <2>2. \A q \in Runs : Unallocated(q) => Unreserved(q)
      BY DEF Unreserved
    <2> QED
      BY <2>1, <2>2, Stages
  <1>2. ASSUME NEW q \in Runs, Running(q, "PickingTaskCreated")'
        PROVE  Unassigned(q)
    <2>1. q = r
      BY <1>2, RunStep DEF Running
    <2>2. run'[r].status = "RUNNING" /\ run'[r].step = "PickingTaskCreated"
      BY <1>2, <2>1 DEF Running
    <2>3. OutboundNext(r)
      BY <2>2, RunStep DEF InboundSteps
    <2>4. run[r].step = "InventoryReserved"
      BY <2>2, <2>3, OutboundMoves DEF OutboundMove
    <2> QED
      BY <2>1, <2>4 DEF Unassigned, Unreserved
  <1>3. ASSUME PickingTaskCreated(r) PROVE ~Unassigned(r)'
    <2>1. run[r].step = "PickingTaskCreated" /\ run[r].status = "RUNNING" /\ OutboundNext(r)
      BY <1>3 DEF PickingTaskCreated, Running, OutboundNext
    <2>2. \/ run'[r].step = "PickingTaskCreated" /\ run'[r].status = "FAILED"
          \/ run'[r].step = "PickingTaskStarted"
      BY <2>1, OutboundMoves DEF OutboundMove
    <2>3. run'[r].flow = "outbound"
      <3>1. run[r].flow = "outbound"
        BY <2>1, RunFields DEF IInv, RunInv, Flows, FirstStep, InboundSteps, OutboundSteps
      <3> QED
        BY <2>1, <3>1, RunStep
    <2> QED
      BY <2>2, <2>3 DEF Unassigned, Unreserved, Unallocated, Unordered, Running
  <1> QED
    BY <1>1, <1>2, <1>3 DEF Unassigned

\* What a step of run r does to a picking task.
TaskEffect(r, t) ==
  LET old == picking[t]
      new == picking'[t]
  IN
  \/ new = old
  \/ /\ PickingTaskCreated(r) /\ t[1] = r /\ AllocationOf(t) \in ReservedAllocations
     /\ new.status = "CREATED" /\ new.order \in Runs
     /\ allocations' = allocations
  \/ /\ PickingTaskStarted(r) /\ t \in todo /\ old.status = "CREATED"
     /\ new.status = "STARTED" /\ new.order = old.order
     /\ allocations' = allocations
  \/ /\ PickingCompleted(r) /\ old.status = "STARTED"
     /\ new.status = "COMPLETED" /\ new.order = old.order
     /\ allocations' = [allocations EXCEPT ![AllocationOf(t)].status = "PICKED"]
     /\ \A s \in TaskIds : /\ s # t => picking'[s] = picking[s]
                           /\ picking[s].status = "STARTED" => run[t[1]].stamp <= run[s[1]].stamp

LEMMA TasksStep ==
  ASSUME IInv, NEW r \in Runs, Step(r)
  PROVE  /\ picking' \in [TaskIds -> PickingTasks]
         /\ \A t \in TaskIds : TaskEffect(r, t)
  <1>0. picking \in [TaskIds -> PickingTasks] /\ Runs \subseteq 0..MaxRuns
    BY RunAssumption DEF IInv, TypeOK, Runs
  <1>1. CASE picking' = picking
    BY <1>0, <1>1 DEF TaskEffect
  <1>2. CASE PickingTaskCreated(r)
    <2>1. PICK first \in Earliest(ReservedAllocations) :
            picking' = [t \in TaskIds |->
              IF t[1] = r /\ AllocationOf(t) \in ReservedAllocations
              THEN [status |-> "CREATED", order |-> first[1]]
              ELSE picking[t]]
      BY <1>2 DEF PickingTaskCreated
    <2>2. PICK o \in Runs : o = first[1]
      BY DEF Earliest, ReservedAllocations, AllocationIds
    <2>3. [status |-> "CREATED", order |-> o] \in PickingTasks
      BY <1>0 DEF PickingTasks
    <2>4. picking' = [t \in TaskIds |->
              IF t[1] = r /\ AllocationOf(t) \in ReservedAllocations
              THEN [status |-> "CREATED", order |-> o]
              ELSE picking[t]]
      BY <2>1, <2>2
    <2>5. picking' \in [TaskIds -> PickingTasks]
      BY <1>0, <2>3, <2>4
    <2>6. allocations' = allocations
      BY <1>2 DEF PickingTaskCreated
    <2>7. ASSUME NEW t \in TaskIds PROVE TaskEffect(r, t)
      <3>1. CASE t[1] = r /\ AllocationOf(t) \in ReservedAllocations
        <4>1. picking'[t] = [status |-> "CREATED", order |-> o]
          BY <2>4, <3>1
        <4>2. picking'[t].status = "CREATED" /\ picking'[t].order = o
          BY <4>1
        <4> QED
          BY <1>2, <2>6, <3>1, <4>2 DEF TaskEffect
      <3>2. CASE ~(t[1] = r /\ AllocationOf(t) \in ReservedAllocations)
        BY <2>4, <3>2 DEF TaskEffect
      <3> QED
        BY <3>1, <3>2
    <2> QED
      BY <2>5, <2>7
  <1>3. CASE picking' # picking /\ PickingTaskStarted(r)
    <2>1. PICK t \in todo : /\ picking[t].status = "CREATED"
                            /\ picking' = [picking EXCEPT ![t].status = "STARTED"]
                            /\ allocations' = allocations
      BY <1>3 DEF PickingTaskStarted
    <2>2. t \in TaskIds
      BY <1>0, <1>3, <2>1
    <2>3. /\ picking'[t] = [picking[t] EXCEPT !.status = "STARTED"]
          /\ \A s \in TaskIds : s # t => picking'[s] = picking[s]
          /\ picking[t] \in PickingTasks
      BY <1>0, <2>1, <2>2
    <2>4. picking'[t].status = "STARTED" /\ picking'[t].order = picking[t].order /\ picking'[t] \in PickingTasks
      BY <2>3 DEF PickingTasks
    <2>5. picking' \in [TaskIds -> PickingTasks]
      BY <1>0, <2>1, <2>3, <2>4
    <2>6. ASSUME NEW s \in TaskIds PROVE TaskEffect(r, s)
      BY <1>3, <2>1, <2>3, <2>4 DEF TaskEffect
    <2> QED
      BY <2>5, <2>6
  <1>4. CASE picking' # picking /\ PickingCompleted(r)
    <2>1. PICK t \in TaskIds :
            /\ picking[t].status = "STARTED"
            /\ picking' = [picking EXCEPT ![t].status = "COMPLETED"]
            /\ allocations' = [allocations EXCEPT ![AllocationOf(t)].status = "PICKED"]
            /\ \A s \in TaskIds : picking[s].status = "STARTED" => run[t[1]].stamp <= run[s[1]].stamp
      BY <1>4, PickEffect
    <2>3. /\ picking'[t] = [picking[t] EXCEPT !.status = "COMPLETED"]
          /\ \A s \in TaskIds : s # t => picking'[s] = picking[s]
          /\ picking[t] \in PickingTasks
      BY <1>0, <2>1
    <2>4. picking'[t].status = "COMPLETED" /\ picking'[t].order = picking[t].order /\ picking'[t] \in PickingTasks
      BY <2>3 DEF PickingTasks
    <2>5. picking' \in [TaskIds -> PickingTasks]
      BY <1>0, <2>1, <2>3, <2>4
    <2>6. ASSUME NEW s \in TaskIds PROVE TaskEffect(r, s)
      <3>1. CASE s = t
        BY <1>4, <2>1, <2>3, <2>4, <3>1 DEF TaskEffect
      <3>2. CASE s # t
        BY <2>3, <3>2 DEF TaskEffect
      <3> QED
        BY <3>1, <3>2
    <2> QED
      BY <2>5, <2>6
  <1> QED
    BY <1>1, <1>2, <1>3, <1>4, Frames

\* A picking task keeps step with its allocation.
LEMMA TaskInvStep ==
  ASSUME IInv, NEW r \in Runs, Step(r)
  PROVE  TaskInv'
  <1>1. ASSUME NEW t \in TaskIds
        PROVE  /\ picking'[t].status # "NONE" => allocations'[t[2]].status \in {"RESERVED", "PICKED"}
               /\ picking'[t].status = "COMPLETED" => allocations'[t[2]].status = "PICKED"
               /\ Unassigned(t[1])' => picking'[t].status = "NONE"
    <2>1. /\ picking[t].status # "NONE" => allocations[t[2]].status \in {"RESERVED", "PICKED"}
          /\ picking[t].status = "COMPLETED" => allocations[t[2]].status = "PICKED"
          /\ Unassigned(t[1]) => picking[t].status = "NONE"
      BY DEF IInv, TaskInv
    <2>2. TaskEffect(r, t) /\ t[2] \in AllocationIds /\ t[1] \in Runs /\ AllocationOf(t) = t[2]
      BY TasksStep, QuantityType DEF AllocationOf, IInv
    <2>3. Unassigned(t[1])' => Unassigned(t[1])
      BY <2>2, UnassignedStep
    <2>4. CASE picking'[t] = picking[t]
      BY <2>1, <2>2, <2>3, <2>4, AllocationKept
    <2>5. CASE /\ PickingTaskCreated(r) /\ t[1] = r /\ AllocationOf(t) \in ReservedAllocations
               /\ picking'[t].status = "CREATED" /\ allocations' = allocations
      <3>1. ~Unassigned(t[1])'
        BY <2>5, UnassignedStep
      <3> QED
        BY <2>2, <2>5, <3>1 DEF ReservedAllocations
    <2>6. CASE /\ picking[t].status = "CREATED" /\ picking'[t].status = "STARTED"
               /\ allocations' = allocations
      BY <2>1, <2>3, <2>6
    <2>7. CASE /\ picking[t].status = "STARTED" /\ picking'[t].status = "COMPLETED"
               /\ allocations' = [allocations EXCEPT ![AllocationOf(t)].status = "PICKED"]
      <3>1. allocations'[t[2]].status = "PICKED"
        <4>1. allocations \in [AllocationIds -> Allocations]
          BY DEF IInv, TypeOK
        <4>2. allocations[t[2]] \in Allocations
          BY <2>2, <4>1
        <4>3. allocations'[t[2]] = [allocations[t[2]] EXCEPT !.status = "PICKED"]
          BY <2>2, <2>7, <4>1
        <4> QED
          BY <4>2, <4>3 DEF Allocations
      <3> QED
        BY <2>1, <2>3, <2>7, <3>1
    <2> QED
      BY <2>2, <2>4, <2>5, <2>6, <2>7 DEF TaskEffect
  <1> QED
    BY <1>1 DEF TaskInv

-----------------------------------------------------------------------------
(* The invariant.                                                           *)

LEMMA Initially == Init => IInv
  <1> SUFFICES ASSUME Init PROVE IInv
    OBVIOUS
  <1>1. /\ inventory = [p \in Products |-> NoRow] /\ utilization = [l \in Locations |-> 0]
        /\ busy = {} /\ todo = {} /\ interrupts = 0
        /\ \A r \in Runs : run[r] = [flow |-> "none", stamp |-> 0, status |-> "WAITING", step |-> "none"]
        /\ run = [r \in Runs |-> [flow |-> "none", stamp |-> 0, status |-> "WAITING", step |-> "none"]]
        /\ receipts = [r \in Runs |-> [po |-> "NONE", lines |-> [p \in Products |-> 0],
                                       shipment |-> "NONE", task |-> "NONE", worker |-> NoWorker]]
        /\ orders = [r \in Runs |-> [status |-> "NONE", items |-> [p \in Products |-> 0],
                                     packing |-> "NONE", package |-> [p \in Products |-> 0]]]
        /\ allocations = [a \in AllocationIds |-> [status |-> "NONE", location |-> NoLocation]]
        /\ picking = [t \in TaskIds |-> [status |-> "NONE", order |-> 0]]
    BY DEF Init, WarehouseInit, InboundInit, OutboundInit
  <1>2. NoRow \in InventoryRows /\ NoRow.creator = 0 /\ NoRow.reserved = 0 /\ NoRow.onHand = 0
    BY RunAssumption DEF NoRow, InventoryRows
  <1>3. TypeOK
    <2>1. inventory \in [Products -> InventoryRows]
      BY <1>1, <1>2
    <2>2. run \in [Runs -> RunRecords]
      BY <1>1 DEF RunRecords
    <2>3. PICK blank : blank = [p \in Products |-> 0]
      OBVIOUS
    <2>4. /\ blank \in [Products -> 0..MaxOrdered] /\ blank \in [Products -> 0..MaxItem]
          /\ blank \in [Products -> Nat]
      BY <2>3, QuantityAssumption
    <2>5. receipts \in [Runs -> Receipts]
      <3>1. [po |-> "NONE", lines |-> blank, shipment |-> "NONE", task |-> "NONE",
             worker |-> NoWorker] \in Receipts
        BY <2>4 DEF Receipts
      <3> QED
        BY <1>1, <2>3, <3>1
    <2>6. orders \in [Runs -> Orders]
      <3>1. [status |-> "NONE", items |-> blank, packing |-> "NONE", package |-> blank] \in Orders
        BY <2>4 DEF Orders
      <3> QED
        BY <1>1, <2>3, <3>1
    <2>7. allocations \in [AllocationIds -> Allocations]
      BY <1>1 DEF Allocations
    <2>8. picking \in [TaskIds -> PickingTasks]
      BY <1>1, RunAssumption DEF PickingTasks
    <2> QED
      BY <1>1, <2>1, <2>2, <2>5, <2>6, <2>7, <2>8 DEF TypeOK
  <1>4. /\ \A r \in Runs : /\ run[r].flow = "none" /\ run[r].status = "WAITING"
                           /\ run[r].step = "none"
                           /\ receipts[r].shipment = "NONE" /\ receipts[r].task = "NONE"
                           /\ \A p \in Products : orders[r].items[p] = 0
        /\ \A a \in AllocationIds : allocations[a].status = "NONE"
        /\ \A t \in TaskIds : picking[t].status = "NONE"
    BY <1>1
  <1>5. RunInv
    BY <1>4 DEF RunInv
  <1>6. ReceiptInv
    BY <1>4 DEF ReceiptInv
  <1>7. WorkerInv
    BY <1>1, <1>4 DEF WorkerInv, BusyWhileReceiving, Running
  <1>8. StockInv
    BY <1>1, <1>2 DEF StockInv
  <1>9. AllocationInv
    BY <1>4 DEF AllocationInv, AllocationIds, Unallocated, Unreserved, Unordered
  <1>10. TaskInv
    BY <1>4 DEF TaskInv
  <1>11. TodoInv
    BY <1>4 DEF TodoInv
  <1> QED
    BY <1>3, <1>5, <1>6, <1>7, <1>8, <1>9, <1>10, <1>11 DEF IInv

\* Next is a step of some run, or nothing.
LEMMA Steps ==
  ASSUME [Next]_vars
  PROVE  UNCHANGED vars \/ \E r \in Runs : Step(r)
  BY DEF Next, AllServed, Step

LEMMA StepInvariant ==
  ASSUME IInv, NEW r \in Runs, Step(r)
  PROVE  IInv'
  <1>1. orders' \in [Runs -> Orders]
    BY Frames, OrdersStep DEF OutboundNext, IInv, TypeOK
  <1>2. TypeOK'
    BY <1>1, InventoryStep, UtilizationStep, WorkerInvStep, RunStep, TodoInvStep, ReceiptInvStep,
       AllocationsStep, TasksStep DEF TypeOK
  <1> QED
    BY <1>2, RunInvStep, ReceiptInvStep, WorkerInvStep, StockInvStep, AllocationInvStep, TaskInvStep,
       TodoInvStep DEF IInv

\* If nothing changes, the invariant stays.
LEMMA Stuttering == ASSUME IInv, UNCHANGED vars PROVE IInv'
  <1> USE DEF vars, warehouseVars, inboundVars, outboundVars
  <1>1. TypeOK'
    BY DEF IInv, TypeOK
  <1>2. RunInv' /\ ReceiptInv' /\ WorkerInv'
    BY DEF IInv, RunInv, ReceiptInv, WorkerInv, BusyWhileReceiving, Running
  <1>3. StockInv' /\ TodoInv'
    BY DEF IInv, StockInv, TodoInv, Received
  <1>4. AllocationInv' /\ TaskInv'
    BY DEF IInv, AllocationInv, TaskInv, Unassigned, Unreserved, Unallocated, Unordered, Running
  <1> QED
    BY <1>1, <1>2, <1>3, <1>4 DEF IInv

LEMMA Invariance == Spec => []IInv
  <1>1. IInv /\ [Next]_vars => IInv'
    BY Steps, StepInvariant, Stuttering
  <1> QED
    BY Initially, <1>1, PTL DEF Spec

\* Every column holds a value of its domain in every state.
THEOREM TypeCorrect == Spec => []TypeOK
  <1>1. IInv => TypeOK
    BY DEF IInv
  <1> QED
    BY <1>1, Invariance, PTL

\* A worker is BUSY exactly while a STARTED receiving task holds it.
THEOREM WorkersAreHeldByTasks == Spec => []BusyWhileReceiving
  <1>1. IInv => BusyWhileReceiving
    BY DEF IInv, WorkerInv
  <1> QED
    BY <1>1, Invariance, PTL

-----------------------------------------------------------------------------
(* The ledger.                                                              *)

\* At most one of the generators that write stock runs in a step.
LEMMA OneGenerator ==
  ASSUME NEW r \in Runs
  PROVE  /\ SeedInventory(r) => run[r].step = "SeedInventory"
         /\ GoodsReceived(r) => run[r].step = "GoodsReceived"
         /\ StockIncreased(r) => run[r].step = "StockIncreased"
         /\ InventoryPutaway(r) => run[r].step = "InventoryPutaway"
         /\ InventoryReserved(r) => run[r].step = "InventoryReserved"
         /\ PickingTaskCreated(r) => run[r].step = "PickingTaskCreated"
         /\ PickingTaskStarted(r) => run[r].step = "PickingTaskStarted"
         /\ PickingCompleted(r) => run[r].step = "PickingCompleted"
  BY DEF SeedInventory, GoodsReceived, StockIncreased, InventoryPutaway, InventoryReserved,
     PickingTaskCreated, PickingTaskStarted, PickingCompleted, Running

LEMMA LedgerStep ==
  ASSUME IInv, NEW r \in Runs, Step(r)
  PROVE  [Ledger!Next]_<<[p \in Products |-> inventory[p].onHand],
                         [p \in Products |-> inventory[p].reserved]>>
  <1>0. /\ inventory \in [Products -> InventoryRows] /\ inventory' \in [Products -> InventoryRows]
        /\ \A p \in Products : StockEffect(r, p)
    BY InventoryStep DEF IInv, TypeOK
  <1>1. ASSUME NEW p \in Products
        PROVE  /\ inventory[p].onHand \in Nat /\ inventory[p].reserved \in Nat
               /\ inventory'[p].onHand \in Nat /\ inventory'[p].reserved \in Nat
               /\ inventory[p].reserved <= inventory[p].onHand
               /\ inventory[p].creator = 0 => inventory[p].onHand = 0 /\ inventory[p].reserved = 0
               /\ receipts[r].lines[p] \in Nat /\ orders[r].items[p] \in Nat
    <2>1. inventory[p] \in InventoryRows /\ inventory'[p] \in InventoryRows
      BY <1>0
    <2>2. /\ inventory[p].reserved <= inventory[p].onHand
          /\ inventory[p].creator = 0 => inventory[p] = NoRow
      BY DEF IInv, StockInv
    <2>3. receipts[r] \in Receipts /\ orders[r] \in Orders
      BY DEF IInv, TypeOK
    <2>4. receipts[r].lines[p] \in Nat /\ orders[r].items[p] \in Nat
      BY <2>3, ReceiptFields, OrderFields, QuantityAssumption
    <2> QED
      BY <2>1, <2>2, <2>4, RowFields DEF NoRow
  <1>2. CASE \A p \in Products : /\ inventory'[p].onHand = inventory[p].onHand
                                 /\ inventory'[p].reserved = inventory[p].reserved
    BY <1>2
  <1>3. CASE SeedInventory(r) \/ GoodsReceived(r)
    <2>1. \A p \in Products : /\ inventory'[p].onHand >= inventory[p].onHand
                              /\ inventory'[p].reserved = inventory[p].reserved
      <3> TAKE p \in Products
      <3>1. \/ inventory'[p] = inventory[p]
            \/ /\ inventory[p].creator = 0
               /\ inventory'[p].onHand = SeedQty /\ inventory'[p].reserved = 0
            \/ /\ inventory'[p].onHand = inventory[p].onHand + receipts[r].lines[p]
               /\ inventory'[p].reserved = inventory[p].reserved
        BY <1>0, <1>3, OneGenerator DEF StockEffect
      <3> QED
        BY <1>1, <3>1, QuantityAssumption
    <2>2. [p \in Products |-> inventory'[p].onHand] \in [Products -> Nat]
      BY <1>1
    <2>3. [p \in Products |-> inventory'[p].reserved] = [p \in Products |-> inventory[p].reserved]
      BY <2>1
    <2> QED
      BY <2>1, <2>2, <2>3 DEF Ledger!Next, Ledger!Receive
  <1>4. CASE InventoryReserved(r)
    <2>1. \A p \in Products : /\ inventory'[p].onHand = inventory[p].onHand
                              /\ inventory'[p].reserved \in inventory[p].reserved..inventory[p].onHand
      <3> TAKE p \in Products
      <3>1. \/ inventory'[p] = inventory[p]
            \/ /\ orders[r].items[p] <= inventory[p].onHand - inventory[p].reserved
               /\ inventory'[p].onHand = inventory[p].onHand
               /\ inventory'[p].reserved = inventory[p].reserved + orders[r].items[p]
        BY <1>0, <1>4, OneGenerator DEF StockEffect, Available
      <3> QED
        BY <1>1, <3>1
    <2>2. [p \in Products |-> inventory'[p].reserved] \in [Products -> Nat]
      BY <1>1
    <2>3. [p \in Products |-> inventory'[p].onHand] = [p \in Products |-> inventory[p].onHand]
      BY <2>1
    <2> QED
      BY <2>1, <2>2, <2>3 DEF Ledger!Next, Ledger!Reserve
  <1>5. CASE StockIncreased(r) \/ InventoryPutaway(r)
    <2>1. \A p \in Products : /\ inventory'[p].onHand = inventory[p].onHand
                              /\ inventory'[p].reserved = inventory[p].reserved
      BY <1>0, <1>5, OneGenerator DEF StockEffect
    <2> QED
      BY <1>2, <2>1
  <1>6. CASE PickingCompleted(r) /\ inventory' # inventory
    <2>1. PICK t \in TaskIds : LET a == AllocationOf(t) IN
            /\ picking[t].status = "STARTED"
            /\ Quantity(a) <= inventory[a[2]].reserved
            /\ inventory' = [inventory EXCEPT ![a[2]].onHand = @ - Quantity(a),
                                              ![a[2]].reserved = @ - Quantity(a)]
      BY <1>6, PickEffect
    <2>2. PICK k \in Products, n \in Nat : k = AllocationOf(t)[2] /\ n = Quantity(AllocationOf(t)) /\ n > 0
      BY <2>1, TaskQuantity
    <2>3. /\ inventory' = [inventory EXCEPT ![k].onHand = @ - n, ![k].reserved = @ - n]
          /\ n <= inventory[k].reserved
      BY <2>1, <2>2
    <2>4. /\ inventory'[k] = [inventory[k] EXCEPT !.onHand = @ - n, !.reserved = @ - n]
          /\ \A p \in Products : p # k => inventory'[p] = inventory[p]
      BY <1>0, <2>3
    <2>5. /\ inventory'[k].onHand = inventory[k].onHand - n
          /\ inventory'[k].reserved = inventory[k].reserved - n
      BY <1>0, <2>4 DEF InventoryRows
    <2>6. n \in 1..inventory[k].reserved
      BY <1>1, <2>2, <2>3
    <2>7. /\ [p \in Products |-> inventory'[p].onHand] =
               [[p \in Products |-> inventory[p].onHand] EXCEPT ![k] = @ - n]
          /\ [p \in Products |-> inventory'[p].reserved] =
               [[p \in Products |-> inventory[p].reserved] EXCEPT ![k] = @ - n]
      BY <2>4, <2>5
    <2>8. Ledger!Issue(k, n)
      BY <2>7 DEF Ledger!Issue
    <2> QED
      BY <2>6, <2>8 DEF Ledger!Next
  <1> QED
    BY <1>2, <1>3, <1>4, <1>5, <1>6, Frames

\* However runs interleave, stop and resume one another's tasks, stock comes in,
\* is promised once and leaves as promised: each step of the flows is a step of
\* the ledger or leaves it alone.
THEOREM LedgerIsImplemented == Spec => ImplementsLedger
  <1>1. Init => Ledger!Init
    BY DEF Init, WarehouseInit, Ledger!Init, NoRow
  <1>2. IInv /\ [Next]_vars => [Ledger!Next]_<<[p \in Products |-> inventory[p].onHand],
                                               [p \in Products |-> inventory[p].reserved]>>
    <2> SUFFICES ASSUME IInv, [Next]_vars
                 PROVE  [Ledger!Next]_<<[p \in Products |-> inventory[p].onHand],
                                        [p \in Products |-> inventory[p].reserved]>>
      OBVIOUS
    <2>1. CASE UNCHANGED vars
      BY <2>1 DEF vars, warehouseVars
    <2> QED
      BY <2>1, Steps, LedgerStep
  <1> QED
    BY <1>1, <1>2, Invariance, PTL DEF Spec, ImplementsLedger, Ledger!Spec

-----------------------------------------------------------------------------
(* Capacity.                                                                *)

\* No location holds more than its capacity.
WithinCapacity == \A l \in Locations : utilization[l] \in 0..Capacity

\* Putting away, whatever it moves, never fills a location beyond its capacity.
THEOREM LocationsAreNotOverfilled == Spec => []WithinCapacity
  <1>1. Init => WithinCapacity
    BY QuantityAssumption DEF Init, WarehouseInit, WithinCapacity
  <1>2. IInv /\ WithinCapacity /\ [Next]_vars => WithinCapacity'
    <2> SUFFICES ASSUME IInv, WithinCapacity, [Next]_vars PROVE WithinCapacity'
      OBVIOUS
    <2>1. CASE UNCHANGED vars
      BY <2>1 DEF vars, warehouseVars, WithinCapacity
    <2>2. ASSUME NEW r \in Runs, Step(r) PROVE WithinCapacity'
      <3>1. /\ utilization' \in [Locations -> Nat]
            /\ \A l \in Locations : utilization'[l] <= utilization[l] \/ utilization'[l] <= Capacity
        BY <2>2, UtilizationStep
      <3>2. \A l \in Locations : utilization[l] <= Capacity /\ utilization[l] \in Nat
        BY DEF WithinCapacity
      <3> QED
        BY <3>1, <3>2, QuantityAssumption DEF WithinCapacity
    <2> QED
      BY <2>1, <2>2, Steps
  <1> QED
    BY <1>1, <1>2, Invariance, PTL DEF Spec

-----------------------------------------------------------------------------
(* What a run that ended well has done.                                     *)

\* The loops of an inbound run leave behind what they are done with.
InboundWork ==
  \A r \in Runs : run[r].status = "RUNNING" /\ run[r].flow = "inbound" =>
    /\ run[r].step = "StockIncreased" =>
         \A p \in Received(r) \ todo : inventory[p].status = "AVAILABLE"
    /\ run[r].step \in {"InventoryPutaway", "Exit"} =>
         \A p \in Received(r) : /\ inventory[p].status = "AVAILABLE"
                                /\ p \notin todo \/ run[r].step = "Exit" =>
                                     inventory[p].location # NoLocation

LEMMA InboundWorkStep ==
  ASSUME IInv, InboundWork, NEW r \in Runs, Step(r)
  PROVE  InboundWork'
  <1>1. \A q \in Runs : q # r => run'[q] = run[q] /\ run'[q].status # "RUNNING"
    BY RunStep
  <1>2. SUFFICES ASSUME run'[r].status = "RUNNING", run'[r].flow = "inbound",
                        run'[r].step \in {"StockIncreased", "InventoryPutaway", "Exit"}
                 PROVE  /\ run'[r].step = "StockIncreased" =>
                             \A p \in Received(r) \ todo' : inventory'[p].status = "AVAILABLE"
                        /\ run'[r].step \in {"InventoryPutaway", "Exit"} =>
                             \A p \in Received(r) :
                               /\ inventory'[p].status = "AVAILABLE"
                               /\ p \notin todo' \/ run'[r].step = "Exit" =>
                                    inventory'[p].location # NoLocation
                        /\ Received(r)' = Received(r)
    BY <1>1 DEF InboundWork
  <1>3. InboundNext(r) /\ run[r].flow = "inbound" /\ run[r].status = "RUNNING"
    BY <1>2, RunStep
  <1>4. ReceiptEffect(r)
    BY <1>3, ReceiptsStep
  <1>5. run[r].step \in {"GoodsReceived", "StockIncreased", "InventoryPutaway"}
    BY <1>2, <1>4 DEF ReceiptEffect
  <1>6. inventory \in [Products -> InventoryRows] /\ Received(r) \subseteq Products
    BY DEF IInv, TypeOK, Received
  <1>7. CASE run[r].step = "GoodsReceived"
    <2>1. GoodsReceived(r) /\ run'[r].step = "StockIncreased"
      BY <1>4, <1>7 DEF ReceiptEffect
    <2>2. todo' = Received(r)
      BY <2>1 DEF GoodsReceived
    <2>3. Received(r)' = Received(r)
      BY <1>2, <2>1, TodoInvStep
    <2> QED
      BY <2>1, <2>2, <2>3
  <1>8. CASE run[r].step = "StockIncreased"
    <2>1. StockIncreased(r)
      BY <1>3, <1>8 DEF InboundNext, PurchaseOrderCreated, PurchaseOrderApproved,
         SupplierShipmentCreated, ASNReceived, SupplierShipmentDelivered, ReceivingTaskCreated,
         ReceivingTaskStarted, GoodsReceived, InventoryPutaway, Running
    <2>2. ~Fail(r)
      BY <1>2, Failed
    <2>3. PICK p \in todo :
            /\ inventory' = [inventory EXCEPT ![p].status = "AVAILABLE"]
            /\ IF Rest(p) = {}
               THEN todo' = Received(r) /\ Advance(r, "InventoryPutaway")
               ELSE todo' = Rest(p) /\ UNCHANGED run
      BY <2>1, <2>2 DEF StockIncreased
    <2>4. Received(r)' = Received(r)
      BY <2>1 DEF StockIncreased, Received
    <2>5. \A q \in Received(r) \ todo : inventory[q].status = "AVAILABLE"
      BY <1>3, <1>8 DEF InboundWork
    <2>6. \A q \in Received(r) \ Rest(p) : inventory'[q].status = "AVAILABLE"
      <3> TAKE q \in Received(r) \ Rest(p)
      <3>1. CASE q = p
        <4>1. inventory'[q] = [inventory[q] EXCEPT !.status = "AVAILABLE"] /\ inventory[q] \in InventoryRows
          BY <1>6, <2>3, <3>1
        <4> QED
          BY <4>1 DEF InventoryRows
      <3>2. CASE q # p
        BY <1>6, <2>3, <2>5, <3>2 DEF Rest
      <3> QED
        BY <3>1, <3>2
    <2>7. CASE Rest(p) = {}
      <3>1. run'[r].step = "InventoryPutaway"
        BY <2>3, <2>7, Advanced DEF InboundSteps
      <3> QED
        BY <2>3, <2>4, <2>6, <2>7, <3>1
    <2>8. CASE Rest(p) # {}
      BY <1>8, <2>3, <2>4, <2>6, <2>8
    <2> QED
      BY <2>7, <2>8
  <1>9. CASE run[r].step = "InventoryPutaway"
    <2>1. InventoryPutaway(r)
      BY <1>3, <1>9 DEF InboundNext, PurchaseOrderCreated, PurchaseOrderApproved,
         SupplierShipmentCreated, ASNReceived, SupplierShipmentDelivered, ReceivingTaskCreated,
         ReceivingTaskStarted, GoodsReceived, StockIncreased, Running
    <2>2. ~Fail(r)
      BY <1>2, Failed
    <2>3. PICK p \in todo : \E put \in Putaways(p, receipts[r].lines[p]) :
            /\ inventory' = [inventory EXCEPT ![p].location = put.location]
            /\ todo' = Rest(p)
            /\ IF Rest(p) = {} THEN Advance(r, "Exit") ELSE UNCHANGED run
      BY <2>1, <2>2 DEF InventoryPutaway
    <2>4. p \in Received(r) /\ p \in Products
      <3>1. todo \subseteq Received(r)
        BY <1>3, <1>9 DEF IInv, TodoInv
      <3> QED
        BY <1>6, <3>1
    <2>5. receipts[r].lines[p] \in Nat
      <3>1. receipts[r] \in Receipts
        BY DEF IInv, TypeOK
      <3> QED
        BY <2>4, <3>1, ReceiptFields, QuantityAssumption
    <2>6. PICK l \in Locations : inventory' = [inventory EXCEPT ![p].location = l]
      BY <2>3, <2>4, <2>5, PutawayStores
    <2>7. Received(r)' = Received(r)
      BY <2>1 DEF InventoryPutaway, Received
    <2>8. \A q \in Received(r) : /\ inventory[q].status = "AVAILABLE"
                                 /\ q \notin todo => inventory[q].location # NoLocation
      BY <1>3, <1>9 DEF InboundWork
    <2>9. \A q \in Received(r) : /\ inventory'[q].status = "AVAILABLE"
                                 /\ q \notin Rest(p) => inventory'[q].location # NoLocation
      <3> TAKE q \in Received(r)
      <3>1. CASE q = p
        <4>1. inventory'[q] = [inventory[q] EXCEPT !.location = l] /\ inventory[q] \in InventoryRows
          BY <1>6, <2>6, <3>1
        <4> QED
          BY <2>8, <4>1, LocationAssumption DEF InventoryRows
      <3>2. CASE q # p
        BY <1>6, <2>6, <2>8, <3>2 DEF Rest
      <3> QED
        BY <3>1, <3>2
    <2>10. CASE Rest(p) = {}
      <3>1. run'[r].step = "Exit"
        BY <2>3, <2>10, Advanced
      <3> QED
        BY <2>3, <2>7, <2>9, <2>10, <3>1
    <2>11. CASE Rest(p) # {}
      BY <1>9, <2>3, <2>7, <2>9, <2>11
    <2> QED
      BY <2>10, <2>11
  <1> QED
    BY <1>5, <1>7, <1>8, <1>9

\* Tasks are created for the orders of this run and of earlier ones; stock is
\* picked by a task that is COMPLETED; and an order that has come this far has a
\* task of its own run for each of its products, COMPLETED before it is packed.
OutboundWork ==
  /\ \A t \in TaskIds : picking[t].status # "NONE" => AllocationOf(t)[1] <= t[1]
  /\ \A a \in AllocationIds : allocations[a].status = "PICKED" =>
       \E t \in TaskIds : AllocationOf(t) = a /\ picking[t].status = "COMPLETED"
  /\ \A r \in Runs : run[r].status = "RUNNING" /\ run[r].flow = "outbound" =>
       /\ run[r].step \in Assigned =>
            \A p \in Ordered(r) : /\ picking[<<r, <<r, p>>>>].status # "NONE"
                                  /\ picking[<<r, <<r, p>>>>].order = r
       /\ run[r].step \in Packing => \A t \in TasksOf(r) : picking[t].status = "COMPLETED"
       /\ run[r].step \in {"ShipmentReady", "Transportation", "Exit"} =>
            \A p \in Ordered(r) : orders[r].package[p] >= orders[r].items[p]
       /\ run[r].step = "Exit" => orders[r].status = "DELIVERED"

\* The task of run r for the product p of its own order.
LEMMA OwnTask ==
  ASSUME NEW r \in Runs, NEW p \in Products
  PROVE  /\ <<r, p>> \in AllocationIds /\ <<r, <<r, p>>>> \in TaskIds
         /\ AllocationOf(<<r, <<r, p>>>>) = <<r, p>> /\ Quantity(<<r, p>>) = orders[r].items[p]
         /\ <<r, p>>[1] = r /\ <<r, p>>[2] = p /\ <<r, <<r, p>>>>[1] = r
  BY DEF AllocationIds, TaskIds, AllocationOf, Quantity

\* A task that is COMPLETED stays so.
LEMMA CompletedStays ==
  ASSUME IInv, NEW r \in Runs, Step(r), NEW t \in TaskIds, picking[t].status = "COMPLETED"
  PROVE  picking'[t] = picking[t]
  <1>1. TaskEffect(r, t)
    BY TasksStep
  <1>2. ASSUME PickingTaskCreated(r), t[1] = r PROVE FALSE
    <2>1. Unassigned(r)
      BY <1>2 DEF PickingTaskCreated, Unassigned
    <2> QED
      BY <1>2, <2>1 DEF IInv, TaskInv
  <1> QED
    BY <1>1, <1>2 DEF TaskEffect

\* Only runs that have started have stock reserved.
LEMMA EarlierOrder ==
  ASSUME IInv, NEW r \in Runs, run[r].status = "RUNNING", NEW a \in AllocationIds,
         allocations[a].status # "NONE"
  PROVE  a[1] <= r
  <1>1. PICK o \in Runs, p \in Products : a = <<o, p>>
    BY DEF AllocationIds
  <1>2. ~Unallocated(o)
    BY <1>1 DEF IInv, AllocationInv
  <1>3. run[o].flow = "outbound"
    BY <1>2 DEF Unallocated, Unordered
  <1>4. run[o].status # "WAITING"
    BY <1>3 DEF IInv, RunInv
  <1>5. ~(o > r)
    BY <1>4 DEF IInv, RunInv
  <1> QED
    BY <1>1, <1>5 DEF Runs

\* When a run creates its tasks, all stock of its own order is still RESERVED.
LEMMA OwnStockReserved ==
  ASSUME IInv, OutboundWork, NEW r \in Runs, Running(r, "PickingTaskCreated"),
         NEW p \in Ordered(r)
  PROVE  <<r, p>> \in ReservedAllocations
  <1>1. p \in Products /\ orders[r].items[p] > 0 /\ <<r, p>> \in AllocationIds
    BY DEF Ordered, AllocationIds
  <1>2. ~Unreserved(r)
    <2>1. run[r].flow = "outbound"
      BY RunFields DEF Running, IInv, RunInv, Flows, FirstStep, InboundSteps
    <2> QED
      BY <2>1 DEF Running, Unreserved, Unallocated, Unordered
  <1>3. allocations[<<r, p>>].status \in {"RESERVED", "PICKED"}
    BY <1>1, <1>2 DEF IInv, AllocationInv
  <1>4. ASSUME allocations[<<r, p>>].status = "PICKED" PROVE FALSE
    <2>1. PICK t \in TaskIds : AllocationOf(t) = <<r, p>> /\ picking[t].status = "COMPLETED"
      BY <1>1, <1>4 DEF OutboundWork
    <2>2. r <= t[1] /\ t[1] \in Runs
      BY <2>1, QuantityType DEF OutboundWork, IInv
    <2>3. Unassigned(t[1])
      <3>1. CASE t[1] = r
        BY <3>1 DEF Unassigned
      <3>2. CASE t[1] # r
        <4>1. t[1] > r
          BY <2>2, <3>2 DEF Runs
        <4>2. run[t[1]].status = "WAITING"
          BY <2>2, <4>1 DEF IInv, RunInv, Running
        <4>3. run[t[1]].flow = "none"
          BY <2>2, <4>2 DEF IInv, RunInv
        <4> QED
          BY <4>3 DEF Unassigned, Unreserved, Unallocated, Unordered
      <3> QED
        BY <3>1, <3>2
    <2> QED
      BY <2>1, <2>3 DEF IInv, TaskInv
  <1> QED
    BY <1>1, <1>3, <1>4 DEF ReservedAllocations

\* A package holds at least what each completed task for the order brought.
LEMMA PackageHolds ==
  ASSUME IInv, NEW r \in Runs, NEW p \in Products, NEW t \in TasksOf(r),
         AllocationOf(t)[2] = p, picking[t].status = "COMPLETED"
  PROVE  Quantity(AllocationOf(t)) <= PickedFor(r, p)
  <1> DEFINE n == [s \in TaskIds |-> Quantity(AllocationOf(s))]
             S == {s \in TasksOf(r) : AllocationOf(s)[2] = p /\ picking[s].status = "COMPLETED"}
  <1>1. S \subseteq TasksFor(p) /\ S \subseteq TaskIds /\ t \in S
    BY DEF TasksOf, TasksFor
  <1>2. IsFiniteSet(S)
    BY <1>1, FiniteTasks, FS_Subset
  <1>3. \A s \in S : n[s] \in Nat
    BY <1>1, QuantityType, QuantityAssumption DEF IInv
  <1>4. PickedFor(r, p) = Total(n, S) /\ n[t] = Quantity(AllocationOf(t))
    BY <1>1 DEF PickedFor
  <1> HIDE DEF n, S
  <1>5. n[t] <= Total(n, S)
    BY <1>1, <1>2, <1>3, TotalBound
  <1> QED
    BY <1>4, <1>5

LEMMA OutboundWorkStep ==
  ASSUME IInv, OutboundWork, NEW r \in Runs, Step(r)
  PROVE  OutboundWork'
  <1>1. \A q \in Runs : q # r => run'[q] = run[q] /\ run'[q].status # "RUNNING"
    BY RunStep
  <1>2. ASSUME NEW t \in TaskIds, picking'[t].status # "NONE"
        PROVE  AllocationOf(t)[1] <= t[1]
    <2>1. CASE picking[t].status # "NONE"
      BY <2>1 DEF OutboundWork
    <2>2. CASE picking[t].status = "NONE"
      <3>1. PickingTaskCreated(r) /\ t[1] = r /\ AllocationOf(t) \in ReservedAllocations
        BY <1>2, <2>2, TasksStep DEF TaskEffect
      <3>2. run[r].status = "RUNNING"
        BY <3>1 DEF PickingTaskCreated, Running
      <3> QED
        BY <3>1, <3>2, EarlierOrder DEF ReservedAllocations
    <2> QED
      BY <2>1, <2>2
  <1>3. ASSUME NEW a \in AllocationIds, allocations'[a].status = "PICKED"
        PROVE  \E t \in TaskIds : AllocationOf(t) = a /\ picking'[t].status = "COMPLETED"
    <2>1. PICK o \in Runs, p \in Products : a = <<o, p>>
      BY DEF AllocationIds
    <2>2. AllocationEffect(r, o, p)
      BY AllocationsStep
    <2>3. CASE allocations[a].status = "PICKED"
      BY <2>3, CompletedStays DEF OutboundWork
    <2>4. CASE allocations[a].status # "PICKED"
      <3>1. PICK t \in TaskIds : /\ AllocationOf(t) = a
                                 /\ picking' = [picking EXCEPT ![t].status = "COMPLETED"]
        BY <1>3, <2>1, <2>2, <2>4 DEF AllocationEffect
      <3>2. picking[t] \in PickingTasks /\ picking'[t] = [picking[t] EXCEPT !.status = "COMPLETED"]
        BY <3>1 DEF IInv, TypeOK
      <3>3. picking'[t].status = "COMPLETED"
        BY <3>2 DEF PickingTasks
      <3> QED
        BY <3>1, <3>3
    <2> QED
      BY <2>3, <2>4
  <1>4. ASSUME run'[r].status = "RUNNING", run'[r].flow = "outbound", run'[r].step \in Assigned
        PROVE  /\ \A p \in Ordered(r)' : /\ picking'[<<r, <<r, p>>>>].status # "NONE"
                                         /\ picking'[<<r, <<r, p>>>>].order = r
               /\ run'[r].step \in Packing => \A t \in TasksOf(r)' : picking'[t].status = "COMPLETED"
               /\ run'[r].step \in {"ShipmentReady", "Transportation", "Exit"} =>
                    \A p \in Ordered(r)' : orders'[r].package[p] >= orders'[r].items[p]
               /\ run'[r].step = "Exit" => orders'[r].status = "DELIVERED"
    <2>1. OutboundNext(r) /\ run[r].flow = "outbound" /\ run[r].status = "RUNNING"
      BY <1>4, RunStep DEF Assigned, Packing
    <2>2. OutboundMove(r) /\ OrderEffect(r) /\ ~Fail(r)
      BY <1>4, <2>1, OutboundMoves, OrdersStep, Failed
    <2>3. \/ PickingTaskCreated(r) /\ run'[r].step = "PickingTaskStarted"
          \/ run[r].step \in Assigned /\ run[r].step # "PickingTaskCreated"
      BY <1>4, <2>2 DEF OutboundMove, Assigned, Packing
    <2>4. orders'[r].items = orders[r].items /\ Ordered(r)' = Ordered(r)
      <3>1. run[r].step # "OrderItemCreated"
        BY <2>3, OneGenerator DEF Assigned, Packing
      <3>2. orders'[r].items = orders[r].items
        BY <2>2, <3>1 DEF OrderEffect
      <3> QED
        BY <3>2 DEF Ordered
    <2>5. ASSUME NEW p \in Ordered(r)
          PROVE  /\ picking'[<<r, <<r, p>>>>].status # "NONE"
                 /\ picking'[<<r, <<r, p>>>>].order = r
      <3>0. p \in Products
        BY DEF Ordered
      <3>1. PICK t \in TaskIds : t = <<r, <<r, p>>>> /\ AllocationOf(t) = <<r, p>> /\ t[1] = r
        <4>1. /\ <<r, <<r, p>>>> \in TaskIds /\ AllocationOf(<<r, <<r, p>>>>) = <<r, p>>
              /\ <<r, <<r, p>>>>[1] = r
          BY <3>0, OwnTask
        <4> QED
          BY ONLY <4>1
      <3>2. CASE PickingTaskCreated(r)
        <4>1. PICK first \in Earliest(ReservedAllocations) :
                /\ picking' = [s \in TaskIds |->
                     IF s[1] = r /\ AllocationOf(s) \in ReservedAllocations
                     THEN [status |-> "CREATED", order |-> first[1]]
                     ELSE picking[s]]
                /\ first[1] = r
          BY <2>2, <3>2 DEF PickingTaskCreated
        <4>2. AllocationOf(t) \in ReservedAllocations
          BY <3>1, <3>2, OwnStockReserved DEF PickingTaskCreated
        <4>3. picking'[t] = [status |-> "CREATED", order |-> r]
          BY <3>1, <4>1, <4>2
        <4>4. picking'[t].status = "CREATED" /\ picking'[t].order = r
          BY <4>3
        <4> QED
          BY <3>1, <4>4
      <3>3. CASE run[r].step \in Assigned /\ run[r].step # "PickingTaskCreated"
        <4>1. picking[t].status # "NONE" /\ picking[t].order = r
          BY <2>1, <3>1, <3>3 DEF OutboundWork
        <4>2. TaskEffect(r, t) /\ ~PickingTaskCreated(r)
          BY <3>3, TasksStep, OneGenerator
        <4> QED
          BY <3>1, <4>1, <4>2 DEF TaskEffect
      <3> QED
        BY <2>3, <3>2, <3>3
    <2>6. ASSUME run'[r].step \in Packing
          PROVE  /\ picking' = picking /\ TasksOf(r)' = TasksOf(r)
                 /\ \A t \in TasksOf(r) : picking[t].status = "COMPLETED"
      <3>1. /\ run[r].step \in Packing \cup {"PackingTaskCreated"}
            /\ run[r].step = "PackingTaskCreated" => run'[r].step = "PackingTaskStarted"
        BY <2>2, <2>6 DEF OutboundMove, Packing
      <3>2. picking' = picking
        BY <3>1, Frames, OneGenerator DEF Packing
      <3>3. TasksOf(r)' = TasksOf(r)
        BY <3>2 DEF TasksOf
      <3>4. CASE run[r].step = "PackingTaskCreated"
        BY <2>2, <3>1, <3>2, <3>3, <3>4 DEF OrderEffect, PickingDone
      <3>5. CASE run[r].step \in Packing
        BY <2>1, <3>2, <3>3, <3>5 DEF OutboundWork
      <3> QED
        BY <3>1, <3>2, <3>3, <3>4, <3>5
    <2>7. ASSUME run'[r].step \in {"ShipmentReady", "Transportation", "Exit"}, NEW p \in Ordered(r)
          PROVE  orders'[r].package[p] >= orders[r].items[p]
      <3>0. p \in Products /\ run'[r].step \in Packing
        BY <2>7 DEF Ordered, Packing
      <3>1. \/ run[r].step = "PackingCompleted" /\ run'[r].step = "ShipmentReady"
            \/ run[r].step \in {"ShipmentReady", "Transportation", "Exit"}
        BY <2>2, <2>7 DEF OutboundMove
      <3>2. CASE run[r].step = "PackingCompleted" /\ run'[r].step = "ShipmentReady"
        <4>1. orders'[r].package[p] = PickedFor(r, p)
          BY <2>2, <3>0, <3>2 DEF OrderEffect
        <4>2. PICK t \in TaskIds : t = <<r, <<r, p>>>> /\ AllocationOf(t) = <<r, p>>
                                   /\ AllocationOf(t)[2] = p
                                   /\ Quantity(AllocationOf(t)) = orders[r].items[p]
          <5>1. /\ <<r, <<r, p>>>> \in TaskIds /\ AllocationOf(<<r, <<r, p>>>>) = <<r, p>>
                /\ <<r, p>>[2] = p /\ Quantity(<<r, p>>) = orders[r].items[p]
            BY <3>0, OwnTask
          <5>2. PICK t : t = <<r, <<r, p>>>>
            OBVIOUS
          <5>3. t \in TaskIds /\ AllocationOf(t) = <<r, p>>
            BY <5>1, <5>2
          <5> QED
            BY <5>1, <5>2, <5>3
        <4>3. picking[t].status # "NONE" /\ picking[t].order = r
          BY <2>1, <3>2, <4>2 DEF OutboundWork, Assigned, Packing
        <4>4. t \in TasksOf(r)
          BY <4>3 DEF TasksOf
        <4>5. picking[t].status = "COMPLETED"
          BY <2>6, <3>0, <4>4
        <4>6. Quantity(AllocationOf(t)) <= PickedFor(r, p)
          BY <3>0, <4>2, <4>4, <4>5, PackageHolds
        <4>7. PickedFor(r, p) \in Nat /\ orders[r].items[p] \in Nat
          <5>1. orders[r] \in Orders
            BY DEF IInv, TypeOK
          <5> QED
            BY <3>0, <5>1, OrderFields, QuantityAssumption, PickedForType DEF IInv
        <4> QED
          BY <4>1, <4>2, <4>6, <4>7
      <3>3. CASE run[r].step \in {"ShipmentReady", "Transportation", "Exit"}
        <4>1. orders'[r].package = orders[r].package
          BY <2>2, <3>3 DEF OrderEffect
        <4> QED
          BY <2>1, <3>3, <4>1 DEF OutboundWork
      <3> QED
        BY <3>1, <3>2, <3>3
    <2>8. run'[r].step = "Exit" => orders'[r].status = "DELIVERED"
      BY <2>2 DEF OrderEffect
    <2> QED
      BY <2>4, <2>5, <2>6, <2>7, <2>8
  <1> USE DEF Assigned, Packing
  <1> QED
    BY <1>1, <1>2, <1>3, <1>4 DEF OutboundWork

\* What each run that succeeds in a step has finished.
LEMMA SuccessStep ==
  ASSUME IInv, InboundWork, OutboundWork, NEW r \in Runs, Step(r), NEW q \in Runs,
         run[q].status = "RUNNING", run'[q].status = "SUCCESS"
  PROVE  IF run[q].flow = "inbound"
         THEN \A p \in Received(q) : /\ inventory[p].status = "AVAILABLE"
                                     /\ inventory[p].location # NoLocation
         ELSE /\ orders[q].status = "DELIVERED"
              /\ \A t \in TasksOf(q) : t \in Completed
              /\ \A p \in Ordered(q) : /\ allocations[<<q, p>>].status = "PICKED"
                                       /\ orders[q].package[p] >= orders[q].items[p]
  <1>1. q = r
    BY RunStep
  <1>2. EndsRun(r)
    <2>1. CASE InboundNext(r)
      <3>1. \/ \E step \in InboundSteps \cup {"Exit"} : Advance(r, step)
            \/ Fail(r) \/ UNCHANGED run
        BY <2>1, GeneratorRun
      <3>2. run'[r].status \in {run[r].status, "FAILED"}
        BY <3>1, AdvanceRun, Failed DEF IInv
      <3> QED
        BY <1>1, <3>2
    <2>2. CASE OutboundNext(r)
      <3>1. (\E step \in OutboundSteps \cup {"Exit"} : Advance(r, step)) \/ Fail(r)
        BY <2>2, GeneratorRun
      <3>2. run'[r].status \in {run[r].status, "FAILED"}
        BY <3>1, AdvanceRun, Failed DEF IInv
      <3> QED
        BY <1>1, <3>2
    <2>3. CASE StartsRun(r)
      BY <1>1, <2>3 DEF StartsRun, StartRun
    <2> QED
      BY <2>1, <2>2, <2>3 DEF Step
  <1>3. RunnerExits(r)
    <2>1. CASE Interrupt(r)
      <3>1. run' = [run EXCEPT ![r].status = "INTERRUPTED"]
        BY <2>1 DEF Interrupt
      <3>2. run'[r].status = "INTERRUPTED"
        BY <3>1, EndRun DEF IInv
      <3> QED
        BY <1>1, <3>2
    <2> QED
      BY <1>2, <2>1 DEF EndsRun
  <1>4. run[r].step = "Exit" /\ run[r].status = "RUNNING"
    BY <1>3 DEF RunnerExits, Running
  <1>5. CASE run[r].flow = "inbound"
    BY <1>1, <1>4, <1>5 DEF InboundWork
  <1>6. CASE run[r].flow # "inbound"
    <2>1. run[r].flow = "outbound"
      BY <1>4, <1>6, RunFields DEF IInv, RunInv, Flows, FirstStep
    <2>2. /\ orders[r].status = "DELIVERED"
          /\ \A t \in TasksOf(r) : picking[t].status = "COMPLETED"
          /\ \A p \in Ordered(r) : /\ picking[<<r, <<r, p>>>>].status # "NONE"
                                   /\ picking[<<r, <<r, p>>>>].order = r
                                   /\ orders[r].package[p] >= orders[r].items[p]
      BY <1>4, <2>1 DEF OutboundWork, Assigned, Packing
    <2>3. ASSUME NEW p \in Ordered(r) PROVE allocations[<<r, p>>].status = "PICKED"
      <3>1. p \in Products
        BY DEF Ordered
      <3>2. PICK t \in TaskIds : t = <<r, <<r, p>>>> /\ t[2] = <<r, p>>
        BY <3>1, OwnTask DEF AllocationOf
      <3>3. t \in TasksOf(r)
        BY <2>2, <3>2 DEF TasksOf
      <3> QED
        BY <2>2, <3>2, <3>3 DEF IInv, TaskInv
    <2>4. \A t \in TasksOf(r) : t \in Completed
      BY <2>2 DEF Completed, TasksOf
    <2> QED
      BY <1>1, <1>6, <2>2, <2>3, <2>4
  <1> QED
    BY <1>1, <1>5, <1>6

\* A run that ends well has put away all it received, or delivered an order whose
\* every allocation is picked, every task completed and every item packed.
THEOREM SuccessesAreComplete == Spec => SuccessIsComplete
  <1> DEFINE WellDone ==
        \A r \in Runs : run[r].status = "RUNNING" /\ run'[r].status = "SUCCESS" =>
          IF run[r].flow = "inbound"
          THEN \A p \in Received(r) : /\ inventory[p].status = "AVAILABLE"
                                      /\ inventory[p].location # NoLocation
          ELSE /\ orders[r].status = "DELIVERED"
               /\ \A t \in TasksOf(r) : t \in Completed
               /\ \A p \in Ordered(r) : /\ allocations[<<r, p>>].status = "PICKED"
                                        /\ orders[r].package[p] >= orders[r].items[p]
  <1>1. Init => InboundWork /\ OutboundWork
    <2> SUFFICES ASSUME Init PROVE InboundWork /\ OutboundWork
      OBVIOUS
    <2>1. /\ \A r \in Runs : run[r].status = "WAITING"
          /\ \A t \in TaskIds : picking[t].status = "NONE"
          /\ \A a \in AllocationIds : allocations[a].status = "NONE"
      BY DEF Init, WarehouseInit, OutboundInit
    <2> QED
      BY <2>1 DEF InboundWork, OutboundWork
  <1>2. IInv /\ InboundWork /\ OutboundWork /\ [Next]_vars => InboundWork' /\ OutboundWork'
    <2> SUFFICES ASSUME IInv, InboundWork, OutboundWork, [Next]_vars
                 PROVE  InboundWork' /\ OutboundWork'
      OBVIOUS
    <2>1. CASE UNCHANGED vars
      <3> USE <2>1 DEF vars, warehouseVars, inboundVars, outboundVars
      <3>1. InboundWork'
        BY DEF InboundWork, Received
      <3>2. OutboundWork'
        BY DEF OutboundWork, TasksOf, Ordered
      <3> QED
        BY <3>1, <3>2
    <2> QED
      BY <2>1, Steps, InboundWorkStep, OutboundWorkStep
  <1>3. IInv /\ InboundWork /\ OutboundWork /\ [Next]_vars => [WellDone]_vars
    <2> SUFFICES ASSUME IInv, InboundWork, OutboundWork, [Next]_vars, ~ UNCHANGED vars,
                        NEW q \in Runs, run[q].status = "RUNNING", run'[q].status = "SUCCESS"
                 PROVE  IF run[q].flow = "inbound"
                        THEN \A p \in Received(q) : /\ inventory[p].status = "AVAILABLE"
                                                    /\ inventory[p].location # NoLocation
                        ELSE /\ orders[q].status = "DELIVERED"
                             /\ \A t \in TasksOf(q) : t \in Completed
                             /\ \A p \in Ordered(q) : /\ allocations[<<q, p>>].status = "PICKED"
                                                      /\ orders[q].package[p] >= orders[q].items[p]
      OBVIOUS
    <2> QED
      BY Steps, SuccessStep
  <1> QED
    BY <1>1, <1>2, <1>3, Invariance, PTL DEF Spec, SuccessIsComplete

-----------------------------------------------------------------------------
(* Conservation.                                                            *)

Arrivals == {r \in Runs : receipts[r].shipment = "RECEIVED"}

Issues(p) == {t \in Completed : AllocationOf(t)[2] = p}

\* The units of p received, issued and seeded.
Incoming(p) == Total([r \in Runs |-> receipts[r].lines[p]], Arrivals)

Outgoing(p) == Total([t \in TaskIds |-> Quantity(AllocationOf(t))], Issues(p))

Seeded(p) ==
  IF inventory[p].creator # 0 /\ run[inventory[p].creator].flow = "outbound" THEN SeedQty ELSE 0

\* The sums are numbers.
LEMMA SumTypes ==
  ASSUME TypeOK, NEW p \in Products
  PROVE  /\ Incoming(p) \in Nat /\ Outgoing(p) \in Nat /\ Seeded(p) \in Nat
         /\ IsFiniteSet(Arrivals) /\ IsFiniteSet(Issues(p))
         /\ \A r \in Runs : receipts[r].lines[p] \in Nat
  <1>1. IsFiniteSet(Arrivals)
    <2>1. IsFiniteSet(Runs)
      BY RunAssumption, FS_Interval DEF Runs
    <2>2. Arrivals \subseteq Runs
      BY DEF Arrivals
    <2> QED
      BY <2>1, <2>2, FS_Subset
  <1>2. IsFiniteSet(Issues(p)) /\ Issues(p) \subseteq TaskIds
    <2>1. Issues(p) \subseteq TasksFor(p)
      BY DEF Issues, TasksFor, Completed
    <2>2. TasksFor(p) \subseteq TaskIds
      BY DEF TasksFor
    <2> QED
      BY <2>1, <2>2, FiniteTasks, FS_Subset
  <1>3. \A r \in Runs : receipts[r].lines[p] \in Nat
    <2>1. \A r \in Runs : receipts[r] \in Receipts
      BY DEF TypeOK
    <2> QED
      BY <2>1, ReceiptFields, QuantityAssumption
  <1>4. Incoming(p) \in Nat
    <2>1. PICK n : n = [r \in Runs |-> receipts[r].lines[p]]
      OBVIOUS
    <2>2. \A r \in Arrivals : n[r] \in Nat
      BY <1>3, <2>1 DEF Arrivals
    <2>3. Total(n, Arrivals) \in Nat
      BY <1>1, <2>2, TotalType
    <2> QED
      BY <2>1, <2>3 DEF Incoming
  <1>5. Outgoing(p) \in Nat
    <2>1. PICK n : n = [t \in TaskIds |-> Quantity(AllocationOf(t))]
      OBVIOUS
    <2>2. \A t \in Issues(p) : n[t] \in Nat
      BY <1>2, <2>1, QuantityType, QuantityAssumption
    <2>3. Total(n, Issues(p)) \in Nat
      BY <1>2, <2>2, TotalType
    <2> QED
      BY <2>1, <2>3 DEF Outgoing
  <1> QED
    BY <1>1, <1>2, <1>3, <1>4, <1>5, QuantityAssumption DEF Seeded

\* What is received grows by the lines of the run that receives, and is written
\* by nothing else.
LEMMA IncomingStep ==
  ASSUME IInv, NEW r \in Runs, Step(r), NEW p \in Products
  PROVE  /\ GoodsReceived(r) => Incoming(p)' = Incoming(p) + receipts[r].lines[p]
         /\ ~GoodsReceived(r) => Incoming(p)' = Incoming(p)
  <1>1. /\ \A q \in Runs : q # r => receipts'[q] = receipts[q] /\ run'[q] = run[q]
        /\ ReceiptInv /\ ReceiptInv'
    BY RunStep, ReceiptInvStep DEF IInv
  <1>2. /\ IsFiniteSet(Arrivals) /\ \A q \in Runs : receipts[q].lines[p] \in Nat
    BY SumTypes DEF IInv
  <1>3. PICK n, m, S, T : /\ n = [q \in Runs |-> receipts[q].lines[p]]
                          /\ m = [q \in Runs |-> receipts'[q].lines[p]]
                          /\ S = Arrivals /\ T = Arrivals'
    OBVIOUS
  <1>4. Incoming(p) = Total(n, S) /\ Incoming(p)' = Total(m, T)
    BY <1>3 DEF Incoming
  <1>5. S \subseteq Runs /\ IsFiniteSet(S) /\ \A q \in S : n[q] \in Nat
    BY <1>2, <1>3 DEF Arrivals
  <1>6. CASE GoodsReceived(r)
    <2>1. run[r].step = "GoodsReceived" /\ InboundNext(r)
      BY <1>6, OneGenerator DEF InboundNext
    <2>2. receipts'[r].shipment = "RECEIVED" /\ receipts'[r].lines = receipts[r].lines
      BY <2>1, ReceiptsStep DEF ReceiptEffect
    <2>3. r \notin S
      BY <1>1, <1>3, <2>1 DEF Arrivals, ReceiptInv
    <2>4. T = S \cup {r}
      BY <1>1, <1>3, <2>2 DEF Arrivals
    <2>5. \A q \in T : n[q] = m[q]
      BY <1>1, <1>3, <1>5, <2>2, <2>4
    <2>6. n[r] = receipts[r].lines[p] /\ n[r] \in Nat
      BY <1>2, <1>3
    <2>7. Total(n, T) = Total(m, T)
      BY <2>5, TotalSame
    <2>8. Total(n, S \cup {r}) = Total(n, S) + n[r]
      BY <1>5, <2>3, <2>6, TotalInsert
    <2> QED
      BY <1>4, <1>6, <2>4, <2>6, <2>7, <2>8
  <1>7. CASE ~GoodsReceived(r)
    <2>1. /\ receipts'[r].shipment = "RECEIVED" <=> receipts[r].shipment = "RECEIVED"
          /\ receipts[r].shipment = "RECEIVED" => receipts'[r].lines = receipts[r].lines
      <3>1. CASE InboundNext(r)
        <4>1. ReceiptEffect(r) /\ run[r].status = "RUNNING"
          BY <3>1, ReceiptsStep, GeneratorRun
        <4>2. /\ receipts[r].shipment = "RECEIVED" <=>
                   /\ run[r].flow = "inbound"
                   /\ run[r].step \in {"StockIncreased", "InventoryPutaway", "Exit"}
          BY <1>1 DEF ReceiptInv
        <4> QED
          BY <1>7, <4>1, <4>2 DEF ReceiptEffect
      <3>2. CASE ~InboundNext(r)
        BY <3>2, Frames
      <3> QED
        BY <3>1, <3>2
    <2>2. T = S
      BY <1>1, <1>3, <2>1 DEF Arrivals
    <2>3. \A q \in S : n[q] = m[q]
      <3>1. \A q \in S : receipts[q].shipment = "RECEIVED" /\ q \in Runs
        BY <1>3 DEF Arrivals
      <3> QED
        BY <1>1, <1>3, <2>1, <3>1
    <2>4. Total(n, S) = Total(m, S)
      BY <2>3, TotalSame
    <2> QED
      BY <1>4, <1>7, <2>2, <2>4
  <1> QED
    BY <1>6, <1>7

\* Once a picking task exists, the quantity of its allocation never changes.
LEMMA QuantityKept ==
  ASSUME IInv, NEW r \in Runs, Step(r), NEW a \in AllocationIds,
         allocations[a].status # "NONE"
  PROVE  Quantity(a)' = Quantity(a)
  <1>1. PICK o \in Runs, p \in Products : a = <<o, p>>
    BY DEF AllocationIds
  <1>2. ~Unallocated(o)
    BY <1>1 DEF IInv, AllocationInv
  <1>3. ~Unordered(o)
    BY <1>2 DEF Unallocated
  <1>4. orders'[o].items = orders[o].items
    BY <1>3, Stages
  <1> QED
    BY <1>1, <1>4 DEF Quantity

\* What is issued grows by the quantity of the task that completes.
LEMMA OutgoingStep ==
  ASSUME IInv, NEW r \in Runs, Step(r), NEW p \in Products
  PROVE  /\ Completed' = Completed => Outgoing(p)' = Outgoing(p)
         /\ \A t \in TaskIds : Completed' = Completed \cup {t} /\ t \notin Completed =>
              /\ AllocationOf(t)[2] # p => Outgoing(p)' = Outgoing(p)
              /\ AllocationOf(t)[2] = p /\ picking[t].status # "NONE" =>
                   Outgoing(p)' = Outgoing(p) + Quantity(AllocationOf(t))
  <1>1. IsFiniteSet(Issues(p))
    BY SumTypes DEF IInv
  <1>2. PICK n, m, S, T : /\ n = [t \in TaskIds |-> Quantity(AllocationOf(t))]
                          /\ m = [t \in TaskIds |-> Quantity(AllocationOf(t))']
                          /\ S = Issues(p) /\ T = Issues(p)'
    OBVIOUS
  <1>3. Outgoing(p) = Total(n, S) /\ Outgoing(p)' = Total(m, T)
    BY <1>2 DEF Outgoing, AllocationOf
  <1>4. ASSUME NEW t \in TaskIds, picking[t].status # "NONE"
        PROVE  n[t] = m[t] /\ n[t] \in Nat /\ n[t] = Quantity(AllocationOf(t))
    <2>1. AllocationOf(t) \in AllocationIds /\ allocations[AllocationOf(t)].status # "NONE"
            /\ Quantity(AllocationOf(t)) \in Nat
      BY <1>4, TaskQuantity
    <2>2. PICK a \in AllocationIds : a = AllocationOf(t) /\ allocations[a].status # "NONE"
      BY <2>1
    <2>3. Quantity(a)' = Quantity(a)
      BY <2>2, QuantityKept
    <2> QED
      BY <1>2, <2>1, <2>2, <2>3 DEF Quantity, AllocationOf
  <1>5. S \subseteq TaskIds /\ \A t \in S : n[t] = m[t] /\ n[t] \in Nat
    <2>1. \A t \in S : t \in TaskIds /\ picking[t].status # "NONE"
      BY <1>2 DEF Issues, Completed
    <2> QED
      BY <1>4, <2>1
  <1>6. Total(n, S) = Total(m, S)
    BY <1>5, TotalSame
  <1>7. T = {t \in Completed' : AllocationOf(t)[2] = p} /\ S = {t \in Completed : AllocationOf(t)[2] = p}
    BY <1>2 DEF Issues, AllocationOf
  <1>8. ASSUME NEW t \in TaskIds, Completed' = Completed \cup {t}, t \notin Completed
        PROVE  /\ AllocationOf(t)[2] # p => Outgoing(p)' = Outgoing(p)
               /\ AllocationOf(t)[2] = p /\ picking[t].status # "NONE" =>
                    Outgoing(p)' = Outgoing(p) + Quantity(AllocationOf(t))
    <2>1. CASE AllocationOf(t)[2] # p
      <3>1. T = S
        BY <1>7, <1>8, <2>1
      <3> QED
        BY <1>3, <1>6, <2>1, <3>1
    <2>2. CASE AllocationOf(t)[2] = p /\ picking[t].status # "NONE"
      <3>1. T = S \cup {t} /\ t \notin S
        BY <1>7, <1>8, <2>2
      <3>2. n[t] = m[t] /\ n[t] \in Nat /\ n[t] = Quantity(AllocationOf(t))
        BY <1>4, <2>2
      <3>3. \A s \in S \cup {t} : n[s] = m[s]
        BY <1>5, <3>2
      <3>4. Total(n, S \cup {t}) = Total(m, S \cup {t})
        BY <3>3, TotalSame
      <3>5. \A s \in S : n[s] \in Nat
        BY <1>5
      <3>6. Total(n, S \cup {t}) = Total(n, S) + n[t]
        BY <1>1, <1>2, <3>1, <3>2, <3>5, TotalInsert
      <3> QED
        BY <1>3, <2>2, <3>1, <3>2, <3>4, <3>6
    <2> QED
      BY <2>1, <2>2
  <1> QED
    BY <1>3, <1>6, <1>7, <1>8

\* The tasks completed by a step: none, or one that was STARTED.
LEMMA CompletedStep ==
  ASSUME IInv, NEW r \in Runs, Step(r)
  PROVE  \/ Completed' = Completed /\ ~(PickingCompleted(r) /\ picking' # picking)
         \/ /\ PickingCompleted(r)
            /\ \E t \in TaskIds : LET a == AllocationOf(t) IN
                 /\ picking[t].status = "STARTED" /\ t \notin Completed
                 /\ Completed' = Completed \cup {t}
                 /\ inventory' = [inventory EXCEPT ![a[2]].onHand = @ - Quantity(a),
                                                   ![a[2]].reserved = @ - Quantity(a)]
  <1>1. CASE PickingCompleted(r) /\ picking' # picking
    <2>1. PICK t \in TaskIds : LET a == AllocationOf(t) IN
            /\ picking[t].status = "STARTED"
            /\ inventory' = [inventory EXCEPT ![a[2]].onHand = @ - Quantity(a),
                                              ![a[2]].reserved = @ - Quantity(a)]
            /\ picking' = [picking EXCEPT ![t].status = "COMPLETED"]
      BY <1>1, PickEffect
    <2>2. picking \in [TaskIds -> PickingTasks] /\ picking[t] \in PickingTasks
      BY DEF IInv, TypeOK
    <2>3. /\ picking'[t] = [picking[t] EXCEPT !.status = "COMPLETED"]
          /\ \A s \in TaskIds : s # t => picking'[s] = picking[s]
      BY <2>1, <2>2
    <2>4. picking'[t].status = "COMPLETED"
      BY <2>2, <2>3 DEF PickingTasks
    <2>5. Completed' = Completed \cup {t} /\ t \notin Completed
      BY <2>1, <2>3, <2>4 DEF Completed
    <2> QED
      BY <1>1, <2>1, <2>5
  <1>2. CASE ~(PickingCompleted(r) /\ picking' # picking)
    <2>1. ASSUME NEW t \in TaskIds
          PROVE  picking'[t].status = "COMPLETED" <=> picking[t].status = "COMPLETED"
      <3>1. CASE picking[t].status = "COMPLETED"
        BY <3>1, CompletedStays
      <3>2. CASE picking[t].status # "COMPLETED"
        BY <1>2, <3>2, TasksStep DEF TaskEffect
      <3> QED
        BY <3>1, <3>2
    <2>2. Completed' = Completed
      BY <2>1 DEF Completed
    <2> QED
      BY <1>2, <2>2
  <1> QED
    BY <1>1, <1>2

\* Which run created a row, and in which flow, is written once.
LEMMA SeededStep ==
  ASSUME IInv, NEW r \in Runs, Step(r), NEW p \in Products
  PROVE  /\ inventory'[p].creator = inventory[p].creator => Seeded(p)' = Seeded(p)
         /\ inventory[p].creator = 0 => Seeded(p) = 0
         /\ SeedInventory(r) /\ inventory'[p].creator = r => Seeded(p)' = SeedQty
         /\ GoodsReceived(r) /\ inventory'[p].creator = r => Seeded(p)' = 0
  <1>1. inventory[p].creator # 0 =>
          inventory[p].creator \in Runs /\ run[inventory[p].creator].flow # "none"
    <2>1. inventory[p].creator \in 0..MaxRuns
      BY RowFields DEF IInv, TypeOK
    <2> QED
      BY <2>1, RunAssumption DEF IInv, StockInv, Runs
  <1>2. \A q \in Runs : run[q].flow # "none" => run'[q].flow = run[q].flow
    BY RunStep DEF IInv, RunInv
  <1>3. SeedInventory(r) => run'[r].flow = "outbound"
    <2>1. SeedInventory(r) => OutboundNext(r) /\ run[r].step = "SeedInventory"
      BY OneGenerator DEF OutboundNext
    <2>2. SeedInventory(r) => run[r].flow = "outbound"
      BY <2>1, GeneratorRun, RunFields DEF IInv, RunInv, Flows, FirstStep, InboundSteps
    <2> QED
      BY <1>2, <2>2
  <1>4. GoodsReceived(r) => run'[r].flow = "inbound"
    <2>1. GoodsReceived(r) => InboundNext(r) /\ run[r].step = "GoodsReceived"
      BY OneGenerator DEF InboundNext
    <2>2. GoodsReceived(r) => run[r].flow = "inbound"
      BY <2>1, GeneratorRun, RunFields DEF IInv, RunInv, Flows, FirstStep, OutboundSteps
    <2> QED
      BY <1>2, <2>2
  <1>5. r # 0
    BY DEF Runs
  <1> QED
    BY <1>1, <1>2, <1>3, <1>4, <1>5 DEF Seeded

\* What is on hand of each product, as the sums say.
Conserved == \A p \in Products : inventory[p].onHand = Incoming(p) - Outgoing(p) + Seeded(p)

LEMMA ConservedStep ==
  ASSUME IInv, Conserved, NEW r \in Runs, Step(r)
  PROVE  Conserved'
  <1>1. ASSUME NEW p \in Products
        PROVE  inventory'[p].onHand = Incoming(p)' - Outgoing(p)' + Seeded(p)'
    <2>0. /\ Incoming(p) \in Nat /\ Outgoing(p) \in Nat /\ Seeded(p) \in Nat
          /\ receipts[r].lines[p] \in Nat /\ SeedQty \in Nat
          /\ inventory[p].onHand = Incoming(p) - Outgoing(p) + Seeded(p)
          /\ inventory[p] \in InventoryRows /\ inventory \in [Products -> InventoryRows]
      BY SumTypes, QuantityAssumption DEF IInv, TypeOK, Conserved
    <2>1. StockEffect(r, p)
      BY InventoryStep
    <2>2. CASE PickingCompleted(r)
      <3>1. Incoming(p)' = Incoming(p)
        BY <2>2, IncomingStep, OneGenerator
      <3>2. CASE Completed' = Completed /\ ~(picking' # picking)
        <4>1. Outgoing(p)' = Outgoing(p)
          BY <3>2, OutgoingStep
        <4>2. inventory' = inventory
          <5>1. \/ Fail(r) /\ UNCHANGED inventory
                \/ \E t \in TaskIds : /\ picking[t].status = "STARTED"
                                       /\ picking' = [picking EXCEPT ![t].status = "COMPLETED"]
            BY <2>2, PickEffect
          <5>2. \A t \in TaskIds : picking[t].status = "STARTED" => t \notin Completed
            BY DEF Completed
          <5>3. ASSUME NEW t \in TaskIds, picking[t].status = "STARTED",
                       picking' = [picking EXCEPT ![t].status = "COMPLETED"]
                PROVE  FALSE
            <6>1. picking \in [TaskIds -> PickingTasks] /\ picking[t] \in PickingTasks
              BY DEF IInv, TypeOK
            <6>2. picking'[t].status = "COMPLETED"
              BY <5>3, <6>1 DEF PickingTasks
            <6> QED
              BY <3>2, <5>3, <6>2
          <5> QED
            BY <5>1, <5>3
        <4>3. Seeded(p)' = Seeded(p)
          BY <4>2, SeededStep
        <4> QED
          BY <2>0, <3>1, <4>1, <4>2, <4>3
      <3>3. CASE \E t \in TaskIds : LET a == AllocationOf(t) IN
                   /\ picking[t].status = "STARTED" /\ t \notin Completed
                   /\ Completed' = Completed \cup {t}
                   /\ inventory' = [inventory EXCEPT ![a[2]].onHand = @ - Quantity(a),
                                                     ![a[2]].reserved = @ - Quantity(a)]
        <4>1. PICK t \in TaskIds : LET a == AllocationOf(t) IN
                   /\ picking[t].status = "STARTED" /\ t \notin Completed
                   /\ Completed' = Completed \cup {t}
                   /\ inventory' = [inventory EXCEPT ![a[2]].onHand = @ - Quantity(a),
                                                     ![a[2]].reserved = @ - Quantity(a)]
          BY <3>3
        <4>2. PICK k \in Products, q \in Nat : k = AllocationOf(t)[2] /\ q = Quantity(AllocationOf(t))
          BY <4>1, TaskQuantity
        <4>3. inventory' = [inventory EXCEPT ![k].onHand = @ - q, ![k].reserved = @ - q]
          BY <4>1, <4>2
        <4>4. /\ inventory'[p].creator = inventory[p].creator
              /\ k = p => inventory'[p].onHand = inventory[p].onHand - q
              /\ k # p => inventory'[p].onHand = inventory[p].onHand
          <5>1. CASE k = p
            <6>1. inventory'[p] = [inventory[p] EXCEPT !.onHand = @ - q, !.reserved = @ - q]
              BY <2>0, <4>3, <5>1
            <6> QED
              BY <2>0, <5>1, <6>1 DEF InventoryRows
          <5>2. CASE k # p
            BY <2>0, <4>3, <5>2
          <5> QED
            BY <5>1, <5>2
        <4>5. /\ k = p => Outgoing(p)' = Outgoing(p) + q
              /\ k # p => Outgoing(p)' = Outgoing(p)
          BY <4>1, <4>2, OutgoingStep
        <4>6. Seeded(p)' = Seeded(p)
          BY <4>4, SeededStep
        <4> QED
          BY <2>0, <3>1, <4>2, <4>4, <4>5, <4>6
      <3> QED
        BY <2>2, <3>2, <3>3, CompletedStep
    <2>3. CASE ~PickingCompleted(r)
      <3>1. Outgoing(p)' = Outgoing(p)
        BY <2>3, CompletedStep, OutgoingStep
      <3>2. CASE GoodsReceived(r)
        <4>1. Incoming(p)' = Incoming(p) + receipts[r].lines[p]
          BY <3>2, IncomingStep
        <4>2. inventory' = Arrived(r)
          BY <3>2 DEF GoodsReceived
        <4>3. /\ inventory'[p].onHand = inventory[p].onHand + receipts[r].lines[p]
              /\ inventory'[p].creator \in {inventory[p].creator, r}
              /\ inventory'[p].creator # inventory[p].creator => inventory[p].creator = 0
          <5>1. CASE p \in Received(r)
            BY <4>2, <5>1, Arrival
          <5>2. CASE p \notin Received(r)
            <6>1. receipts[r].lines[p] = 0
              BY <2>0, <5>2 DEF Received
            <6>2. inventory'[p] = inventory[p]
              BY <4>2, <5>2, Arrival
            <6>3. inventory[p].onHand \in Nat
              BY <2>0, RowFields
            <6> QED
              BY <6>1, <6>2, <6>3
          <5> QED
            BY <5>1, <5>2
        <4>4. Seeded(p)' = Seeded(p)
          BY <3>2, <4>3, SeededStep
        <4> QED
          BY <2>0, <3>1, <4>1, <4>3, <4>4
      <3>3. CASE ~GoodsReceived(r)
        <4>1. Incoming(p)' = Incoming(p)
          BY <3>3, IncomingStep
        <4>2. CASE inventory'[p].onHand = inventory[p].onHand /\ inventory'[p].creator = inventory[p].creator
          <5>1. Seeded(p)' = Seeded(p)
            BY <4>2, SeededStep
          <5> QED
            BY <2>0, <3>1, <4>1, <4>2, <5>1
        <4>3. CASE /\ SeedInventory(r) /\ inventory[p].creator = 0 /\ inventory'[p].creator = r
                   /\ inventory'[p].onHand = SeedQty
          <5>1. Seeded(p)' = SeedQty /\ Seeded(p) = 0
            BY <4>3, SeededStep
          <5>2. inventory[p].onHand = 0
            BY <4>3 DEF IInv, StockInv, NoRow
          <5> QED
            BY <2>0, <3>1, <4>1, <4>3, <5>1, <5>2
        <4> QED
          BY <2>1, <2>3, <3>3, <4>2, <4>3 DEF StockEffect
      <3> QED
        BY <3>2, <3>3
    <2> QED
      BY <2>2, <2>3
  <1> QED
    BY <1>1 DEF Conserved

\* What is on hand of a product is what was seeded and received less what its
\* completed picking tasks took, whatever order they were picked for.
THEOREM StockConserved == Spec => []StockIsConserved
  <1>1. Init => Conserved
    <2> SUFFICES ASSUME Init, NEW p \in Products
                 PROVE  inventory[p].onHand = Incoming(p) - Outgoing(p) + Seeded(p)
      BY DEF Conserved
    <2>1. inventory[p].onHand = 0 /\ Seeded(p) = 0
      BY DEF Init, WarehouseInit, NoRow, Seeded
    <2>2. Arrivals = {} /\ Issues(p) = {}
      BY DEF Init, InboundInit, OutboundInit, Arrivals, Issues, Completed
    <2>3. Incoming(p) = 0 /\ Outgoing(p) = 0
      BY <2>2, TotalEmpty DEF Incoming, Outgoing
    <2> QED
      BY <2>1, <2>3
  <1>2. IInv /\ Conserved /\ [Next]_vars => Conserved'
    <2> SUFFICES ASSUME IInv, Conserved, [Next]_vars PROVE Conserved'
      OBVIOUS
    <2>1. CASE UNCHANGED vars
      BY <2>1 DEF vars, warehouseVars, inboundVars, outboundVars, Conserved, Incoming, Outgoing,
         Seeded, Arrivals, Issues, Completed, AllocationOf, Quantity
    <2> QED
      BY <2>1, Steps, ConservedStep
  <1>3. Conserved => StockIsConserved
    BY DEF Conserved, StockIsConserved, Incoming, Outgoing, Seeded, Arrivals, Issues
  <1> QED
    BY <1>1, <1>2, <1>3, Invariance, PTL DEF Spec

-----------------------------------------------------------------------------
(* Runs that carry the times of their requests: Stamps = {}.                *)

\* Each run completes the picking tasks of its own order and no others.
ChronologyInv ==
  /\ \A r \in Runs : run[r].flow # "none" => run[r].stamp = r
  /\ \A t \in TaskIds : picking[t].status \in {"STARTED", "COMPLETED"} =>
       /\ t[2][1] = t[1] /\ picking[t].order = t[1]
       /\ picking[t].status = "STARTED" => allocations[t[2]].status = "RESERVED"
  /\ \A r \in Runs :
       run[r].status = "RUNNING" /\ run[r].step \in {"PickingTaskStarted", "PickingCompleted"} =>
         \A t \in todo : /\ t \in TaskIds /\ t[1] = r /\ t[2][1] = r
                         /\ picking[t].status = "CREATED" /\ picking[t].order = r
                         /\ allocations[t[2]].status = "RESERVED"

\* A run gets past PickingTaskCreated only if all the stock that is RESERVED is
\* that of its own order.
LEMMA OwnTasksOnly ==
  ASSUME IInv, ChronologyInv, NEW r \in Runs, PickingTaskCreated(r), ~Fail(r)
  PROVE  /\ todo' = {r} \X ReservedAllocations
         /\ \A a \in ReservedAllocations : a[1] = r
         /\ picking' = [t \in TaskIds |->
              IF t[1] = r /\ AllocationOf(t) \in ReservedAllocations
              THEN [status |-> "CREATED", order |-> r] ELSE picking[t]]
  <1>1. PICK first \in Earliest(ReservedAllocations) :
          /\ picking' = [t \in TaskIds |->
               IF t[1] = r /\ AllocationOf(t) \in ReservedAllocations
               THEN [status |-> "CREATED", order |-> first[1]]
               ELSE picking[t]]
          /\ first[1] = r
          /\ todo' = {r} \X ReservedAllocations
    BY DEF PickingTaskCreated
  <1>2. ASSUME NEW a \in ReservedAllocations
        PROVE  a[1] = r
    <2>1. a \in AllocationIds /\ allocations[a].status = "RESERVED"
      BY DEF ReservedAllocations
    <2>2. PICK o \in Runs, p \in Products : a = <<o, p>>
      BY <2>1 DEF AllocationIds
    <2>3. o <= r
      BY <2>1, <2>2, EarlierOrder DEF PickingTaskCreated, Running
    <2>4. run[o].flow # "none"
      <3>1. ~Unallocated(o)
        BY <2>1, <2>2 DEF IInv, AllocationInv
      <3> QED
        BY <3>1 DEF Unallocated, Unordered
    <2>5. run[r].flow # "none"
      BY DEF PickingTaskCreated, Running, IInv, RunInv
    <2>6. run[r].stamp <= run[o].stamp
      BY <1>1, <2>2 DEF Earliest
    <2>7. r <= o
      BY <2>4, <2>5, <2>6 DEF ChronologyInv
    <2> QED
      BY <2>2, <2>3, <2>7 DEF Runs
  <1> QED
    BY <1>1, <1>2

\* A task's name says which run created it and for which allocation.
LEMMA TaskName ==
  ASSUME NEW s \in TaskIds, NEW t \in TaskIds, s[1] = t[1], s[2] = t[2]
  PROVE  s = t
  BY DEF TaskIds

LEMMA ChronologyStep ==
  ASSUME Stamps = {}, IInv, ChronologyInv, NEW r \in Runs, Step(r)
  PROVE  ChronologyInv'
  <1>1. \A q \in Runs : q # r => run'[q] = run[q] /\ run'[q].status # "RUNNING"
    BY RunStep
  <1>2. \A q \in Runs : run'[q].flow # "none" => run'[q].stamp = q
    BY <1>1, RunStep DEF ChronologyInv, IInv, RunInv
  <1>3. ASSUME NEW s \in TaskIds, s[2][1] = s[1], allocations[s[2]].status = "RESERVED",
               picking'[s].status # "COMPLETED"
        PROVE  allocations'[s[2]].status = "RESERVED"
    <2>1. s[2] \in AllocationIds
      BY QuantityType DEF IInv, AllocationOf
    <2>2. PICK o \in Runs, p \in Products : s[2] = <<o, p>>
      BY <2>1 DEF AllocationIds
    <2>3. AllocationEffect(r, o, p)
      BY AllocationsStep
    <2>4. ASSUME allocations'[s[2]].status # "RESERVED"
          PROVE  \E t \in TaskIds : /\ picking[t].status = "STARTED" /\ AllocationOf(t) = s[2]
                                    /\ picking' = [picking EXCEPT ![t].status = "COMPLETED"]
      <3>1. ~(o = r /\ run[r].step = "InventoryAllocationCreated")
        BY <1>3, <2>2 DEF IInv, AllocationInv, Unallocated
      <3> QED
        BY <1>3, <2>2, <2>3, <2>4, <3>1 DEF AllocationEffect
    <2>5. ASSUME NEW t \in TaskIds, picking[t].status = "STARTED", AllocationOf(t) = s[2],
                 picking' = [picking EXCEPT ![t].status = "COMPLETED"]
          PROVE  FALSE
      <3>1. picking \in [TaskIds -> PickingTasks] /\ picking[t] \in PickingTasks
        BY DEF IInv, TypeOK
      <3>2. picking'[t].status = "COMPLETED"
        BY <2>5, <3>1 DEF PickingTasks
      <3>3. t[2][1] = t[1]
        BY <2>5 DEF ChronologyInv
      <3>4. s = t
        BY <1>3, <2>5, <3>3, TaskName DEF AllocationOf
      <3> QED
        BY <1>3, <3>2, <3>4
    <2> QED
      BY <2>4, <2>5
  <1>4. ASSUME NEW t \in TaskIds, picking'[t].status \in {"STARTED", "COMPLETED"}
        PROVE  /\ t[2][1] = t[1] /\ picking'[t].order = t[1]
               /\ picking'[t].status = "STARTED" => allocations'[t[2]].status = "RESERVED"
    <2>1. TaskEffect(r, t)
      BY TasksStep
    <2>2. CASE picking[t].status \in {"STARTED", "COMPLETED"}
      <3>1. /\ t[2][1] = t[1] /\ picking[t].order = t[1]
            /\ picking[t].status = "STARTED" => allocations[t[2]].status = "RESERVED"
        BY <2>2 DEF ChronologyInv
      <3>2. picking'[t].order = picking[t].order
        BY <1>4, <2>1, <2>2 DEF TaskEffect
      <3>3. picking'[t].status = "STARTED" => picking[t].status = "STARTED"
        BY <2>1, <2>2 DEF TaskEffect
      <3> QED
        BY <1>3, <3>1, <3>2, <3>3
    <2>3. CASE picking[t].status \notin {"STARTED", "COMPLETED"}
      <3>1. /\ PickingTaskStarted(r) /\ t \in todo /\ picking[t].status = "CREATED"
            /\ picking'[t].status = "STARTED" /\ picking'[t].order = picking[t].order
            /\ allocations' = allocations
        BY <1>4, <2>1, <2>3 DEF TaskEffect
      <3>2. /\ t[1] = r /\ t[2][1] = r /\ picking[t].order = r
            /\ allocations[t[2]].status = "RESERVED"
        BY <3>1 DEF ChronologyInv, PickingTaskStarted, Running
      <3> QED
        BY <3>1, <3>2
    <2> QED
      BY <2>2, <2>3
  <1>5. ASSUME run'[r].status = "RUNNING", run'[r].step \in {"PickingTaskStarted", "PickingCompleted"},
               NEW t \in todo'
        PROVE  /\ t \in TaskIds /\ t[1] = r /\ t[2][1] = r
               /\ picking'[t].status = "CREATED" /\ picking'[t].order = r
               /\ allocations'[t[2]].status = "RESERVED"
    <2>1. OutboundNext(r) /\ ~Fail(r)
      BY <1>5, RunStep, Failed DEF InboundSteps
    <2>2. OutboundMove(r) /\ run[r].status = "RUNNING"
      BY <2>1, OutboundMoves, GeneratorRun
    <2>3. CASE PickingTaskCreated(r)
      <3>1. /\ todo' = {r} \X ReservedAllocations
            /\ \A a \in ReservedAllocations : a[1] = r
            /\ picking' = [s \in TaskIds |->
                 IF s[1] = r /\ AllocationOf(s) \in ReservedAllocations
                 THEN [status |-> "CREATED", order |-> r] ELSE picking[s]]
        BY <2>1, <2>3, OwnTasksOnly
      <3>2. PICK a \in ReservedAllocations : t = <<r, a>>
        BY <3>1
      <3>3. t \in TaskIds /\ t[1] = r /\ t[2] = a /\ a[1] = r /\ AllocationOf(t) = a
        BY <3>1, <3>2 DEF TaskIds, ReservedAllocations, AllocationOf
      <3>4. picking'[t] = [status |-> "CREATED", order |-> r]
        BY <3>1, <3>2, <3>3
      <3>5. allocations' = allocations
        BY <2>3 DEF PickingTaskCreated
      <3> QED
        BY <3>3, <3>4, <3>5 DEF ReservedAllocations
    <2>4. CASE PickingTaskStarted(r)
      <3>1. PICK u \in todo : /\ todo' = todo \ {u} /\ allocations' = allocations
                              /\ IF picking[u].status = "CREATED"
                                 THEN picking' = [picking EXCEPT ![u].status = "STARTED"]
                                 ELSE UNCHANGED picking
        BY <2>4 DEF PickingTaskStarted, Rest
      <3>2. /\ t \in TaskIds /\ t[1] = r /\ t[2][1] = r
            /\ picking[t].status = "CREATED" /\ picking[t].order = r
            /\ allocations[t[2]].status = "RESERVED"
        BY <2>2, <2>4, <3>1 DEF ChronologyInv, PickingTaskStarted, Running
      <3>3. picking'[t] = picking[t]
        BY <3>1, <3>2 DEF IInv, TypeOK
      <3> QED
        BY <3>1, <3>2, <3>3
    <2>5. CASE PickingCompleted(r)
      <3>1. t \in todo
        BY <2>1, <2>5, PickEffect
      <3>2. /\ t \in TaskIds /\ t[1] = r /\ t[2][1] = r
            /\ picking[t].status = "CREATED" /\ picking[t].order = r
            /\ allocations[t[2]].status = "RESERVED"
        BY <2>2, <2>5, <3>1 DEF ChronologyInv, PickingCompleted, Running
      <3>3. picking'[t] = picking[t]
        BY <2>5, <3>2, TasksStep, OneGenerator DEF TaskEffect
      <3> QED
        BY <1>3, <3>2, <3>3
    <2>6. PickingTaskCreated(r) \/ PickingTaskStarted(r) \/ PickingCompleted(r)
      BY <1>5, <2>1, <2>2 DEF OutboundMove
    <2> QED
      BY <2>3, <2>4, <2>5, <2>6
  <1> QED
    BY <1>1, <1>2, <1>4, <1>5 DEF ChronologyInv

\* An order is packed after it was made, in the quantities ordered.
PackedInv ==
  \A o \in Runs :
    /\ orders[o].packing # "NONE" => ~Unordered(o)
    /\ orders[o].packing = "COMPLETED" => orders[o].package = orders[o].items

\* The completed tasks of an allocation: its own, if it is picked, and no other.
LEMMA CompletedTasks ==
  ASSUME IInv, OutboundWork, ChronologyInv, NEW a \in AllocationIds
  PROVE  {t \in Completed : AllocationOf(t) = a} =
           IF allocations[a].status = "PICKED" THEN {<<a[1], a>>} ELSE {}
  <1>1. ASSUME NEW t \in Completed, AllocationOf(t) = a
        PROVE  t = <<a[1], a>> /\ allocations[a].status = "PICKED"
    <2>1. t \in TaskIds /\ picking[t].status = "COMPLETED" /\ t[2] = a
      BY <1>1 DEF Completed, AllocationOf
    <2>2. t[2][1] = t[1] /\ t = <<t[1], t[2]>>
      BY <2>1, QuantityType DEF ChronologyInv, IInv, AllocationOf
    <2> QED
      BY <2>1, <2>2 DEF IInv, TaskInv
  <1>2. CASE allocations[a].status = "PICKED"
    <2>1. PICK t \in TaskIds : AllocationOf(t) = a /\ picking[t].status = "COMPLETED"
      BY <1>2 DEF OutboundWork
    <2>2. t \in Completed
      BY <2>1 DEF Completed
    <2> QED
      BY <1>1, <1>2, <2>1, <2>2
  <1>3. CASE allocations[a].status # "PICKED"
    BY <1>1, <1>3
  <1> QED
    BY <1>2, <1>3

\* When every task of an order is completed, they brought what was ordered.
LEMMA PackageIsOrder ==
  ASSUME IInv, OutboundWork, ChronologyInv, NEW r \in Runs, Running(r, "PackingCompleted"),
         NEW p \in Products
  PROVE  PickedFor(r, p) = orders[r].items[p]
  <1> DEFINE S == {t \in TasksOf(r) : AllocationOf(t)[2] = p /\ picking[t].status = "COMPLETED"}
  <1>0. PICK n : n = [t \in TaskIds |-> Quantity(AllocationOf(t))]
    OBVIOUS
  <1>1. PickedFor(r, p) = Total(n, S)
    BY <1>0 DEF PickedFor
  <1>2. PICK own \in TaskIds : own = <<r, <<r, p>>>> /\ AllocationOf(own) = <<r, p>>
                               /\ Quantity(AllocationOf(own)) = orders[r].items[p]
                               /\ AllocationOf(own)[2] = p
    <2>1. /\ <<r, <<r, p>>>> \in TaskIds /\ AllocationOf(<<r, <<r, p>>>>) = <<r, p>>
          /\ <<r, p>>[2] = p /\ Quantity(<<r, p>>) = orders[r].items[p]
      BY OwnTask
    <2>2. PICK own : own = <<r, <<r, p>>>>
      OBVIOUS
    <2>3. own \in TaskIds /\ AllocationOf(own) = <<r, p>>
      BY <2>1, <2>2
    <2> QED
      BY <2>1, <2>2, <2>3
  <1>3. orders[r].items[p] \in Nat /\ n[own] = orders[r].items[p]
    <2>1. orders[r] \in Orders
      BY DEF IInv, TypeOK
    <2> QED
      BY <1>0, <1>2, <2>1, OrderFields, QuantityAssumption
  <1>4. ASSUME NEW t \in S PROVE t = own
    <2>1. /\ t \in TaskIds /\ picking[t].order = r /\ picking[t].status = "COMPLETED"
          /\ AllocationOf(t)[2] = p
      BY DEF TasksOf
    <2>2. t[1] = r /\ t[2][1] = r
      BY <2>1 DEF ChronologyInv
    <2>3. /\ t = <<t[1], AllocationOf(t)>>
          /\ AllocationOf(t) = <<AllocationOf(t)[1], AllocationOf(t)[2]>>
      BY <2>1, QuantityType DEF IInv
    <2>4. AllocationOf(t)[1] = r
      BY <2>2 DEF AllocationOf
    <2> QED
      BY <1>2, <2>1, <2>2, <2>3, <2>4
  <1>5. CASE p \in Ordered(r)
    <2>1. run[r].flow = "outbound"
      BY RunFields DEF Running, IInv, RunInv, Flows, FirstStep, InboundSteps
    <2>2. picking[own].status # "NONE" /\ picking[own].order = r
      BY <1>2, <1>5, <2>1 DEF OutboundWork, Running, Assigned, Packing
    <2>3. own \in TasksOf(r)
      BY <2>2 DEF TasksOf
    <2>4. picking[own].status = "COMPLETED"
      BY <2>1, <2>3 DEF OutboundWork, Running, Packing
    <2>5. S = {own}
      BY <1>2, <1>4, <2>3, <2>4
    <2>6. Total(n, {own}) = n[own]
      BY <1>3, TotalSingle
    <2> QED
      BY <1>1, <1>3, <2>5, <2>6
  <1>6. CASE p \notin Ordered(r)
    <2>1. orders[r].items[p] = 0
      BY <1>3, <1>6 DEF Ordered
    <2>2. S = {}
      <3>1. ASSUME NEW t \in S PROVE FALSE
        <4>1. own \in S
          BY <1>4
        <4>2. picking[own].status # "NONE"
          BY <4>1 DEF TasksOf
        <4>3. Quantity(AllocationOf(own)) \in Nat \ {0}
          BY <4>2, TaskQuantity
        <4> QED
          BY <1>2, <2>1, <4>3
      <3> QED
        BY <3>1
    <2> QED
      BY <1>1, <2>1, <2>2, TotalEmpty
  <1> QED
    BY <1>5, <1>6

LEMMA PackedInvStep ==
  ASSUME IInv, OutboundWork, ChronologyInv, PackedInv, NEW r \in Runs, Step(r)
  PROVE  PackedInv'
  <1>1. ASSUME NEW o \in Runs
        PROVE  /\ orders'[o].packing # "NONE" => ~Unordered(o)'
               /\ orders'[o].packing = "COMPLETED" => orders'[o].package = orders'[o].items
    <2>0. /\ orders[o].packing # "NONE" => ~Unordered(o)
          /\ orders[o].packing = "COMPLETED" => orders[o].package = orders[o].items
      BY DEF PackedInv
    <2>1. ~Unordered(o) => ~Unordered(o)' /\ orders'[o].items = orders[o].items
      <3>1. CASE o # r
        BY <3>1, Stages
      <3>2. CASE o = r
        <4>1. Unordered(r) => Unallocated(r)
          BY DEF Unallocated
        <4>2. Unallocated(r) => Unreserved(r)
          BY DEF Unreserved
        <4>3. Unordered(r)' => Unallocated(r)' /\ Unreserved(r)'
          BY DEF Unreserved, Unallocated
        <4>4. /\ run[r].step = "InventoryAllocationCreated" => Unallocated(r)
              /\ run[r].step = "InventoryReserved" => Unreserved(r)
              /\ run'[r].step = "InventoryReserved" /\ Unordered(r)' => run'[r].flow # "outbound"
              /\ run'[r].step = "PickingTaskCreated" /\ Unordered(r)' => run'[r].flow # "outbound"
          BY DEF Unreserved, Unallocated, Unordered
        <4> QED
          BY <3>2, <4>1, <4>2, <4>3, <4>4, Stages DEF Unordered
      <3> QED
        BY <3>1, <3>2
    <2>2. CASE orders'[o].packing = orders[o].packing /\ orders'[o].package = orders[o].package
      BY <2>0, <2>1, <2>2
    <2>3. CASE o = r /\ OutboundNext(r)
      <3>1. OrderEffect(r) /\ run[r].status = "RUNNING" /\ run[r].step \in OutboundSteps
        BY <2>3, OrdersStep, GeneratorRun
      <3>2. run[r].flow = "outbound"
        BY <3>1, RunFields DEF IInv, RunInv, Flows, FirstStep, InboundSteps, OutboundSteps
      <3>3. CASE /\ run[r].step \in {"PackingTaskCreated", "PackingTaskStarted"}
                 /\ orders'[r].packing \in {"CREATED", "STARTED"}
        BY <2>1, <2>3, <3>2, <3>3 DEF Unordered
      <3>4. CASE /\ run[r].step = "PackingCompleted" /\ run'[r].step = "ShipmentReady"
                 /\ orders'[r].package = [p \in Products |-> PickedFor(r, p)]
        <4>1. ~Unordered(r)
          BY <3>2, <3>4 DEF Unordered
        <4>2. orders'[r].items = orders[r].items
          BY <2>1, <2>3, <4>1
        <4>3. orders[r].items = [p \in Products |-> orders[r].items[p]]
          <5>1. orders[r] \in Orders
            BY DEF IInv, TypeOK
          <5>2. orders[r].items \in [Products -> 0..MaxItem]
            BY <5>1, OrderFields
          <5> QED
            BY <5>2
        <4>4. \A p \in Products : PickedFor(r, p) = orders[r].items[p]
          BY <3>1, <3>4, PackageIsOrder DEF Running
        <4>5. orders'[r].package = orders'[r].items
          BY <3>4, <4>2, <4>3, <4>4
        <4> QED
          BY <2>1, <2>3, <4>1, <4>5
      <3> QED
        BY <2>2, <2>3, <3>1, <3>3, <3>4 DEF OrderEffect
    <2>4. CASE ~(o = r /\ OutboundNext(r))
      <3>1. orders'[o] = orders[o]
        BY <2>4, Frames, Stages DEF OutboundNext
      <3> QED
        BY <2>2, <3>1
    <2> QED
      BY <2>3, <2>4
  <1> QED
    BY <1>1 DEF PackedInv

-----------------------------------------------------------------------------
(* Reserved quantities.                                                     *)

\* The allocations of a product that are RESERVED.
Promised(p) == {a \in ReservedAllocations : a[2] = p}

LEMMA FinitePromises == \A p \in Products : IsFiniteSet(Promised(p))
  <1> SUFFICES ASSUME NEW p \in Products PROVE IsFiniteSet(Promised(p))
    OBVIOUS
  <1>1. IsFiniteSet(Runs)
    BY RunAssumption, FS_Interval DEF Runs
  <1>2. PICK one : one = {p}
    OBVIOUS
  <1>3. IsFiniteSet(one)
    BY <1>2, FS_Singleton
  <1>4. IsFiniteSet(Runs \X one)
    BY <1>1, <1>3, FS_Product
  <1>5. Promised(p) \subseteq Runs \X one
    BY <1>2 DEF Promised, ReservedAllocations, AllocationIds
  <1> QED
    BY <1>4, <1>5, FS_Subset

\* What they add up to.
Promises(p) == Total([a \in AllocationIds |-> Quantity(a)], Promised(p))

\* An allocation that becomes RESERVED adds its quantity; one that no longer is takes
\* it away.
LEMMA PromisesStep ==
  ASSUME IInv, NEW r \in Runs, Step(r), NEW p \in Products
  PROVE  /\ Promises(p) \in Nat
         /\ Promised(p)' = Promised(p) => Promises(p)' = Promises(p)
         /\ \A a \in AllocationIds :
              /\ allocations[a].status # "NONE" /\ a \notin Promised(p)
                   /\ Promised(p)' = Promised(p) \cup {a} => Promises(p)' = Promises(p) + Quantity(a)
              /\ a \in Promised(p) /\ Promised(p)' = Promised(p) \ {a} =>
                   Promises(p)' = Promises(p) - Quantity(a)
  <1>1. PICK n, m, S, T : /\ n = [a \in AllocationIds |-> Quantity(a)]
                          /\ m = [a \in AllocationIds |-> Quantity(a)]'
                          /\ S = Promised(p) /\ T = Promised(p)'
    OBVIOUS
  <1>2. IsFiniteSet(S) /\ S \subseteq AllocationIds
    BY <1>1, FinitePromises DEF Promised, ReservedAllocations
  <1>3. ASSUME NEW a \in AllocationIds, allocations[a].status # "NONE"
        PROVE  n[a] = m[a] /\ n[a] \in Nat /\ n[a] = Quantity(a)
    <2>1. Quantity(a)' = Quantity(a)
      BY <1>3, QuantityKept
    <2>2. n[a] = Quantity(a) /\ m[a] = Quantity(a)'
      BY <1>1 DEF AllocationIds, Runs
    <2>3. Quantity(a) \in Nat
      <3>1. PICK o \in Runs, k \in Products : a = <<o, k>>
        BY DEF AllocationIds
      <3>2. orders[o] \in Orders
        BY DEF IInv, TypeOK
      <3>3. orders[o].items[k] \in Nat
        BY <3>2, OrderFields, QuantityAssumption
      <3> QED
        BY <3>1, <3>3 DEF Quantity
    <2> QED
      BY <2>1, <2>2, <2>3
  <1>4. \A a \in S : n[a] = m[a] /\ n[a] \in Nat
    BY <1>1, <1>2, <1>3 DEF Promised, ReservedAllocations
  <1>5. Total(n, S) \in Nat
    BY <1>2, <1>4, TotalType
  <1>6. Total(n, S) = Total(m, S)
    BY <1>4, TotalSame
  <1>7. ASSUME NEW a \in AllocationIds, allocations[a].status # "NONE", a \notin S, T = S \cup {a}
        PROVE  Total(m, T) = Total(n, S) + Quantity(a)
    <2>1. n[a] = m[a] /\ n[a] \in Nat /\ n[a] = Quantity(a)
      BY <1>3, <1>7
    <2>2. \A b \in S \cup {a} : n[b] = m[b]
      BY <1>4, <2>1
    <2>3. Total(n, S \cup {a}) = Total(m, S \cup {a})
      BY <2>2, TotalSame
    <2>4. \A b \in S : n[b] \in Nat
      BY <1>4
    <2>5. Total(n, S \cup {a}) = Total(n, S) + n[a]
      BY <1>2, <1>7, <2>1, <2>4, TotalInsert
    <2> QED
      BY <1>7, <2>1, <2>3, <2>5
  <1>8. ASSUME NEW a \in S, T = S \ {a}
        PROVE  Total(m, T) = Total(n, S) - Quantity(a)
    <2>0. PICK R : R = S \ {a}
      OBVIOUS
    <2>1. n[a] = m[a] /\ n[a] \in Nat /\ n[a] = Quantity(a)
      <3>1. a \in AllocationIds /\ allocations[a].status # "NONE"
        BY <1>1 DEF Promised, ReservedAllocations
      <3> QED
        BY <1>3, <3>1
    <2>2. IsFiniteSet(R) /\ a \notin R /\ S = R \cup {a}
      BY <1>2, <2>0, FS_RemoveElement
    <2>3. \A b \in R : n[b] = m[b] /\ n[b] \in Nat
      BY <1>4, <2>0
    <2>4. Total(n, R) = Total(m, R)
      BY <2>3, TotalSame
    <2>5. Total(n, R \cup {a}) = Total(n, R) + n[a]
      BY <2>1, <2>2, <2>3, TotalInsert
    <2>6. Total(n, R) \in Nat
      BY <2>2, <2>3, TotalType
    <2> QED
      BY <1>8, <2>0, <2>1, <2>2, <2>4, <2>5, <2>6
  <1>9. Promises(p) = Total(n, S) /\ Promises(p)' = Total(m, T)
    BY <1>1 DEF Promises
  <1> QED
    BY <1>1, <1>5, <1>6, <1>7, <1>8, <1>9

LEMMA ReservedStep ==
  ASSUME IInv, ChronologyInv, ReservedIsAllocated, NEW r \in Runs, Step(r)
  PROVE  ReservedIsAllocated'
  <1> DEFINE Enough == \A k \in Ordered(r) : orders[r].items[k] <= Available(k)
  <1>1. ASSUME NEW p \in Products
        PROVE  inventory'[p].reserved = Promises(p)'
    <2>0. /\ inventory[p].reserved = Promises(p) /\ inventory[p] \in InventoryRows
          /\ inventory \in [Products -> InventoryRows] /\ inventory[p].reserved \in Nat
      BY RowFields DEF ReservedIsAllocated, Promises, Promised, IInv, TypeOK
    <2>1. CASE InventoryReserved(r) /\ Enough /\ p \in Ordered(r)
      <3>1. /\ run[r].status = "RUNNING" /\ run[r].step = "InventoryReserved"
            /\ inventory' = [k \in Products |->
                 IF k \in Ordered(r)
                 THEN [inventory[k] EXCEPT !.reserved = @ + orders[r].items[k],
                                           !.status = "AVAILABLE"]
                 ELSE inventory[k]]
            /\ allocations' = [a \in AllocationIds |->
                 IF a[1] = r /\ a[2] \in Ordered(r)
                 THEN [allocations[a] EXCEPT !.status = "RESERVED"]
                 ELSE allocations[a]]
        BY <2>1 DEF InventoryReserved, Running
      <3>2. run[r].flow = "outbound"
        BY <3>1, RunFields DEF IInv, RunInv, Flows, FirstStep, InboundSteps
      <3>3. PICK a : a = <<r, p>>
        OBVIOUS
      <3>4. a \in AllocationIds /\ a[1] = r /\ a[2] = p /\ Quantity(a) = orders[r].items[p]
        BY <3>3 DEF AllocationIds, Quantity
      <3>5. PICK q \in Nat : q = orders[r].items[p]
        BY OrderFields, QuantityAssumption DEF IInv, TypeOK
      <3>6. allocations[a].status = "ALLOCATED"
        <4>1. ~Unallocated(r) /\ Unreserved(r)
          BY <3>1, <3>2 DEF Unreserved, Unallocated, Unordered
        <4>2. orders[r].items[p] > 0
          BY <2>1 DEF Ordered
        <4> QED
          BY <3>3, <4>1, <4>2 DEF IInv, AllocationInv
      <3>7. /\ allocations'[a].status = "RESERVED"
            /\ \A b \in AllocationIds : b # a /\ b[2] = p => allocations'[b] = allocations[b]
        <4>1. allocations[a] \in Allocations
          BY <3>4 DEF IInv, TypeOK
        <4>2. allocations'[a] = [allocations[a] EXCEPT !.status = "RESERVED"]
          BY <2>1, <3>1, <3>4
        <4>3. \A b \in AllocationIds : b[1] = r /\ b[2] = p => b = a
          BY <3>3 DEF AllocationIds
        <4> QED
          BY <3>1, <4>1, <4>2, <4>3 DEF Allocations
      <3>8. Promised(p)' = Promised(p) \cup {a} /\ a \notin Promised(p)
        BY <3>4, <3>6, <3>7 DEF Promised, ReservedAllocations
      <3>9. Promises(p)' = Promises(p) + q
        BY <3>4, <3>5, <3>6, <3>8, PromisesStep
      <3>10. inventory'[p].reserved = inventory[p].reserved + q
        <4>1. PICK x : x = inventory[p].reserved + q
          OBVIOUS
        <4>2. inventory'[p] = [inventory[p] EXCEPT !.reserved = x, !.status = "AVAILABLE"]
          BY <2>0, <2>1, <3>1, <3>5, <4>1 DEF InventoryRows
        <4> QED
          BY <2>0, <4>1, <4>2 DEF InventoryRows
      <3> QED
        BY <2>0, <3>9, <3>10
    <2>2. CASE InventoryReserved(r) /\ ~(Enough /\ p \in Ordered(r))
      <3>1. CASE Enough
        <4>1. /\ inventory'[p] = inventory[p]
              /\ \A a \in AllocationIds : a[2] = p => allocations'[a] = allocations[a]
          BY <2>2, <3>1 DEF InventoryReserved
        <4>2. Promised(p)' = Promised(p)
          BY <4>1 DEF Promised, ReservedAllocations
        <4> QED
          BY <2>0, <4>1, <4>2, PromisesStep
      <3>2. CASE ~Enough
        <4>1. inventory' = inventory /\ allocations' = allocations
          BY <2>2, <3>2 DEF InventoryReserved
        <4>2. Promised(p)' = Promised(p)
          BY <4>1 DEF Promised, ReservedAllocations
        <4> QED
          BY <2>0, <4>1, <4>2, PromisesStep
      <3> QED
        BY <3>1, <3>2
    <2>3. CASE PickingCompleted(r)
      <3>1. CASE UNCHANGED <<inventory, utilization, allocations, picking>>
        <4>1. Promised(p)' = Promised(p)
          BY <3>1 DEF Promised, ReservedAllocations
        <4> QED
          BY <2>0, <3>1, <4>1, PromisesStep
      <3>2. CASE ~ UNCHANGED <<inventory, utilization, allocations, picking>>
        <4>1. PICK t \in TaskIds : LET a == AllocationOf(t) IN
                /\ picking[t].status = "STARTED"
                /\ inventory' = [inventory EXCEPT ![a[2]].onHand = @ - Quantity(a),
                                                  ![a[2]].reserved = @ - Quantity(a)]
                /\ allocations' = [allocations EXCEPT ![a].status = "PICKED"]
          BY <2>3, <3>2, PickEffect
        <4>2. PICK a \in AllocationIds : a = AllocationOf(t)
          BY QuantityType DEF IInv
        <4>3. PICK k \in Products, q \in Nat : k = a[2] /\ q = Quantity(a)
          BY <4>1, <4>2, TaskQuantity
        <4>4. allocations[a].status = "RESERVED"
          BY <4>1, <4>2 DEF ChronologyInv, AllocationOf
        <4>5. /\ allocations'[a].status = "PICKED"
              /\ \A b \in AllocationIds : b # a => allocations'[b] = allocations[b]
          <5>1. allocations \in [AllocationIds -> Allocations] /\ allocations[a] \in Allocations
            BY DEF IInv, TypeOK
          <5>2. allocations' = [allocations EXCEPT ![a].status = "PICKED"]
            BY <4>1, <4>2
          <5> QED
            BY <5>1, <5>2 DEF Allocations
        <4>6. inventory' = [inventory EXCEPT ![k].onHand = @ - q, ![k].reserved = @ - q]
          BY <4>1, <4>2, <4>3
        <4>7. CASE k = p
          <5>1. a \in Promised(p) /\ Promised(p)' = Promised(p) \ {a}
            BY <4>3, <4>4, <4>5, <4>7 DEF Promised, ReservedAllocations
          <5>2. Promises(p)' = Promises(p) - q
            BY <4>3, <5>1, PromisesStep
          <5>3. inventory'[p] = [inventory[p] EXCEPT !.onHand = @ - q, !.reserved = @ - q]
            BY <2>0, <4>6, <4>7
          <5>4. inventory'[p].reserved = inventory[p].reserved - q
            BY <2>0, <5>3 DEF InventoryRows
          <5> QED
            BY <2>0, <5>2, <5>4
        <4>8. CASE k # p
          <5>1. Promised(p)' = Promised(p)
            BY <4>3, <4>5, <4>8 DEF Promised, ReservedAllocations
          <5>2. inventory'[p] = inventory[p]
            BY <2>0, <4>6, <4>8
          <5> QED
            BY <2>0, <5>1, <5>2, PromisesStep
        <4> QED
          BY <4>7, <4>8
      <3> QED
        BY <3>1, <3>2
    <2>4. CASE ~InventoryReserved(r) /\ ~PickingCompleted(r)
      <3>1. ASSUME NEW a \in AllocationIds
            PROVE  allocations'[a].status = "RESERVED" <=> allocations[a].status = "RESERVED"
        <4>1. PICK o \in Runs, k \in Products : a = <<o, k>>
          BY DEF AllocationIds
        <4>2. AllocationEffect(r, o, k)
          BY AllocationsStep
        <4>3. run[o].step = "InventoryAllocationCreated" => allocations[a].status = "NONE"
          BY <4>1 DEF IInv, AllocationInv, Unallocated
        <4> QED
          BY <2>4, <4>1, <4>2, <4>3 DEF AllocationEffect
      <3>2. Promised(p)' = Promised(p)
        BY <3>1 DEF Promised, ReservedAllocations
      <3>3. inventory'[p].reserved = inventory[p].reserved
        <4>1. StockEffect(r, p)
          BY InventoryStep
        <4>2. inventory[p].creator = 0 => inventory[p].reserved = 0
          BY DEF IInv, StockInv, NoRow
        <4> QED
          BY <2>4, <4>1, <4>2 DEF StockEffect
      <3> QED
        BY <2>0, <3>2, <3>3, PromisesStep
    <2> QED
      BY <2>1, <2>2, <2>3, <2>4
  <1> QED
    BY <1>1 DEF ReservedIsAllocated, Promises, Promised

\* The invariant of runs that carry the times of their requests.
Chronicle ==
  Stamps = {} /\ OutboundWork /\ ChronologyInv /\ PackedInv /\ ReservedIsAllocated

LEMMA ChronicleHolds == Stamps = {} /\ Spec => []Chronicle
  <1>1. Stamps = {} /\ Init => Chronicle
    <2> SUFFICES ASSUME Stamps = {}, Init PROVE Chronicle
      OBVIOUS
    <2>1. /\ \A r \in Runs : run[r].status = "WAITING" /\ run[r].flow = "none"
          /\ \A t \in TaskIds : picking[t].status = "NONE"
          /\ \A a \in AllocationIds : allocations[a].status = "NONE"
          /\ \A o \in Runs : orders[o].packing = "NONE"
          /\ \A p \in Products : inventory[p].reserved = 0
      BY DEF Init, WarehouseInit, OutboundInit, NoRow
    <2>2. OutboundWork
      BY <2>1 DEF OutboundWork
    <2>3. ChronologyInv
      BY <2>1 DEF ChronologyInv
    <2>4. PackedInv
      BY <2>1 DEF PackedInv
    <2>5. ReservedIsAllocated
      <3>1. ReservedAllocations = {}
        BY <2>1 DEF ReservedAllocations
      <3>2. ASSUME NEW p \in Products
            PROVE  inventory[p].reserved =
                     Total([a \in AllocationIds |-> Quantity(a)], {a \in ReservedAllocations : a[2] = p})
        <4>1. {a \in ReservedAllocations : a[2] = p} = {}
          BY <3>1
        <4> QED
          BY <2>1, <4>1, TotalEmpty
      <3> QED
        BY <3>2 DEF ReservedIsAllocated
    <2> QED
      BY <2>2, <2>3, <2>4, <2>5 DEF Chronicle
  <1>2. IInv /\ Chronicle /\ [Next]_vars => Chronicle'
    <2> SUFFICES ASSUME IInv, Chronicle, [Next]_vars PROVE Chronicle'
      OBVIOUS
    <2>1. CASE UNCHANGED vars
      <3> USE <2>1 DEF vars, warehouseVars, inboundVars, outboundVars, Chronicle
      <3>1. OutboundWork'
        BY DEF OutboundWork, TasksOf, Ordered
      <3>2. ChronologyInv'
        BY DEF ChronologyInv
      <3>3. PackedInv'
        BY DEF PackedInv, Unordered
      <3>4. ReservedIsAllocated'
        BY DEF ReservedIsAllocated, ReservedAllocations, Quantity
      <3> QED
        BY <3>1, <3>2, <3>3, <3>4
    <2>2. ASSUME NEW r \in Runs, Step(r)
          PROVE  Chronicle'
      BY <2>2, OutboundWorkStep, ChronologyStep, PackedInvStep, ReservedStep DEF Chronicle
    <2> QED
      BY <2>1, <2>2, Steps
  <1> QED
    BY <1>1, <1>2, Invariance, PTL DEF Spec

\* When no client sends a timestamp, reserved_quantity is at any time what the
\* RESERVED allocations of the product add up to.
THEOREM ReservationsMatch == Stamps = {} /\ Spec => []ReservedIsAllocated
  <1>1. Chronicle => ReservedIsAllocated
    BY DEF Chronicle
  <1> QED
    BY <1>1, ChronicleHolds, PTL

\* When no client sends a timestamp, an allocation's units leave the stock exactly
\* once, and a packed order holds the quantities ordered.
THEOREM PickedExactlyOnce == Stamps = {} /\ Spec => []PickedOnce
  <1>1. IInv /\ Chronicle => PickedOnce
    <2> SUFFICES ASSUME IInv, Chronicle PROVE PickedOnce
      OBVIOUS
    <2>1. ASSUME NEW a \in AllocationIds
          PROVE  Cardinality({t \in Completed : AllocationOf(t) = a}) =
                   (IF allocations[a].status = "PICKED" THEN 1 ELSE 0)
      <3>1. PICK S : S = {t \in Completed : AllocationOf(t) = a}
        OBVIOUS
      <3>2. PICK own : own = <<a[1], a>>
        OBVIOUS
      <3>3. S = IF allocations[a].status = "PICKED" THEN {own} ELSE {}
        BY <3>1, <3>2, CompletedTasks DEF Chronicle
      <3>4. Cardinality({own}) = 1 /\ Cardinality({}) = 0
        BY FS_Singleton, FS_EmptySet
      <3> QED
        BY <3>1, <3>3, <3>4
    <2>2. \A o \in Runs : orders[o].packing = "COMPLETED" => orders[o].package = orders[o].items
      BY DEF Chronicle, PackedInv
    <2> QED
      BY <2>1, <2>2 DEF PickedOnce
  <1> QED
    BY <1>1, ChronicleHolds, Invariance, PTL

-----------------------------------------------------------------------------
(* What backs the utilization of a location.                                *)

\* Product p has arrived with run r, which has yet to put it away.
ToPutAway(r, p) ==
  \/ Running(r, "StockIncreased") /\ p \in Received(r)
  \/ Running(r, "InventoryPutaway") /\ p \in todo

Pending(p) == Total([r \in Runs |-> receipts[r].lines[p]], {r \in Runs : ToPutAway(r, p)})

\* The units of a row that are neither promised nor on their way.
Placed(p) == Available(p) - Pending(p)

PlacedUnits == [p \in Products |-> Placed(p)]

RowsAt(l) == {p \in Products : inventory[p].location = l}

PromisedUnits == [a \in AllocationIds |-> Quantity(a)]

PromisedAt(l) == {a \in ReservedAllocations : allocations[a].location = l}

\* The units a location may count: those placed there and those promised from there.
Backing(l) == Total(PlacedUnits, RowsAt(l)) + Total(PromisedUnits, PromisedAt(l))

\* No location counts more than that; what is promised next is promised from where
\* it lies.
BackingInv ==
  /\ \A p \in Products : Pending(p) <= Available(p)
  /\ \A r \in Runs : Running(r, "InventoryReserved") =>
       \A p \in Ordered(r) : allocations[<<r, p>>].location = inventory[p].location
  /\ \A l \in Locations : utilization[l] <= Backing(l)

\* What a run's purchase order lists of a product is a number.
LEMMA Lines ==
  ASSUME IInv, NEW r \in Runs, NEW p \in Products
  PROVE  receipts[r].lines[p] \in Nat
  <1>1. receipts[r] \in Receipts
    BY DEF IInv, TypeOK
  <1> QED
    BY <1>1, ReceiptFields, QuantityAssumption

\* What is pending before and after a step of run r.
LEMMA PendingIs ==
  ASSUME IInv, NEW r \in Runs, Step(r), NEW p \in Products
  PROVE  /\ Pending(p) = IF ToPutAway(r, p) THEN receipts[r].lines[p] ELSE 0
         /\ Pending(p)' = IF ToPutAway(r, p)' THEN receipts'[r].lines[p] ELSE 0
         /\ receipts[r].lines[p] \in Nat /\ receipts'[r].lines[p] \in Nat
  <1>1. /\ \A q \in Runs : q # r => run'[q] = run[q] /\ run[q].status # "RUNNING"
        /\ receipts'[r] \in Receipts
    BY RunStep, StepInvariant DEF IInv, TypeOK
  <1>2. receipts[r].lines[p] \in Nat /\ receipts'[r].lines[p] \in Nat
    BY <1>1, Lines, ReceiptFields, QuantityAssumption
  <1>3. PICK n, m, S, T : /\ n = [q \in Runs |-> receipts[q].lines[p]]
                          /\ m = [q \in Runs |-> receipts'[q].lines[p]]
                          /\ S = {q \in Runs : ToPutAway(q, p)}
                          /\ T = {q \in Runs : ToPutAway(q, p)'}
    OBVIOUS
  <1>4. /\ S \subseteq {r} /\ T \subseteq {r}
        /\ r \in S <=> ToPutAway(r, p)
        /\ r \in T <=> ToPutAway(r, p)'
    BY <1>1, <1>3 DEF ToPutAway, Running
  <1>5. n[r] = receipts[r].lines[p] /\ m[r] = receipts'[r].lines[p]
    BY <1>3
  <1>6. Pending(p) = Total(n, S) /\ Pending(p)' = Total(m, T)
    BY <1>3 DEF Pending
  <1>7. /\ Total(n, S) = IF r \in S THEN n[r] ELSE 0
        /\ Total(m, T) = IF r \in T THEN m[r] ELSE 0
    BY <1>2, <1>4, <1>5, TotalOne
  <1> QED
    BY <1>2, <1>4, <1>5, <1>6, <1>7

\* Goods that are received are pending until they are put away or their run stops.
LEMMA PendingStep ==
  ASSUME IInv, NEW r \in Runs, Step(r), NEW p \in Products
  PROVE  /\ Pending(p) \in Nat /\ Pending(p)' \in Nat
         /\ GoodsReceived(r) /\ p \in Received(r) =>
              Pending(p) = 0 /\ Pending(p)' = receipts[r].lines[p]
         /\ ~(GoodsReceived(r) /\ p \in Received(r)) => Pending(p)' <= Pending(p)
         /\ OutboundNext(r) => Pending(p) = 0 /\ Pending(p)' = 0
         /\ InventoryPutaway(r) /\ p \in todo => Pending(p) = receipts[r].lines[p]
         /\ InventoryPutaway(r) /\ todo' = Rest(p) => Pending(p)' = 0
  <1> DEFINE before == ToPutAway(r, p)
             after == ToPutAway(r, p)'
             n == receipts[r].lines[p]
             m == receipts'[r].lines[p]
  <1>1. /\ Pending(p) = IF before THEN n ELSE 0
        /\ Pending(p)' = IF after THEN m ELSE 0
        /\ n \in Nat /\ m \in Nat
    BY PendingIs
  <1>2. ASSUME after
        PROVE  /\ m = n
               /\ before \/ (GoodsReceived(r) /\ p \in Received(r))
               /\ InboundNext(r) /\ (InventoryPutaway(r) => p \in todo')
    <2>1. run'[r].status = "RUNNING" /\ run'[r].step \in {"StockIncreased", "InventoryPutaway"}
      BY <1>2 DEF ToPutAway, Running
    <2>2. Received(r)' = Received(r) /\ todo' \subseteq Products \cup TaskIds /\ TodoInv'
      BY <2>1, TodoInvStep
    <2>3. p \in Received(r)
      BY <1>2, <2>1, <2>2 DEF ToPutAway, TodoInv
    <2>4. InboundNext(r) /\ run[r].status = "RUNNING"
      BY <2>1, RunStep DEF OutboundSteps
    <2>5. ReceiptEffect(r)
      BY <2>4, ReceiptsStep
    <2>6. \/ GoodsReceived(r) /\ receipts'[r].lines = receipts[r].lines
          \/ /\ run[r].step \in {"StockIncreased", "InventoryPutaway"}
             /\ receipts'[r].lines = receipts[r].lines
      BY <2>1, <2>5 DEF ReceiptEffect
    <2>7. ASSUME run[r].step = "InventoryPutaway"
          PROVE  /\ p \in todo /\ p \in todo'
      <3>1. InventoryPutaway(r)
        BY <2>4, <2>7 DEF InboundNext, PurchaseOrderCreated, PurchaseOrderApproved,
           SupplierShipmentCreated, ASNReceived, SupplierShipmentDelivered, ReceivingTaskCreated,
           ReceivingTaskStarted, GoodsReceived, StockIncreased, Running
      <3>2. ~Fail(r)
        BY <2>1, Failed
      <3>3. todo' \subseteq todo
        BY <3>1, <3>2 DEF InventoryPutaway, Rest
      <3>4. run'[r].step # "StockIncreased"
        <4>1. Advance(r, "Exit") \/ UNCHANGED run
          BY <3>1, <3>2 DEF InventoryPutaway
        <4> QED
          BY <2>7, <4>1, Advanced
      <3>5. p \in todo'
        BY <1>2, <3>4 DEF ToPutAway, Running
      <3> QED
        BY <3>3, <3>5
    <2>8. before \/ GoodsReceived(r)
      BY <2>3, <2>4, <2>6, <2>7 DEF ToPutAway, Running
    <2> QED
      BY <2>3, <2>4, <2>6, <2>7, <2>8, OneGenerator
  <1>3. ASSUME GoodsReceived(r), p \in Received(r)
        PROVE  ~before /\ after
    <2>1. /\ run[r].step = "GoodsReceived" /\ run[r].status = "RUNNING" /\ InboundNext(r)
      BY <1>3 DEF GoodsReceived, Running, InboundNext
    <2>2. run'[r].step = "StockIncreased" /\ receipts'[r].lines = receipts[r].lines
      BY <2>1, ReceiptsStep DEF ReceiptEffect
    <2>3. run'[r].status = "RUNNING"
      BY <1>3, <2>1, AdvanceRun DEF GoodsReceived, InboundSteps, IInv
    <2> QED
      BY <1>3, <2>1, <2>2, <2>3 DEF ToPutAway, Running, Received
  <1>4. ASSUME OutboundNext(r)
        PROVE  ~before /\ ~after
    <2>1. run[r].step \in OutboundSteps
      BY <1>4, GeneratorRun
    <2>2. ~before
      BY <2>1 DEF ToPutAway, Running, OutboundSteps
    <2>3. ~GoodsReceived(r)
      BY <2>1, OneGenerator DEF OutboundSteps
    <2> QED
      BY <1>2, <2>2, <2>3
  <1>5. ASSUME InventoryPutaway(r), p \in todo
        PROVE  before
    BY <1>5 DEF InventoryPutaway, ToPutAway
  <1>6. ASSUME InventoryPutaway(r), todo' = Rest(p)
        PROVE  ~after
    BY <1>2, <1>6 DEF Rest
  <1> HIDE DEF before, after, n, m
  <1>7. GoodsReceived(r) /\ p \in Received(r) => Pending(p) = 0 /\ Pending(p)' = n
    BY <1>1, <1>2, <1>3
  <1>8. ~(GoodsReceived(r) /\ p \in Received(r)) => Pending(p)' <= Pending(p)
    BY <1>1, <1>2
  <1> QED
    BY <1>1, <1>4, <1>5, <1>6, <1>7, <1>8 DEF n

\* How much of a row is available after a step of run r, and where it lies.
LEMMA AvailableStep ==
  ASSUME IInv, NEW r \in Runs, Step(r), NEW p \in Products
  PROVE  /\ Available(p) \in Nat /\ Available(p)' \in Nat
         /\ GoodsReceived(r) /\ p \in Received(r) =>
              Available(p)' = Available(p) + receipts[r].lines[p]
         /\ InventoryReserved(r) /\ p \in Ordered(r) =>
              \/ inventory'[p] = inventory[p]
              \/ Available(p)' = Available(p) - orders[r].items[p]
         /\ ~(InventoryReserved(r) /\ p \in Ordered(r)) => Available(p)' >= Available(p)
  <1>1. PICK old, new : old = inventory[p] /\ new = inventory'[p]
    OBVIOUS
  <1>2. /\ old \in InventoryRows /\ new \in InventoryRows
        /\ old.reserved <= old.onHand /\ new.reserved <= new.onHand
        /\ old.creator = 0 => old.reserved = 0 /\ old.onHand = 0
    BY <1>1, StepInvariant DEF IInv, TypeOK, StockInv, NoRow
  <1>3. /\ old.onHand \in Nat /\ old.reserved \in Nat
        /\ new.onHand \in Nat /\ new.reserved \in Nat
    BY <1>2, RowFields
  <1>4. Available(p) = old.onHand - old.reserved /\ Available(p)' = new.onHand - new.reserved
    BY <1>1 DEF Available
  <1>5. PICK n \in Nat, i \in Nat : n = receipts[r].lines[p] /\ i = orders[r].items[p]
    BY Lines, OrderFields, QuantityAssumption DEF IInv, TypeOK
  <1>6. \/ new = old
        \/ SeedInventory(r) /\ old.creator = 0
        \/ /\ GoodsReceived(r) /\ p \in Received(r)
           /\ new.onHand = old.onHand + n /\ new.reserved = old.reserved
        \/ /\ StockIncreased(r) \/ InventoryPutaway(r)
           /\ new.onHand = old.onHand /\ new.reserved = old.reserved
        \/ /\ InventoryReserved(r) /\ p \in Ordered(r)
           /\ new.onHand = old.onHand /\ new.reserved = old.reserved + i
        \/ /\ PickingCompleted(r)
           /\ \E q \in Nat : new.onHand = old.onHand - q /\ new.reserved = old.reserved - q
    <2>1. StockEffect(r, p)
      BY InventoryStep
    <2>2. CASE PickingCompleted(r)
      BY <1>1, <2>1, <2>2, TaskQuantity, OneGenerator DEF StockEffect
    <2> QED
      BY <1>1, <1>5, <2>1, <2>2 DEF StockEffect
  <1>7. GoodsReceived(r) /\ p \in Received(r) => new.onHand = old.onHand + n /\ new.reserved = old.reserved
    <2>1. GoodsReceived(r) /\ p \in Received(r) =>
            inventory'[p].onHand = inventory[p].onHand + receipts[r].lines[p]
              /\ inventory'[p].reserved = inventory[p].reserved
      BY Arrival DEF GoodsReceived
    <2> QED
      BY <1>1, <1>5, <2>1
  <1>8. /\ InventoryReserved(r) => run[r].step = "InventoryReserved"
        /\ GoodsReceived(r) => run[r].step = "GoodsReceived"
        /\ SeedInventory(r) => run[r].step = "SeedInventory"
        /\ StockIncreased(r) => run[r].step = "StockIncreased"
        /\ InventoryPutaway(r) => run[r].step = "InventoryPutaway"
        /\ PickingCompleted(r) => run[r].step = "PickingCompleted"
    BY OneGenerator
  <1>9. InventoryReserved(r) /\ p \in Ordered(r) =>
          new = old \/ (new.onHand = old.onHand /\ new.reserved = old.reserved + i)
    BY <1>6, <1>8
  <1>10. ~(InventoryReserved(r) /\ p \in Ordered(r)) =>
           new.onHand - new.reserved >= old.onHand - old.reserved
    BY <1>2, <1>3, <1>5, <1>6
  <1>11. Available(p) \in Nat /\ Available(p)' \in Nat
    BY <1>2, <1>3, <1>4
  <1>12. GoodsReceived(r) /\ p \in Received(r) => Available(p)' = Available(p) + n
    BY <1>3, <1>4, <1>5, <1>7
  <1>13. InventoryReserved(r) /\ p \in Ordered(r) => new = old \/ Available(p)' = Available(p) - i
    BY <1>3, <1>4, <1>5, <1>9
  <1> QED
    BY <1>1, <1>4, <1>5, <1>10, <1>11, <1>12, <1>13

\* A row that has a location keeps it, but for putting away.
LEMMA LocationStep ==
  ASSUME IInv, NEW r \in Runs, Step(r), NEW p \in Products, ~InventoryPutaway(r),
         inventory[p].location \in Locations
  PROVE  inventory'[p].location = inventory[p].location
  <1>1. inventory \in [Products -> InventoryRows] /\ inventory[p] \in InventoryRows
    BY DEF IInv, TypeOK
  <1>2. inventory[p].creator # 0
    BY LocationAssumption DEF IInv, StockInv, NoRow
  <1>3. CASE SeedInventory(r)
    BY <1>2, <1>3 DEF SeedInventory
  <1>4. CASE GoodsReceived(r)
    <2>1. inventory'[p] = Arrived(r)[p]
      BY <1>4 DEF GoodsReceived
    <2> QED
      BY <2>1, Arrival
  <1>5. CASE StockIncreased(r)
    <2>1. \/ inventory'[p] = inventory[p]
          \/ inventory'[p] = [inventory[p] EXCEPT !.status = "AVAILABLE"]
      BY <1>1, <1>5 DEF StockIncreased
    <2> QED
      BY <1>1, <2>1 DEF InventoryRows
  <1>6. CASE InventoryReserved(r)
    <2>1. PICK x : x = inventory[p].reserved + orders[r].items[p]
      OBVIOUS
    <2>2. \/ inventory'[p] = inventory[p]
          \/ inventory'[p] = [inventory[p] EXCEPT !.reserved = x, !.status = "AVAILABLE"]
      BY <1>1, <1>6, <2>1 DEF InventoryReserved, InventoryRows
    <2> QED
      BY <1>1, <2>2 DEF InventoryRows
  <1>7. CASE PickingCompleted(r)
    <2>2. CASE inventory' = inventory
      BY <2>2
    <2>3. CASE inventory' # inventory
      <3>0. PICK t \in TaskIds : LET a == AllocationOf(t) IN
              inventory' = [inventory EXCEPT ![a[2]].onHand = @ - Quantity(a),
                                             ![a[2]].reserved = @ - Quantity(a)]
        BY <1>7, <2>3, PickEffect
      <3>1. PICK k, q : inventory' = [inventory EXCEPT ![k].onHand = @ - q, ![k].reserved = @ - q]
        BY <3>0
      <3>2. \/ inventory'[p] = inventory[p]
            \/ inventory'[p] = [inventory[p] EXCEPT !.onHand = @ - q, !.reserved = @ - q]
        BY <1>1, <3>1
      <3> QED
        BY <1>1, <3>2 DEF InventoryRows
    <2> QED
      BY <2>2, <2>3
  <1> QED
    BY <1>3, <1>4, <1>5, <1>6, <1>7, Frames

\* The placed units of a row stay numbers; only reserving takes from them.
LEMMA PlacedStep ==
  ASSUME IInv, BackingInv, NEW r \in Runs, Step(r), NEW p \in Products
  PROVE  /\ Placed(p) \in Nat /\ Placed(p)' \in Nat /\ Pending(p)' <= Available(p)'
         /\ Placed(p)' >= Placed(p) \/ (InventoryReserved(r) /\ p \in Ordered(r))
         /\ InventoryReserved(r) /\ p \in Ordered(r) =>
              \/ inventory'[p] = inventory[p] /\ Placed(p)' = Placed(p)
              \/ Placed(p)' = Placed(p) - orders[r].items[p]
         /\ InventoryPutaway(r) /\ p \in todo => Placed(p) = Available(p) - receipts[r].lines[p]
         /\ InventoryPutaway(r) /\ todo' = Rest(p) => Placed(p)' = Available(p)'
  <1>1. PICK a, b, c, d : a = Available(p) /\ b = Available(p)' /\ c = Pending(p) /\ d = Pending(p)'
    OBVIOUS
  <1>2. Placed(p) = a - c /\ Placed(p)' = b - d
    BY <1>1 DEF Placed
  <1>3. c <= a /\ a \in Nat /\ b \in Nat /\ c \in Nat /\ d \in Nat
    BY <1>1, AvailableStep, PendingStep DEF BackingInv
  <1>4. PICK n \in Nat, i \in Nat : n = receipts[r].lines[p] /\ i = orders[r].items[p]
    BY Lines, OrderFields, QuantityAssumption DEF IInv, TypeOK
  <1>5. CASE GoodsReceived(r) /\ p \in Received(r)
    <2>1. b = a + n /\ c = 0 /\ d = n
      BY <1>1, <1>4, <1>5, AvailableStep, PendingStep
    <2>2. ~InventoryPutaway(r) /\ ~InventoryReserved(r)
      BY <1>5, OneGenerator
    <2> QED
      BY <1>1, <1>2, <1>3, <2>1, <2>2
  <1>6. CASE InventoryReserved(r) /\ p \in Ordered(r)
    <2>1. OutboundNext(r) /\ ~InventoryPutaway(r)
      BY <1>6, OneGenerator DEF OutboundNext
    <2>2. c = 0 /\ d = 0
      BY <1>1, <2>1, PendingStep
    <2>3. (inventory'[p] = inventory[p] /\ a = b) \/ b = a - i
      BY <1>1, <1>4, <1>6, AvailableStep DEF Available
    <2> QED
      BY <1>1, <1>2, <1>3, <1>4, <1>6, <2>1, <2>2, <2>3
  <1>7. CASE ~(GoodsReceived(r) /\ p \in Received(r)) /\ ~(InventoryReserved(r) /\ p \in Ordered(r))
    <2>1. b >= a /\ d <= c
      BY <1>1, <1>7, AvailableStep, PendingStep
    <2>2. /\ InventoryPutaway(r) /\ p \in todo => c = n
          /\ InventoryPutaway(r) /\ todo' = Rest(p) => d = 0
      BY <1>1, <1>4, PendingStep
    <2> QED
      BY <1>1, <1>2, <1>3, <1>4, <1>7, <2>1, <2>2
  <1> QED
    BY <1>5, <1>6, <1>7

\* There are finitely many allocations.
LEMMA FiniteAllocations == IsFiniteSet(AllocationIds)
  <1>1. IsFiniteSet(Runs)
    BY RunAssumption, FS_Interval DEF Runs
  <1> QED
    BY <1>1, FiniteAssumption, FS_Product DEF AllocationIds

\* The sums that back a location are sums of numbers over finite sets, and what is
\* promised keeps its quantity.
LEMMA Sums ==
  ASSUME IInv, BackingInv, NEW r \in Runs, Step(r), NEW l
  PROVE  /\ \A p \in Products : /\ PlacedUnits[p] = Placed(p) /\ PlacedUnits'[p] = Placed(p)'
                                /\ PlacedUnits[p] \in Nat /\ PlacedUnits'[p] \in Nat
         /\ \A a \in AllocationIds : /\ PromisedUnits[a] = Quantity(a)
                                     /\ PromisedUnits[a] \in Nat /\ PromisedUnits'[a] \in Nat
                                     /\ allocations[a].status # "NONE" => PromisedUnits'[a] = PromisedUnits[a]
         /\ RowsAt(l) \subseteq Products /\ RowsAt(l)' \subseteq Products
         /\ IsFiniteSet(RowsAt(l)) /\ IsFiniteSet(RowsAt(l)')
         /\ PromisedAt(l) \subseteq AllocationIds /\ PromisedAt(l)' \subseteq AllocationIds
         /\ IsFiniteSet(PromisedAt(l)) /\ IsFiniteSet(PromisedAt(l)')
         /\ \A a \in PromisedAt(l) : allocations[a].status # "NONE"
  <1>1. ASSUME NEW p \in Products
        PROVE  /\ PlacedUnits[p] = Placed(p) /\ PlacedUnits'[p] = Placed(p)'
               /\ PlacedUnits[p] \in Nat /\ PlacedUnits'[p] \in Nat
    <2>1. PlacedUnits[p] = Placed(p) /\ PlacedUnits'[p] = Placed(p)'
      BY DEF PlacedUnits
    <2> QED
      BY <2>1, PlacedStep
  <1>2. ASSUME NEW a \in AllocationIds
        PROVE  /\ PromisedUnits[a] = Quantity(a)
               /\ PromisedUnits[a] \in Nat /\ PromisedUnits'[a] \in Nat
               /\ allocations[a].status # "NONE" => PromisedUnits'[a] = PromisedUnits[a]
    <2>1. PromisedUnits[a] = Quantity(a) /\ PromisedUnits'[a] = Quantity(a)'
      BY DEF PromisedUnits, AllocationIds, Runs
    <2>2. PICK o \in Runs, p \in Products : a = <<o, p>>
      BY DEF AllocationIds
    <2>3. orders[o] \in Orders /\ orders'[o] \in Orders
      BY StepInvariant DEF IInv, TypeOK
    <2>4. orders[o].items[p] \in Nat /\ orders'[o].items[p] \in Nat
      BY <2>3, OrderFields, QuantityAssumption
    <2>5. Quantity(a) \in Nat /\ Quantity(a)' \in Nat
      BY <2>2, <2>4 DEF Quantity
    <2>6. allocations[a].status # "NONE" => Quantity(a)' = Quantity(a)
      BY QuantityKept
    <2> QED
      BY <2>1, <2>5, <2>6
  <1>3. RowsAt(l) \subseteq Products /\ RowsAt(l)' \subseteq Products
    BY DEF RowsAt
  <1>4. IsFiniteSet(RowsAt(l)) /\ IsFiniteSet(RowsAt(l)')
    <2>1. PICK R, T : R = RowsAt(l) /\ T = RowsAt(l)'
      OBVIOUS
    <2> QED
      BY <1>3, <2>1, FiniteAssumption, FS_Subset
  <1>5. PromisedAt(l) \subseteq AllocationIds /\ PromisedAt(l)' \subseteq AllocationIds
    BY DEF PromisedAt, ReservedAllocations, AllocationIds, Runs
  <1>6. IsFiniteSet(PromisedAt(l)) /\ IsFiniteSet(PromisedAt(l)')
    <2>1. PICK R, T : R = PromisedAt(l) /\ T = PromisedAt(l)'
      OBVIOUS
    <2> QED
      BY <1>5, <2>1, FiniteAllocations, FS_Subset
  <1>7. \A a \in PromisedAt(l) : allocations[a].status # "NONE"
    BY DEF PromisedAt, ReservedAllocations
  <1> QED
    BY <1>1, <1>2, <1>3, <1>4, <1>5, <1>6, <1>7

\* The two parts of the backing are numbers, before and after.
LEMMA BackingParts ==
  ASSUME IInv, BackingInv, NEW r \in Runs, Step(r), NEW l
  PROVE  /\ Total(PlacedUnits, RowsAt(l)) \in Nat /\ Total(PlacedUnits', RowsAt(l)') \in Nat
         /\ Total(PromisedUnits, PromisedAt(l)) \in Nat /\ Total(PromisedUnits', PromisedAt(l)') \in Nat
         /\ Backing(l) = Total(PlacedUnits, RowsAt(l)) + Total(PromisedUnits, PromisedAt(l))
         /\ Backing(l)' = Total(PlacedUnits', RowsAt(l)') + Total(PromisedUnits', PromisedAt(l)')
  <1>1. PICK n, m, j, k, R, S, P, Q :
          /\ n = PlacedUnits /\ m = PlacedUnits' /\ j = PromisedUnits /\ k = PromisedUnits'
          /\ R = RowsAt(l) /\ S = RowsAt(l)' /\ P = PromisedAt(l) /\ Q = PromisedAt(l)'
    OBVIOUS
  <1>2. /\ IsFiniteSet(R) /\ IsFiniteSet(S) /\ IsFiniteSet(P) /\ IsFiniteSet(Q)
        /\ \A p \in R : n[p] \in Nat
        /\ \A p \in S : m[p] \in Nat
        /\ \A a \in P : j[a] \in Nat
        /\ \A a \in Q : k[a] \in Nat
    BY <1>1, Sums
  <1>3. Total(n, R) \in Nat /\ Total(m, S) \in Nat /\ Total(j, P) \in Nat /\ Total(k, Q) \in Nat
    BY <1>2, TotalType
  <1>4. /\ Backing(l) = Total(PlacedUnits, RowsAt(l)) + Total(PromisedUnits, PromisedAt(l))
        /\ Backing(l)' = Total(PlacedUnits', RowsAt(l)') + Total(PromisedUnits', PromisedAt(l)')
    BY DEF Backing
  <1> QED
    BY <1>1, <1>3, <1>4

\* If nothing new is promised or picked there, the promises back what they did.
LEMMA PromisesStay ==
  ASSUME IInv, BackingInv, NEW r \in Runs, Step(r), NEW l, PromisedAt(l)' = PromisedAt(l)
  PROVE  Total(PromisedUnits', PromisedAt(l)') = Total(PromisedUnits, PromisedAt(l))
  <1>1. PICK j, k, P : j = PromisedUnits /\ k = PromisedUnits' /\ P = PromisedAt(l)
    OBVIOUS
  <1>2. \A a \in P : k[a] = j[a]
    BY <1>1, Sums
  <1>3. Total(k, P) = Total(j, P)
    BY <1>2, TotalSame
  <1> QED
    BY <1>1, <1>3

\* More units of more rows back at least as much.
LEMMA RowsGrow ==
  ASSUME IInv, BackingInv, NEW r \in Runs, Step(r), NEW l,
         \A p \in RowsAt(l) : inventory'[p].location = l /\ Placed(p)' >= Placed(p)
  PROVE  Total(PlacedUnits', RowsAt(l)') >= Total(PlacedUnits, RowsAt(l))
  <1>1. PICK n, m, R, S : n = PlacedUnits /\ m = PlacedUnits' /\ R = RowsAt(l) /\ S = RowsAt(l)'
    OBVIOUS
  <1>2. R \in SUBSET S
    BY <1>1 DEF RowsAt
  <1>3. /\ IsFiniteSet(S) /\ \A p \in S : m[p] \in Nat
        /\ \A p \in R : n[p] \in Nat /\ n[p] <= m[p]
    BY <1>1, Sums
  <1>4. Total(n, R) <= Total(m, S)
    BY <1>2, <1>3, TotalMonotonic
  <1>5. Total(n, R) \in Nat /\ Total(m, S) \in Nat
    BY <1>1, BackingParts
  <1> QED
    BY <1>1, <1>4, <1>5

\* Reserving turns units placed at a location into units promised from it.
LEMMA ReserveBacking ==
  ASSUME IInv, BackingInv, NEW r \in Runs, Step(r), InventoryReserved(r), NEW l \in Locations
  PROVE  Backing(l)' >= Backing(l)
  <1> DEFINE Enough == \A p \in Ordered(r) : orders[r].items[p] <= Available(p)
  <1>1. /\ run[r].status = "RUNNING" /\ run[r].step = "InventoryReserved"
        /\ OutboundNext(r) /\ ~InventoryPutaway(r)
    BY OneGenerator DEF InventoryReserved, Running, OutboundNext
  <1>2. PICK n, m, j, k, R, S, P, Q :
          /\ n = PlacedUnits /\ m = PlacedUnits' /\ j = PromisedUnits /\ k = PromisedUnits'
          /\ R = RowsAt(l) /\ S = RowsAt(l)' /\ P = PromisedAt(l) /\ Q = PromisedAt(l)'
    OBVIOUS
  <1>3. /\ Backing(l) = Total(n, R) + Total(j, P) /\ Total(n, R) \in Nat /\ Total(j, P) \in Nat
        /\ Backing(l)' = Total(m, S) + Total(k, Q) /\ Total(m, S) \in Nat /\ Total(k, Q) \in Nat
    BY <1>2, BackingParts
  <1>4. \A p \in R : inventory'[p].location = l
    <2>1. \A p \in R : p \in Products /\ inventory[p].location \in Locations /\ inventory[p].location = l
      BY <1>2 DEF RowsAt
    <2> QED
      BY <1>1, <2>1, LocationStep
  <1>5. CASE ~Enough
    <2>1. inventory' = inventory /\ allocations' = allocations
      BY <1>5 DEF InventoryReserved
    <2>2. PromisedAt(l)' = PromisedAt(l)
      BY <2>1 DEF PromisedAt, ReservedAllocations
    <2>3. ASSUME NEW p \in Products PROVE Placed(p)' = Placed(p)
      <3>1. Available(p)' = Available(p)
        BY <2>1 DEF Available
      <3>2. Pending(p)' = Pending(p)
        BY <1>1, PendingStep
      <3> QED
        BY <3>1, <3>2 DEF Placed
    <2>4. \A p \in RowsAt(l) : inventory'[p].location = l /\ Placed(p)' >= Placed(p)
      <3>1. \A p \in RowsAt(l) : p \in Products /\ Placed(p) \in Nat
        BY PlacedStep DEF RowsAt
      <3> QED
        BY <1>2, <1>4, <2>3, <3>1
    <2>5. Total(m, S) >= Total(n, R) /\ Total(k, Q) = Total(j, P)
      BY <1>2, <2>2, <2>4, RowsGrow, PromisesStay
    <2> QED
      BY <1>3, <2>5
  <1>6. CASE Enough
    <2>1. PICK i : i = orders[r].items
      OBVIOUS
    <2>2. /\ i \in [Products -> Nat] /\ \A p \in Products : i[p] \in Nat
          /\ \A p \in Products : p \in Ordered(r) <=> i[p] > 0
          /\ Ordered(r) \subseteq Products
      BY <2>1, OrderFields, QuantityAssumption DEF IInv, TypeOK, Ordered
    <2>3. /\ R \subseteq Products /\ IsFiniteSet(R) /\ S \subseteq Products /\ IsFiniteSet(S)
          /\ \A p \in Products : n[p] \in Nat /\ m[p] \in Nat
          /\ P \subseteq AllocationIds /\ IsFiniteSet(P) /\ Q \subseteq AllocationIds /\ IsFiniteSet(Q)
          /\ \A a \in AllocationIds : k[a] \in Nat
          /\ \A a \in P : allocations[a].status = "RESERVED" /\ k[a] = j[a]
      BY <1>2, Sums DEF PromisedAt, ReservedAllocations
    <2>4. allocations' = [a \in AllocationIds |->
               IF a[1] = r /\ a[2] \in Ordered(r)
               THEN [allocations[a] EXCEPT !.status = "RESERVED"]
               ELSE allocations[a]]
      BY <1>6 DEF InventoryReserved
    <2>5. R \subseteq S
      BY <1>2, <1>4, <2>3 DEF RowsAt
    \* What is placed.
    <2>6. Total(n, R) <= Total(m, S) + Total(i, R)
      <3>1. PICK h : h = [p \in Products |-> m[p] + i[p]]
        OBVIOUS
      <3>2. ASSUME NEW p \in R
            PROVE  n[p] \in Nat /\ n[p] <= h[p] /\ h[p] = m[p] + i[p] /\ h[p] \in Nat
        <4>1. p \in Products /\ n[p] = Placed(p) /\ m[p] = Placed(p)'
          BY <1>2, <2>3, Sums
        <4>2. m[p] >= n[p] \/ m[p] = n[p] - i[p] \/ m[p] = n[p]
          BY <2>1, <4>1, PlacedStep
        <4> QED
          BY <2>2, <2>3, <3>1, <4>1, <4>2
      <3>3. Total(n, R) <= Total(h, R)
        BY <2>3, <3>2, TotalMonotonic
      <3>4. \A p \in R : m[p] \in Nat /\ i[p] \in Nat /\ h[p] = m[p] + i[p]
        BY <2>2, <2>3, <3>2
      <3>5. Total(h, R) = Total(m, R) + Total(i, R)
        BY <2>3, <3>4, TotalAdd
      <3>6. Total(m, R) <= Total(m, S)
        <4>1. R \in SUBSET S /\ (\A p \in R : m[p] \in Nat /\ m[p] <= m[p]) /\ \A p \in S : m[p] \in Nat
          BY <2>3, <2>5
        <4> QED
          BY <2>3, <4>1, TotalMonotonic
      <3>7. Total(m, R) \in Nat /\ Total(i, R) \in Nat
        BY <2>3, <3>4, TotalType
      <3> QED
        BY <1>3, <3>3, <3>5, <3>6, <3>7
    \* What is promised.
    <2>7. Total(j, P) + Total(i, R) <= Total(k, Q)
      <3>1. PICK D, N : D = {p \in R : i[p] > 0} /\ N = {<<r, p>> : p \in D}
        OBVIOUS
      <3>2. PICK f : f = [p \in D |-> <<r, p>>]
        OBVIOUS
      <3>3. D \subseteq R /\ IsFiniteSet(D)
        BY <2>3, <3>1, FS_Subset
      <3>4. ASSUME NEW p \in D
            PROVE  /\ <<r, p>> \in AllocationIds /\ <<r, p>> \in Q /\ <<r, p>> \notin P
                   /\ k[<<r, p>>] = i[p]
        <4>1. p \in Products /\ p \in Ordered(r) /\ i[p] \in Nat
          BY <2>2, <2>3, <3>1
        <4>2. PICK a \in AllocationIds : a = <<r, p>> /\ a[1] = r /\ a[2] = p
          <5>1. <<r, p>> \in AllocationIds
            BY <4>1 DEF AllocationIds
          <5> QED
            BY <5>1
        <4>3. allocations[a].status = "ALLOCATED"
          <5>1. run[r].flow = "outbound"
            BY <1>1, RunFields DEF IInv, RunInv, Flows, FirstStep, InboundSteps
          <5>2. ~Unallocated(r) /\ Unreserved(r)
            BY <1>1, <5>1 DEF Unreserved, Unallocated, Unordered
          <5> QED
            BY <2>1, <2>2, <4>1, <4>2, <5>2 DEF IInv, AllocationInv
        <4>4. allocations[a].location = l
          BY <1>1, <1>2, <3>1, <4>1, <4>2 DEF BackingInv, Running, RowsAt
        <4>5. allocations'[a].status = "RESERVED" /\ allocations'[a].location = l
          <5>1. allocations[a] \in Allocations
            BY DEF IInv, TypeOK
          <5>2. allocations'[a] = [allocations[a] EXCEPT !.status = "RESERVED"]
            BY <2>4, <4>1, <4>2
          <5> QED
            BY <4>4, <5>1, <5>2 DEF Allocations
        <4>6. a \in Q /\ a \notin P
          BY <1>2, <4>2, <4>3, <4>5 DEF PromisedAt, ReservedAllocations
        <4>7. k[a] = i[p]
          <5>1. k[a] = j[a] /\ j[a] = Quantity(a)
            BY <1>2, <4>3, Sums
          <5> QED
            BY <2>1, <4>2, <5>1 DEF Quantity
        <4> QED
          BY <4>2, <4>6, <4>7
      <3>5. P \subseteq Q
        <4>1. ASSUME NEW a \in P PROVE a \in Q
          <5>1. a \in AllocationIds /\ allocations[a].status = "RESERVED" /\ allocations[a].location = l
            BY <1>2, <2>3, <4>1 DEF PromisedAt
          <5>2. allocations[a] \in Allocations
            BY <5>1 DEF IInv, TypeOK
          <5>3. \/ allocations'[a] = allocations[a]
                \/ allocations'[a] = [allocations[a] EXCEPT !.status = "RESERVED"]
            BY <2>4, <5>1
          <5>4. allocations'[a].status = "RESERVED" /\ allocations'[a].location = l
            BY <5>1, <5>2, <5>3 DEF Allocations
          <5> QED
            BY <1>2, <5>1, <5>4 DEF PromisedAt, ReservedAllocations
        <4> QED
          BY <4>1
      <3>6. f \in Bijection(D, N)
        <4>1. f \in [D -> N] /\ (\A p, q \in D : f[p] = f[q] => p = q) /\ \A a \in N : \E p \in D : f[p] = a
          BY <3>1, <3>2
        <4> QED
          BY <4>1, Fun_IsBij
      <3>7. Total(k, N) = Total(i, D) /\ IsFiniteSet(N)
        <4>1. \A p \in D : i[p] \in Nat /\ k[f[p]] = i[p]
          BY <2>2, <2>3, <3>1, <3>2, <3>4
        <4>2. ExistsBijection(D, N)
          BY <3>6 DEF ExistsBijection
        <4> QED
          BY <3>3, <3>6, <4>1, <4>2, TotalImage, FS_Bijection
      <3>8. Total(i, R) = Total(i, D)
        <4>1. PICK E : E = R \ D
          OBVIOUS
        <4>2. IsFiniteSet(E)
          BY <2>3, <4>1, FS_Difference
        <4>3. R = D \cup E /\ D \cap E = {}
          BY <3>3, <4>1
        <4>4. \A p \in R : i[p] \in Nat
          BY <2>2, <2>3
        <4>5. \A p \in E : i[p] = 0
          BY <3>1, <4>1, <4>4
        <4>6. Total(i, D \cup E) = Total(i, D) + Total(i, E)
          BY <3>3, <4>2, <4>3, <4>4, TotalUnion
        <4>7. Total(i, E) = 0
          BY <4>5, TotalZero
        <4>8. Total(i, D) \in Nat
          BY <3>3, <4>4, TotalType
        <4>9. Total(i, D \cup E) = Total(i, D)
          BY <4>6, <4>7, <4>8
        <4> QED
          BY <4>3, <4>9
      <3>9. Total(k, P \cup N) = Total(k, P) + Total(k, N)
        <4>1. P \cap N = {} /\ \A a \in P \cup N : k[a] \in Nat
          BY <2>3, <3>1, <3>4
        <4> QED
          BY <2>3, <3>7, <4>1, TotalUnion
      <3>10. Total(k, P \cup N) <= Total(k, Q)
        <4>1. PICK U : U = P \cup N
          OBVIOUS
        <4>2. U \in SUBSET Q /\ (\A a \in U : k[a] \in Nat /\ k[a] <= k[a]) /\ \A a \in Q : k[a] \in Nat
          BY <2>3, <3>1, <3>4, <3>5, <4>1
        <4>3. Total(k, U) <= Total(k, Q)
          BY <2>3, <4>2, TotalMonotonic
        <4> QED
          BY <4>1, <4>3
      <3>11. Total(k, P) = Total(j, P)
        BY <2>3, TotalSame
      <3> QED
        BY <3>7, <3>8, <3>9, <3>10, <3>11
    <2>8. Total(i, R) \in Nat
      BY <2>2, <2>3, TotalType
    <2> HIDE DEF Enough
    <2> QED
      BY <1>3, <2>6, <2>7, <2>8
  <1> QED
    BY <1>5, <1>6

\* Picking takes from what is promised at a location no more than the units picked there.
LEMMA PickBacking ==
  ASSUME IInv, ChronologyInv, BackingInv, NEW r \in Runs, Step(r), PickingCompleted(r),
         NEW l \in Locations, utilization[l] <= Backing(l)
  PROVE  utilization'[l] <= Backing(l)'
  <1>1. run[r].step = "PickingCompleted" /\ ~InventoryPutaway(r) /\ ~InventoryReserved(r)
    BY OneGenerator
  <1>2. PICK n, m, j, k, R, S, P, Q :
          /\ n = PlacedUnits /\ m = PlacedUnits' /\ j = PromisedUnits /\ k = PromisedUnits'
          /\ R = RowsAt(l) /\ S = RowsAt(l)' /\ P = PromisedAt(l) /\ Q = PromisedAt(l)'
    OBVIOUS
  <1>3. /\ Backing(l) = Total(n, R) + Total(j, P) /\ Total(n, R) \in Nat /\ Total(j, P) \in Nat
        /\ Backing(l)' = Total(m, S) + Total(k, Q) /\ Total(m, S) \in Nat /\ Total(k, Q) \in Nat
    BY <1>2, BackingParts
  <1>4. Total(m, S) >= Total(n, R)
    <2>1. \A p \in RowsAt(l) : p \in Products /\ inventory[p].location \in Locations
                                 /\ inventory[p].location = l
      BY DEF RowsAt
    <2>2. \A p \in RowsAt(l) : inventory'[p].location = l /\ Placed(p)' >= Placed(p)
      BY <1>1, <2>1, LocationStep, PlacedStep
    <2> QED
      BY <1>2, <2>2, RowsGrow
  <1>5. utilization \in [Locations -> Nat] /\ utilization[l] \in Nat
    BY DEF IInv, TypeOK
  <1>6. CASE UNCHANGED <<inventory, utilization, allocations, picking>>
    <2>1. PromisedAt(l)' = PromisedAt(l)
      BY <1>6 DEF PromisedAt, ReservedAllocations
    <2>2. Total(k, Q) = Total(j, P)
      BY <1>2, <2>1, PromisesStay
    <2> QED
      BY <1>3, <1>4, <1>5, <1>6, <2>2
  <1>7. CASE ~ UNCHANGED <<inventory, utilization, allocations, picking>>
    <2>1. PICK t \in TaskIds : LET a == AllocationOf(t) IN
            /\ picking[t].status = "STARTED"
            /\ utilization' = [utilization EXCEPT ![allocations[a].location] =
                                 AtLeastZero(@ - Quantity(a))]
            /\ allocations' = [allocations EXCEPT ![a].status = "PICKED"]
      BY <1>7, PickEffect
    <2>2. PICK a \in AllocationIds : a = AllocationOf(t)
      BY QuantityType DEF IInv
    <2>3. PICK at \in Locations, q \in Nat : at = allocations[a].location /\ q = Quantity(a)
      BY <2>1, <2>2, TaskQuantity
    <2>4. allocations[a].status = "RESERVED"
      BY <2>1, <2>2 DEF ChronologyInv, AllocationOf
    <2>5. /\ allocations'[a].status = "PICKED"
          /\ \A b \in AllocationIds : b # a => allocations'[b] = allocations[b]
      <3>1. allocations \in [AllocationIds -> Allocations] /\ allocations[a] \in Allocations
        BY DEF IInv, TypeOK
      <3>2. allocations' = [allocations EXCEPT ![a].status = "PICKED"]
        BY <2>1, <2>2
      <3> QED
        BY <3>1, <3>2 DEF Allocations
    <2>6. Q = P \ {a} /\ (a \in P <=> at = l)
      BY <1>2, <2>3, <2>4, <2>5 DEF PromisedAt, ReservedAllocations
    <2>7. /\ IsFiniteSet(P) /\ \A b \in P : j[b] \in Nat /\ k[b] = j[b]
          /\ j[a] = q
      BY <1>2, <2>3, Sums
    <2>8. Total(k, Q) = Total(j, Q)
      BY <2>6, <2>7, TotalSame
    <2>9. Total(j, P) = Total(j, P \ {a}) + (IF a \in P THEN j[a] ELSE 0)
      BY <2>7, TotalApart
    <2>10. Total(j, P) = Total(k, Q) + (IF at = l THEN q ELSE 0)
      BY <2>6, <2>7, <2>8, <2>9
    <2>11. PICK v : v = AtLeastZero(utilization[at] - q)
      OBVIOUS
    <2>12. utilization' = [utilization EXCEPT ![at] = v]
      BY <2>1, <2>2, <2>3, <2>11
    <2>13. CASE at = l
      <3>1. utilization'[l] = v /\ Total(j, P) = Total(k, Q) + q
        BY <1>5, <2>10, <2>12, <2>13
      <3>2. v = 0 \/ v = utilization[l] - q
        BY <2>11, <2>13 DEF AtLeastZero
      <3> QED
        BY <1>3, <1>4, <1>5, <3>1, <3>2
    <2>14. CASE at # l
      <3>1. utilization'[l] = utilization[l] /\ Total(j, P) = Total(k, Q) + 0
        BY <1>5, <2>10, <2>12, <2>14
      <3> QED
        BY <1>3, <1>4, <1>5, <3>1
    <2> QED
      BY <2>13, <2>14
  <1> QED
    BY <1>6, <1>7

\* Putting a product away moves its units with it.
LEMMA PutawayBacking ==
  ASSUME IInv, BackingInv, NEW r \in Runs, Step(r), InventoryPutaway(r),
         NEW l \in Locations, utilization[l] <= Backing(l)
  PROVE  utilization'[l] <= Backing(l)'
  <1>1. /\ run[r].step = "InventoryPutaway" /\ ~InventoryReserved(r)
        /\ allocations' = allocations /\ todo \subseteq Received(r)
    <2>1. todo \subseteq Received(r)
      BY DEF InventoryPutaway, Running, IInv, TodoInv
    <2>2. run[r].step = "InventoryPutaway" /\ ~InventoryReserved(r) /\ ~PickingCompleted(r)
      BY OneGenerator
    <2>3. ~InventoryAllocationCreated(r)
      BY <2>2 DEF InventoryAllocationCreated, Running
    <2>4. allocations' = allocations
      BY <2>2, <2>3, Frames
    <2> QED
      BY <2>1, <2>2, <2>4
  <1>2. PICK n, m, j, k, R, S, P, Q :
          /\ n = PlacedUnits /\ m = PlacedUnits' /\ j = PromisedUnits /\ k = PromisedUnits'
          /\ R = RowsAt(l) /\ S = RowsAt(l)' /\ P = PromisedAt(l) /\ Q = PromisedAt(l)'
    OBVIOUS
  <1>3. /\ Backing(l) = Total(n, R) + Total(j, P) /\ Total(n, R) \in Nat /\ Total(j, P) \in Nat
        /\ Backing(l)' = Total(m, S) + Total(k, Q) /\ Total(m, S) \in Nat /\ Total(k, Q) \in Nat
    BY <1>2, BackingParts
  <1>4. Total(k, Q) = Total(j, P)
    <2>1. PromisedAt(l)' = PromisedAt(l)
      BY <1>1 DEF PromisedAt, ReservedAllocations
    <2> QED
      BY <1>2, <2>1, PromisesStay
  <1>5. utilization \in [Locations -> Nat] /\ utilization[l] \in Nat
    BY DEF IInv, TypeOK
  <1>6. \A p \in Products : Placed(p)' >= Placed(p)
    BY <1>1, PlacedStep
  <1>7. CASE UNCHANGED <<inventory, utilization>>
    <2>1. \A p \in RowsAt(l) : inventory'[p].location = l /\ Placed(p)' >= Placed(p)
      BY <1>6, <1>7 DEF RowsAt
    <2>2. Total(m, S) >= Total(n, R)
      BY <1>2, <2>1, RowsGrow
    <2> QED
      BY <1>3, <1>4, <1>5, <1>7, <2>2
  <1>8. CASE ~ UNCHANGED <<inventory, utilization>>
    <2>1. PICK p \in todo : \E put \in Putaways(p, receipts[r].lines[p]) :
            /\ inventory' = [inventory EXCEPT ![p].location = put.location]
            /\ utilization' = put.utilization
            /\ todo' = Rest(p)
      BY <1>8 DEF InventoryPutaway
    <2>2. PICK put \in Putaways(p, receipts[r].lines[p]) :
            /\ inventory' = [inventory EXCEPT ![p].location = put.location]
            /\ utilization' = put.utilization
      BY <2>1
    <2>3. p \in Products
      BY <1>1 DEF Received
    <2>4. PICK arrived \in Nat, total \in Nat, to \in Locations :
            arrived = receipts[r].lines[p] /\ total = Available(p) /\ to = put.location
      BY <2>3, Lines, AvailableStep, PutawayStores
    <2>5. PICK at : at = inventory[p].location
      OBVIOUS
    <2>6. /\ inventory'[p].location = to
          /\ \A q \in Products : q # p => inventory'[q] = inventory[q]
      <3>1. inventory \in [Products -> InventoryRows] /\ inventory[p] \in InventoryRows
        BY <2>3 DEF IInv, TypeOK
      <3>2. /\ inventory'[p] = [inventory[p] EXCEPT !.location = to]
            /\ \A q \in Products : q # p => inventory'[q] = inventory[q]
        BY <2>2, <2>3, <2>4, <3>1
      <3> QED
        BY <3>1, <3>2 DEF InventoryRows
    <2>7. n[p] = total - arrived /\ m[p] = total /\ n[p] \in Nat
      <3>1. Placed(p) = Available(p) - receipts[r].lines[p] /\ Placed(p)' = Available(p)'
        BY <2>1, <2>3, PlacedStep
      <3>2. Available(p)' = Available(p)
        <4>1. inventory'[p].onHand = inventory[p].onHand /\ inventory'[p].reserved = inventory[p].reserved
          <5>1. inventory \in [Products -> InventoryRows] /\ inventory[p] \in InventoryRows
            BY <2>3 DEF IInv, TypeOK
          <5>2. inventory'[p] = [inventory[p] EXCEPT !.location = to]
            BY <2>2, <2>3, <2>4, <5>1
          <5> QED
            BY <5>1, <5>2 DEF InventoryRows
        <4> QED
          BY <4>1 DEF Available
      <3> QED
        BY <1>2, <2>3, <2>4, <3>1, <3>2, Sums
    <2>8. /\ IsFiniteSet(R) /\ IsFiniteSet(S) /\ R \subseteq Products /\ S \subseteq Products
          /\ \A q \in Products : n[q] \in Nat /\ m[q] \in Nat /\ n[q] <= m[q]
          /\ p \in R <=> at = l
          /\ p \in S <=> to = l
          /\ R \ {p} = S \ {p}
      <3>1. /\ IsFiniteSet(R) /\ IsFiniteSet(S) /\ R \subseteq Products /\ S \subseteq Products
            /\ \A q \in Products : n[q] \in Nat /\ m[q] \in Nat /\ n[q] = Placed(q) /\ m[q] = Placed(q)'
        BY <1>2, Sums
      <3>2. \A q \in Products : n[q] <= m[q]
        BY <1>6, <3>1
      <3>3. (p \in R <=> at = l) /\ (p \in S <=> to = l) /\ R \ {p} = S \ {p}
        BY <1>2, <2>3, <2>5, <2>6 DEF RowsAt
      <3> QED
        BY <3>1, <3>2, <3>3
    <2>9. PICK rest \in Nat, more \in Nat :
            /\ rest <= more
            /\ Total(n, R) = rest + (IF at = l THEN total - arrived ELSE 0)
            /\ Total(m, S) = more + (IF to = l THEN total ELSE 0)
      <3>1. PICK O : O = R \ {p}
        OBVIOUS
      <3>2. IsFiniteSet(O) /\ O \subseteq Products /\ O = S \ {p}
        BY <2>8, <3>1, FS_RemoveElement
      <3>3. O \in SUBSET O /\ (\A q \in O : n[q] \in Nat /\ n[q] <= m[q]) /\ \A q \in O : m[q] \in Nat
        BY <2>8, <3>2
      <3>4. Total(n, O) <= Total(m, O) /\ Total(n, O) \in Nat /\ Total(m, O) \in Nat
        BY <3>2, <3>3, TotalMonotonic, TotalType
      <3>5. \A q \in R : n[q] \in Nat
        BY <2>8
      <3>6. \A q \in S : m[q] \in Nat
        BY <2>8
      <3>7. Total(n, R) = Total(n, R \ {p}) + (IF p \in R THEN n[p] ELSE 0)
        BY <2>8, <3>5, TotalApart
      <3>8. Total(m, S) = Total(m, S \ {p}) + (IF p \in S THEN m[p] ELSE 0)
        BY <2>8, <3>6, TotalApart
      <3> QED
        BY <2>7, <2>8, <3>1, <3>2, <3>4, <3>7, <3>8
    <2>10. PICK left : left = AtLeastZero(utilization[at] - AtLeastZero(total - arrived))
      OBVIOUS
    <2>11. \/ at = to /\ utilization' = [utilization EXCEPT ![at] = @ + arrived]
           \/ /\ at # to
              /\ \/ at = NoLocation /\ utilization' = [utilization EXCEPT ![to] = @ + total]
                 \/ /\ at # NoLocation
                    /\ utilization' = [[utilization EXCEPT ![at] = left] EXCEPT ![to] = @ + total]
      <3>1. \/ /\ at # NoLocation
               /\ put = [location |-> at, utilization |-> [utilization EXCEPT ![at] = @ + arrived]]
            \/ \E x \in StorageFor(total, at) :
                 put = [location |-> x, utilization |->
                         [(IF at = NoLocation THEN utilization
                           ELSE [utilization EXCEPT ![at] = left]) EXCEPT ![x] = @ + total]]
        BY <2>4, <2>5, <2>10 DEF Putaways
      <3>2. CASE /\ at # NoLocation
                 /\ put = [location |-> at, utilization |-> [utilization EXCEPT ![at] = @ + arrived]]
        <4>1. to = at /\ put.utilization = [utilization EXCEPT ![at] = @ + arrived]
          BY <2>4, <3>2
        <4> QED
          BY <2>2, <4>1
      <3>3. ASSUME NEW x \in StorageFor(total, at),
                   put = [location |-> x, utilization |->
                           [(IF at = NoLocation THEN utilization
                             ELSE [utilization EXCEPT ![at] = left]) EXCEPT ![x] = @ + total]]
            PROVE  /\ at # to
                   /\ \/ at = NoLocation /\ utilization' = [utilization EXCEPT ![to] = @ + total]
                      \/ /\ at # NoLocation
                         /\ utilization' = [[utilization EXCEPT ![at] = left] EXCEPT ![to] = @ + total]
        <4>1. x # at
          BY DEF StorageFor
        <4>2. PICK base : base = IF at = NoLocation THEN utilization ELSE [utilization EXCEPT ![at] = left]
          OBVIOUS
        <4>3. put = [location |-> x, utilization |-> [base EXCEPT ![x] = @ + total]]
          BY <3>3, <4>2
        <4>4. to = x /\ utilization' = [base EXCEPT ![to] = @ + total]
          BY <2>2, <2>4, <4>3
        <4> QED
          BY <4>1, <4>2, <4>4
      <3> QED
        BY <3>1, <3>2, <3>3
    <2>12. at \in Locations \cup {NoLocation} /\ NoLocation \notin Locations
      BY <2>3, <2>5, RowFields, LocationAssumption DEF IInv, TypeOK
    <2>13. AtLeastZero(total - arrived) = total - arrived
      BY <2>7 DEF AtLeastZero
    <2>14. at \in Locations => left \in Nat /\ (left = 0 \/ left = utilization[at] - (total - arrived))
      BY <1>5, <2>7, <2>10, <2>13 DEF AtLeastZero
    <2>15. CASE l = to
      <3>1. CASE at = to
        <4>1. utilization'[l] = utilization[l] + arrived
          BY <1>5, <2>11, <2>15, <3>1
        <4> QED
          BY <1>3, <1>4, <1>5, <2>9, <2>15, <3>1, <4>1
      <3>2. CASE at # to
        <4>1. utilization'[l] = utilization[l] + total
          BY <1>5, <2>11, <2>12, <2>15, <3>2
        <4> QED
          BY <1>3, <1>4, <1>5, <2>9, <2>15, <3>2, <4>1
      <3> QED
        BY <3>1, <3>2
    <2>16. CASE l # to /\ l = at
      <3>1. utilization'[l] = left
        BY <1>5, <2>11, <2>12, <2>16
      <3>2. Total(n, R) = rest + (total - arrived) /\ Total(m, S) = more
        BY <2>9, <2>16
      <3> QED
        BY <1>3, <1>4, <1>5, <2>7, <2>9, <2>14, <2>16, <3>1, <3>2
    <2>17. CASE l # to /\ l # at
      <3>1. utilization'[l] = utilization[l]
        BY <1>5, <2>11, <2>17
      <3>2. Total(n, R) = rest /\ Total(m, S) = more
        BY <2>9, <2>17
      <3> QED
        BY <1>3, <1>4, <1>5, <2>9, <3>1, <3>2
    <2> QED
      BY <2>15, <2>16, <2>17
  <1> QED
    BY <1>7, <1>8

\* Only reserving and picking change what is promised from a location.
LEMMA PromisesKept ==
  ASSUME IInv, NEW r \in Runs, Step(r), ~InventoryReserved(r), ~PickingCompleted(r), NEW l
  PROVE  PromisedAt(l)' = PromisedAt(l)
  <1>1. ASSUME NEW a \in AllocationIds
        PROVE  allocations'[a].status = "RESERVED" /\ allocations'[a].location = l
                 <=> allocations[a].status = "RESERVED" /\ allocations[a].location = l
    <2>1. PICK o \in Runs, p \in Products : a = <<o, p>>
      BY DEF AllocationIds
    <2>2. AllocationEffect(r, o, p)
      BY AllocationsStep
    <2>3. run[o].step = "InventoryAllocationCreated" => allocations[a].status = "NONE"
      BY <2>1 DEF IInv, AllocationInv, Unallocated
    <2> QED
      BY <2>1, <2>2, <2>3 DEF AllocationEffect
  <1> QED
    BY <1>1 DEF PromisedAt, ReservedAllocations

\* What is about to be reserved lies where its allocation says.
LEMMA AllocatedWhereItLies ==
  ASSUME IInv, NEW r \in Runs, Step(r), NEW q \in Runs, Running(q, "InventoryReserved")',
         NEW p \in Products, p \in Ordered(q)'
  PROVE  allocations'[<<q, p>>].location = inventory'[p].location
  <1>1. q = r /\ run'[r].status = "RUNNING" /\ run'[r].step = "InventoryReserved"
    BY RunStep DEF Running
  <1>2. OutboundNext(r)
    BY <1>1, RunStep DEF InboundSteps
  <1>3. InventoryAllocationCreated(r) /\ ~Fail(r)
    <2>1. ~Fail(r)
      BY <1>1, Failed DEF IInv
    <2> QED
      BY <1>1, <1>2, <2>1, OutboundMoves DEF OutboundMove
  <1>4. /\ inventory' = inventory /\ orders' = orders
        /\ allocations' = [a \in AllocationIds |->
             IF a[1] = r /\ a[2] \in Ordered(r)
             THEN [status |-> "ALLOCATED", location |-> inventory[a[2]].location]
             ELSE allocations[a]]
    BY <1>3 DEF InventoryAllocationCreated
  <1>5. p \in Ordered(r)
    BY <1>1, <1>4 DEF Ordered
  <1>6. PICK a \in AllocationIds : a = <<r, p>> /\ a[1] = r /\ a[2] = p
    <2>1. <<r, p>> \in AllocationIds
      BY DEF AllocationIds
    <2> QED
      BY <2>1
  <1>7. allocations'[a] = [status |-> "ALLOCATED", location |-> inventory[p].location]
    BY <1>4, <1>5, <1>6
  <1> QED
    BY <1>1, <1>4, <1>6, <1>7

\* A step of a run leaves every location backed.
LEMMA BackingStep ==
  ASSUME IInv, ChronologyInv, BackingInv, NEW r \in Runs, Step(r)
  PROVE  BackingInv'
  <1>1. \A p \in Products : Pending(p)' <= Available(p)'
    BY PlacedStep
  <1>2. \A q \in Runs : Running(q, "InventoryReserved")' =>
          \A p \in Ordered(q)' : allocations'[<<q, p>>].location = inventory'[p].location
    BY AllocatedWhereItLies DEF Ordered
  <1>3. ASSUME NEW l \in Locations
        PROVE  utilization'[l] <= Backing(l)'
    <2>1. utilization[l] <= Backing(l)
      BY DEF BackingInv
    <2>2. CASE InventoryPutaway(r)
      BY <2>1, <2>2, PutawayBacking
    <2>3. CASE PickingCompleted(r)
      BY <2>1, <2>3, PickBacking
    <2>4. CASE ~InventoryPutaway(r) /\ ~PickingCompleted(r)
      <3>1. PICK u, b, c : u = utilization[l] /\ b = Backing(l) /\ c = Backing(l)'
        OBVIOUS
      <3>2. utilization' = utilization
        BY <2>4, Frames
      <3>3. u \in Nat /\ b \in Nat /\ c \in Nat /\ u <= b
        BY <2>1, <3>1, BackingParts DEF IInv, TypeOK
      <3>4. c >= b
        <4>1. CASE InventoryReserved(r)
          BY <3>1, <4>1, ReserveBacking
        <4>2. CASE ~InventoryReserved(r)
          <5>1. \A p \in RowsAt(l) : inventory'[p].location = l /\ Placed(p)' >= Placed(p)
            <6>1. \A p \in RowsAt(l) : p \in Products /\ inventory[p].location \in Locations
                                         /\ inventory[p].location = l
              BY DEF RowsAt
            <6> QED
              BY <2>4, <4>2, <6>1, LocationStep, PlacedStep
          <5>2. PICK n, m, j, k : /\ n = Total(PlacedUnits, RowsAt(l)) /\ m = Total(PlacedUnits', RowsAt(l)')
                                  /\ j = Total(PromisedUnits, PromisedAt(l))
                                  /\ k = Total(PromisedUnits', PromisedAt(l)')
            OBVIOUS
          <5>3. m >= n
            BY <5>1, <5>2, RowsGrow
          <5>4. PromisedAt(l)' = PromisedAt(l)
            BY <2>4, <4>2, PromisesKept
          <5>5. k = j
            BY <5>2, <5>4, PromisesStay
          <5>6. n \in Nat /\ m \in Nat /\ j \in Nat /\ k \in Nat /\ b = n + j /\ c = m + k
            BY <3>1, <5>2, BackingParts
          <5> QED
            BY <5>3, <5>5, <5>6
        <4> QED
          BY <4>1, <4>2
      <3> QED
        BY <3>1, <3>2, <3>3, <3>4
    <2> QED
      BY <2>2, <2>3, <2>4
  <1> QED
    BY <1>1, <1>2, <1>3 DEF BackingInv

\* Before anything has happened no location counts anything.
LEMMA BackingInitially == Init => BackingInv
  <1> SUFFICES ASSUME Init PROVE BackingInv
    OBVIOUS
  <1>1. IInv /\ \A r \in Runs : run[r].status = "WAITING"
    BY Initially DEF Init, WarehouseInit
  <1>2. /\ \A p \in Products : inventory[p] = NoRow
        /\ \A a \in AllocationIds : allocations[a].status = "NONE"
        /\ \A l \in Locations : utilization[l] = 0
    BY DEF Init, WarehouseInit, OutboundInit
  <1>3. ASSUME NEW p \in Products
        PROVE  Pending(p) = 0 /\ Available(p) = 0
    <2>1. {r \in Runs : ToPutAway(r, p)} = {}
      BY <1>1 DEF ToPutAway, Running
    <2>2. Available(p) = 0
      BY <1>2 DEF Available, NoRow
    <2> QED
      BY <2>1, <2>2, TotalEmpty DEF Pending
  <1>4. ASSUME NEW l \in Locations
        PROVE  utilization[l] <= Backing(l)
    <2>1. RowsAt(l) = {}
      BY <1>2, LocationAssumption DEF RowsAt, NoRow
    <2>2. PromisedAt(l) = {}
      BY <1>2 DEF PromisedAt, ReservedAllocations
    <2>3. Backing(l) = 0 + 0
      BY <2>1, <2>2, TotalEmpty DEF Backing
    <2> QED
      BY <1>2, <2>3
  <1> QED
    BY <1>1, <1>3, <1>4 DEF BackingInv, Running

\* When no client sends a timestamp, every location is backed at any time.
LEMMA BackingHolds == Stamps = {} /\ Spec => []BackingInv
  <1>1. IInv /\ Chronicle /\ BackingInv /\ [Next]_vars => BackingInv'
    <2> SUFFICES ASSUME IInv, Chronicle, BackingInv, [Next]_vars PROVE BackingInv'
      OBVIOUS
    <2>1. CASE UNCHANGED vars
      <3> USE <2>1 DEF vars, warehouseVars, inboundVars, outboundVars
      <3>1. \A p \in Products : Pending(p)' = Pending(p) /\ Available(p)' = Available(p)
        BY DEF Pending, Available, ToPutAway, Running, Received
      <3>2. \A l \in Locations : Backing(l)' = Backing(l)
        <4>1. PlacedUnits' = PlacedUnits
          BY <3>1 DEF PlacedUnits, Placed
        <4>2. PromisedUnits' = PromisedUnits
          BY DEF PromisedUnits, Quantity
        <4>3. \A l \in Locations : RowsAt(l)' = RowsAt(l) /\ PromisedAt(l)' = PromisedAt(l)
          BY DEF RowsAt, PromisedAt, ReservedAllocations
        <4> QED
          BY <4>1, <4>2, <4>3 DEF Backing
      <3>3. \A r \in Runs : /\ Running(r, "InventoryReserved")' = Running(r, "InventoryReserved")
                            /\ Ordered(r)' = Ordered(r)
        BY DEF Running, Ordered
      <3> QED
        BY <3>1, <3>2, <3>3 DEF BackingInv
    <2>2. ASSUME NEW r \in Runs, Step(r) PROVE BackingInv'
      BY <2>2, BackingStep DEF Chronicle
    <2> QED
      BY <2>1, <2>2, Steps
  <1> QED
    BY <1>1, BackingInitially, ChronicleHolds, Invariance, PTL DEF Spec

\* What the locations hold and what is promised from them is all in the warehouse.
LEMMA AllBacked ==
  ASSUME IInv, ReservedIsAllocated, BackingInv
  PROVE  Total(utilization, Locations) <= Total([p \in Products |-> inventory[p].onHand], Products)
  <1>1. PICK u, n, k, back, placed, promised, onHand, reserved :
          /\ u = utilization /\ n = PlacedUnits /\ k = PromisedUnits
          /\ back = [l \in Locations |-> Backing(l)]
          /\ placed = [l \in Locations |-> Total(n, RowsAt(l))]
          /\ promised = [l \in Locations |-> Total(k, PromisedAt(l))]
          /\ onHand = [p \in Products |-> inventory[p].onHand]
          /\ reserved = [p \in Products |-> inventory[p].reserved]
    OBVIOUS
  <1>2. PICK stored, taken : /\ stored = {p \in Products : inventory[p].location \in Locations}
                             /\ taken = {a \in ReservedAllocations : allocations[a].location \in Locations}
    OBVIOUS
  <1>3. /\ IsFiniteSet(stored) /\ stored \subseteq Products
        /\ IsFiniteSet(taken) /\ IsFiniteSet(ReservedAllocations)
        /\ taken \subseteq ReservedAllocations /\ ReservedAllocations \subseteq AllocationIds
    <2>1. stored \subseteq Products /\ taken \subseteq ReservedAllocations
      BY <1>2
    <2>2. PICK S : S = ReservedAllocations
      OBVIOUS
    <2>3. S \subseteq AllocationIds /\ taken \subseteq S
      BY <2>1, <2>2 DEF ReservedAllocations
    <2>4. IsFiniteSet(S)
      BY <2>3, FiniteAllocations, FS_Subset
    <2>5. IsFiniteSet(taken) /\ IsFiniteSet(stored)
      BY <2>1, <2>3, <2>4, FiniteAssumption, FS_Subset
    <2> QED
      BY <2>1, <2>2, <2>3, <2>4, <2>5
  <1>4. ASSUME NEW p \in Products
        PROVE  /\ onHand[p] \in Nat /\ reserved[p] \in Nat /\ n[p] \in Nat
               /\ n[p] + reserved[p] <= onHand[p]
    <2>1. PICK row : row = inventory[p]
      OBVIOUS
    <2>2. row.onHand \in Nat /\ row.reserved \in Nat /\ row.reserved <= row.onHand
      BY <2>1, RowFields DEF IInv, TypeOK, StockInv
    <2>3. PICK c : c = Pending(p)
      OBVIOUS
    <2>4. c \in Nat
      <3>1. PICK m, S : m = [r \in Runs |-> receipts[r].lines[p]] /\ S = {r \in Runs : ToPutAway(r, p)}
        OBVIOUS
      <3>2. IsFiniteSet(Runs)
        BY RunAssumption, FS_Interval DEF Runs
      <3>3. IsFiniteSet(S) /\ S \subseteq Runs
        BY <3>1, <3>2, FS_Subset
      <3>4. \A r \in S : m[r] \in Nat
        BY <3>1, Lines
      <3> QED
        BY <2>3, <3>1, <3>3, <3>4, TotalType DEF Pending
    <2>5. c <= row.onHand - row.reserved
      BY <2>1, <2>3 DEF BackingInv, Available
    <2>6. n[p] = (row.onHand - row.reserved) - c
      BY <1>1, <2>1, <2>3 DEF PlacedUnits, Placed, Available
    <2> QED
      BY <1>1, <2>1, <2>2, <2>4, <2>5, <2>6
  <1>5. ASSUME NEW a \in AllocationIds
        PROVE  k[a] \in Nat
    <2>1. k[a] = Quantity(a)
      BY <1>1 DEF PromisedUnits
    <2>2. PICK o \in Runs, p \in Products : a = <<o, p>>
      BY DEF AllocationIds
    <2>3. orders[o] \in Orders
      BY DEF IInv, TypeOK
    <2>4. orders[o].items[p] \in Nat
      BY <2>3, OrderFields, QuantityAssumption
    <2> QED
      BY <2>1, <2>2, <2>4 DEF Quantity
  \* The locations claim what backs them.
  <1>6. ASSUME NEW l \in Locations
        PROVE  /\ placed[l] \in Nat /\ promised[l] \in Nat /\ back[l] \in Nat
               /\ back[l] = placed[l] + promised[l] /\ u[l] \in Nat /\ u[l] <= back[l]
               /\ placed[l] = Total(n, {p \in stored : inventory[p].location = l})
               /\ promised[l] = Total(k, {a \in taken : allocations[a].location = l})
    <2>1. PICK R, P : R = RowsAt(l) /\ P = PromisedAt(l)
      OBVIOUS
    <2>2. /\ R = {p \in stored : inventory[p].location = l}
          /\ P = {a \in taken : allocations[a].location = l}
      BY <1>2, <2>1 DEF RowsAt, PromisedAt
    <2>3. IsFiniteSet(R) /\ R \subseteq Products /\ IsFiniteSet(P) /\ P \subseteq AllocationIds
      BY <1>3, <2>2, FS_Subset
    <2>4. Total(n, R) \in Nat /\ Total(k, P) \in Nat
      <3>1. (\A p \in R : n[p] \in Nat) /\ \A a \in P : k[a] \in Nat
        BY <1>4, <1>5, <2>3
      <3> QED
        BY <2>3, <3>1, TotalType
    <2>5. placed[l] = Total(n, R) /\ promised[l] = Total(k, P) /\ back[l] = Backing(l)
      BY <1>1, <2>1
    <2>6. Backing(l) = Total(n, R) + Total(k, P)
      BY <1>1, <2>1 DEF Backing
    <2>7. u[l] \in Nat /\ u[l] <= Backing(l)
      BY <1>1 DEF BackingInv, IInv, TypeOK
    <2> QED
      BY <2>2, <2>4, <2>5, <2>6, <2>7
  <1>7. Total(u, Locations) <= Total(back, Locations)
    <2>1. Locations \in SUBSET Locations
      OBVIOUS
    <2>2. \A l \in Locations : back[l] \in Nat
      BY <1>6
    <2> QED
      BY <1>6, <2>1, <2>2, FiniteAssumption, TotalMonotonic
  <1>8. Total(back, Locations) = Total(placed, Locations) + Total(promised, Locations)
    <2>1. \A l \in Locations : placed[l] \in Nat /\ promised[l] \in Nat /\ back[l] = placed[l] + promised[l]
      BY <1>6
    <2> QED
      BY <2>1, FiniteAssumption, TotalAdd
  \* The rows by their location, and the promised units by theirs, then by product.
  <1>9. Total(placed, Locations) = Total(n, stored)
    <2>1. PICK f : f = [p \in stored |-> inventory[p].location]
      OBVIOUS
    <2>2. \A p \in stored : n[p] \in Nat /\ f[p] \in Locations
      BY <1>2, <1>4, <2>1
    <2>3. PICK heap : heap = [l \in Locations |-> {p \in stored : inventory[p].location = l}]
      OBVIOUS
    <2>4. /\ \A l \in Locations : placed[l] = Total(n, heap[l])
          /\ \A l \in Locations : \A p : p \in heap[l] <=> p \in stored /\ f[p] = l
      BY <1>6, <2>1, <2>3
    <2>5. IsFiniteSet(stored)
      BY <1>3
    <2> QED
      BY <2>2, <2>4, <2>5, TotalFibres
  <1>10. Total(promised, Locations) = Total(k, taken)
    <2>1. PICK f : f = [a \in taken |-> allocations[a].location]
      OBVIOUS
    <2>2. \A a \in taken : k[a] \in Nat /\ f[a] \in Locations
      BY <1>2, <1>3, <1>5, <2>1
    <2>3. PICK heap : heap = [l \in Locations |-> {a \in taken : allocations[a].location = l}]
      OBVIOUS
    <2>4. /\ \A l \in Locations : promised[l] = Total(k, heap[l])
          /\ \A l \in Locations : \A a : a \in heap[l] <=> a \in taken /\ f[a] = l
      BY <1>6, <2>1, <2>3
    <2>5. IsFiniteSet(taken)
      BY <1>3
    <2> QED
      BY <2>2, <2>4, <2>5, TotalFibres
  <1>11. Total(reserved, Products) = Total(k, ReservedAllocations)
    <2>1. PICK S : S = ReservedAllocations
      OBVIOUS
    <2>2. PICK f : f = [a \in S |-> a[2]]
      OBVIOUS
    <2>3. \A a \in S : k[a] \in Nat /\ f[a] \in Products
      BY <1>3, <1>5, <2>1, <2>2 DEF AllocationIds
    <2>4. PICK heap : heap = [p \in Products |-> {a \in ReservedAllocations : a[2] = p}]
      OBVIOUS
    <2>5. /\ \A p \in Products : reserved[p] = Total(k, heap[p])
          /\ \A p \in Products : \A a : a \in heap[p] <=> a \in S /\ f[a] = p
      <3>1. \A p \in Products : reserved[p] = Total(k, {a \in ReservedAllocations : a[2] = p})
        BY <1>1 DEF ReservedIsAllocated, PromisedUnits
      <3> QED
        BY <2>1, <2>2, <2>4, <3>1
    <2>6. Total(reserved, Products) = Total(k, S)
      BY <1>3, <2>1, <2>3, <2>5, TotalFibres
    <2> QED
      BY <2>1, <2>6
  <1>12. Total(n, stored) <= Total(n, Products) /\ Total(k, taken) <= Total(k, ReservedAllocations)
    <2>1. PICK S : S = ReservedAllocations
      OBVIOUS
    <2>2. stored \in SUBSET Products /\ taken \in SUBSET S /\ IsFiniteSet(S)
      BY <1>3, <2>1
    <2>3. /\ \A p \in stored : n[p] \in Nat /\ n[p] <= n[p]
          /\ \A p \in Products : n[p] \in Nat
      BY <1>3, <1>4
    <2>4. /\ \A a \in taken : k[a] \in Nat /\ k[a] <= k[a]
          /\ \A a \in S : k[a] \in Nat
      BY <1>3, <1>5, <2>1
    <2>5. Total(n, stored) <= Total(n, Products)
      BY <2>2, <2>3, FiniteAssumption, TotalMonotonic
    <2>6. Total(k, taken) <= Total(k, S)
      BY <2>2, <2>4, TotalMonotonic
    <2> QED
      BY <2>1, <2>5, <2>6
  \* Placed and reserved units are on hand.
  <1>13. Total(n, Products) + Total(reserved, Products) <= Total(onHand, Products)
    <2>1. PICK h : h = [p \in Products |-> n[p] + reserved[p]]
      OBVIOUS
    <2>2. \A p \in Products : /\ n[p] \in Nat /\ reserved[p] \in Nat /\ h[p] = n[p] + reserved[p]
                              /\ h[p] \in Nat /\ h[p] <= onHand[p] /\ onHand[p] \in Nat
      BY <1>4, <2>1
    <2>3. Total(h, Products) = Total(n, Products) + Total(reserved, Products)
      BY <2>2, FiniteAssumption, TotalAdd
    <2>4. Total(h, Products) <= Total(onHand, Products)
      <3>1. Products \in SUBSET Products
        OBVIOUS
      <3> QED
        BY <2>2, <3>1, FiniteAssumption, TotalMonotonic
    <2> QED
      BY <2>3, <2>4
  <1>14. /\ Total(u, Locations) \in Nat /\ Total(back, Locations) \in Nat
         /\ Total(placed, Locations) \in Nat /\ Total(promised, Locations) \in Nat
         /\ Total(n, Products) \in Nat /\ Total(reserved, Products) \in Nat
         /\ Total(onHand, Products) \in Nat
    <2>1. /\ \A l \in Locations : u[l] \in Nat
          /\ \A l \in Locations : back[l] \in Nat
          /\ \A l \in Locations : placed[l] \in Nat
          /\ \A l \in Locations : promised[l] \in Nat
          /\ \A p \in Products : n[p] \in Nat
          /\ \A p \in Products : reserved[p] \in Nat
          /\ \A p \in Products : onHand[p] \in Nat
      BY <1>4, <1>6
    <2> QED
      BY <2>1, FiniteAssumption, TotalType
  <1>15. Total(u, Locations) <= Total(onHand, Products)
    BY <1>7, <1>8, <1>9, <1>10, <1>11, <1>12, <1>13, <1>14
  <1> QED
    BY <1>1, <1>15

\* When no client sends a timestamp, no location is filled beyond its capacity, and
\* the locations together never claim more units than are on hand.
THEOREM UtilizationBacked == Stamps = {} /\ Spec => []UtilizationIsBacked
  <1>1. IInv /\ Chronicle /\ BackingInv /\ WithinCapacity => UtilizationIsBacked
    BY AllBacked DEF Chronicle, WithinCapacity, UtilizationIsBacked
  <1> QED
    BY <1>1, BackingHolds, LocationsAreNotOverfilled, ChronicleHolds, Invariance, PTL

-----------------------------------------------------------------------------
(* What a generator looks for is there.                                     *)

\* Of finitely many members one comes first in ORDER BY f.
LEMMA LeastExists ==
  ASSUME NEW S, IsFiniteSet(S), S # {}, NEW f, \A x \in S : f[x] \in Int
  PROVE  \E x \in S : \A y \in S : f[x] <= f[y]
  <1> DEFINE Before(x) == {y \in S : f[y] < f[x]}
             R == StrictSubsetOrdering(S)
             T == {Before(x) : x \in S}
  <1>1. IsWellFoundedOn(R, SUBSET S)
    <2>1. FiniteSubsetsOf(S) = SUBSET S
      BY FS_FiniteSubsetsOfFinite
    <2>2. IsWellFoundedOn(StrictSubsetOrdering(S), FiniteSubsetsOf(S))
      BY FS_StrictSubsetOrderingWellFounded
    <2> QED
      BY <2>1, <2>2
  <1>2. T \subseteq SUBSET S /\ T # {}
    OBVIOUS
  <1>3. PICK X \in T : \A Y \in T : ~ (<<Y, X>> \in R)
    <2> HIDE DEF R, T
    <2> QED
      BY <1>1, <1>2, WFMin
  <1>4. PICK x \in S : X = Before(x)
    OBVIOUS
  <1>5. ASSUME NEW y \in S, f[y] < f[x]
        PROVE  FALSE
    <2>1. Before(y) \subseteq Before(x) /\ y \in Before(x) /\ y \notin Before(y)
      BY <1>5
    <2>2. <<Before(y), X>> \in R
      BY <1>2, <1>4, <2>1 DEF StrictSubsetOrdering
    <2> QED
      BY <1>3, <2>2
  <1> QED
    BY <1>5

\* The generators that take the earliest row find one if there is any.
LEMMA EarliestExists ==
  ASSUME TypeOK, NEW S, IsFiniteSet(S), S # {}, \A x \in S : x[1] \in Runs
  PROVE  Earliest(S) # {}
  <1>1. PICK f : f = [x \in S |-> run[x[1]].stamp]
    OBVIOUS
  <1>2. \A x \in S : f[x] = run[x[1]].stamp /\ f[x] \in Int
    BY <1>1, RunFields
  <1>3. \E x \in S : \A y \in S : f[x] <= f[y]
    BY <1>2, LeastExists
  <1> QED
    BY <1>2, <1>3 DEF Earliest

\* There are finitely many picking tasks.
LEMMA FiniteTaskIds == IsFiniteSet(TaskIds)
  <1>1. IsFiniteSet(Runs)
    BY RunAssumption, FS_Interval DEF Runs
  <1> QED
    BY <1>1, FiniteAllocations, FS_Product DEF TaskIds

\* The status of the documents an inbound run works on, at each of its steps.
Documents(step, doc) ==
  /\ step = "PurchaseOrderApproved" => doc.po = "CREATED"
  /\ step = "SupplierShipmentCreated" => doc.po = "APPROVED"
  /\ step \in {"none", "PurchaseOrderCreated", "PurchaseOrderApproved", "SupplierShipmentCreated"}
       => doc.shipment = "NONE"
  /\ step = "ASNReceived" => doc.shipment = "CREATED"
  /\ step = "SupplierShipmentDelivered" => doc.shipment = "ASN_RECEIVED"
  /\ step = "ReceivingTaskCreated" => doc.shipment = "DELIVERED"
  /\ step \in {"none", "PurchaseOrderCreated", "PurchaseOrderApproved", "SupplierShipmentCreated",
               "ASNReceived", "SupplierShipmentDelivered", "ReceivingTaskCreated"}
       => doc.task = "NONE"
  /\ step = "ReceivingTaskStarted" => doc.task = "CREATED"
  /\ step = "GoodsReceived" => doc.task = "STARTED"
  /\ step \in InboundSteps \ {"PurchaseOrderCreated"} => \E p \in Products : doc.lines[p] > 0

DocumentInv ==
  \A r \in Runs : run[r].status \in {"WAITING", "RUNNING"} /\ run[r].flow # "outbound" =>
    Documents(run[r].step, receipts[r])

LEMMA DocumentStep ==
  ASSUME IInv, DocumentInv, NEW r \in Runs, Step(r)
  PROVE  DocumentInv'
  <1> USE DEF Running
  <1>0. /\ receipts \in [Runs -> Receipts] /\ receipts[r] \in Receipts
        /\ {"PurchaseOrderCreated", "PurchaseOrderApproved", "SupplierShipmentCreated", "ASNReceived",
            "SupplierShipmentDelivered", "ReceivingTaskCreated", "ReceivingTaskStarted",
            "GoodsReceived", "StockIncreased", "InventoryPutaway"} \subseteq InboundSteps
        /\ "none" \notin InboundSteps /\ "Exit" \notin InboundSteps
    BY DEF IInv, TypeOK, InboundSteps
  <1>1. \A q \in Runs : q # r => run'[q] = run[q] /\ receipts'[q] = receipts[q]
    BY RunStep, ReceiptInvStep
  <1>2. SUFFICES ASSUME run'[r].status \in {"WAITING", "RUNNING"}, run'[r].flow # "outbound"
                 PROVE  Documents(run'[r].step, receipts'[r])
    BY <1>1, <1>2 DEF DocumentInv
  <1>3. CASE StartsRun(r)
    <2>1. receipts' = receipts
      BY <1>3 DEF StartsRun, inboundVars
    <2>2. run'[r].step = "PurchaseOrderCreated"
      BY <1>2, <1>3, RunStep DEF StartsRun, StartRun
    <2>3. Documents("none", receipts[r])
      BY <1>3, RunFields DEF StartsRun, StartRun, IInv, RunInv, DocumentInv
    <2> QED
      BY <2>1, <2>2, <2>3 DEF Documents
  <1>4. CASE ~StartsRun(r)
    <2>1. InboundNext(r) /\ ~Fail(r)
      BY <1>2, <1>4, RunStep, RunFields, Failed DEF IInv
    <2>2. run[r].flow # "outbound" /\ run[r].status = "RUNNING"
      BY <1>2, <1>4, RunStep
    <2>3. Documents(run[r].step, receipts[r])
      BY <2>2 DEF DocumentInv
    <2>4. CASE PurchaseOrderCreated(r)
      <3>1. PICK lines \in [Products -> 0..MaxOrdered] :
              /\ \E p \in Products : lines[p] > 0
              /\ receipts' = [receipts EXCEPT ![r].po = "CREATED", ![r].lines = lines]
        BY <2>4 DEF PurchaseOrderCreated
      <3>2. run'[r].step = "PurchaseOrderApproved" /\ run[r].step = "PurchaseOrderCreated"
        BY <1>0, <2>4, Advanced DEF PurchaseOrderCreated
      <3>3. receipts'[r] = [receipts[r] EXCEPT !.po = "CREATED", !.lines = lines]
        BY <1>0, <3>1
      <3>4. /\ receipts'[r].shipment = receipts[r].shipment /\ receipts'[r].task = receipts[r].task
            /\ receipts'[r].po = "CREATED" /\ receipts'[r].lines = lines
        BY <1>0, <3>3 DEF Receipts
      <3> QED
        BY <1>0, <2>3, <3>1, <3>2, <3>4 DEF Documents
    <2>5. CASE PurchaseOrderApproved(r)
      <3>1. run'[r].step = "SupplierShipmentCreated" /\ run[r].step = "PurchaseOrderApproved"
        BY <1>0, <2>5, Advanced DEF PurchaseOrderApproved
      <3>2. receipts'[r] = [receipts[r] EXCEPT !.po = "APPROVED"]
        BY <1>0, <2>5 DEF PurchaseOrderApproved
      <3>3. /\ receipts'[r].shipment = receipts[r].shipment /\ receipts'[r].task = receipts[r].task
            /\ receipts'[r].po = "APPROVED" /\ receipts'[r].lines = receipts[r].lines
        BY <1>0, <3>2 DEF Receipts
      <3> QED
        BY <1>0, <2>3, <3>1, <3>3 DEF Documents
    <2>6. CASE SupplierShipmentCreated(r) \/ ASNReceived(r) \/ SupplierShipmentDelivered(r)
      <3>1. PICK status, step :
              /\ \/ status = "CREATED" /\ step = "ASNReceived"
                 \/ status = "ASN_RECEIVED" /\ step = "SupplierShipmentDelivered"
                 \/ status = "DELIVERED" /\ step = "ReceivingTaskCreated"
              /\ receipts' = [receipts EXCEPT ![r].shipment = status]
              /\ Advance(r, step)
        BY <2>6 DEF SupplierShipmentCreated, ASNReceived, SupplierShipmentDelivered
      <3>2. /\ run[r].step \in {"SupplierShipmentCreated", "ASNReceived", "SupplierShipmentDelivered"}
            /\ run'[r].step = step
        BY <1>0, <2>6, <3>1, Advanced DEF SupplierShipmentCreated, ASNReceived, SupplierShipmentDelivered
      <3>3. receipts'[r] = [receipts[r] EXCEPT !.shipment = status]
        BY <1>0, <3>1
      <3>4. /\ receipts'[r].shipment = status /\ receipts'[r].task = receipts[r].task
            /\ receipts'[r].lines = receipts[r].lines
        BY <1>0, <3>3 DEF Receipts
      <3> QED
        BY <1>0, <2>3, <3>1, <3>2, <3>4 DEF Documents
    <2>7. CASE ReceivingTaskCreated(r)
      <3>1. PICK w \in AvailableWorkers :
              /\ receipts' = [receipts EXCEPT ![r].task = "CREATED", ![r].worker = w]
              /\ Advance(r, "ReceivingTaskStarted")
        BY <2>1, <2>7 DEF ReceivingTaskCreated
      <3>2. run'[r].step = "ReceivingTaskStarted" /\ run[r].step = "ReceivingTaskCreated"
        BY <1>0, <2>7, <3>1, Advanced DEF ReceivingTaskCreated
      <3>3. receipts'[r] = [receipts[r] EXCEPT !.task = "CREATED", !.worker = w]
        BY <1>0, <3>1
      <3>4. receipts'[r].task = "CREATED" /\ receipts'[r].lines = receipts[r].lines
        BY <1>0, <3>3 DEF Receipts
      <3> QED
        BY <1>0, <2>3, <3>2, <3>4 DEF Documents
    <2>8. CASE ReceivingTaskStarted(r) \/ GoodsReceived(r)
      <3>1. /\ run'[r].step \in {"GoodsReceived", "StockIncreased"}
            /\ run[r].step \in {"ReceivingTaskStarted", "GoodsReceived"}
            /\ run'[r].step = "GoodsReceived" => receipts'[r].task = "STARTED"
            /\ receipts'[r].lines = receipts[r].lines
        BY <2>1, <2>8, ReceiptsStep DEF ReceiptEffect, ReceivingTaskStarted, GoodsReceived
      <3> QED
        BY <1>0, <2>3, <3>1 DEF Documents
    <2>9. CASE StockIncreased(r) \/ InventoryPutaway(r)
      <3>1. /\ run'[r].step \in {"StockIncreased", "InventoryPutaway", "Exit"}
            /\ run[r].step \in {"StockIncreased", "InventoryPutaway"}
            /\ receipts'[r] = receipts[r]
        BY <2>1, <2>9, ReceiptsStep DEF ReceiptEffect, StockIncreased, InventoryPutaway
      <3> QED
        BY <1>0, <2>3, <3>1 DEF Documents
    <2> QED
      BY <2>1, <2>4, <2>5, <2>6, <2>7, <2>8, <2>9 DEF InboundNext
  <1> QED
    BY <1>3, <1>4

\* The loops of an inbound run start with what was received and leave out what is done.
LoopInv ==
  \A r \in Runs : run[r].status = "RUNNING" =>
    /\ run[r].step \in {"StockIncreased", "InventoryPutaway"} => todo # {}
    /\ run[r].step = "StockIncreased" =>
         \A p \in todo : inventory[p].status = "RECEIVED" /\ inventory[p].onHand > 0

LEMMA LoopStep ==
  ASSUME IInv, DocumentInv, LoopInv, NEW r \in Runs, Step(r)
  PROVE  LoopInv'
  <1> USE DEF Running
  <1>1. \A q \in Runs : q # r => run'[q].status # "RUNNING"
    BY RunStep
  <1>2. SUFFICES ASSUME run'[r].status = "RUNNING",
                        run'[r].step \in {"StockIncreased", "InventoryPutaway"}
                 PROVE  /\ todo' # {}
                        /\ run'[r].step = "StockIncreased" =>
                             \A p \in todo' : inventory'[p].status = "RECEIVED" /\ inventory'[p].onHand > 0
    BY <1>1, <1>2 DEF LoopInv
  <1>3. /\ InboundNext(r) /\ run[r].flow = "inbound" /\ run[r].status = "RUNNING" /\ ~Fail(r)
        /\ ReceiptEffect(r)
    <2>1. InboundNext(r) /\ run[r].flow = "inbound" /\ run[r].status = "RUNNING"
      BY <1>2, RunStep, OutboundMoves DEF OutboundSteps
    <2> QED
      BY <1>2, <2>1, ReceiptsStep, Failed
  <1>4. /\ inventory \in [Products -> InventoryRows] /\ Received(r) \subseteq Products
        /\ receipts[r].lines \in [Products -> Nat]
    BY QuantityAssumption, ReceiptFields DEF IInv, TypeOK, Received
  <1>5. CASE run[r].step = "GoodsReceived"
    <2>1. GoodsReceived(r) /\ run'[r].step = "StockIncreased"
      BY <1>3, <1>5 DEF ReceiptEffect
    <2>2. todo' = Received(r) /\ inventory' = Arrived(r)
      BY <2>1 DEF GoodsReceived
    <2>3. Received(r) # {}
      BY <1>3, <1>5 DEF DocumentInv, Documents, InboundSteps, Received
    <2>4. ASSUME NEW p \in Received(r)
          PROVE  inventory'[p].status = "RECEIVED" /\ inventory'[p].onHand > 0
      <3>1. p \in Products /\ receipts[r].lines[p] > 0
        BY DEF Received
      <3>2. inventory[p].onHand \in Nat /\ receipts[r].lines[p] \in Nat
        BY <1>4, <3>1, RowFields
      <3> QED
        BY <2>2, <3>1, <3>2, Arrival
    <2> QED
      BY <2>2, <2>3, <2>4
  <1>6. CASE run[r].step = "StockIncreased"
    <2>1. StockIncreased(r)
      BY <1>3, <1>6 DEF InboundNext, PurchaseOrderCreated, PurchaseOrderApproved,
         SupplierShipmentCreated, ASNReceived, SupplierShipmentDelivered, ReceivingTaskCreated,
         ReceivingTaskStarted, GoodsReceived, InventoryPutaway
    <2>2. PICK p \in todo :
            /\ inventory' = [inventory EXCEPT ![p].status = "AVAILABLE"]
            /\ IF Rest(p) = {}
               THEN todo' = Received(r) /\ Advance(r, "InventoryPutaway")
               ELSE todo' = Rest(p) /\ UNCHANGED run
      BY <1>3, <2>1 DEF StockIncreased
    <2>3. CASE Rest(p) = {}
      <3>1. run'[r].step = "InventoryPutaway"
        BY <2>2, <2>3, Advanced DEF InboundSteps
      <3>2. p \in Received(r)
        BY <1>3, <1>6 DEF IInv, TodoInv
      <3> QED
        BY <2>2, <2>3, <3>1, <3>2
    <2>4. CASE Rest(p) # {}
      <3>1. \A k \in todo : k \in Products /\ inventory[k].status = "RECEIVED" /\ inventory[k].onHand > 0
        BY <1>3, <1>4, <1>6 DEF LoopInv, IInv, TodoInv
      <3>2. \A k \in Rest(p) : inventory'[k] = inventory[k] /\ k \in todo
        BY <1>4, <2>2, <3>1 DEF Rest
      <3> QED
        BY <2>2, <2>4, <3>1, <3>2
    <2> QED
      BY <2>3, <2>4
  <1>7. CASE run[r].step = "InventoryPutaway"
    <2>1. InventoryPutaway(r) /\ run'[r].step # "StockIncreased"
      <3>1. InventoryPutaway(r)
        BY <1>3, <1>7 DEF InboundNext, PurchaseOrderCreated, PurchaseOrderApproved,
           SupplierShipmentCreated, ASNReceived, SupplierShipmentDelivered, ReceivingTaskCreated,
           ReceivingTaskStarted, GoodsReceived, StockIncreased
      <3>2. Advance(r, "Exit") \/ UNCHANGED run
        BY <1>3, <3>1 DEF InventoryPutaway
      <3> QED
        BY <1>7, <3>1, <3>2, Advanced
    <2>2. PICK p \in todo : todo' = Rest(p) /\ (Rest(p) = {} => Advance(r, "Exit"))
      BY <1>3, <2>1 DEF InventoryPutaway
    <2>3. Rest(p) # {}
      BY <1>2, <2>2, Advanced
    <2> QED
      BY <2>1, <2>2, <2>3
  <1> QED
    BY <1>2, <1>3, <1>5, <1>6, <1>7 DEF ReceiptEffect

\* What an outbound run has found or made by the step it stands at.
OrderInv ==
  /\ \A o \in Runs : ~Unordered(o) => Ordered(o) # {}
  /\ \A r \in Runs : run[r].status = "RUNNING" =>
       /\ run[r].step = "InventoryAllocationCreated" => \A p \in Ordered(r) : Allocatable(p)
       /\ run[r].step \in {"InventoryAllocationCreated", "InventoryReserved"} =>
            \A p \in Ordered(r) : orders[r].items[p] <= Available(p)
       /\ run[r].step = "PickingTaskStarted" => todo # {}
       /\ run[r].step \in {"PickingTaskStarted", "PickingCompleted"} =>
            \A t \in todo : picking[t].status = "CREATED"
       /\ run[r].step = "PickingCompleted" => \E t \in TaskIds : picking[t].status = "STARTED"
       /\ run[r].step = "ShipmentReady" => orders[r].status = "PACKED"

LEMMA OrderStep ==
  ASSUME IInv, OutboundWork, OrderInv, NEW r \in Runs, Step(r)
  PROVE  OrderInv'
  <1> USE DEF Running
  <1>0. /\ {"SeedInventory", "OrderCreated", "OrderItemCreated",
            "InventoryAllocationCreated", "InventoryReserved", "PickingTaskCreated",
            "PickingTaskStarted", "PickingCompleted", "PackingTaskCreated", "PackingTaskStarted",
            "PackingCompleted", "ShipmentReady", "Transportation"} \subseteq OutboundSteps
        /\ OutboundSteps \cap InboundSteps = {} /\ "Exit" \notin OutboundSteps
        /\ orders \in [Runs -> Orders] /\ picking \in [TaskIds -> PickingTasks]
    BY DEF OutboundSteps, InboundSteps, IInv, TypeOK
  <1>1. \A q \in Runs : q # r => run'[q].status # "RUNNING"
    BY RunStep
  <1>2. ASSUME OutboundNext(r), run[r].step = "OrderItemCreated",
               run'[r].step = "InventoryAllocationCreated"
        PROVE  /\ Ordered(r)' # {}
               /\ \A p \in Ordered(r)' : Allocatable(p)' /\ orders'[r].items[p] <= Available(p)'
    <2>1. OrderItemCreated(r) /\ ~Fail(r)
      BY <1>2, OutboundMoves, Failed DEF OutboundMove
    <2>2. PICK items \in [Products -> 0..MaxItem] :
            /\ \E p \in Products : items[p] > 0
            /\ \A p \in Products : items[p] > 0 => Allocatable(p) /\ items[p] <= Available(p)
            /\ orders' = [orders EXCEPT ![r].items = items]
      BY <2>1 DEF OrderItemCreated
    <2>3. orders'[r] = [orders[r] EXCEPT !.items = items] /\ orders[r] \in Orders
      BY <1>0, <2>2
    <2>4. orders'[r].items = items
      BY <2>3 DEF Orders
    <2>5. inventory' = inventory
      BY <2>1 DEF OrderItemCreated
    <2>6. Ordered(r)' = {p \in Products : items[p] > 0}
      BY <2>4 DEF Ordered
    <2> QED
      BY <2>2, <2>4, <2>5, <2>6 DEF Allocatable, Available
  <1>3. ASSUME NEW o \in Runs, ~Unordered(o)'
        PROVE  Ordered(o)' # {}
    <2>1. CASE ~Unordered(o) /\ orders'[o].items = orders[o].items
      BY <2>1 DEF OrderInv, Ordered
    <2>2. CASE ~(~Unordered(o) /\ orders'[o].items = orders[o].items)
      <3>1. /\ o = r /\ OutboundNext(r) /\ run[r].step = "OrderItemCreated"
            /\ run'[r].step = "InventoryAllocationCreated"
        BY <1>3, <2>2, Stages DEF Unallocated
      <3> QED
        BY <1>2, <3>1
    <2> QED
      BY <2>1, <2>2
  <1>4. ASSUME run'[r].status = "RUNNING",
               run'[r].step \in {"InventoryAllocationCreated", "InventoryReserved",
                                 "PickingTaskStarted", "PickingCompleted", "ShipmentReady"}
        PROVE  /\ run'[r].step = "InventoryAllocationCreated" => \A p \in Ordered(r)' : Allocatable(p)'
               /\ run'[r].step \in {"InventoryAllocationCreated", "InventoryReserved"} =>
                    \A p \in Ordered(r)' : orders'[r].items[p] <= Available(p)'
               /\ run'[r].step = "PickingTaskStarted" => todo' # {}
               /\ run'[r].step \in {"PickingTaskStarted", "PickingCompleted"} =>
                    \A t \in todo' : picking'[t].status = "CREATED"
               /\ run'[r].step = "PickingCompleted" => \E t \in TaskIds : picking'[t].status = "STARTED"
               /\ run'[r].step = "ShipmentReady" => orders'[r].status = "PACKED"
    <2>1. OutboundNext(r) /\ run[r].status = "RUNNING" /\ run[r].flow = "outbound" /\ ~Fail(r)
      <3>1. OutboundNext(r) /\ run[r].status = "RUNNING" /\ run[r].flow = "outbound"
        BY <1>0, <1>4, RunStep
      <3> QED
        BY <1>4, <3>1, Failed
    <2>2. OutboundMove(r)
      BY <2>1, OutboundMoves
    <2>3. CASE run'[r].step = "InventoryAllocationCreated"
      BY <1>2, <2>1, <2>2, <2>3 DEF OutboundMove
    <2>4. CASE run'[r].step = "InventoryReserved"
      <3>1. InventoryAllocationCreated(r) /\ run[r].step = "InventoryAllocationCreated"
        BY <2>1, <2>2, <2>4 DEF OutboundMove
      <3>2. UNCHANGED <<inventory, orders>>
        BY <3>1 DEF InventoryAllocationCreated
      <3>3. \A p \in Ordered(r) : orders[r].items[p] <= Available(p)
        BY <2>1, <3>1 DEF OrderInv
      <3> QED
        BY <2>4, <3>2, <3>3 DEF Ordered, Available
    <2>5. CASE run'[r].step = "PickingTaskStarted"
      <3>1. \/ PickingTaskCreated(r)
            \/ PickingCompleted(r) /\ run[r].step = "PickingCompleted"
        BY <2>1, <2>2, <2>5 DEF OutboundMove
      <3>2. CASE PickingTaskCreated(r)
        <4>1. PICK first \in Earliest(ReservedAllocations) :
                /\ picking' = [t \in TaskIds |->
                     IF t[1] = r /\ AllocationOf(t) \in ReservedAllocations
                     THEN [status |-> "CREATED", order |-> first[1]]
                     ELSE picking[t]]
                /\ todo' = {r} \X ReservedAllocations
          BY <2>1, <3>2 DEF PickingTaskCreated
        <4>2. ASSUME NEW t \in todo' PROVE picking'[t].status = "CREATED"
          <5>1. PICK a \in ReservedAllocations : t = <<r, a>>
            BY <4>1
          <5>2. t \in TaskIds /\ t[1] = r /\ AllocationOf(t) = a
            BY <5>1 DEF TaskIds, AllocationOf, ReservedAllocations
          <5>3. picking'[t] = [status |-> "CREATED", order |-> first[1]]
            BY <4>1, <5>1, <5>2
          <5> QED
            BY <5>3
        <4>3. <<r, first>> \in todo'
          BY <4>1 DEF Earliest
        <4> QED
          BY <2>5, <4>2, <4>3
      <3>3. CASE PickingCompleted(r) /\ run[r].step = "PickingCompleted"
        <4>1. todo' = todo /\ todo # {}
          BY <2>1, <2>5, <3>3, PickEffect
        <4>2. ASSUME NEW t \in todo PROVE picking'[t].status = "CREATED"
          <5>1. t \in TaskIds /\ picking[t].status = "CREATED"
            BY <2>1, <3>3 DEF OrderInv, IInv, TodoInv
          <5>2. picking'[t] = picking[t]
            BY <3>3, <5>1, TasksStep, OneGenerator DEF TaskEffect
          <5> QED
            BY <5>1, <5>2
        <4> QED
          BY <2>5, <4>1, <4>2
      <3> QED
        BY <3>1, <3>2, <3>3
    <2>6. CASE run'[r].step = "PickingCompleted"
      <3>1. PickingTaskStarted(r) /\ run[r].step = "PickingTaskStarted"
        BY <2>1, <2>2, <2>6 DEF OutboundMove
      <3>2. \A t \in todo : t \in TaskIds /\ picking[t].status = "CREATED"
        BY <2>1, <3>1 DEF OrderInv, IInv, TodoInv
      <3>3. PICK u \in todo : /\ todo' = todo \ {u}
                              /\ picking' = [picking EXCEPT ![u].status = "STARTED"]
        BY <3>1, <3>2 DEF PickingTaskStarted, Rest
      <3>4. /\ picking'[u] = [picking[u] EXCEPT !.status = "STARTED"] /\ picking[u] \in PickingTasks
            /\ \A t \in todo' : picking'[t] = picking[t]
        BY <1>0, <3>2, <3>3
      <3>5. picking'[u].status = "STARTED"
        BY <3>4 DEF PickingTasks
      <3> QED
        BY <2>6, <3>2, <3>3, <3>4, <3>5
    <2>7. CASE run'[r].step = "ShipmentReady"
      <3>1. PackingCompleted(r)
        BY <2>1, <2>2, <2>7 DEF OutboundMove
      <3>2. PICK package :
              orders' = [orders EXCEPT ![r].packing = "COMPLETED", ![r].status = "PACKED",
                                       ![r].package = package]
        BY <2>1, <3>1 DEF PackingCompleted
      <3>3. orders[r] \in Orders /\ orders'[r] = [orders[r] EXCEPT !.packing = "COMPLETED",
                                                   !.status = "PACKED", !.package = package]
        BY <1>0, <3>2
      <3>4. orders'[r].status = "PACKED"
        BY <3>3 DEF Orders
      <3> QED
        BY <2>7, <3>4
    <2> QED
      BY <1>4, <2>3, <2>4, <2>5, <2>6, <2>7
  <1> QED
    BY <1>1, <1>3, <1>4 DEF OrderInv

\* What the generator that run r stands at looks for.  Where the model has no
\* outcome for a search that finds nothing, it is here that it does not happen.
Found(r) ==
  /\ Running(r, "PurchaseOrderApproved") => receipts[r].po = "CREATED"
  /\ Running(r, "SupplierShipmentCreated") =>
       receipts[r].po = "APPROVED" /\ receipts[r].shipment = "NONE"
  /\ Running(r, "ASNReceived") => receipts[r].shipment = "CREATED"
  /\ Running(r, "SupplierShipmentDelivered") => receipts[r].shipment = "ASN_RECEIVED"
  /\ Running(r, "ReceivingTaskCreated") =>
       receipts[r].shipment = "DELIVERED" /\ receipts[r].task = "NONE"
  /\ Running(r, "ReceivingTaskStarted") => receipts[r].task = "CREATED"
  /\ Running(r, "GoodsReceived") => receipts[r].task = "STARTED" /\ Received(r) # {}
  /\ Running(r, "StockIncreased") =>
       /\ todo # {}
       /\ \A p \in todo : /\ inventory[p].status = "RECEIVED"
                          /\ inventory[p].onHand > 0 /\ Available(p) >= 0
  /\ Running(r, "InventoryPutaway") =>
       todo # {} /\ \A p \in todo : inventory[p].status = "AVAILABLE"
  /\ Running(r, "InventoryAllocationCreated") =>
       /\ Ordered(r) # {}
       /\ \A p \in Ordered(r) : Allocatable(p) /\ orders[r].items[p] <= Available(p)
  /\ Running(r, "InventoryReserved") =>
       Ordered(r) # {} /\ \A p \in Ordered(r) : orders[r].items[p] <= Available(p)
  /\ Running(r, "PickingTaskCreated") => Earliest(ReservedAllocations) # {}
  /\ Running(r, "PickingTaskStarted") =>
       todo # {} /\ \A t \in todo : picking[t].status = "CREATED"
  /\ Running(r, "PickingCompleted") =>
       Earliest({s \in TaskIds : picking[s].status = "STARTED"}) # {}
  /\ Running(r, "ShipmentReady") => orders[r].status = "PACKED"

\* No run stands before a generator that does not find what it looks for.
NothingIsMissing == \A r \in Runs : Found(r)

\* The inductive invariant behind it.
WorkInv == InboundWork /\ OutboundWork /\ DocumentInv /\ LoopInv /\ OrderInv

LEMMA AllFound ==
  ASSUME IInv, WorkInv
  PROVE  NothingIsMissing
  <1> SUFFICES ASSUME NEW r \in Runs, run[r].status = "RUNNING"
               PROVE  Found(r)
    BY DEF NothingIsMissing, Found, Running
  <1> USE DEF Running, WorkInv
  <1>1. run[r].step \in InboundSteps => run[r].flow = "inbound"
    BY RunFields DEF IInv, RunInv, Flows, FirstStep, InboundSteps, OutboundSteps
  <1>2. run[r].step \in OutboundSteps => run[r].flow = "outbound"
    BY RunFields DEF IInv, RunInv, Flows, FirstStep, InboundSteps, OutboundSteps
  <1>3. run[r].step \in InboundSteps => Documents(run[r].step, receipts[r])
    BY <1>1 DEF DocumentInv
  <1>4. run[r].step = "StockIncreased" =>
          \A p \in todo : /\ inventory[p].status = "RECEIVED"
                          /\ inventory[p].onHand > 0 /\ Available(p) >= 0
    <2> SUFFICES ASSUME run[r].step = "StockIncreased", NEW p \in todo
                 PROVE  /\ inventory[p].status = "RECEIVED"
                        /\ inventory[p].onHand > 0 /\ Available(p) >= 0
      OBVIOUS
    <2>1. p \in Products
      BY DEF IInv, TodoInv, Received
    <2>2. inventory[p] \in InventoryRows /\ inventory[p].reserved <= inventory[p].onHand
      BY <2>1 DEF IInv, TypeOK, StockInv
    <2>3. inventory[p].status = "RECEIVED" /\ inventory[p].onHand > 0
      BY DEF LoopInv
    <2> QED
      BY <2>2, <2>3, RowFields DEF Available
  <1>5. run[r].step = "InventoryPutaway" => \A p \in todo : inventory[p].status = "AVAILABLE"
    BY <1>1 DEF InboundWork, IInv, TodoInv, InboundSteps
  <1>6. run[r].step \in {"InventoryAllocationCreated", "InventoryReserved", "PickingTaskCreated"} =>
          Ordered(r) # {}
    BY <1>2 DEF OrderInv, Unordered, OutboundSteps
  <1>7. run[r].step = "PickingTaskCreated" => Earliest(ReservedAllocations) # {}
    <2> SUFFICES ASSUME run[r].step = "PickingTaskCreated" PROVE Earliest(ReservedAllocations) # {}
      OBVIOUS
    <2>1. PICK S : S = ReservedAllocations
      OBVIOUS
    <2>2. PICK p \in Ordered(r) : <<r, p>> \in S
      BY <1>6, <2>1, OwnStockReserved
    <2>3. S \subseteq AllocationIds
      BY <2>1 DEF ReservedAllocations
    <2>4. IsFiniteSet(S)
      BY <2>3, FiniteAllocations, FS_Subset
    <2>5. \A x \in S : x[1] \in Runs
      BY <2>3 DEF AllocationIds
    <2>6. S # {} /\ TypeOK
      BY <2>2 DEF IInv
    <2>7. Earliest(S) # {}
      BY <2>4, <2>5, <2>6, EarliestExists
    <2> QED
      BY <2>1, <2>7
  <1>8. run[r].step = "PickingCompleted" =>
          Earliest({s \in TaskIds : picking[s].status = "STARTED"}) # {}
    <2> SUFFICES ASSUME run[r].step = "PickingCompleted"
                 PROVE  Earliest({s \in TaskIds : picking[s].status = "STARTED"}) # {}
      OBVIOUS
    <2>1. PICK S : S = {s \in TaskIds : picking[s].status = "STARTED"}
      OBVIOUS
    <2>2. S \subseteq TaskIds /\ TypeOK
      BY <2>1 DEF IInv
    <2>3. S # {}
      BY <2>1 DEF OrderInv
    <2>4. IsFiniteSet(S)
      BY <2>2, FiniteTaskIds, FS_Subset
    <2>5. \A x \in S : x[1] \in Runs
      BY <2>2, QuantityType
    <2>6. Earliest(S) # {}
      BY <2>2, <2>3, <2>4, <2>5, EarliestExists
    <2> QED
      BY <2>1, <2>6
  <1>9. /\ run[r].step = "InventoryAllocationCreated" => \A p \in Ordered(r) : Allocatable(p)
        /\ run[r].step \in {"InventoryAllocationCreated", "InventoryReserved"} =>
             \A p \in Ordered(r) : orders[r].items[p] <= Available(p)
        /\ run[r].step = "PickingTaskStarted" => todo # {}
        /\ run[r].step = "PickingTaskStarted" => \A t \in todo : picking[t].status = "CREATED"
        /\ run[r].step = "ShipmentReady" => orders[r].status = "PACKED"
        /\ run[r].step \in {"StockIncreased", "InventoryPutaway"} => todo # {}
    BY DEF OrderInv, LoopInv
  <1>10. run[r].step = "GoodsReceived" => Received(r) # {}
    BY <1>3 DEF Documents, InboundSteps, Received
  <1>11. /\ run[r].step = "PurchaseOrderApproved" => receipts[r].po = "CREATED"
         /\ run[r].step = "SupplierShipmentCreated" =>
              receipts[r].po = "APPROVED" /\ receipts[r].shipment = "NONE"
         /\ run[r].step = "ASNReceived" => receipts[r].shipment = "CREATED"
         /\ run[r].step = "SupplierShipmentDelivered" => receipts[r].shipment = "ASN_RECEIVED"
         /\ run[r].step = "ReceivingTaskCreated" =>
              receipts[r].shipment = "DELIVERED" /\ receipts[r].task = "NONE"
         /\ run[r].step = "ReceivingTaskStarted" => receipts[r].task = "CREATED"
         /\ run[r].step = "GoodsReceived" => receipts[r].task = "STARTED"
    BY <1>3 DEF Documents, InboundSteps
  <1> QED
    BY <1>4, <1>5, <1>6, <1>7, <1>8, <1>9, <1>10, <1>11 DEF Found

LEMMA WorkHolds == Spec => []WorkInv
  <1>1. Init => WorkInv
    <2> SUFFICES ASSUME Init PROVE WorkInv
      OBVIOUS
    <2>1. /\ \A r \in Runs : run[r].status = "WAITING" /\ run[r].flow = "none" /\ run[r].step = "none"
          /\ \A t \in TaskIds : picking[t].status = "NONE"
          /\ \A a \in AllocationIds : allocations[a].status = "NONE"
          /\ \A r \in Runs : receipts[r].shipment = "NONE" /\ receipts[r].task = "NONE"
      BY DEF Init, WarehouseInit, InboundInit, OutboundInit
    <2>2. InboundWork /\ OutboundWork
      BY <2>1 DEF InboundWork, OutboundWork
    <2>3. DocumentInv
      BY <2>1 DEF DocumentInv, Documents, InboundSteps
    <2>4. LoopInv /\ OrderInv
      BY <2>1 DEF LoopInv, OrderInv, Unordered
    <2> QED
      BY <2>2, <2>3, <2>4 DEF WorkInv
  <1>2. IInv /\ WorkInv /\ [Next]_vars => WorkInv'
    <2> SUFFICES ASSUME IInv, WorkInv, [Next]_vars PROVE WorkInv'
      OBVIOUS
    <2>1. CASE UNCHANGED vars
      <3> USE <2>1 DEF vars, warehouseVars, inboundVars, outboundVars, WorkInv
      <3>1. InboundWork' /\ OutboundWork'
        BY DEF InboundWork, OutboundWork, TasksOf, Ordered, Received
      <3>2. DocumentInv' /\ LoopInv'
        BY DEF DocumentInv, Documents, LoopInv
      <3>3. OrderInv'
        BY DEF OrderInv, Unordered, Ordered, Allocatable, Available
      <3> QED
        BY <3>1, <3>2, <3>3
    <2>2. ASSUME NEW r \in Runs, Step(r)
          PROVE  WorkInv'
      BY <2>2, InboundWorkStep, OutboundWorkStep, DocumentStep, LoopStep, OrderStep DEF WorkInv
    <2> QED
      BY <2>1, <2>2, Steps
  <1> QED
    BY <1>1, <1>2, Invariance, PTL DEF Spec

\* Whatever runs were stopped before it and whatever times clients send, each
\* generator finds the documents, stock and tasks of its run that it looks for.
THEOREM NoSearchFails == Spec => []NothingIsMissing
  <1>1. IInv /\ WorkInv => NothingIsMissing
    BY AllFound
  <1> QED
    BY <1>1, Invariance, WorkHolds, PTL

-----------------------------------------------------------------------------
(* Why a run fails.                                                         *)

\* Generators that work through the picking tasks of a run.
Picks == {"PickingTaskStarted", "PickingCompleted", "PackingTaskCreated"}

\* While a run picks, only stock of its own order is RESERVED and its tasks are
\* those the loop has left, the one it works on, and those COMPLETED; a run that
\* ended well has left nothing RESERVED.
PickingInv ==
  /\ \A r \in Runs : run[r].status = "RUNNING" /\ run[r].step \in Picks =>
       /\ \A a \in ReservedAllocations : a[1] = r
       /\ \A t \in TaskIds : t[1] = r =>
            \/ t \in todo \/ picking[t].status \in {"NONE", "COMPLETED"}
            \/ picking[t].status = "STARTED" /\ run[r].step = "PickingCompleted"
       /\ \A s, t \in TaskIds : s[1] = r /\ t[1] = r /\ picking[s].status = "STARTED"
            /\ picking[t].status = "STARTED" => s = t
       /\ run[r].step = "PackingTaskCreated" => todo = {}
  /\ \A r \in Runs : run[r].status = "SUCCESS" =>
       \A p \in Products : allocations[<<r, p>>].status # "RESERVED"
  /\ \A t \in TaskIds : picking[t].status # "NONE" => picking[t].order <= t[1]

\* A run that picks has created the tasks of its order and no others carry it.
LEMMA PickingStep ==
  ASSUME IInv, InboundWork, Chronicle, PickingInv, NEW r \in Runs, Step(r)
  PROVE  PickingInv'
  <1> USE DEF Running
  <1>0. /\ \A q \in Runs : q # r => run'[q] = run[q] /\ run'[q].status # "RUNNING"
        /\ OutboundWork /\ ChronologyInv /\ Picks \subseteq OutboundSteps
        /\ OutboundSteps \cap InboundSteps = {}
        /\ picking \in [TaskIds -> PickingTasks]
    BY RunStep DEF Chronicle, Picks, OutboundSteps, InboundSteps, IInv, TypeOK
  <1>1. ASSUME run'[r].status = "RUNNING", run'[r].step \in Picks
        PROVE  /\ \A a \in ReservedAllocations' : a[1] = r
               /\ \A t \in TaskIds : t[1] = r =>
                    \/ t \in todo' \/ picking'[t].status \in {"NONE", "COMPLETED"}
                    \/ picking'[t].status = "STARTED" /\ run'[r].step = "PickingCompleted"
               /\ \A s, t \in TaskIds : s[1] = r /\ t[1] = r /\ picking'[s].status = "STARTED"
                    /\ picking'[t].status = "STARTED" => s = t
               /\ run'[r].step = "PackingTaskCreated" => todo' = {}
    <2>1. OutboundNext(r) /\ run[r].status = "RUNNING" /\ ~Fail(r)
      <3>1. OutboundNext(r) /\ run[r].status = "RUNNING"
        BY <1>0, <1>1, RunStep DEF Picks, InboundSteps
      <3> QED
        BY <1>1, <3>1, Failed
    <2>2. OutboundMove(r)
      BY <2>1, OutboundMoves
    <2>3. CASE PickingTaskCreated(r)
      <3>1. /\ todo' = {r} \X ReservedAllocations
            /\ \A a \in ReservedAllocations : a[1] = r
            /\ picking' = [t \in TaskIds |->
                 IF t[1] = r /\ AllocationOf(t) \in ReservedAllocations
                 THEN [status |-> "CREATED", order |-> r] ELSE picking[t]]
        BY <1>0, <2>1, <2>3, OwnTasksOnly
      <3>2. run'[r].step = "PickingTaskStarted" /\ run[r].step = "PickingTaskCreated"
        BY <2>2, <2>1, <2>3, OneGenerator DEF OutboundMove
      <3>3. ReservedAllocations' = ReservedAllocations
        BY <2>3 DEF PickingTaskCreated, ReservedAllocations
      <3>4. ASSUME NEW t \in TaskIds, t[1] = r
            PROVE  \/ t \in todo' /\ picking'[t].status = "CREATED"
                   \/ picking'[t].status = "NONE"
        <4>1. picking[t].status = "NONE"
          BY <2>1, <3>2, <3>4 DEF IInv, TaskInv, Unassigned
        <4>2. t = <<r, AllocationOf(t)>>
          BY <3>4, QuantityType DEF IInv
        <4>3. CASE AllocationOf(t) \in ReservedAllocations
          <5>1. picking'[t] = [status |-> "CREATED", order |-> r]
            BY <3>1, <3>4, <4>3
          <5>2. PICK a \in ReservedAllocations : a = AllocationOf(t)
            BY <4>3
          <5>3. t \in {r} \X ReservedAllocations
            BY <4>2, <5>2
          <5> QED
            BY <3>1, <5>1, <5>3
        <4>4. CASE AllocationOf(t) \notin ReservedAllocations
          BY <3>1, <4>1, <4>4
        <4> QED
          BY <4>3, <4>4
      <3> QED
        BY <3>1, <3>2, <3>3, <3>4
    <2>4. CASE PickingTaskStarted(r)
      <3>1. PICK u \in todo : /\ todo' = todo \ {u} /\ allocations' = allocations
                              /\ IF picking[u].status = "CREATED"
                                 THEN picking' = [picking EXCEPT ![u].status = "STARTED"]
                                 ELSE UNCHANGED picking
        BY <2>4 DEF PickingTaskStarted, Rest
      <3>2. run'[r].step = "PickingCompleted" /\ run[r].step = "PickingTaskStarted"
        BY <2>1, <2>2, <2>4, OneGenerator DEF OutboundMove
      <3>3. u \in TaskIds /\ u[1] = r /\ picking[u].status = "CREATED"
        BY <1>0, <2>1, <3>1, <3>2 DEF ChronologyInv
      <3>4. /\ picking'[u] = [picking[u] EXCEPT !.status = "STARTED"] /\ picking[u] \in PickingTasks
            /\ \A t \in TaskIds : t # u => picking'[t] = picking[t]
        BY <1>0, <3>1, <3>3
      <3>5. picking'[u].status = "STARTED"
        BY <3>4 DEF PickingTasks
      <3>6. /\ \A a \in ReservedAllocations : a[1] = r
            /\ \A t \in TaskIds : t[1] = r => t \in todo \/ picking[t].status \in {"NONE", "COMPLETED"}
        BY <2>1, <3>2 DEF PickingInv, Picks
      <3>7. \A t \in todo : picking[t].status = "CREATED"
        BY <1>0, <2>1, <3>2 DEF ChronologyInv
      <3>8. ReservedAllocations' = ReservedAllocations
        BY <3>1 DEF ReservedAllocations
      <3>9. \A t \in TaskIds : t[1] = r /\ t # u =>
              /\ t \in todo' \/ picking'[t].status \in {"NONE", "COMPLETED"}
              /\ picking'[t].status # "STARTED"
        BY <3>1, <3>4, <3>6, <3>7
      <3> QED
        BY <3>2, <3>5, <3>6, <3>8, <3>9
    <2>5. CASE PickingCompleted(r)
      <3>1. PICK u \in TaskIds :
              /\ picking[u].status = "STARTED"
              /\ picking' = [picking EXCEPT ![u].status = "COMPLETED"]
              /\ allocations' = [allocations EXCEPT ![AllocationOf(u)].status = "PICKED"]
              /\ todo = {} <=> run'[r].step = "PackingTaskCreated"
              /\ todo' = todo
        BY <2>1, <2>5, PickEffect
      <3>2. run[r].step = "PickingCompleted"
        BY <2>5, OneGenerator
      <3>3. /\ \A a \in ReservedAllocations : a[1] = r
            /\ \A t \in TaskIds : t[1] = r =>
                 t \in todo \/ picking[t].status \in {"NONE", "COMPLETED", "STARTED"}
            /\ \A s, t \in TaskIds : s[1] = r /\ t[1] = r /\ picking[s].status = "STARTED"
                 /\ picking[t].status = "STARTED" => s = t
        BY <2>1, <3>2 DEF PickingInv, Picks
      <3>4. u[1] = r
        <4>1. u[2][1] = u[1] /\ allocations[u[2]].status = "RESERVED"
          BY <1>0, <3>1 DEF ChronologyInv
        <4>2. u[2] \in ReservedAllocations
          BY <3>1, <4>1, QuantityType DEF ReservedAllocations, IInv, AllocationOf
        <4> QED
          BY <3>3, <4>1, <4>2
      <3>5. /\ picking'[u] = [picking[u] EXCEPT !.status = "COMPLETED"] /\ picking[u] \in PickingTasks
            /\ \A t \in TaskIds : t # u => picking'[t] = picking[t]
        BY <1>0, <3>1
      <3>6. picking'[u].status = "COMPLETED"
        BY <3>5 DEF PickingTasks
      <3>7. \A t \in TaskIds : t[1] = r =>
              /\ t \in todo' \/ picking'[t].status \in {"NONE", "COMPLETED"}
              /\ picking'[t].status # "STARTED"
        BY <3>1, <3>3, <3>4, <3>5, <3>6
      <3>8. ReservedAllocations' \subseteq ReservedAllocations
        <4> SUFFICES ASSUME NEW a \in AllocationIds, allocations'[a].status = "RESERVED"
                     PROVE  allocations[a].status = "RESERVED"
          BY DEF ReservedAllocations
        <4>1. PICK b : b = AllocationOf(u)
          OBVIOUS
        <4>2. allocations' = [allocations EXCEPT ![b].status = "PICKED"]
          BY <3>1, <4>1
        <4>3. allocations \in [AllocationIds -> Allocations] /\ allocations[a] \in Allocations
          BY DEF IInv, TypeOK
        <4>4. CASE a = b
          <5>1. allocations'[a] = [allocations[a] EXCEPT !.status = "PICKED"]
            BY <4>2, <4>3, <4>4
          <5>2. allocations'[a].status = "PICKED"
            BY <4>3, <5>1 DEF Allocations
          <5> QED
            BY <5>2
        <4>5. CASE a # b
          BY <4>2, <4>3, <4>5
        <4> QED
          BY <4>4, <4>5
      <3> QED
        BY <3>1, <3>3, <3>7, <3>8
    <2> QED
      BY <1>1, <2>1, <2>2, <2>3, <2>4, <2>5 DEF OutboundMove, Picks
  <1>2. ASSUME NEW q \in Runs, run'[q].status = "SUCCESS", NEW p \in Products
        PROVE  allocations'[<<q, p>>].status # "RESERVED"
    <2>1. AllocationEffect(r, q, p)
      BY AllocationsStep
    <2>2. allocations[<<q, p>>].status # "RESERVED"
      <3>1. CASE run[q].status = "SUCCESS"
        BY <3>1 DEF PickingInv
      <3>2. CASE run[q].status # "SUCCESS"
        <4>1. q = r /\ run[q].status = "RUNNING"
          BY <1>0, <1>2, <3>2, RunStep
        <4>2. CASE run[q].flow = "inbound"
          <5>1. allocations[<<q, p>>].status = "NONE"
            BY <4>2 DEF IInv, AllocationInv, Unallocated, Unordered
          <5> QED
            BY <5>1
        <4>3. CASE run[q].flow # "inbound"
          <5>1. \A k \in Ordered(q) : allocations[<<q, k>>].status = "PICKED"
            BY <1>0, <1>2, <4>1, <4>3, SuccessStep
          <5>2. allocations[<<q, p>>].status # "NONE" => p \in Ordered(q)
            BY DEF IInv, AllocationInv, Ordered
          <5> QED
            BY <5>1, <5>2
        <4> QED
          BY <4>2, <4>3
      <3> QED
        BY <3>1, <3>2
    <2>3. ~(q = r /\ OutboundNext(r))
      <3>1. ASSUME OutboundNext(r) PROVE run'[r].status # "SUCCESS"
        <4>1. (\E step \in OutboundSteps \cup {"Exit"} : Advance(r, step)) \/ Fail(r)
          BY <3>1, GeneratorRun
        <4>2. run'[r].status \in {run[r].status, "FAILED"} /\ run[r].status = "RUNNING"
          BY <3>1, <4>1, AdvanceRun, Failed, GeneratorRun DEF IInv
        <4> QED
          BY <4>2
      <3> QED
        BY <1>2, <3>1
    <2> QED
      BY <2>1, <2>2, <2>3 DEF AllocationEffect
  <1>3. ASSUME NEW t \in TaskIds, picking'[t].status # "NONE"
        PROVE  picking'[t].order <= t[1]
    <2>1. TaskEffect(r, t)
      BY TasksStep
    <2>2. CASE PickingTaskCreated(r) /\ t[1] = r /\ AllocationOf(t) \in ReservedAllocations
      <3>1. PICK first \in Earliest(ReservedAllocations) :
              picking' = [s \in TaskIds |->
                IF s[1] = r /\ AllocationOf(s) \in ReservedAllocations
                THEN [status |-> "CREATED", order |-> first[1]]
                ELSE picking[s]]
        BY <2>2 DEF PickingTaskCreated
      <3>2. first \in AllocationIds /\ allocations[first].status = "RESERVED"
        BY DEF Earliest, ReservedAllocations
      <3>3. first[1] <= r
        BY <2>2, <3>2, EarlierOrder DEF PickingTaskCreated
      <3>4. picking'[t] = [status |-> "CREATED", order |-> first[1]]
        BY <2>2, <3>1
      <3> QED
        BY <2>2, <3>3, <3>4
    <2>3. CASE ~(PickingTaskCreated(r) /\ t[1] = r /\ AllocationOf(t) \in ReservedAllocations)
      BY <1>3, <2>1, <2>3 DEF PickingInv, TaskEffect
    <2> QED
      BY <2>2, <2>3
  <1> QED
    BY <1>0, <1>1, <1>2, <1>3 DEF PickingInv

\* What run r lacks when its generator raises.  The error paths that are not listed
\* (an allocation that no longer fits, stock that is not RECEIVED, a reservation
\* that does not cover its picking task, a picking task that is still open) are
\* never taken.
Wanting(r) ==
  \/ Running(r, "ReceivingTaskCreated") /\ AvailableWorkers = {}
  \/ Running(r, "PackingCompleted") /\ AvailableWorkers = {}
  \/ /\ Running(r, "InventoryPutaway")
     /\ \E p \in todo : \A l \in Locations :
          Capacity - utilization[l] <
            (IF l = inventory[p].location THEN receipts[r].lines[p] ELSE Available(p))
  \/ /\ Running(r, "OrderCreated")
     /\ \A p \in Products : ~(inventory[p].status = "AVAILABLE" /\ Available(p) > 0)
  \/ Running(r, "OrderItemCreated") /\ \A p \in Products : ~Allocatable(p)
  \/ /\ Running(r, "PickingTaskCreated")
     /\ \E q \in Runs : /\ q < r /\ run[q].status \in {"FAILED", "INTERRUPTED"}
                        /\ \E p \in Products : allocations[<<q, p>>].status = "RESERVED"
  \/ Running(r, "Transportation")

\* A run that fails lacks one of these.
FailsOnlyForWant ==
  [][\A r \in Runs : run[r].status = "RUNNING" /\ run'[r].status = "FAILED" => Wanting(r)]_vars

\* When no location takes a product, none has room for it.
LEMMA NoRoom ==
  ASSUME IInv, NEW r \in Runs, NEW p \in Products, Putaways(p, receipts[r].lines[p]) = {},
         NEW l \in Locations
  PROVE  Capacity - utilization[l] <
           (IF l = inventory[p].location THEN receipts[r].lines[p] ELSE Available(p))
  <1>0. /\ utilization \in [Locations -> Nat] /\ Capacity \in Nat
        /\ receipts[r].lines[p] \in Nat /\ Available(p) \in Int
    BY QuantityAssumption, ReceiptFields, RowFields DEF IInv, TypeOK, Available
  <1>1. PICK at : at = inventory[p].location
    OBVIOUS
  <1>2. ~(at # NoLocation /\ Capacity - utilization[at] >= receipts[r].lines[p])
          /\ StorageFor(Available(p), at) = {}
    <2>1. CASE inventory[p].location # NoLocation
                 /\ Capacity - utilization[inventory[p].location] >= receipts[r].lines[p]
      <3>1. \E put : put \in Putaways(p, receipts[r].lines[p])
        BY <2>1 DEF Putaways
      <3> QED
        BY <3>1
    <2>2. CASE ~(inventory[p].location # NoLocation
                 /\ Capacity - utilization[inventory[p].location] >= receipts[r].lines[p])
      <3>1. ASSUME NEW m \in StorageFor(Available(p), at)
            PROVE  FALSE
        <4>1. PICK base : Putaways(p, receipts[r].lines[p]) =
                {[location |-> k, utilization |-> [base EXCEPT ![k] = @ + Available(p)]] :
                   k \in StorageFor(Available(p), inventory[p].location)}
          BY <2>2 DEF Putaways
        <4>2. PICK S : S = StorageFor(Available(p), inventory[p].location)
          OBVIOUS
        <4>3. {[location |-> k, utilization |-> [base EXCEPT ![k] = @ + Available(p)]] : k \in S} = {}
          BY <4>1, <4>2
        <4>4. m \in S
          BY <1>1, <3>1, <4>2
        <4> QED
          BY <4>3, <4>4
      <3> QED
        BY <1>1, <2>2, <3>1
    <2> QED
      BY <2>1, <2>2
  <1>3. CASE l = at
    BY <1>0, <1>1, <1>2, <1>3, LocationAssumption
  <1>4. CASE l # at
    <2>1. PICK fits : fits = {m \in Locations \ {at} : Capacity - utilization[m] >= Available(p)}
      OBVIOUS
    <2>2. IsFiniteSet(fits)
      BY <2>1, FiniteAssumption, FS_Subset
    <2>3. \A m \in fits : utilization[m] \in Int
      BY <1>0, <2>1
    <2>4. ASSUME fits # {} PROVE FALSE
      <3>1. \E x \in fits : \A y \in fits : utilization[x] <= utilization[y]
        BY <2>2, <2>3, <2>4, LeastExists
      <3> QED
        BY <1>2, <2>1, <3>1 DEF StorageFor
    <2> QED
      BY <1>0, <1>1, <1>4, <2>1, <2>4
  <1> QED
    BY <1>3, <1>4

\* A STARTED task has its quantity on hand and reserved.
LEMMA TaskIsCovered ==
  ASSUME IInv, Chronicle, NEW t \in TaskIds, picking[t].status = "STARTED"
  PROVE  CanPick(AllocationOf(t))
  <1>1. PICK a \in AllocationIds : /\ a = AllocationOf(t) /\ a = t[2] /\ a[2] \in Products
                                   /\ Quantity(a) \in Nat \ {0}
    BY TaskQuantity DEF AllocationOf
  <1>2. PICK p \in Products : p = a[2]
    BY <1>1
  <1>3. allocations[a].status = "RESERVED"
    BY <1>1 DEF Chronicle, ChronologyInv
  <1>4. a \in Promised(p)
    BY <1>2, <1>3 DEF Promised, ReservedAllocations
  <1>5. PICK n, S : n = [b \in AllocationIds |-> Quantity(b)] /\ S = Promised(p)
    OBVIOUS
  <1>6. IsFiniteSet(S) /\ S \subseteq AllocationIds
    BY <1>5, FinitePromises DEF Promised, ReservedAllocations
  <1>7. \A b \in S : n[b] \in Nat
    <2> SUFFICES ASSUME NEW b \in S PROVE n[b] \in Nat
      OBVIOUS
    <2>1. PICK o \in Runs, k \in Products : b = <<o, k>>
      BY <1>6 DEF AllocationIds
    <2>2. orders[o] \in Orders
      BY DEF IInv, TypeOK
    <2>3. orders[o].items[k] \in Nat
      BY <2>2, OrderFields, QuantityAssumption
    <2> QED
      BY <1>5, <1>6, <2>1, <2>3 DEF Quantity
  <1>8. a \in S /\ n[a] = Quantity(a)
    BY <1>4, <1>5
  <1>9. n[a] <= Total(n, S)
    BY <1>6, <1>7, <1>8, TotalBound
  <1>10. inventory[p].reserved = Total(n, S)
    BY <1>5 DEF Chronicle, ReservedIsAllocated, Promised
  <1>11. /\ inventory[p] \in InventoryRows /\ inventory[p].reserved <= inventory[p].onHand
    BY DEF IInv, TypeOK, StockInv
  <1> QED
    BY <1>1, <1>2, <1>8, <1>9, <1>10, <1>11, RowFields DEF CanPick

\* Every run that fails lacks something.
LEMMA FailureStep ==
  ASSUME IInv, WorkInv, Chronicle, PickingInv, NEW r \in Runs, Step(r), NEW q \in Runs,
         run[q].status = "RUNNING", run'[q].status = "FAILED"
  PROVE  Wanting(q)
  <1> USE DEF Running
  <1>0. q = r /\ Found(r) /\ \A s \in Runs : s # r => run[s].status # "RUNNING"
    BY RunStep, AllFound DEF NothingIsMissing
  <1>1. CASE StartsRun(r)
    BY <1>0, <1>1 DEF StartsRun, StartRun
  <1>2. CASE EndsRun(r)
    <2>1. \E status \in {"SUCCESS", "INTERRUPTED"} : run' = [run EXCEPT ![r].status = status]
      BY <1>2 DEF EndsRun, RunnerExits, Interrupt
    <2> QED
      BY <1>0, <2>1, EndRun DEF IInv
  <1>3. \A step \in InboundSteps \cup OutboundSteps \cup {"Exit"} : ~Advance(r, step)
    BY <1>0, AdvanceRun DEF IInv
  <1>4. run' # run
    BY <1>0
  <1>5. CASE InboundNext(r)
    <2>1. CASE ReceivingTaskCreated(r)
      BY <1>0, <1>3, <2>1 DEF ReceivingTaskCreated, InboundSteps, Wanting
    <2>2. CASE StockIncreased(r)
      BY <1>0, <1>3, <1>4, <2>2 DEF StockIncreased, InboundSteps, Found
    <2>3. CASE InventoryPutaway(r)
      <3>1. PICK p \in todo : Putaways(p, receipts[r].lines[p]) = {}
        BY <1>3, <1>4, <2>3 DEF InventoryPutaway
      <3>2. run[r].status = "RUNNING" /\ run[r].step = "InventoryPutaway"
        BY <2>3 DEF InventoryPutaway
      <3>3. p \in Products
        BY <3>1, <3>2 DEF IInv, TodoInv, Received
      <3> QED
        BY <1>0, <3>1, <3>2, <3>3, NoRoom DEF Wanting
    <2> QED
      BY <1>3, <1>5, <2>1, <2>2, <2>3 DEF InboundNext, PurchaseOrderCreated, PurchaseOrderApproved,
         SupplierShipmentCreated, ASNReceived, SupplierShipmentDelivered, ReceivingTaskStarted,
         GoodsReceived, InboundSteps
  <1>6. CASE OutboundNext(r)
    <2>0. run[r].status = "RUNNING" /\ Fail(r) /\ run[r].flow = "outbound"
      <3>1. (\E step \in OutboundSteps \cup {"Exit"} : Advance(r, step)) \/ Fail(r)
        BY <1>6, GeneratorRun
      <3>2. run[r].status = "RUNNING" /\ run[r].step \in OutboundSteps
        BY <1>6, GeneratorRun
      <3> QED
        BY <1>3, <3>1, <3>2, RunFields DEF IInv, RunInv, Flows, FirstStep, InboundSteps, OutboundSteps
    <2>1. CASE SeedInventory(r) \/ PickingTaskStarted(r) \/ PackingTaskStarted(r) \/ ShipmentReady(r)
      BY <1>3, <2>1 DEF SeedInventory, PickingTaskStarted, PackingTaskStarted, ShipmentReady, OutboundSteps
    <2>2. CASE OrderCreated(r)
      BY <1>0, <1>3, <2>2 DEF OrderCreated, OutboundSteps, Wanting
    <2>3. CASE OrderItemCreated(r)
      BY <1>0, <1>3, <2>3 DEF OrderItemCreated, OutboundSteps, Wanting
    <2>4. CASE InventoryAllocationCreated(r)
      BY <1>0, <1>3, <2>4 DEF InventoryAllocationCreated, OutboundSteps, Found
    <2>5. CASE InventoryReserved(r)
      BY <1>0, <1>3, <2>5 DEF InventoryReserved, OutboundSteps, Found
    <2>6. CASE PickingTaskCreated(r)
      <3>1. PICK first \in Earliest(ReservedAllocations) : first[1] # r
        BY <1>3, <2>6 DEF PickingTaskCreated, OutboundSteps
      <3>2. first \in AllocationIds /\ allocations[first].status = "RESERVED"
        BY DEF Earliest, ReservedAllocations
      <3>3. PICK o \in Runs, p \in Products : first = <<o, p>>
        BY <3>2 DEF AllocationIds
      <3>4. o < r
        BY <2>0, <3>1, <3>2, <3>3, EarlierOrder DEF Runs
      <3>5. run[o].status # "WAITING"
        <4>1. ~Unallocated(o)
          BY <3>2, <3>3 DEF IInv, AllocationInv
        <4> QED
          BY <4>1 DEF Unallocated, Unordered, IInv, RunInv
      <3>6. run[o].status # "SUCCESS"
        BY <3>2, <3>3 DEF PickingInv
      <3>7. run[o].status \in {"FAILED", "INTERRUPTED"}
        BY <1>0, <3>1, <3>3, <3>5, <3>6, RunFields DEF IInv
      <3>8. run[r].step = "PickingTaskCreated"
        BY <2>6, OneGenerator
      <3> QED
        BY <1>0, <2>0, <3>2, <3>3, <3>4, <3>7, <3>8 DEF Wanting
    <2>7. CASE PickingCompleted(r)
      <3>1. PICK t \in TaskIds : picking[t].status = "STARTED" /\ ~CanPick(AllocationOf(t))
        <4>1. PICK t \in Earliest({s \in TaskIds : picking[s].status = "STARTED"}) :
                CanPick(AllocationOf(t)) =>
                  Advance(r, IF todo = {} THEN "PackingTaskCreated" ELSE "PickingTaskStarted")
          BY <2>7 DEF PickingCompleted
        <4>2. ~CanPick(AllocationOf(t))
          BY <1>3, <4>1 DEF OutboundSteps
        <4> QED
          BY <4>1, <4>2 DEF Earliest
      <3> QED
        BY <3>1, TaskIsCovered
    <2>8. CASE PackingTaskCreated(r)
      <3>1. run[r].step = "PackingTaskCreated" /\ ~PickingDone(r)
        BY <1>3, <2>8 DEF PackingTaskCreated, OutboundSteps
      <3>2. Ordered(r) # {}
        BY <2>0, <3>1 DEF WorkInv, OrderInv, Unordered
      <3>3. PICK p \in Ordered(r) : picking[<<r, <<r, p>>>>].status # "NONE"
                                     /\ picking[<<r, <<r, p>>>>].order = r
        BY <2>0, <3>1, <3>2 DEF WorkInv, OutboundWork, Assigned
      <3>4. p \in Products
        BY DEF Ordered
      <3>5. <<r, <<r, p>>>> \in TasksOf(r)
        BY <3>3, <3>4, OwnTask DEF TasksOf
      <3>6. ASSUME NEW t \in TasksOf(r)
            PROVE  picking[t].status = "COMPLETED"
        <4>1. t \in TaskIds /\ picking[t].status # "NONE" /\ picking[t].order = r /\ t[1] \in Runs
          BY QuantityType DEF TasksOf, IInv
        <4>2. r <= t[1]
          BY <4>1 DEF PickingInv
        <4>3. CASE t[1] = r
          BY <2>0, <3>1, <4>1, <4>3 DEF PickingInv, Picks
        <4>4. CASE t[1] # r
          <5>1. t[1] > r
            BY <4>1, <4>2, <4>4 DEF Runs
          <5>2. run[t[1]].status = "WAITING"
            BY <2>0, <4>1, <5>1 DEF IInv, RunInv
          <5>3. run[t[1]].flow = "none"
            BY <4>1, <5>2 DEF IInv, RunInv
          <5>4. Unassigned(t[1])
            BY <5>3 DEF Unassigned, Unreserved, Unallocated, Unordered
          <5> QED
            BY <4>1, <5>4 DEF IInv, TaskInv
        <4> QED
          BY <4>3, <4>4
      <3> QED
        BY <3>1, <3>5, <3>6 DEF PickingDone
    <2>9. CASE PackingCompleted(r)
      BY <1>0, <1>3, <2>9 DEF PackingCompleted, OutboundSteps, Wanting
    <2>10. CASE Transportation(r)
      BY <1>0, <2>10 DEF Transportation, Wanting
    <2> QED
      BY <1>6, <2>1, <2>2, <2>3, <2>4, <2>5, <2>6, <2>7, <2>8, <2>9, <2>10 DEF OutboundNext
  <1> QED
    BY <1>1, <1>2, <1>5, <1>6 DEF Step

LEMMA PickingHolds == Stamps = {} /\ Spec => []PickingInv
  <1>1. Init => PickingInv
    <2> SUFFICES ASSUME Init PROVE PickingInv
      OBVIOUS
    <2>1. /\ \A r \in Runs : run[r].status = "WAITING"
          /\ \A t \in TaskIds : picking[t].status = "NONE"
      BY DEF Init, WarehouseInit, OutboundInit
    <2> QED
      BY <2>1 DEF PickingInv
  <1>2. IInv /\ WorkInv /\ Chronicle /\ PickingInv /\ [Next]_vars => PickingInv'
    <2> SUFFICES ASSUME IInv, WorkInv, Chronicle, PickingInv, [Next]_vars PROVE PickingInv'
      OBVIOUS
    <2>1. CASE UNCHANGED vars
      BY <2>1 DEF vars, warehouseVars, outboundVars, PickingInv, ReservedAllocations
    <2> QED
      BY <2>1, Steps, PickingStep DEF WorkInv
  <1> QED
    BY <1>1, <1>2, Invariance, WorkHolds, ChronicleHolds, PTL DEF Spec

\* When no client sends a timestamp, a run fails only for want of a worker, of room,
\* of stock, because an earlier run that stopped has left stock RESERVED, or in
\* transportation.
THEOREM FailuresHaveACause == Stamps = {} /\ Spec => FailsOnlyForWant
  <1>1. IInv /\ WorkInv /\ Chronicle /\ PickingInv /\ [Next]_vars =>
          [\A r \in Runs : run[r].status = "RUNNING" /\ run'[r].status = "FAILED" => Wanting(r)]_vars
    BY Steps, FailureStep
  <1> QED
    BY <1>1, Invariance, WorkHolds, ChronicleHolds, PickingHolds, PTL DEF Spec, FailsOnlyForWant
=============================================================================
