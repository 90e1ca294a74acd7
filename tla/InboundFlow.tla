----------------------------- MODULE InboundFlow -----------------------------
(***************************************************************************)
(* The inbound flow: a purchase order becomes a supplier shipment, the     *)
(* shipment is received by a worker, and what it brought is put away.      *)
(* The generators find the rows of their own run by its correlation id;    *)
(* receipts[r] holds those of run r.                                       *)
(***************************************************************************)
EXTENDS Warehouse

VARIABLE receipts

Receipts ==
  [po : {"NONE", "CREATED", "APPROVED"},
   lines : [Products -> 0..MaxOrdered],
   shipment : {"NONE", "CREATED", "ASN_RECEIVED", "DELIVERED", "RECEIVING", "RECEIVED"},
   task : {"NONE", "CREATED", "STARTED", "COMPLETED"},
   worker : Workers \cup {NoWorker}]

InboundInit ==
  receipts = [r \in Runs |-> [po |-> "NONE", lines |-> [p \in Products |-> 0],
                              shipment |-> "NONE", task |-> "NONE", worker |-> NoWorker]]

\* The products a run's shipment brings.
Received(r) == {p \in Products : receipts[r].lines[p] > 0}

PurchaseOrderCreated(r) ==
  /\ Running(r, "PurchaseOrderCreated")
  /\ \E lines \in [Products -> 0..MaxOrdered] :
       /\ \E p \in Products : lines[p] > 0
       /\ receipts' = [receipts EXCEPT ![r].po = "CREATED", ![r].lines = lines]
  /\ Advance(r, "PurchaseOrderApproved")
  /\ UNCHANGED <<inventory, utilization, busy, todo, interrupts>>

\* The generators that only move a document of the run from one status to the next.
PurchaseOrderApproved(r) ==
  /\ Running(r, "PurchaseOrderApproved")
  /\ receipts[r].po = "CREATED"
  /\ receipts' = [receipts EXCEPT ![r].po = "APPROVED"]
  /\ Advance(r, "SupplierShipmentCreated")
  /\ UNCHANGED <<inventory, utilization, busy, todo, interrupts>>

SupplierShipmentCreated(r) ==
  /\ Running(r, "SupplierShipmentCreated")
  /\ receipts[r].po = "APPROVED" /\ receipts[r].shipment = "NONE"
  /\ receipts' = [receipts EXCEPT ![r].shipment = "CREATED"]
  /\ Advance(r, "ASNReceived")
  /\ UNCHANGED <<inventory, utilization, busy, todo, interrupts>>

ASNReceived(r) ==
  /\ Running(r, "ASNReceived")
  /\ receipts[r].shipment = "CREATED"
  /\ receipts' = [receipts EXCEPT ![r].shipment = "ASN_RECEIVED"]
  /\ Advance(r, "SupplierShipmentDelivered")
  /\ UNCHANGED <<inventory, utilization, busy, todo, interrupts>>

SupplierShipmentDelivered(r) ==
  /\ Running(r, "SupplierShipmentDelivered")
  /\ receipts[r].shipment = "ASN_RECEIVED"
  /\ receipts' = [receipts EXCEPT ![r].shipment = "DELIVERED"]
  /\ Advance(r, "ReceivingTaskCreated")
  /\ UNCHANGED <<inventory, utilization, busy, todo, interrupts>>

\* A worker who is AVAILABLE is assigned; the task does not make it BUSY yet.
ReceivingTaskCreated(r) ==
  /\ Running(r, "ReceivingTaskCreated")
  /\ receipts[r].shipment = "DELIVERED" /\ receipts[r].task = "NONE"
  /\ \/ \E w \in AvailableWorkers :
          /\ receipts' = [receipts EXCEPT ![r].task = "CREATED", ![r].worker = w]
          /\ Advance(r, "ReceivingTaskStarted")
          /\ UNCHANGED todo
     \/ /\ AvailableWorkers = {}
        /\ Fail(r)
        /\ UNCHANGED receipts
  /\ UNCHANGED <<inventory, utilization, busy, interrupts>>

ReceivingTaskStarted(r) ==
  /\ Running(r, "ReceivingTaskStarted")
  /\ receipts[r].task = "CREATED"
  /\ receipts' = [receipts EXCEPT ![r].task = "STARTED", ![r].shipment = "RECEIVING"]
  /\ busy' = busy \cup {receipts[r].worker}
  /\ Advance(r, "GoodsReceived")
  /\ UNCHANGED <<inventory, utilization, todo, interrupts>>

Arrived_Overwrites(r) == [p \in Products |->
  IF p \notin Received(r) THEN inventory[p]
  ELSE IF inventory[p].creator = 0
  THEN [NoRow EXCEPT !.onHand = receipts[r].lines[p], !.status = "RECEIVED", !.creator = r]
  ELSE [inventory[p] EXCEPT !.onHand = receipts[r].lines[p], !.status = "RECEIVED"]]

\* The inventory with run r's shipment.  A row that exists keeps its location but
\* is RECEIVED, not AVAILABLE, until StockIncreased.
Arrived(r) == [p \in Products |->
  IF p \notin Received(r) THEN inventory[p]
  ELSE IF inventory[p].creator = 0
  THEN [NoRow EXCEPT !.onHand = receipts[r].lines[p], !.status = "RECEIVED", !.creator = r]
  ELSE [inventory[p] EXCEPT !.onHand = @ + receipts[r].lines[p], !.status = "RECEIVED"]]

\* The runner then loops over the rows the run received.
GoodsReceived(r) ==
  /\ Running(r, "GoodsReceived")
  /\ receipts[r].task = "STARTED"
  /\ inventory' = Arrived(r)
  /\ receipts' = [receipts EXCEPT ![r].task = "COMPLETED", ![r].shipment = "RECEIVED"]
  /\ busy' = busy \ {receipts[r].worker}
  /\ todo' = Received(r)
  /\ Advance(r, "StockIncreased")
  /\ UNCHANGED <<utilization, interrupts>>

StockIncreased(r) ==
  /\ Running(r, "StockIncreased")
  /\ \E p \in todo :
       IF inventory[p].status = "RECEIVED" /\ inventory[p].onHand > 0 /\ Available(p) >= 0
       THEN /\ inventory' = [inventory EXCEPT ![p].status = "AVAILABLE"]
            /\ IF Rest(p) = {}
               THEN todo' = Received(r) /\ Advance(r, "InventoryPutaway")
               ELSE todo' = Rest(p) /\ UNCHANGED run
       ELSE Fail(r) /\ UNCHANGED inventory
  /\ UNCHANGED <<utilization, busy, interrupts, receipts>>

-----------------------------------------------------------------------------
(* Putaway.                                                                 *)

StorageFor_AnyRoom(n, except) ==
  LET others == Locations \ {except}
  IN  {l \in others : \A m \in others : utilization[l] <= utilization[m]}

\* The least used locations, other than one, with room for n more units.
StorageFor(n, except) ==
  LET fits == {l \in Locations \ {except} : Capacity - utilization[l] >= n}
  IN  {l \in fits : \A m \in fits : utilization[l] <= utilization[m]}

\* The utilization of every location once p is put away at l, or the empty
\* set of outcomes when no location has room.  Stock with a location stays there
\* if what arrived fits; otherwise all of it that is not reserved moves.
Putaways(p, arrived) ==
  LET at    == inventory[p].location
      total == Available(p)
      stays == at # NoLocation /\ Capacity - utilization[at] >= arrived
      left  == [utilization EXCEPT ![at] = AtLeastZero(@ - AtLeastZero(total - arrived))]
      base  == IF at = NoLocation THEN utilization ELSE left
  IN  IF stays
      THEN {[location |-> at, utilization |-> [utilization EXCEPT ![at] = @ + arrived]]}
      ELSE {[location |-> l, utilization |-> [base EXCEPT ![l] = @ + total]] :
              l \in StorageFor(total, at)}

InventoryPutaway(r) ==
  /\ Running(r, "InventoryPutaway")
  /\ \E p \in todo :
       \/ \E put \in Putaways(p, receipts[r].lines[p]) :
            /\ inventory[p].status = "AVAILABLE"
            /\ inventory' = [inventory EXCEPT ![p].location = put.location]
            /\ utilization' = put.utilization
            /\ todo' = Rest(p)
            /\ IF Rest(p) = {} THEN Advance(r, "Exit") ELSE UNCHANGED run
       \/ /\ Putaways(p, receipts[r].lines[p]) = {}
          /\ Fail(r)
          /\ UNCHANGED <<inventory, utilization>>
  /\ UNCHANGED <<busy, interrupts, receipts>>

InboundNext(r) ==
  \/ PurchaseOrderCreated(r)
  \/ PurchaseOrderApproved(r)
  \/ SupplierShipmentCreated(r)
  \/ ASNReceived(r)
  \/ SupplierShipmentDelivered(r)
  \/ ReceivingTaskCreated(r)
  \/ ReceivingTaskStarted(r)
  \/ GoodsReceived(r)
  \/ StockIncreased(r)
  \/ InventoryPutaway(r)
=============================================================================
