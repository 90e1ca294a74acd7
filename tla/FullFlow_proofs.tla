--------------------------- MODULE FullFlow_proofs ---------------------------
(***************************************************************************)
(* Proofs about FullFlow, for any requests, products, lines, faults and    *)
(* generators by hand: what SUCCESS means, and whose rows a runner works   *)
(* on.  One execution is on its way at a time, all before it are over and  *)
(* all after it have not begun; so whatever there is of its order and of   *)
(* its picking tasks it made itself, or an operator moved.                 *)
(***************************************************************************)
EXTENDS FullFlow, FiniteSetTheorems, TLAPS

Running(e) == at[e] \notin {"waiting", "done"}

Preparing  == {"reset", "remove report", "start"}
Receiving  == {"PurchaseOrderCreated", "PurchaseOrderApproved", "SupplierShipmentCreated",
               "ASNReceived", "SupplierShipmentDelivered", "ReceivingTaskCreated",
               "ReceivingTaskStarted", "GoodsReceived", "StockIncreased", "InventoryPutaway"}
Ordering   == {"LatestOrder", "OrderItemCreated", "InventoryAllocationCreated",
               "InventoryReserved", "PickingTaskCreated"}
PickingAt  == {"Picking", "PickingTaskStarted", "PickingRecheck", "PickingCompleted"}
PackingAt  == {"PackingTaskCreated", "Packing", "PackingTaskStarted", "PackingCompleted"}
Shipping   == {"Transportation", "ShipmentReady", "CarrierAssigned", "ShipmentPickedUp",
               "ShipmentInTransit", "ShipmentDelivered"}

Unordered  == {"waiting", "OrderCreated"} \cup Preparing \cup Receiving
Unpicked   == Unordered \cup Ordering
Fulfilling == PickingAt \cup PackingAt \cup Shipping

Succeeding(e) == at[e] \in {"save", "exited"} /\ ~context[e].failed

LockInv ==
  \A e \in Executions :
    /\ Running(e) => holder = e
    /\ at[e] # "waiting" =>
         corr[e] \in Executions /\ \A d \in Executions : d < e => at[d] = "done"

ContextOK(e) ==
  /\ context[e].order \in {0, e}
  /\ at[e] \in (Ordering \ {"LatestOrder"}) \cup Fulfilling => context[e].order = e
  /\ at[e] = "LatestOrder" => newest = e
  /\ at[e] \in {"ReceivingTaskStarted", "GoodsReceived"} => context[e].task \in Documents(e)
  /\ at[e] \in {"StockIncreased", "InventoryPutaway"} => context[e].ids \subseteq Receipts
  /\ at[e] \in PickingAt => context[e].ids \subseteq Tasks
  /\ at[e] \in PickingAt \ {"Picking"} => context[e].now \in Tasks
ContextInv == \A e \in Executions : ContextOK(e)

InboundOK(e) ==
  /\ at[e] \in {"StockIncreased", "InventoryPutaway", "OrderCreated"} \cup Ordering \cup Fulfilling
       \/ Succeeding(e) => context[e].task \in Executions /\ document[context[e].task] = 8
  /\ at[e] = "InventoryPutaway" =>
       \A r \in Received(e, document) : r \in context[e].ids \/ stock[r[2]] = "STORED"
  /\ at[e] \in {"OrderCreated"} \cup Ordering \cup Fulfilling \/ Succeeding(e) =>
       \A r \in Received(e, document) : stock[r[2]] = "STORED"
InboundInv == \A e \in Executions : InboundOK(e)

FreshInv ==
  \A e \in Executions :
    /\ at[e] \in Unordered => order[e] = NoOrder
    /\ at[e] \in Unpicked =>
         /\ order[e].picked = {} /\ packing[e] = "NONE"
         /\ \A t \in Tasks : t[1] = e => picking[t].status = "NONE"
TaskInv ==
  \A t \in Tasks : picking[t].status # "NONE" =>
    /\ t[2][1] <= t[1] /\ picking[t].order \in 1..t[1]
    /\ order[t[2][1]].status = "RESERVED" /\ t[2][2] \in 1..order[t[2][1]].lines
    /\ picking[t].status = "COMPLETED" => t[2][2] \in order[t[2][1]].picked
FulfilOK(e) ==
  /\ at[e] \in Fulfilling =>
       /\ \A i \in 1..order[e].lines :
            picking[<<e, <<e, i>>>>].status # "NONE" /\ picking[<<e, <<e, i>>>>].order = e
       /\ packing[e] # "NONE" => PickingDone(e)
  /\ at[e] \in PackingAt \ {"PackingTaskCreated"} => packing[e] # "NONE"
  /\ at[e] \in Shipping => packing[e] = "COMPLETED"
  /\ Succeeding(e) /\ context[e].window = "evening" => OrderIsDelivered(e)
FulfilInv == \A e \in Executions : FulfilOK(e)
ReportInv ==
  \A e \in Executions : at[e] = "exited" =>
    report[corr[e]] = [by |-> e, result |-> IF context[e].failed THEN "FAILED" ELSE "OK"]

IInv == /\ TypeOK /\ LockInv /\ ContextInv /\ InboundInv
        /\ FreshInv /\ TaskInv /\ FulfilInv /\ ReportInv

-----------------------------------------------------------------------------
(* Names of events.                                                         *)

LEMMA DocumentNames ==
  /\ DocumentFlow[1] = "PurchaseOrderCreated" /\ DocumentFlow[2] = "PurchaseOrderApproved"
  /\ DocumentFlow[3] = "SupplierShipmentCreated" /\ DocumentFlow[4] = "ASNReceived"
  /\ DocumentFlow[5] = "SupplierShipmentDelivered" /\ DocumentFlow[6] = "ReceivingTaskCreated"
  /\ DocumentFlow[7] = "ReceivingTaskStarted" /\ DocumentFlow[8] = "GoodsReceived"
  BY DEF DocumentFlow

LEMMA ShippingNames ==
  /\ Delivered = 5
  /\ TransportationFlow[1] = "ShipmentReady" /\ TransportationFlow[2] = "CarrierAssigned"
  /\ TransportationFlow[3] = "ShipmentPickedUp" /\ TransportationFlow[4] = "ShipmentInTransit"
  /\ TransportationFlow[5] = "ShipmentDelivered"
  BY DEF TransportationFlow, Delivered

\* Where a runner is when it executes a generator, by phase.
LEMMA EventNames ==
  /\ Events \cup Lookups =
       Receiving \cup {"OrderCreated"} \cup Ordering \cup Fulfilling
  /\ Events \subseteq Receiving \cup {"OrderCreated"} \cup Ordering \cup Fulfilling
  <1>1. {DocumentFlow[i] : i \in 1..8} =
          {"PurchaseOrderCreated", "PurchaseOrderApproved", "SupplierShipmentCreated",
           "ASNReceived", "SupplierShipmentDelivered", "ReceivingTaskCreated",
           "ReceivingTaskStarted", "GoodsReceived"}
    <2>1. 1..8 = {1, 2, 3, 4, 5, 6, 7, 8}
      OBVIOUS
    <2> QED
      BY <2>1, DocumentNames
  <1>2. {TransportationFlow[i] : i \in 1..5} =
          {"ShipmentReady", "CarrierAssigned", "ShipmentPickedUp", "ShipmentInTransit",
           "ShipmentDelivered"}
    <2>1. 1..5 = {1, 2, 3, 4, 5}
      OBVIOUS
    <2> QED
      BY <2>1, ShippingNames
  <1> QED
    BY <1>1, <1>2
    DEF Events, Lookups, Receiving, Ordering, Fulfilling, PickingAt, PackingAt, Shipping

-----------------------------------------------------------------------------
(* What an execution's step does to where it is and to what it knows.       *)

\* Execution e goes on to p with a context c.
Goes(e, p, c) == at' = [at EXCEPT ![e] = p] /\ context' = [context EXCEPT ![e] = c]

LEMMA ContextFields ==
  ASSUME TypeOK, NEW e \in Executions
  PROVE  /\ context[e] \in Context
         /\ \A x \in {"none", "morning", "evening"} : [context[e] EXCEPT !.window = x] \in Context
         /\ \A x \in 0..MaxExecutions : [context[e] EXCEPT !.task = x] \in Context
         /\ \A x \in (SUBSET Receipts) \cup (SUBSET Tasks) : [context[e] EXCEPT !.ids = x] \in Context
         /\ \A x \in 0..MaxExecutions : [context[e] EXCEPT !.order = x] \in Context
         /\ \A x \in Tasks : [context[e] EXCEPT !.now = x] \in Context
         /\ [context[e] EXCEPT !.failed = TRUE] \in Context
  <1>1. PICK c \in Context : c = context[e]
    BY DEF TypeOK
  <1>2. /\ \A x \in {"none", "morning", "evening"} : [c EXCEPT !.window = x] \in Context
        /\ \A x \in 0..MaxExecutions : [c EXCEPT !.task = x] \in Context
    BY DEF Context
  <1>3. \A x \in (SUBSET Receipts) \cup (SUBSET Tasks) : [c EXCEPT !.ids = x] \in Context
    BY DEF Context
  <1>4. /\ \A x \in 0..MaxExecutions : [c EXCEPT !.order = x] \in Context
        /\ \A x \in Tasks : [c EXCEPT !.now = x] \in Context
        /\ [c EXCEPT !.failed = TRUE] \in Context
    BY DEF Context
  <1> QED
    BY <1>1, <1>2, <1>3, <1>4

\* Go and Stop, and the end of an execution.
LEMMA GoGoes ==
  ASSUME TypeOK, NEW e \in Executions, NEW p, Go(e, p)
  PROVE  Goes(e, p, context[e])
  BY DEF TypeOK, Go, Goes

LEMMA StopGoes ==
  ASSUME TypeOK, NEW e \in Executions, Stop(e)
  PROVE  \E c \in Context :
           /\ Goes(e, "save", c) /\ c.failed /\ c.window = context[e].window
           /\ c.task = context[e].task /\ c.ids = context[e].ids
           /\ c.order = context[e].order /\ c.now = context[e].now
  <1>1. PICK c \in Context : c = [context[e] EXCEPT !.failed = TRUE]
    BY ContextFields
  <1>2. Goes(e, "save", c)
    BY <1>1 DEF TypeOK, Stop, Goes
  <1>3. context[e] \in Context
    BY ContextFields
  <1> QED
    BY <1>1, <1>2, <1>3 DEF Context

-----------------------------------------------------------------------------
(* Receiving.                                                               *)

ReceivingStep(e) ==
  \/ PurchaseOrderCreated(e) \/ DocumentMoves(e) \/ ReceivingTaskCreated(e)
  \/ ReceivingTaskStarted(e) \/ GoodsReceived(e) \/ StockIncreased(e) \/ InventoryPutaway(e)

\* What these events have in common: nothing of an order changes, and the purchase
\* orders they move are of the execution's correlation id.
Receives(e, p, c) ==
  /\ at[e] \in Receiving /\ Goes(e, p, c)
  /\ p \in Receiving \cup {"OrderCreated", "save"}
  /\ c \in Context /\ c.order = context[e].order /\ c.window = context[e].window
  /\ p = "save" => c.failed \/ c.window = "morning"
  /\ document' \in [Executions -> 0..8]
  /\ lines' \in [Executions -> SUBSET Products]
  /\ stock' \in [Products -> {"NONE", "RECEIVED", "AVAILABLE", "STORED"}]
  /\ \A d \in Executions : document'[d] > document[d] => corr[d] = corr[e]
  /\ UNCHANGED <<apiVars, report, outboundVars, countVars>>

ReceivedOK(e) == (\E p, c : Receives(e, p, c)) /\ ContextOK(e)' /\ InboundOK(e)'

InboundTypeOK ==
  /\ document \in [Executions -> 0..8]
  /\ lines \in [Executions -> SUBSET Products]
  /\ stock \in [Products -> {"NONE", "RECEIVED", "AVAILABLE", "STORED"}]

LEMMA InboundType == TypeOK => InboundTypeOK
  BY DEF TypeOK, InboundTypeOK

\* No document but d grows when only d changes.
LEMMA DocumentMoved ==
  ASSUME InboundTypeOK, NEW d \in Executions,
         \A o \in Executions : o # d => document'[o] = document[o]
  PROVE  \A o \in Executions : document'[o] > document[o] => corr[o] = corr[d]
  <1>1. \A o \in Executions : document[o] \in Nat
    BY DEF InboundTypeOK
  <1> QED
    BY <1>1

LEMMA PurchaseOrderCreatedIsOK ==
  ASSUME TypeOK, ContextInv, NEW e \in Executions, PurchaseOrderCreated(e)
  PROVE  ReceivedOK(e)
  <1>1. at[e] = "PurchaseOrderCreated" /\ Goes(e, "PurchaseOrderApproved", context[e])
    BY GoGoes DEF PurchaseOrderCreated
  <1>2. context[e] \in Context /\ ContextOK(e)
    BY ContextFields DEF ContextInv
  <1>a. /\ document' = [document EXCEPT ![e] = 1]
        /\ \E ordered \in SUBSET Products : lines' = [lines EXCEPT ![e] = ordered]
        /\ UNCHANGED <<apiVars, report, stock, outboundVars, countVars>>
    BY DEF PurchaseOrderCreated
  <1>y. /\ document' \in [Executions -> 0..8]
        /\ \A o \in Executions : o # e => document'[o] = document[o]
    BY <1>a, InboundType DEF InboundTypeOK
  <1>b. \A d \in Executions : document'[d] > document[d] => corr[d] = corr[e]
    BY <1>y, InboundType, DocumentMoved
  <1>c. lines' \in [Executions -> SUBSET Products] /\ stock' = stock
    BY <1>a, InboundType DEF InboundTypeOK
  <1>3. Receives(e, "PurchaseOrderApproved", context[e])
    BY <1>1, <1>2, <1>a, <1>b, <1>c, <1>y, InboundType DEF InboundTypeOK, Receives, Receiving
  <1>4. at'[e] = "PurchaseOrderApproved" /\ context'[e] = context[e]
    BY <1>1 DEF Goes, TypeOK
  <1>5. ContextOK(e)' /\ InboundOK(e)'
    BY <1>2, <1>4
    DEF ContextOK, InboundOK, Ordering, Fulfilling, PickingAt, PackingAt, Shipping, Succeeding
  <1> QED
    BY <1>3, <1>5 DEF ReceivedOK

LEMMA DocumentMovesIsOK ==
  ASSUME TypeOK, ContextInv, NEW e \in Executions, DocumentMoves(e)
  PROVE  ReceivedOK(e)
  <1>1. PICK k \in 2..5 : at[e] = DocumentFlow[k] /\ Goes(e, DocumentFlow[k + 1], context[e])
    BY GoGoes DEF DocumentMoves
  <1>2. PICK p : /\ p \in {"SupplierShipmentCreated", "ASNReceived", "SupplierShipmentDelivered",
                           "ReceivingTaskCreated"}
                 /\ at[e] \in Receiving /\ Goes(e, p, context[e])
    <2>1. k = 2 \/ k = 3 \/ k = 4 \/ k = 5
      OBVIOUS
    <2> QED
      BY <1>1, <2>1, DocumentNames DEF Receiving
  <1>3. context[e] \in Context /\ ContextOK(e)
    BY ContextFields DEF ContextInv
  <1>4. UNCHANGED <<apiVars, report, lines, stock, outboundVars, countVars>>
    BY DEF DocumentMoves
  <1>z. PICK n \in 2..5, d \in Documents(e) : document' = [document EXCEPT ![d] = n]
    BY DEF DocumentMoves, Waiting
  <1>x. d \in Executions /\ corr[d] = corr[e]
    BY DEF Documents
  <1>y. /\ document' \in [Executions -> 0..8]
        /\ \A o \in Executions : o # d => document'[o] = document[o]
    BY <1>x, <1>z, InboundType DEF InboundTypeOK
  <1>b. \A o \in Executions : document'[o] > document[o] => corr[o] = corr[e]
    BY <1>x, <1>y, InboundType, DocumentMoved
  <1>5. Receives(e, p, context[e])
    BY <1>2, <1>3, <1>4, <1>b, <1>y, InboundType
    DEF InboundTypeOK, Receives, Receiving
  <1>6. at'[e] = p /\ context'[e] = context[e]
    BY <1>2 DEF Goes, TypeOK
  <1>7. ContextOK(e)' /\ InboundOK(e)'
    BY <1>2, <1>3, <1>6
    DEF ContextOK, InboundOK, Ordering, Fulfilling, PickingAt, PackingAt, Shipping, Succeeding
  <1> QED
    BY <1>5, <1>7 DEF ReceivedOK

LEMMA ReceivingTaskCreatedIsOK ==
  ASSUME TypeOK, ContextInv, NEW e \in Executions, ReceivingTaskCreated(e)
  PROVE  ReceivedOK(e)
  <1>1. PICK task \in Documents(e) : context' = [context EXCEPT ![e].task = task]
    BY DEF ReceivingTaskCreated
  <1>a. task \in 0..MaxExecutions
    BY FullFlowAssumption DEF Documents, Executions
  <1>2. PICK c \in Context : c = [context[e] EXCEPT !.task = task]
    BY <1>a, ContextFields
  <1>3. Goes(e, "ReceivingTaskStarted", c)
    BY <1>1, <1>2 DEF ReceivingTaskCreated, Goes, TypeOK
  <1>4. context[e] \in Context /\ ContextOK(e)
    BY ContextFields DEF ContextInv
  <1>5. c.task = task /\ c.order = context[e].order /\ c.window = context[e].window
    BY <1>2, <1>4 DEF Context
  <1>6. /\ at[e] = "ReceivingTaskCreated"
        /\ UNCHANGED <<apiVars, report, lines, stock, outboundVars, countVars>>
    BY DEF ReceivingTaskCreated
  <1>z. PICK d \in Documents(e) : document' = [document EXCEPT ![d] = 6]
    BY DEF ReceivingTaskCreated, Waiting
  <1>x. d \in Executions /\ corr[d] = corr[e]
    BY DEF Documents
  <1>y. /\ document' \in [Executions -> 0..8]
        /\ \A o \in Executions : o # d => document'[o] = document[o]
    BY <1>x, <1>z, InboundType DEF InboundTypeOK
  <1>c. \A o \in Executions : document'[o] > document[o] => corr[o] = corr[e]
    BY <1>x, <1>y, InboundType, DocumentMoved
  <1>7. Receives(e, "ReceivingTaskStarted", c)
    BY <1>3, <1>5, <1>6, <1>c, <1>y, InboundType
    DEF InboundTypeOK, Receives, Receiving
  <1>8. at'[e] = "ReceivingTaskStarted" /\ context'[e] = c
    BY <1>3 DEF Goes, TypeOK
  <1>9. Documents(e)' = Documents(e)
    BY <1>6 DEF Documents, apiVars
  <1>10. ContextOK(e)' /\ InboundOK(e)'
    BY <1>1, <1>4, <1>5, <1>8, <1>9
    DEF ContextOK, InboundOK, Ordering, Fulfilling, PickingAt, PackingAt, Shipping, Succeeding
  <1> QED
    BY <1>7, <1>10 DEF ReceivedOK

LEMMA ReceivingTaskStartedIsOK ==
  ASSUME TypeOK, ContextInv, NEW e \in Executions, ReceivingTaskStarted(e)
  PROVE  ReceivedOK(e)
  <1>1. context[e] \in Context /\ ContextOK(e)
    BY ContextFields DEF ContextInv
  <1>2. PICK d \in Executions : d = context[e].task /\ corr[d] = corr[e]
    BY <1>1 DEF ContextOK, ReceivingTaskStarted, Documents
  <1>3. /\ at[e] = "ReceivingTaskStarted"
        /\ UNCHANGED <<apiVars, report, lines, stock, outboundVars, countVars>>
    BY DEF ReceivingTaskStarted
  <1>4. PICK p, c :
          /\ Goes(e, p, c) /\ c \in Context
          /\ c.task = d /\ c.order = context[e].order /\ c.window = context[e].window
          /\ \/ /\ p = "GoodsReceived"
                /\ document' = [document EXCEPT ![d] = 7]
             \/ p = "save" /\ c.failed /\ UNCHANGED document
    <2>1. CASE document[d] = 6
      BY <1>1, <1>2, <2>1, GoGoes DEF ReceivingTaskStarted
    <2>2. CASE document[d] # 6
      BY <1>1, <1>2, <2>2, StopGoes DEF ReceivingTaskStarted
    <2> QED
      BY <2>1, <2>2
  <1>5. /\ document' \in [Executions -> 0..8]
        /\ \A o \in Executions : o # d => document'[o] = document[o]
    BY <1>4, InboundType DEF InboundTypeOK
  <1>6. \A o \in Executions : document'[o] > document[o] => corr[o] = corr[e]
    BY <1>2, <1>5, InboundType, DocumentMoved
  <1>7. Receives(e, p, c)
    BY <1>3, <1>4, <1>5, <1>6, InboundType DEF InboundTypeOK, Receives, Receiving
  <1>8. at'[e] = p /\ context'[e] = c /\ Documents(e)' = Documents(e)
    BY <1>3, <1>4 DEF Goes, TypeOK, Documents, apiVars
  <1>9. d \in Documents(e)
    BY <1>2 DEF Documents
  <1>10. ContextOK(e)' /\ InboundOK(e)'
    BY <1>1, <1>4, <1>8, <1>9
    DEF ContextOK, InboundOK, Ordering, Fulfilling, PickingAt, PackingAt, Shipping, Succeeding
  <1> QED
    BY <1>7, <1>10 DEF ReceivedOK

LEMMA GoodsReceivedIsOK ==
  ASSUME TypeOK, ContextInv, NEW e \in Executions, GoodsReceived(e)
  PROVE  ReceivedOK(e)
  <1>1. context[e] \in Context /\ ContextOK(e)
    BY ContextFields DEF ContextInv
  <1>2. PICK d \in Executions : d = context[e].task /\ corr[d] = corr[e]
    BY <1>1 DEF ContextOK, GoodsReceived, Documents
  <1>3. /\ at[e] = "GoodsReceived" /\ document' = [document EXCEPT ![d] = 8]
        /\ UNCHANGED <<apiVars, report, lines, outboundVars, countVars>>
    BY <1>2 DEF GoodsReceived
  <1>4. PICK ids \in SUBSET Receipts : ids = Received(e, document')
    BY DEF Received
  <1>5. PICK c \in Context : c = [context[e] EXCEPT !.ids = ids]
    BY ContextFields
  <1>6. /\ c.task = d /\ c.order = context[e].order /\ c.window = context[e].window
        /\ c.ids = ids
    BY <1>1, <1>2, <1>5 DEF Context
  <1>7. Goes(e, "StockIncreased", c)
    BY <1>4, <1>5 DEF GoodsReceived, Goes, TypeOK
  <1>8. /\ document' \in [Executions -> 0..8] /\ document'[d] = 8
        /\ \A o \in Executions : o # d => document'[o] = document[o]
    BY <1>3, InboundType DEF InboundTypeOK
  <1>9. \A o \in Executions : document'[o] > document[o] => corr[o] = corr[e]
    BY <1>2, <1>8, InboundType, DocumentMoved
  <1>10. stock' \in [Products -> {"NONE", "RECEIVED", "AVAILABLE", "STORED"}]
    BY InboundType DEF GoodsReceived, InboundTypeOK
  <1>11. Receives(e, "StockIncreased", c)
    BY <1>3, <1>6, <1>7, <1>8, <1>9, <1>10, InboundType DEF InboundTypeOK, Receives, Receiving
  <1>12. at'[e] = "StockIncreased" /\ context'[e] = c
    BY <1>7 DEF Goes, TypeOK
  <1>13. ContextOK(e)' /\ InboundOK(e)'
    BY <1>1, <1>6, <1>8, <1>12
    DEF ContextOK, InboundOK, Ordering, Fulfilling, PickingAt, PackingAt, Shipping, Succeeding
  <1> QED
    BY <1>11, <1>13 DEF ReceivedOK

LEMMA StockIncreasedIsOK ==
  ASSUME TypeOK, ContextInv, InboundInv, NEW e \in Executions, StockIncreased(e)
  PROVE  ReceivedOK(e)
  <1>1. context[e] \in Context /\ ContextOK(e) /\ InboundOK(e)
    BY ContextFields DEF ContextInv, InboundInv
  <1>2. /\ at[e] = "StockIncreased"
        /\ UNCHANGED <<apiVars, report, document, lines, outboundVars, countVars>>
    BY DEF StockIncreased
  <1>3. PICK ids \in SUBSET Receipts : ids = Received(e, document)
    BY DEF Received
  <1>4. PICK p, c :
          /\ Goes(e, p, c) /\ c \in Context /\ c.task = context[e].task
          /\ c.order = context[e].order /\ c.window = context[e].window
          /\ \/ p = "StockIncreased" /\ c.ids \subseteq Receipts
             \/ p = "InventoryPutaway" /\ c.ids = ids
             \/ p = "save" /\ c.failed
    <2>1. PICK id \in context[e].ids :
            IF stock[id[2]] = "RECEIVED"
            THEN IF Rest(e, id) # {}
                 THEN context' = [context EXCEPT ![e].ids = Rest(e, id)] /\ UNCHANGED at
                 ELSE /\ context' = [context EXCEPT ![e].ids = Received(e, document)]
                      /\ at' = [at EXCEPT ![e] = "InventoryPutaway"]
            ELSE Stop(e)
      BY DEF StockIncreased
    <2>2. CASE stock[id[2]] # "RECEIVED"
      BY <2>1, <2>2, StopGoes
    <2>3. CASE stock[id[2]] = "RECEIVED" /\ Rest(e, id) # {}
      <3>1. Rest(e, id) \in SUBSET Receipts
        BY <1>1, <1>2 DEF ContextOK, Rest
      <3>2. PICK c \in Context : c = [context[e] EXCEPT !.ids = Rest(e, id)]
        BY <3>1, ContextFields
      <3>3. context' = [context EXCEPT ![e] = c] /\ UNCHANGED at
        BY <2>1, <2>3, <3>2
      <3>4. at = [at EXCEPT ![e] = "StockIncreased"]
        BY <1>2 DEF TypeOK
      <3>5. Goes(e, "StockIncreased", c)
        BY <3>3, <3>4 DEF Goes
      <3> QED
        BY <1>1, <3>1, <3>2, <3>5 DEF Context
    <2>4. CASE stock[id[2]] = "RECEIVED" /\ ~(Rest(e, id) # {})
      <3>1. PICK c \in Context : c = [context[e] EXCEPT !.ids = ids]
        BY ContextFields
      <3>2. Goes(e, "InventoryPutaway", c)
        BY <1>3, <2>1, <2>4, <3>1 DEF Goes, TypeOK
      <3> QED
        BY <1>1, <3>1, <3>2 DEF Context
    <2> QED
      BY <2>2, <2>3, <2>4
  <1>5. stock' \in [Products -> {"NONE", "RECEIVED", "AVAILABLE", "STORED"}]
    BY InboundType DEF StockIncreased, InboundTypeOK
  <1>6. \A o \in Executions : document'[o] > document[o] => corr[o] = corr[e]
    BY <1>2, InboundType DEF InboundTypeOK
  <1>7. Receives(e, p, c)
    BY <1>2, <1>4, <1>5, <1>6, InboundType DEF InboundTypeOK, Receives, Receiving
  <1>8. at'[e] = p /\ context'[e] = c
    BY <1>4 DEF Goes, TypeOK
  <1>9. ids = Received(e, document)'
    BY <1>2, <1>3 DEF Received, Documents, apiVars
  <1>10. ContextOK(e)'
    BY <1>1, <1>3, <1>4, <1>8
    DEF ContextOK, Ordering, Fulfilling, PickingAt, PackingAt, Shipping
  <1>11. InboundOK(e)'
    BY <1>1, <1>2, <1>4, <1>8, <1>9
    DEF InboundOK, Ordering, Fulfilling, PickingAt, PackingAt, Shipping, Succeeding
  <1> QED
    BY <1>7, <1>10, <1>11 DEF ReceivedOK

LEMMA InventoryPutawayIsOK ==
  ASSUME TypeOK, ContextInv, InboundInv, NEW e \in Executions, InventoryPutaway(e)
  PROVE  ReceivedOK(e)
  <1>1. context[e] \in Context /\ ContextOK(e) /\ InboundOK(e)
    BY ContextFields DEF ContextInv, InboundInv
  <1>2. /\ at[e] = "InventoryPutaway"
        /\ UNCHANGED <<apiVars, report, document, lines, outboundVars, countVars>>
    BY DEF InventoryPutaway
  <1>3. PICK id \in context[e].ids :
          /\ stock' = [stock EXCEPT ![id[2]] = "STORED"]
          /\ context' = [context EXCEPT ![e].ids = Rest(e, id)]
          /\ at' = [at EXCEPT ![e] = IF Rest(e, id) # {} THEN "InventoryPutaway"
                                     ELSE IF context[e].window = "morning" THEN "save"
                                     ELSE "OrderCreated"]
    BY DEF InventoryPutaway
  <1>4. PICK ids \in SUBSET Receipts : ids = Rest(e, id)
    BY <1>1, <1>2 DEF ContextOK, Rest
  <1>5. PICK c \in Context : c = [context[e] EXCEPT !.ids = ids]
    BY ContextFields
  <1>6. /\ c.task = context[e].task /\ c.order = context[e].order
        /\ c.window = context[e].window /\ c.ids = ids
    BY <1>1, <1>5 DEF Context
  <1>7. PICK p : /\ p = IF ids # {} THEN "InventoryPutaway"
                        ELSE IF context[e].window = "morning" THEN "save" ELSE "OrderCreated"
                 /\ Goes(e, p, c)
    BY <1>3, <1>4, <1>5 DEF Goes
  <1>8. /\ stock' \in [Products -> {"NONE", "RECEIVED", "AVAILABLE", "STORED"}]
        /\ \A q \in Products : q = id[2] \/ stock[q] = "STORED" => stock'[q] = "STORED"
    BY <1>3, InboundType DEF InboundTypeOK
  <1>9. \A o \in Executions : document'[o] > document[o] => corr[o] = corr[e]
    BY <1>2, InboundType DEF InboundTypeOK
  <1>10. Receives(e, p, c)
    BY <1>2, <1>6, <1>7, <1>8, <1>9, InboundType DEF InboundTypeOK, Receives, Receiving
  <1>11. at'[e] = p /\ context'[e] = c
    BY <1>7 DEF Goes, TypeOK
  <1>12. ASSUME NEW r \in Received(e, document)'
         PROVE  r \in ids \/ stock'[r[2]] = "STORED"
    <2>1. r \in Received(e, document) /\ r[2] \in Products
      BY <1>2 DEF Received, Receipts, Documents, apiVars
    <2>2. r \in context[e].ids \/ stock[r[2]] = "STORED"
      BY <1>1, <1>2, <2>1 DEF InboundOK
    <2> QED
      BY <1>4, <1>8, <2>1, <2>2 DEF Rest
  <1>13. ContextOK(e)'
    BY <1>1, <1>6, <1>7, <1>11
    DEF ContextOK, Ordering, Fulfilling, PickingAt, PackingAt, Shipping
  <1>14. InboundOK(e)'
    BY <1>1, <1>2, <1>6, <1>7, <1>11, <1>12
    DEF InboundOK, Ordering, Fulfilling, PickingAt, PackingAt, Shipping, Succeeding
  <1> QED
    BY <1>10, <1>13, <1>14 DEF ReceivedOK

LEMMA ReceivingIsOK ==
  ASSUME TypeOK, ContextInv, InboundInv, NEW e \in Executions, ReceivingStep(e)
  PROVE  ReceivedOK(e)
  BY PurchaseOrderCreatedIsOK, DocumentMovesIsOK, ReceivingTaskCreatedIsOK,
     ReceivingTaskStartedIsOK, GoodsReceivedIsOK, StockIncreasedIsOK, InventoryPutawayIsOK
  DEF ReceivingStep

-----------------------------------------------------------------------------
(* What a runner and an operator do to the tasks and shipments of an order  *)
(* once its picking tasks are there.                                        *)

OutboundTypeOK ==
  /\ order \in [Executions -> Order]
  /\ \A o \in Executions : order[o].picked \subseteq 1..order[o].lines
  /\ picking \in [Tasks -> Task]
  /\ packing \in [Executions -> TaskStatus]
  /\ shipment \in [Executions -> 0..Delivered]

LEMMA OutboundType == TypeOK => OutboundTypeOK
  BY DEF TypeOK, OutboundTypeOK

\* Picking goes forward: no task comes or goes, and what is completed is picked.
PickingAdvances ==
  /\ picking' \in [Tasks -> Task] /\ order' \in [Executions -> Order]
  /\ \A t \in Tasks :
       /\ picking'[t].order = picking[t].order
       /\ picking'[t].status = "NONE" <=> picking[t].status = "NONE"
       /\ picking[t].status = "COMPLETED" => picking'[t].status = "COMPLETED"
       /\ picking'[t].status = "COMPLETED" =>
            picking[t].status = "COMPLETED" \/ t[2][2] \in order'[t[2][1]].picked
  /\ \A o \in Executions :
       /\ order'[o].status = order[o].status /\ order'[o].lines = order[o].lines
       /\ order[o].picked \subseteq order'[o].picked
       /\ order'[o].picked \subseteq 1..order'[o].lines
       /\ at[o] \in Unpicked => order'[o] = order[o]

\* So do packing and shipping, and packing starts when picking is done.
PackingAdvances ==
  /\ packing' \in [Executions -> TaskStatus]
  /\ \A o \in Executions :
       /\ packing[o] # "NONE" => packing'[o] # "NONE"
       /\ packing[o] = "COMPLETED" => packing'[o] = "COMPLETED"
       /\ packing'[o] # "NONE" => packing[o] # "NONE" \/ PickingDone(o)

ShippingAdvances ==
  /\ shipment' \in [Executions -> 0..Delivered]
  /\ \A o \in Executions : shipment[o] = Delivered => shipment'[o] = Delivered

Advances == PickingAdvances /\ PackingAdvances /\ ShippingAdvances

LEMMA DoneStays ==
  ASSUME OutboundTypeOK, PickingAdvances, NEW o \in Executions
  PROVE  PickingDone(o) => PickingDone(o)'
  BY DEF PickingAdvances, PickingDone, TasksOf

LEMMA DeliveredStays ==
  ASSUME OutboundTypeOK, Advances, NEW o \in Executions, OrderIsDelivered(o)
  PROVE  OrderIsDelivered(o)'
  <1>1. PickingDone(o)'
    BY DoneStays DEF OrderIsDelivered, Advances
  <1>2. order'[o].picked = 1..order'[o].lines
    BY DEF OrderIsDelivered, Advances, PickingAdvances
  <1>3. packing'[o] = "COMPLETED" /\ shipment'[o] = Delivered
    BY DEF OrderIsDelivered, Advances, PackingAdvances, ShippingAdvances
  <1> QED
    BY <1>1, <1>2, <1>3 DEF OrderIsDelivered

LEMMA TasksStay ==
  ASSUME OutboundTypeOK, TaskInv, PickingAdvances
  PROVE  TaskInv'
  <1>1. ASSUME NEW t \in Tasks, picking'[t].status # "NONE"
        PROVE  /\ t[2][1] <= t[1] /\ picking'[t].order \in 1..t[1]
               /\ order'[t[2][1]].status = "RESERVED"
               /\ t[2][2] \in 1..order'[t[2][1]].lines
               /\ picking'[t].status = "COMPLETED" => t[2][2] \in order'[t[2][1]].picked
    <2>1. t[2][1] \in Executions
      BY DEF Tasks, Allocations
    <2>2. picking[t].status # "NONE" /\ picking'[t].order = picking[t].order
      BY <1>1 DEF PickingAdvances
    <2> QED
      BY <1>1, <2>1, <2>2 DEF PickingAdvances, TaskInv
  <1> QED
    BY <1>1 DEF TaskInv

LEMMA NothingAdvances ==
  ASSUME TypeOK, UNCHANGED <<order, picking, packing, shipment>>
  PROVE  Advances
  BY OutboundType
  DEF OutboundTypeOK, Advances, PickingAdvances, PackingAdvances, ShippingAdvances

\* A task without a trace: no one before its order's execution and none of the
\* executions to come has made one.
LEMMA NoTaskYet ==
  ASSUME LockInv, FreshInv, TaskInv, NEW e \in Executions, at[e] \in Unpicked,
         NEW t \in Tasks, t[2][1] = e \/ picking[t].order = e
  PROVE  picking[t].status = "NONE"
  <1>1. SUFFICES ASSUME picking[t].status # "NONE" PROVE FALSE
    OBVIOUS
  <1>2. PICK d \in Executions : d = t[1]
    BY DEF Tasks
  <1>3. e <= d
    BY <1>1, <1>2 DEF TaskInv
  <1>4. d # e
    BY <1>1, <1>2 DEF FreshInv
  <1>5. e < d
    BY <1>3, <1>4 DEF Executions
  <1>6. at[d] = "waiting"
    BY <1>5 DEF LockInv, Unpicked, Unordered, Ordering, Preparing, Receiving
  <1> QED
    BY <1>1, <1>2, <1>6 DEF FreshInv, Unpicked, Unordered

LEMMA StartAdvances ==
  ASSUME TypeOK, NEW t \in Tasks, NEW time \in 0..(2 * MaxExecutions + 1), Started(t, time),
         UNCHANGED <<order, packing, shipment>>
  PROVE  Advances
  <1>1. PICK old \in Task : old = picking[t]
    BY OutboundType DEF OutboundTypeOK
  <1>2. PICK new \in Task : /\ new.status = "STARTED" /\ new.order = old.order
                            /\ picking' = [picking EXCEPT ![t] = new]
    <2>1. picking' = [picking EXCEPT ![t] = [old EXCEPT !.status = "STARTED", !.started = time]]
      BY <1>1, OutboundType DEF Started, OutboundTypeOK
    <2>2. PICK new : new = [old EXCEPT !.status = "STARTED", !.started = time]
      OBVIOUS
    <2> QED
      BY <1>1, <2>1, <2>2 DEF Task, TaskStatus
  <1>3. picking[t].status = "CREATED"
    BY DEF Started
  <1>4. picking' \in [Tasks -> Task]
    BY <1>2, OutboundType DEF OutboundTypeOK
  <1>5. \A s \in Tasks :
          /\ picking'[s].order = picking[s].order
          /\ picking'[s].status = "NONE" <=> picking[s].status = "NONE"
          /\ picking'[s].status = "COMPLETED" <=> picking[s].status = "COMPLETED"
    BY <1>1, <1>2, <1>3, OutboundType DEF OutboundTypeOK
  <1>6. PickingAdvances
    BY <1>4, <1>5, OutboundType DEF OutboundTypeOK, PickingAdvances
  <1> QED
    BY <1>6, OutboundType DEF OutboundTypeOK, Advances, PackingAdvances, ShippingAdvances

LEMMA PickAdvances ==
  ASSUME TypeOK, LockInv, FreshInv, TaskInv, PickCompletes, UNCHANGED <<packing, shipment>>
  PROVE  Advances
  <1>1. PICK t \in Tasks :
          /\ picking[t].status = "STARTED"
          /\ picking' = [picking EXCEPT ![t].status = "COMPLETED"]
          /\ order' = [order EXCEPT ![t[2][1]].picked = @ \cup {t[2][2]}]
    BY DEF PickCompletes, StartedTasks
  <1>2. PICK old \in Task, new \in Task :
          /\ old = picking[t] /\ picking' = [picking EXCEPT ![t] = new]
          /\ new.status = "COMPLETED" /\ new.order = old.order
    <2>1. PICK old \in Task : old = picking[t]
      BY OutboundType DEF OutboundTypeOK
    <2>2. PICK new \in Task : new = [old EXCEPT !.status = "COMPLETED"]
      BY DEF Task, TaskStatus
    <2>3. picking' = [picking EXCEPT ![t] = new]
      BY <1>1, <2>1, <2>2, OutboundType DEF OutboundTypeOK
    <2> QED
      BY <2>1, <2>2, <2>3 DEF Task
  <1>3. PICK o \in Executions, i \in 1..MaxLines : o = t[2][1] /\ i = t[2][2]
    BY DEF Tasks, Allocations
  <1>4. PICK was \in Order : was = order[o] /\ was.picked \subseteq 1..was.lines
    BY OutboundType DEF OutboundTypeOK
  <1>5. i \in 1..was.lines
    BY <1>1, <1>3, <1>4 DEF TaskInv
  <1>6. PICK now \in Order :
          /\ order' = [order EXCEPT ![o] = now] /\ now.status = was.status
          /\ now.lines = was.lines /\ now.picked = was.picked \cup {i}
    <2>1. PICK more \in SUBSET (1..MaxLines) : more = was.picked \cup {i}
      BY DEF Order
    <2>2. PICK now \in Order : now = [was EXCEPT !.picked = more]
      BY DEF Order
    <2>3. order' = [order EXCEPT ![o] = now]
      BY <1>1, <1>3, <1>4, <2>1, <2>2, OutboundType DEF OutboundTypeOK
    <2> QED
      BY <2>1, <2>2, <2>3 DEF Order
  <1>7. at[o] \notin Unpicked
    BY <1>1, <1>3, NoTaskYet
  <1>8. picking' \in [Tasks -> Task] /\ order' \in [Executions -> Order]
    BY <1>2, <1>6, OutboundType DEF OutboundTypeOK
  <1>9. \A s \in Tasks :
          /\ picking'[s].order = picking[s].order
          /\ picking'[s].status = "NONE" <=> picking[s].status = "NONE"
          /\ picking[s].status = "COMPLETED" => picking'[s].status = "COMPLETED"
          /\ picking'[s].status = "COMPLETED" => picking[s].status = "COMPLETED" \/ s = t
    BY <1>1, <1>2, OutboundType DEF OutboundTypeOK
  <1>10. \A d \in Executions :
           /\ order'[d].status = order[d].status /\ order'[d].lines = order[d].lines
           /\ order[d].picked \subseteq order'[d].picked
           /\ order'[d].picked \subseteq 1..order'[d].lines
           /\ at[d] \in Unpicked => order'[d] = order[d]
    <2>1. ASSUME NEW d \in Executions
          PROVE  /\ order'[d].status = order[d].status /\ order'[d].lines = order[d].lines
                 /\ order[d].picked \subseteq order'[d].picked
                 /\ order'[d].picked \subseteq 1..order'[d].lines
                 /\ at[d] \in Unpicked => order'[d] = order[d]
      <3>1. CASE d = o
        BY <1>4, <1>5, <1>6, <1>7, <3>1, OutboundType DEF OutboundTypeOK
      <3>2. CASE d # o
        BY <1>6, <3>2, OutboundType DEF OutboundTypeOK
      <3> QED
        BY <3>1, <3>2
    <2> QED
      BY <2>1
  <1>11. t[2][2] \in order'[t[2][1]].picked
    BY <1>3, <1>6, OutboundType DEF OutboundTypeOK
  <1>12. PickingAdvances
    BY <1>8, <1>9, <1>10, <1>11 DEF PickingAdvances
  <1> QED
    BY <1>12, OutboundType DEF OutboundTypeOK, Advances, PackingAdvances, ShippingAdvances

LEMMA FreshStays ==
  ASSUME TypeOK, LockInv, FreshInv, TaskInv, Advances,
         \A d \in Executions : /\ at'[d] \in Unordered => at[d] \in Unordered
                               /\ at'[d] \in Unpicked => at[d] \in Unpicked
  PROVE  FreshInv'
  <1>1. ASSUME NEW e \in Executions, at[e] \in Unpicked
        PROVE  /\ order'[e] = order[e] /\ order[e].picked = {}
               /\ packing'[e] = "NONE"
               /\ \A t \in Tasks : t[1] = e => picking'[t].status = "NONE"
    <2>1. /\ order[e].picked = {} /\ packing[e] = "NONE"
          /\ \A t \in Tasks : t[1] = e => picking[t].status = "NONE"
      BY <1>1 DEF FreshInv
    <2>2. \A t \in Tasks : picking[t].order = e => picking[t].status = "NONE"
      BY <1>1, NoTaskYet
    <2>3. ~PickingDone(e)
      BY <2>2 DEF PickingDone, TasksOf
    <2> QED
      BY <1>1, <2>1, <2>3 DEF Advances, PickingAdvances, PackingAdvances
  <1>2. \A e \in Executions : at[e] \in Unordered => at[e] \in Unpicked
    BY DEF Unpicked
  <1>3. \A e \in Executions : at[e] \in Unordered => order[e] = NoOrder
    BY DEF FreshInv
  <1> QED
    BY <1>1, <1>2, <1>3 DEF FreshInv

\* The tasks an order has stay its own.
LEMMA OwnTasksStay ==
  ASSUME TypeOK, Advances, NEW e \in Executions, FulfilOK(e), at[e] \in Fulfilling
  PROVE  /\ \A i \in 1..order'[e].lines :
              /\ picking'[<<e, <<e, i>>>>].status # "NONE"
              /\ picking'[<<e, <<e, i>>>>].order = e
         /\ packing'[e] # "NONE" => PickingDone(e)'
  <1>1. ASSUME NEW i \in 1..order'[e].lines
        PROVE  /\ picking'[<<e, <<e, i>>>>].status # "NONE"
               /\ picking'[<<e, <<e, i>>>>].order = e
    <2>1. order'[e].lines = order[e].lines
      BY DEF Advances, PickingAdvances
    <2>2. order[e] \in Order
      BY OutboundType DEF OutboundTypeOK
    <2>3. i \in 1..MaxLines
      BY <2>1, <2>2, FullFlowAssumption DEF Order
    <2>4. PICK t \in Tasks : t = <<e, <<e, i>>>>
      BY <2>3 DEF Tasks, Allocations
    <2>5. picking[t].status # "NONE" /\ picking[t].order = e
      BY <2>1, <2>4 DEF FulfilOK
    <2> QED
      BY <2>4, <2>5 DEF Advances, PickingAdvances
  <1>2. packing'[e] # "NONE" => PickingDone(e)
    BY DEF FulfilOK, Advances, PackingAdvances
  <1>3. PickingDone(e) => PickingDone(e)'
    BY DoneStays, OutboundType DEF Advances
  <1> QED
    BY <1>1, <1>2, <1>3

LEMMA FulfilStays ==
  ASSUME TypeOK, Advances, NEW e \in Executions, FulfilOK(e),
         at'[e] = at[e], context'[e] = context[e]
  PROVE  FulfilOK(e)'
  <1>1. at[e] \in Fulfilling =>
          /\ \A i \in 1..order'[e].lines :
               /\ picking'[<<e, <<e, i>>>>].status # "NONE"
               /\ picking'[<<e, <<e, i>>>>].order = e
          /\ packing'[e] # "NONE" => PickingDone(e)'
    BY OwnTasksStay
  <1>2. /\ at[e] \in PackingAt \ {"PackingTaskCreated"} => packing'[e] # "NONE"
        /\ at[e] \in Shipping => packing'[e] = "COMPLETED"
    BY DEF FulfilOK, Advances, PackingAdvances
  <1>3. Succeeding(e) /\ context[e].window = "evening" => OrderIsDelivered(e)'
    BY DeliveredStays, OutboundType DEF FulfilOK
  <1>4. Succeeding(e)' = Succeeding(e)
    BY DEF Succeeding
  <1> QED
    BY <1>1, <1>2, <1>3, <1>4 DEF FulfilOK

\* All its picking tasks completed, an order has all that was asked for.
LEMMA AllIsPicked ==
  ASSUME TypeOK, TaskInv, NEW e \in Executions, FulfilOK(e), at[e] \in Fulfilling,
         PickingDone(e)
  PROVE  order[e].picked = 1..order[e].lines
  <1>1. order[e] \in Order /\ order[e].picked \subseteq 1..order[e].lines
    BY OutboundType DEF OutboundTypeOK
  <1>2. ASSUME NEW i \in 1..order[e].lines
        PROVE  i \in order[e].picked
    <2>1. i \in 1..MaxLines
      BY <1>1, FullFlowAssumption DEF Order
    <2>2. PICK t \in Tasks : t = <<e, <<e, i>>>>
      BY <2>1 DEF Tasks, Allocations
    <2>3. picking[t].status # "NONE" /\ picking[t].order = e
      BY <2>2 DEF FulfilOK
    <2>4. picking[t].status = "COMPLETED"
      BY <2>3 DEF PickingDone, TasksOf
    <2>5. t[2][1] = e /\ t[2][2] = i
      BY <2>2
    <2> QED
      BY <2>3, <2>4, <2>5 DEF TaskInv
  <1> QED
    BY <1>1, <1>2

\* A runner that goes on with an order.
LEMMA Fulfilled ==
  ASSUME TypeOK, TaskInv, Advances, NEW e \in Executions, NEW p, NEW c,
         FulfilOK(e), at[e] \in Fulfilling, Goes(e, p, c), p \in Fulfilling \cup {"save"},
         p \in PackingAt \ {"PackingTaskCreated"} => packing'[e] # "NONE",
         p \in Shipping => packing'[e] = "COMPLETED",
         p = "save" => c.failed \/ (packing[e] = "COMPLETED" /\ shipment[e] = Delivered)
  PROVE  FulfilOK(e)'
  <1>1. at'[e] = p /\ context'[e] = c
    BY DEF Goes, TypeOK
  <1>2. /\ \A i \in 1..order'[e].lines :
             /\ picking'[<<e, <<e, i>>>>].status # "NONE"
             /\ picking'[<<e, <<e, i>>>>].order = e
        /\ packing'[e] # "NONE" => PickingDone(e)'
    BY OwnTasksStay
  <1>3. p = "save" /\ ~c.failed => OrderIsDelivered(e)'
    <2>1. SUFFICES ASSUME p = "save", ~c.failed PROVE OrderIsDelivered(e)'
      OBVIOUS
    <2>2. packing[e] = "COMPLETED" /\ shipment[e] = Delivered
      BY <2>1
    <2>3. PickingDone(e)
      BY <2>2 DEF FulfilOK
    <2>4. OrderIsDelivered(e)
      BY <2>2, <2>3, AllIsPicked DEF OrderIsDelivered
    <2> QED
      BY <2>4, DeliveredStays, OutboundType
  <1>4. Succeeding(e)' => p = "save" /\ ~c.failed
    BY <1>1 DEF Succeeding, Fulfilling, PickingAt, PackingAt, Shipping
  <1>5. p \notin Fulfilling => p = "save"
    OBVIOUS
  <1> QED
    BY <1>1, <1>2, <1>3, <1>4, <1>5 DEF FulfilOK

-----------------------------------------------------------------------------
(* The order.                                                               *)

OutboundStep(e) ==
  \/ OrderCreated(e) \/ LatestOrder(e) \/ OrderItemCreated(e)
  \/ InventoryAllocationCreated(e) \/ InventoryReserved(e)
  \/ PickingTaskCreated(e) \/ Picking(e) \/ PickingTaskStarted(e) \/ PickingRecheck(e)
  \/ PickingCompleted(e)
  \/ PackingTaskCreated(e) \/ Packing(e) \/ PackingTaskStarted(e) \/ PackingCompleted(e)
  \/ Transportation(e) \/ ShipmentMoves(e)

\* What these have in common: they leave the receiving of goods alone.
Serves(e, p, c) ==
  /\ at[e] \in {"OrderCreated"} \cup Ordering \cup Fulfilling /\ Goes(e, p, c)
  /\ p \in Ordering \cup Fulfilling \cup {"save"}
  /\ c \in Context /\ c.task = context[e].task /\ c.window = context[e].window
  /\ newest' \in 0..MaxExecutions
  /\ UNCHANGED <<apiVars, report, inboundVars, countVars>>

ServedOK(e) == /\ \E p, c : Serves(e, p, c)
               /\ ContextOK(e)' /\ FulfilOK(e)' /\ OutboundTypeOK' /\ FreshInv' /\ TaskInv'

OutboundIInv == TypeOK /\ LockInv /\ ContextInv /\ FreshInv /\ TaskInv /\ FulfilInv

\* A generator that writes the order of its execution before there are picking tasks.
LEMMA Ordered ==
  ASSUME OutboundIInv, NEW e \in Executions, NEW p \in Ordering \cup {"save"}, NEW c, NEW w \in Order,
         at[e] \in {"OrderCreated"} \cup Ordering, Goes(e, p, c), p = "save" => c.failed,
         w.picked = {}, order' = [order EXCEPT ![e] = w], UNCHANGED <<picking, packing, shipment>>
  PROVE  FulfilOK(e)' /\ OutboundTypeOK' /\ FreshInv' /\ TaskInv'
  <1>1. /\ at'[e] = p /\ context'[e] = c
        /\ \A d \in Executions : d # e => at'[d] = at[d]
    BY DEF Goes, OutboundIInv, TypeOK
  <1>2. order'[e] = w /\ \A d \in Executions : d # e => order'[d] = order[d]
    BY OutboundType DEF OutboundIInv, OutboundTypeOK
  <1>3. at[e] \in Unpicked /\ at'[e] \notin Unordered
    BY <1>1 DEF Unpicked, Unordered, Ordering, Preparing, Receiving
  <1>4. OutboundTypeOK'
    <2>1. order' \in [Executions -> Order]
      BY OutboundType DEF OutboundIInv, OutboundTypeOK
    <2>2. \A d \in Executions : order'[d].picked \subseteq 1..order'[d].lines
      BY <1>2, OutboundType DEF OutboundIInv, OutboundTypeOK
    <2> QED
      BY <2>1, <2>2, OutboundType DEF OutboundIInv, OutboundTypeOK
  <1>5. FreshInv'
    BY <1>1, <1>2, <1>3 DEF OutboundIInv, FreshInv
  <1>6. TaskInv'
    <2>1. ASSUME NEW t \in Tasks, picking'[t].status # "NONE"
          PROVE  order'[t[2][1]] = order[t[2][1]]
      <3>1. t[2][1] # e
        BY <1>3, <2>1, NoTaskYet DEF OutboundIInv
      <3>2. t[2][1] \in Executions
        BY DEF Tasks, Allocations
      <3> QED
        BY <1>2, <3>1, <3>2
    <2> QED
      BY <2>1 DEF OutboundIInv, TaskInv
  <1>7. FulfilOK(e)'
    BY <1>1 DEF FulfilOK, Succeeding, Ordering, Fulfilling, PickingAt, PackingAt, Shipping
  <1> QED
    BY <1>4, <1>5, <1>6, <1>7

\* The order an execution writes is its own and has nothing picked.
LEMMA OwnOrder ==
  ASSUME OutboundIInv, NEW e \in Executions, at[e] \in Ordering \ {"LatestOrder"}
  PROVE  /\ OrderOf(e) = e /\ order[e] \in Order /\ order[e].picked = {}
         /\ order = [order EXCEPT ![e] = order[e]]
  BY OutboundType
  DEF OutboundIInv, OutboundTypeOK, ContextInv, ContextOK, FreshInv, Unpicked, OrderOf

LEMMA OrderCreatedIsOK ==
  ASSUME OutboundIInv, NEW e \in Executions, OrderCreated(e)
  PROVE  ServedOK(e)
  <1>1. /\ at[e] = "OrderCreated" /\ newest' = e
        /\ UNCHANGED <<apiVars, report, inboundVars, picking, packing, shipment, countVars>>
    BY DEF OrderCreated
  <1>2. Goes(e, "LatestOrder", context[e]) /\ context[e] \in Context /\ ContextOK(e)
    BY GoGoes, ContextFields DEF OrderCreated, OutboundIInv, ContextInv
  <1>3. Serves(e, "LatestOrder", context[e])
    BY <1>1, <1>2, FullFlowAssumption DEF Serves, Ordering, Executions
  <1>4. PICK was \in Order : was = order[e] /\ was.picked = {}
    BY <1>1, OutboundType DEF OutboundIInv, OutboundTypeOK, FreshInv, Unpicked, Unordered
  <1>5. PICK w \in Order : w = [was EXCEPT !.status = "CREATED"]
    BY DEF Order
  <1>6. w.picked = {} /\ order' = [order EXCEPT ![e] = w]
    <2>1. order' = [order EXCEPT ![e] = w]
      BY <1>4, <1>5, OutboundType DEF OrderCreated, OutboundIInv, OutboundTypeOK
    <2> QED
      BY <1>4, <1>5, <2>1 DEF Order
  <1>7. FulfilOK(e)' /\ OutboundTypeOK' /\ FreshInv' /\ TaskInv'
    BY <1>1, <1>2, <1>6, Ordered DEF Ordering
  <1>8. at'[e] = "LatestOrder" /\ context'[e] = context[e]
    BY <1>2 DEF Goes, OutboundIInv, TypeOK
  <1>9. ContextOK(e)'
    BY <1>1, <1>2, <1>8 DEF ContextOK, Ordering, Fulfilling, PickingAt, PackingAt, Shipping
  <1> QED
    BY <1>3, <1>7, <1>9 DEF ServedOK

LEMMA LatestOrderIsOK ==
  ASSUME OutboundIInv, NEW e \in Executions, LatestOrder(e)
  PROVE  ServedOK(e)
  <1>1. /\ at[e] = "LatestOrder"
        /\ UNCHANGED <<apiVars, report, inboundVars, newest, order, picking, packing, shipment, countVars>>
    BY DEF LatestOrder, outboundVars
  <1>2. context[e] \in Context /\ newest = e
    BY <1>1, ContextFields DEF OutboundIInv, ContextInv, ContextOK
  <1>3. PICK c \in Context : c = [context[e] EXCEPT !.order = e]
    BY <1>2, ContextFields DEF OutboundIInv, TypeOK
  <1>4. Goes(e, "OrderItemCreated", c)
    BY <1>2, <1>3 DEF LatestOrder, Goes, OutboundIInv, TypeOK
  <1>5. c.order = e /\ c.task = context[e].task /\ c.window = context[e].window
    BY <1>2, <1>3 DEF Context
  <1>6. Serves(e, "OrderItemCreated", c)
    BY <1>1, <1>4, <1>5 DEF Serves, Ordering, OutboundIInv, TypeOK
  <1>7. order[e] \in Order /\ order[e].picked = {} /\ order' = [order EXCEPT ![e] = order[e]]
    BY <1>1, OutboundType DEF OutboundIInv, OutboundTypeOK, FreshInv, Unpicked, Ordering
  <1>8. FulfilOK(e)' /\ OutboundTypeOK' /\ FreshInv' /\ TaskInv'
    BY <1>1, <1>4, <1>7, Ordered DEF Ordering
  <1>9. at'[e] = "OrderItemCreated" /\ context'[e] = c
    BY <1>4 DEF Goes, OutboundIInv, TypeOK
  <1>10. ContextOK(e)'
    BY <1>5, <1>9 DEF ContextOK, Ordering, Fulfilling, PickingAt, PackingAt, Shipping
  <1> QED
    BY <1>6, <1>8, <1>10 DEF ServedOK

\* One of the generators that write the order's items and allocations, or give up.
LEMMA OrderWritten ==
  ASSUME OutboundIInv, NEW e \in Executions, NEW next, NEW w \in Order,
         at[e] \in Ordering \ {"LatestOrder"}, next \in Ordering \ {"LatestOrder"},
         UNCHANGED <<apiVars, report, inboundVars, newest, picking, packing, shipment, countVars>>,
         \/ order' = [order EXCEPT ![e] = w] /\ w.picked = {} /\ Go(e, next)
         \/ UNCHANGED order /\ Stop(e)
  PROVE  ServedOK(e)
  <1>1. context[e] \in Context /\ ContextOK(e) /\ newest \in 0..MaxExecutions
    BY ContextFields DEF OutboundIInv, ContextInv, TypeOK
  <1>2. PICK p, c : /\ Goes(e, p, c) /\ c \in Context
                    /\ c.task = context[e].task /\ c.order = context[e].order
                    /\ c.window = context[e].window
                    /\ p = next \/ (p = "save" /\ c.failed)
    <2>1. CASE Go(e, next)
      <3>1. Goes(e, next, context[e])
        BY <2>1, GoGoes DEF OutboundIInv
      <3> QED
        BY <1>1, <3>1
    <2>2. CASE Stop(e)
      BY <2>2, StopGoes DEF OutboundIInv
    <2> QED
      BY <2>1, <2>2
  <1>8. PICK x \in Order : order' = [order EXCEPT ![e] = x] /\ x.picked = {}
    BY OwnOrder
  <1>3. Serves(e, p, c)
    BY <1>1, <1>2 DEF Serves
  <1>4. p = "save" => c.failed
    BY <1>2 DEF Ordering
  <1>5. FulfilOK(e)' /\ OutboundTypeOK' /\ FreshInv' /\ TaskInv'
    <2>1. p \in Ordering \cup {"save"} /\ at[e] \in {"OrderCreated"} \cup Ordering
      BY <1>2
    <2> QED
      BY <1>2, <1>4, <1>8, <2>1, Ordered
  <1>6. at'[e] = p /\ context'[e] = c
    BY <1>2 DEF Goes, OutboundIInv, TypeOK
  <1>7. ContextOK(e)'
    BY <1>1, <1>2, <1>6 DEF ContextOK, Ordering, Fulfilling, PickingAt, PackingAt, Shipping
  <1> QED
    BY <1>3, <1>5, <1>7 DEF ServedOK

LEMMA OrderItemCreatedIsOK ==
  ASSUME OutboundIInv, NEW e \in Executions, OrderItemCreated(e)
  PROVE  ServedOK(e)
  <1>1. /\ at[e] = "OrderItemCreated"
        /\ UNCHANGED <<apiVars, report, inboundVars, newest, picking, packing, shipment, countVars>>
    BY DEF OrderItemCreated
  <1>2. OrderOf(e) = e /\ order[e] \in Order
    BY <1>1, OwnOrder DEF Ordering
  <1>3. PICK w \in Order :
          \/ order' = [order EXCEPT ![e] = w] /\ w.picked = {} /\ Go(e, "InventoryAllocationCreated")
          \/ UNCHANGED order /\ Stop(e)
    <2>1. CASE order[e].status = "CREATED"
      <3>1. PICK n \in 1..MaxLines :
              order' = [order EXCEPT ![e] = [status |-> "ITEMS", lines |-> n, picked |-> {}]]
        BY <1>2, <2>1 DEF OrderItemCreated
      <3>2. n \in 0..MaxLines /\ {} \in SUBSET (1..MaxLines)
        BY FullFlowAssumption
      <3>3. PICK w \in Order : w = [status |-> "ITEMS", lines |-> n, picked |-> {}]
        BY <3>2 DEF Order
      <3> QED
        BY <1>2, <2>1, <3>1, <3>3 DEF OrderItemCreated
    <2>2. CASE order[e].status # "CREATED"
      BY <1>2, <2>2 DEF OrderItemCreated
    <2> QED
      BY <2>1, <2>2
  <1> QED
    BY <1>1, <1>3, OrderWritten DEF Ordering

LEMMA AllocationsMoveIsOK ==
  ASSUME OutboundIInv, NEW e \in Executions, NEW event \in Ordering \ {"LatestOrder"},
         NEW from, NEW to \in {"ALLOCATED", "RESERVED"}, NEW next \in Ordering \ {"LatestOrder"},
         AllocationsMove(e, event, from, to, next)
  PROVE  ServedOK(e)
  <1>1. /\ at[e] \in Ordering \ {"LatestOrder"}
        /\ UNCHANGED <<apiVars, report, inboundVars, newest, picking, packing, shipment, countVars>>
    BY DEF AllocationsMove
  <1>2. PICK was \in Order : was = order[e] /\ was.picked = {} /\ OrderOf(e) = e
    BY <1>1, OwnOrder
  <1>3. PICK w \in Order : w = [was EXCEPT !.status = to]
    BY DEF Order
  <1>4. \/ order' = [order EXCEPT ![e] = w] /\ w.picked = {} /\ Go(e, next)
        \/ UNCHANGED order /\ Stop(e)
    <2>1. CASE order[e].status = from
      <3>1. order' = [order EXCEPT ![e] = w] /\ Go(e, next)
        BY <1>2, <1>3, <2>1, OutboundType DEF AllocationsMove, OutboundIInv, OutboundTypeOK
      <3> QED
        BY <1>2, <1>3, <3>1 DEF Order
    <2>2. CASE order[e].status # from
      BY <1>2, <2>2 DEF AllocationsMove
    <2> QED
      BY <2>1, <2>2
  <1> QED
    BY <1>1, <1>4, OrderWritten

-----------------------------------------------------------------------------
(* The generator that finds every RESERVED allocation.                      *)

\* Allocations are reserved of orders up to that of the execution that looks.
LEMMA ReservedAreOld ==
  ASSUME OutboundIInv, NEW e \in Executions, Running(e), NEW a \in ReservedAllocations
  PROVE  /\ a \in Allocations /\ a[1] \in Executions /\ a[1] <= e
         /\ order[a[1]].status = "RESERVED" /\ a[2] \in 1..order[a[1]].lines
  <1>1. /\ a \in Allocations /\ a[1] \in Executions
        /\ order[a[1]].status = "RESERVED" /\ a[2] \in 1..order[a[1]].lines
    BY DEF ReservedAllocations, Allocations
  <1>2. at[a[1]] # "waiting"
    BY <1>1 DEF OutboundIInv, FreshInv, Unordered, NoOrder
  <1>3. ~(e < a[1])
    BY <1>1, <1>2 DEF OutboundIInv, LockInv, Running
  <1>4. a[1] <= e
    BY <1>1, <1>3 DEF Executions
  <1> QED
    BY <1>1, <1>4

LEMMA PickingTaskCreatedIsOK ==
  ASSUME OutboundIInv, NEW e \in Executions, PickingTaskCreated(e)
  PROVE  ServedOK(e)
  <1> DEFINE IsNew(t) == t[1] = e /\ t[2] \in ReservedAllocations
             mine == {t \in Tasks : picking'[t].status # "NONE" /\ picking'[t].order = OrderOf(e)}
  <1>1. /\ at[e] = "PickingTaskCreated"
        /\ UNCHANGED <<apiVars, report, inboundVars, newest, order, packing, shipment, countVars>>
    BY DEF PickingTaskCreated
  <1>2. /\ OrderOf(e) = e /\ order[e].picked = {} /\ Running(e) /\ at[e] \in Unpicked
        /\ context[e] \in Context /\ ContextOK(e) /\ newest \in 0..MaxExecutions
    BY <1>1, OwnOrder, ContextFields
    DEF Ordering, Unpicked, Running, OutboundIInv, ContextInv, TypeOK
  <1>3. PICK first \in ReservedAllocations :
          picking' = [t \in Tasks |->
            IF t[1] = e /\ t[2] \in ReservedAllocations
            THEN [status |-> "CREATED", order |-> first[1], started |-> 0]
            ELSE picking[t]]
    BY DEF PickingTaskCreated
  <1>4. first[1] \in 1..e
    BY <1>2, ReservedAreOld DEF Executions
  <1>5. \A t \in Tasks :
          /\ IsNew(t) => picking'[t].status = "CREATED" /\ picking'[t].order = first[1]
          /\ ~IsNew(t) => picking'[t] = picking[t]
          /\ t[1] = e => picking[t].status = "NONE"
    BY <1>2, <1>3 DEF OutboundIInv, FreshInv
  <1>6. PICK p, c :
          /\ Goes(e, p, c) /\ c \in Context /\ c.task = context[e].task
          /\ c.window = context[e].window /\ c.order = context[e].order
          /\ \/ p = "Picking" /\ c.ids = mine /\ mine # {}
             \/ p = "save" /\ c.failed
    <2>0. IF mine = {} THEN Stop(e)
          ELSE context' = [context EXCEPT ![e].ids = mine] /\ at' = [at EXCEPT ![e] = "Picking"]
      BY DEF PickingTaskCreated
    <2>3. mine \in SUBSET Tasks
      OBVIOUS
    <2> HIDE DEF mine
    <2>1. CASE mine = {}
      BY <2>0, <2>1, StopGoes DEF OutboundIInv
    <2>2. CASE mine # {}
      <3>1. PICK ids \in SUBSET Tasks : ids = mine
        BY <2>3
      <3>2. PICK c \in Context : c = [context[e] EXCEPT !.ids = ids]
        BY ContextFields DEF OutboundIInv
      <3>3. context' = [context EXCEPT ![e].ids = ids] /\ at' = [at EXCEPT ![e] = "Picking"]
        BY <2>0, <2>2, <3>1
      <3>4. Goes(e, "Picking", c)
        BY <3>2, <3>3 DEF Goes, OutboundIInv, TypeOK
      <3>5. c.task = context[e].task /\ c.window = context[e].window
            /\ c.order = context[e].order /\ c.ids = ids
        BY <1>2, <3>2 DEF Context
      <3> QED
        BY <2>2, <3>1, <3>4, <3>5
    <2> QED
      BY <2>1, <2>2
  <1>7. Serves(e, p, c)
    BY <1>1, <1>2, <1>6 DEF Serves, Ordering, Fulfilling, PickingAt
  <1>8. /\ at'[e] = p /\ context'[e] = c
        /\ \A d \in Executions : d # e => at'[d] = at[d]
    BY <1>6 DEF Goes, OutboundIInv, TypeOK
  <1>9. ContextOK(e)'
    BY <1>1, <1>2, <1>6, <1>8
    DEF ContextOK, Ordering, Fulfilling, PickingAt, PackingAt, Shipping
  <1>10. OutboundTypeOK'
    <2>1. PICK new \in Task : new = [status |-> "CREATED", order |-> first[1], started |-> 0]
      <3>1. first[1] \in 0..MaxExecutions /\ 0 \in 0..(2 * MaxExecutions + 1)
        BY <1>4, FullFlowAssumption DEF Executions
      <3> QED
        BY <3>1 DEF Task, TaskStatus
    <2>2. picking' \in [Tasks -> Task]
      BY <1>3, <2>1, OutboundType DEF OutboundIInv, OutboundTypeOK
    <2> QED
      BY <1>1, <2>2, OutboundType DEF OutboundIInv, OutboundTypeOK
  <1>11. TaskInv'
    <2>1. ASSUME NEW t \in Tasks, IsNew(t)
          PROVE  /\ t[2][1] <= t[1] /\ picking'[t].order \in 1..t[1]
                 /\ order[t[2][1]].status = "RESERVED" /\ t[2][2] \in 1..order[t[2][1]].lines
                 /\ picking'[t].status # "COMPLETED"
      BY <1>2, <1>4, <1>5, <2>1, ReservedAreOld
    <2>2. ASSUME NEW t \in Tasks, ~IsNew(t), picking'[t].status # "NONE"
          PROVE  /\ t[2][1] <= t[1] /\ picking'[t].order \in 1..t[1]
                 /\ order[t[2][1]].status = "RESERVED" /\ t[2][2] \in 1..order[t[2][1]].lines
                 /\ picking'[t].status = "COMPLETED" => t[2][2] \in order[t[2][1]].picked
      BY <1>5, <2>2 DEF OutboundIInv, TaskInv
    <2>3. order' = order
      BY <1>1
    <2> HIDE DEF IsNew
    <2> QED
      BY <2>1, <2>2, <2>3 DEF TaskInv
  <1>12. FreshInv'
    <2>1. ASSUME NEW d \in Executions, at'[d] \in Unpicked
          PROVE  /\ at'[d] = at[d]
                 /\ \A t \in Tasks : t[1] = d => picking'[t].status = "NONE"
      <3>1. d # e
        BY <1>6, <1>8, <2>1 DEF Unpicked, Unordered, Ordering, Preparing, Receiving
      <3> QED
        BY <1>5, <1>8, <2>1, <3>1 DEF OutboundIInv, FreshInv
    <2>2. \A d \in Executions : at'[d] \in Unordered => at'[d] \in Unpicked
      BY DEF Unpicked
    <2> QED
      BY <1>1, <2>1, <2>2 DEF OutboundIInv, FreshInv
  <1>13. FulfilOK(e)'
    <2>1. CASE p = "save"
      BY <1>6, <1>8, <2>1 DEF FulfilOK, Succeeding, Fulfilling, PickingAt, PackingAt, Shipping
    <2>2. CASE p = "Picking"
      <3>1. PICK t \in Tasks : picking'[t].status # "NONE" /\ picking'[t].order = e
        BY <1>2, <1>6, <2>2
      <3>2. IsNew(t)
        BY <1>2, <1>5, <3>1, NoTaskYet DEF OutboundIInv
      <3>3. first[1] = e
        BY <1>5, <3>1, <3>2
      <3>4. order[e].status = "RESERVED" /\ order[e] \in Order
        BY <1>2, <3>3, ReservedAreOld, OutboundType DEF OutboundIInv, OutboundTypeOK
      <3>5. ASSUME NEW i \in 1..order[e].lines
            PROVE  /\ picking'[<<e, <<e, i>>>>].status # "NONE"
                   /\ picking'[<<e, <<e, i>>>>].order = e
        <4>1. i \in 1..MaxLines
          BY <3>4, FullFlowAssumption DEF Order
        <4>2. <<e, i>> \in ReservedAllocations
          BY <1>2, <3>4, <4>1 DEF ReservedAllocations, Allocations
        <4>3. PICK s \in Tasks : s = <<e, <<e, i>>>>
          BY <4>1 DEF Tasks, Allocations
        <4> QED
          BY <1>5, <3>3, <4>2, <4>3
      <3>6. packing'[e] = "NONE" /\ order' = order
        BY <1>1, <1>2 DEF OutboundIInv, FreshInv
      <3> QED
        BY <1>8, <2>2, <3>5, <3>6
        DEF FulfilOK, Succeeding, Fulfilling, PickingAt, PackingAt, Shipping
    <2> QED
      BY <1>6, <2>1, <2>2
  <1> QED
    BY <1>7, <1>9, <1>10, <1>11, <1>12, <1>13 DEF ServedOK

-----------------------------------------------------------------------------
(* Picking, packing and shipping.                                           *)

LEMMA Served ==
  ASSUME OutboundIInv, Advances, NEW e \in Executions, NEW p \in Fulfilling \cup {"save"},
         NEW c \in Context, at[e] \in Fulfilling, Goes(e, p, c),
         c.task = context[e].task, c.window = context[e].window, c.order = context[e].order,
         UNCHANGED <<apiVars, report, inboundVars, newest, countVars>>,
         p \in PickingAt => c.ids \subseteq Tasks,
         p \in PickingAt \ {"Picking"} => c.now \in Tasks,
         p \in PackingAt \ {"PackingTaskCreated"} => packing'[e] # "NONE",
         p \in Shipping => packing'[e] = "COMPLETED",
         p = "save" => c.failed \/ (packing[e] = "COMPLETED" /\ shipment[e] = Delivered)
  PROVE  ServedOK(e)
  <1>1. /\ at'[e] = p /\ context'[e] = c
        /\ \A d \in Executions : d # e => at'[d] = at[d]
    BY DEF Goes, OutboundIInv, TypeOK
  <1>2. Serves(e, p, c)
    BY DEF Serves, OutboundIInv, TypeOK
  <1>3. ContextOK(e)'
    <2>1. ContextOK(e)
      BY DEF OutboundIInv, ContextInv
    <2> QED
      BY <1>1, <2>1 DEF ContextOK, Ordering, Fulfilling, PickingAt, PackingAt, Shipping
  <1>4. FulfilOK(e)'
    BY Fulfilled DEF OutboundIInv, FulfilInv
  <1>5. p \notin Unpicked /\ p \notin Unordered
    BY DEF Unpicked, Unordered, Ordering, Preparing, Receiving, Fulfilling, PickingAt, PackingAt,
           Shipping
  <1>6. FreshInv'
    BY <1>1, <1>5, FreshStays DEF OutboundIInv
  <1>7. TaskInv' /\ OutboundTypeOK'
    BY TasksStay, OutboundType
    DEF OutboundIInv, Advances, PickingAdvances, PackingAdvances, ShippingAdvances, OutboundTypeOK
  <1> QED
    BY <1>2, <1>3, <1>4, <1>6, <1>7 DEF ServedOK

\* What the invariant says of an execution that fulfils its order.
LEMMA Serving ==
  ASSUME OutboundIInv, NEW e \in Executions, at[e] \in Fulfilling
  PROVE  /\ OrderOf(e) = e /\ context[e] \in Context
         /\ at[e] \in PickingAt => context[e].ids \subseteq Tasks
         /\ at[e] \in PickingAt \ {"Picking"} => context[e].now \in Tasks
         /\ at[e] \in PackingAt \ {"PackingTaskCreated"} => packing[e] # "NONE"
         /\ at[e] \in Shipping => packing[e] = "COMPLETED"
  BY ContextFields DEF OutboundIInv, ContextInv, ContextOK, OrderOf, FulfilInv, FulfilOK

\* A runner that goes on, or stops, with what it knows.
LEMMA ServedOn ==
  ASSUME OutboundIInv, Advances, NEW e \in Executions, NEW p \in Fulfilling \cup {"save"},
         at[e] \in Fulfilling, Go(e, p) \/ Stop(e),
         UNCHANGED <<apiVars, report, inboundVars, newest, countVars>>,
         Go(e, p) => /\ p \in PickingAt => at[e] \in PickingAt
                     /\ p \in PickingAt \ {"Picking"} => at[e] # "Picking"
                     /\ p \in PackingAt \ {"PackingTaskCreated"} => packing'[e] # "NONE"
                     /\ p \in Shipping => packing'[e] = "COMPLETED"
                     /\ p = "save" => packing[e] = "COMPLETED" /\ shipment[e] = Delivered
  PROVE  ServedOK(e)
  <1>1. CASE Go(e, p)
    <2>1. Goes(e, p, context[e])
      BY <1>1, GoGoes DEF OutboundIInv
    <2>2. /\ p \in PickingAt => context[e].ids \subseteq Tasks
          /\ p \in PickingAt \ {"Picking"} => context[e].now \in Tasks
      BY <1>1, Serving
    <2> QED
      BY <1>1, <2>1, <2>2, Served, Serving
  <1>2. CASE Stop(e)
    <2>1. PICK c \in Context :
            /\ Goes(e, "save", c) /\ c.failed /\ c.window = context[e].window
            /\ c.task = context[e].task /\ c.order = context[e].order
      BY <1>2, StopGoes DEF OutboundIInv
    <2> QED
      BY <2>1, Served DEF PickingAt, PackingAt, Shipping
  <1> QED
    BY <1>1, <1>2

LEMMA PackAdvances ==
  ASSUME TypeOK, NEW o \in Executions, NEW v \in TaskStatus \ {"NONE"},
         packing[o] # "NONE" \/ PickingDone(o), packing[o] = "COMPLETED" => v = "COMPLETED",
         packing' = [packing EXCEPT ![o] = v], UNCHANGED <<order, picking, shipment>>
  PROVE  Advances /\ packing'[o] = v
  <1>1. packing'[o] = v /\ packing' \in [Executions -> TaskStatus]
    BY OutboundType DEF OutboundTypeOK
  <1>2. \A d \in Executions : d # o => packing'[d] = packing[d]
    BY OutboundType DEF OutboundTypeOK
  <1>3. PackingAdvances
    BY <1>1, <1>2 DEF PackingAdvances
  <1> QED
    BY <1>1, <1>3, OutboundType
    DEF OutboundTypeOK, Advances, PickingAdvances, ShippingAdvances

LEMMA ShipAdvances ==
  ASSUME TypeOK, NEW o \in Executions, NEW k \in 0..Delivered, shipment[o] # Delivered,
         shipment' = [shipment EXCEPT ![o] = k], UNCHANGED <<order, picking, packing>>
  PROVE  Advances
  BY OutboundType
  DEF OutboundTypeOK, Advances, PickingAdvances, PackingAdvances, ShippingAdvances

LEMMA PickingIsOK ==
  ASSUME OutboundIInv, NEW e \in Executions, Picking(e)
  PROVE  ServedOK(e)
  <1>1. /\ at[e] = "Picking"
        /\ UNCHANGED <<apiVars, report, inboundVars, newest, order, picking, packing, shipment, countVars>>
    BY DEF Picking, outboundVars
  <1>2. Advances
    BY <1>1, NothingAdvances DEF OutboundIInv
  <1>3. at[e] \in Fulfilling /\ at[e] \in PickingAt
    BY <1>1 DEF Fulfilling, PickingAt
  <1>4. CASE context[e].ids = {}
    <2>1. Go(e, "PackingTaskCreated") /\ "PackingTaskCreated" \in Fulfilling \ (PickingAt \cup Shipping)
      BY <1>4 DEF Picking, Fulfilling, PickingAt, PackingAt, Shipping
    <2> QED
      BY <1>1, <1>2, <1>3, <2>1, ServedOn
  <1>5. CASE context[e].ids # {}
    <2>1. PICK t \in context[e].ids :
            /\ context' = [context EXCEPT ![e].ids = Rest(e, t), ![e].now = t]
            /\ at' = [at EXCEPT ![e] =
                        CASE picking[t].status = "CREATED" -> "PickingTaskStarted"
                          [] picking[t].status = "STARTED" -> "PickingRecheck"
                          [] OTHER -> "Picking"]
      BY <1>5 DEF Picking
    <2>2. PICK p \in PickingAt : at' = [at EXCEPT ![e] = p]
      BY <2>1 DEF PickingAt
    <2>3. t \in Tasks /\ Rest(e, t) \in SUBSET Tasks /\ context[e] \in Context
      BY <1>3, Serving DEF Rest
    <2>4. PICK c : c = [context[e] EXCEPT !.ids = Rest(e, t), !.now = t]
      OBVIOUS
    <2>5. /\ c \in Context /\ c.task = context[e].task /\ c.window = context[e].window
          /\ c.order = context[e].order /\ c.ids = Rest(e, t) /\ c.now = t
      BY <2>3, <2>4 DEF Context
    <2>6. Goes(e, p, c)
      BY <2>1, <2>2, <2>4 DEF Goes, OutboundIInv, TypeOK
    <2>7. p \in Fulfilling /\ p \notin PackingAt /\ p \notin Shipping /\ p # "save"
      BY DEF Fulfilling, PickingAt, PackingAt, Shipping
    <2> QED
      BY <1>1, <1>2, <1>3, <2>3, <2>5, <2>6, <2>7, Served
  <1> QED
    BY <1>4, <1>5

LEMMA PickingTaskStartedIsOK ==
  ASSUME OutboundIInv, NEW e \in Executions, PickingTaskStarted(e)
  PROVE  ServedOK(e)
  <1>1. /\ at[e] = "PickingTaskStarted"
        /\ UNCHANGED <<apiVars, report, inboundVars, newest, order, packing, shipment, countVars>>
    BY DEF PickingTaskStarted
  <1>2. at[e] \in Fulfilling /\ at[e] \in PickingAt \ {"Picking"}
    BY <1>1 DEF Fulfilling, PickingAt
  <1>3. context[e].now \in Tasks /\ Now(e) \in 0..(2 * MaxExecutions + 1)
    BY <1>2, Serving, FullFlowAssumption DEF Now, Executions
  <1>4. \/ Started(context[e].now, Now(e)) /\ Go(e, "PickingRecheck")
        \/ UNCHANGED picking /\ Stop(e)
    BY DEF PickingTaskStarted
  <1>5. Advances
    BY <1>1, <1>3, <1>4, StartAdvances, NothingAdvances DEF OutboundIInv
  <1>6. "PickingRecheck" \in Fulfilling \ (PackingAt \cup Shipping)
    BY DEF Fulfilling, PickingAt, PackingAt, Shipping
  <1> QED
    BY <1>1, <1>2, <1>4, <1>5, <1>6, ServedOn

LEMMA PickingRecheckIsOK ==
  ASSUME OutboundIInv, NEW e \in Executions, PickingRecheck(e)
  PROVE  ServedOK(e)
  <1>1. /\ at[e] = "PickingRecheck"
        /\ UNCHANGED <<apiVars, report, inboundVars, newest, order, picking, packing, shipment, countVars>>
    BY DEF PickingRecheck, outboundVars
  <1>2. Advances
    BY <1>1, NothingAdvances DEF OutboundIInv
  <1>3. at[e] \in Fulfilling /\ at[e] \in PickingAt \ {"Picking"}
    BY <1>1 DEF Fulfilling, PickingAt
  <1>4. PICK p \in {"Picking", "PickingCompleted"} : Go(e, p)
    BY DEF PickingRecheck
  <1>5. p \in Fulfilling \ (PackingAt \cup Shipping) /\ p # "save"
    BY DEF Fulfilling, PickingAt, PackingAt, Shipping
  <1> QED
    BY <1>1, <1>2, <1>3, <1>4, <1>5, ServedOn

LEMMA PickingCompletedIsOK ==
  ASSUME OutboundIInv, NEW e \in Executions, PickingCompleted(e)
  PROVE  ServedOK(e)
  <1>1. /\ at[e] = "PickingCompleted"
        /\ UNCHANGED <<apiVars, report, inboundVars, newest, packing, shipment, countVars>>
    BY DEF PickingCompleted
  <1>2. at[e] \in Fulfilling /\ at[e] \in PickingAt \ {"Picking"}
    BY <1>1 DEF Fulfilling, PickingAt
  <1>3. /\ PickCompletes \/ UNCHANGED <<picking, order>>
        /\ Go(e, "Picking") \/ Stop(e)
    BY DEF PickingCompleted
  <1>4. Advances
    BY <1>1, <1>3, PickAdvances, NothingAdvances DEF OutboundIInv
  <1>5. "Picking" \in Fulfilling \ (PackingAt \cup Shipping)
    BY DEF Fulfilling, PickingAt, PackingAt, Shipping
  <1> QED
    BY <1>1, <1>2, <1>3, <1>4, <1>5, ServedOn

LEMMA PackingTaskCreatedIsOK ==
  ASSUME OutboundIInv, NEW e \in Executions, PackingTaskCreated(e)
  PROVE  ServedOK(e)
  <1>1. /\ at[e] = "PackingTaskCreated"
        /\ UNCHANGED <<apiVars, report, inboundVars, newest, order, picking, shipment, countVars>>
    BY DEF PackingTaskCreated
  <1>2. at[e] \in Fulfilling /\ "Packing" \in Fulfilling \ (PickingAt \cup Shipping)
    BY <1>1 DEF Fulfilling, PickingAt, PackingAt, Shipping
  <1>3. OrderOf(e) = e
    BY <1>2, Serving
  <1>4. \/ packing[e] # "NONE" /\ UNCHANGED packing /\ Go(e, "Packing")
        \/ /\ packing[e] = "NONE" /\ PickingDone(e)
           /\ packing' = [packing EXCEPT ![e] = "CREATED"]
           /\ Go(e, "Packing")
        \/ UNCHANGED packing /\ Stop(e)
    BY <1>3 DEF PackingTaskCreated
  <1>5. CASE packing[e] # "NONE" /\ UNCHANGED packing /\ Go(e, "Packing")
    <2>1. Advances
      BY <1>1, <1>5, NothingAdvances DEF OutboundIInv
    <2> QED
      BY <1>1, <1>2, <1>5, <2>1, ServedOn
  <1>6. CASE /\ packing[e] = "NONE" /\ PickingDone(e)
             /\ packing' = [packing EXCEPT ![e] = "CREATED"]
             /\ Go(e, "Packing")
    <2>1. Advances /\ packing'[e] = "CREATED"
      BY <1>1, <1>6, PackAdvances DEF OutboundIInv, TaskStatus
    <2> QED
      BY <1>1, <1>2, <1>6, <2>1, ServedOn
  <1>7. CASE UNCHANGED packing /\ Stop(e)
    <2>1. Advances
      BY <1>1, <1>7, NothingAdvances DEF OutboundIInv
    <2>2. ~Go(e, "Packing")
      BY <1>1, <1>7 DEF Go, Stop, OutboundIInv, TypeOK
    <2> QED
      BY <1>1, <1>2, <1>7, <2>1, <2>2, ServedOn
  <1> QED
    BY <1>4, <1>5, <1>6, <1>7

LEMMA PackingIsOK ==
  ASSUME OutboundIInv, NEW e \in Executions, Packing(e)
  PROVE  ServedOK(e)
  <1>1. /\ at[e] = "Packing"
        /\ UNCHANGED <<apiVars, report, inboundVars, newest, order, picking, packing, shipment, countVars>>
    BY DEF Packing, outboundVars
  <1>2. Advances
    BY <1>1, NothingAdvances DEF OutboundIInv
  <1>3. at[e] \in Fulfilling /\ OrderOf(e) = e /\ packing[e] # "NONE"
    BY <1>1, Serving DEF Fulfilling, PackingAt
  <1>4. packing[e] \in {"CREATED", "STARTED", "COMPLETED"}
    BY <1>3, OutboundType DEF OutboundIInv, OutboundTypeOK, TaskStatus
  <1>5. PICK p : /\ Go(e, p)
                 /\ p \in {"PackingTaskStarted", "PackingCompleted", "Transportation"}
                 /\ p = "Transportation" => packing[e] = "COMPLETED"
    BY <1>3, <1>4 DEF Packing
  <1>6. /\ p \in Fulfilling \ PickingAt /\ p # "save"
        /\ p \in Shipping => packing'[e] = "COMPLETED"
    BY <1>1, <1>5 DEF Fulfilling, PickingAt, PackingAt, Shipping
  <1> QED
    BY <1>1, <1>2, <1>3, <1>5, <1>6, ServedOn

LEMMA PackingTaskStartedIsOK ==
  ASSUME OutboundIInv, NEW e \in Executions, PackingTaskStarted(e)
  PROVE  ServedOK(e)
  <1>1. /\ at[e] = "PackingTaskStarted"
        /\ UNCHANGED <<apiVars, report, inboundVars, newest, order, picking, shipment, countVars>>
    BY DEF PackingTaskStarted
  <1>2. /\ at[e] \in Fulfilling /\ OrderOf(e) = e /\ packing[e] # "NONE"
        /\ "PackingCompleted" \in Fulfilling \ (PickingAt \cup Shipping)
    BY <1>1, Serving DEF Fulfilling, PickingAt, PackingAt, Shipping
  <1>3. CASE packing[e] = "CREATED"
    <2>1. packing' = [packing EXCEPT ![e] = "STARTED"] /\ Go(e, "PackingCompleted")
      BY <1>2, <1>3 DEF PackingTaskStarted
    <2>2. Advances /\ packing'[e] = "STARTED"
      BY <1>1, <1>3, <2>1, PackAdvances DEF OutboundIInv, TaskStatus
    <2> QED
      BY <1>1, <1>2, <2>1, <2>2, ServedOn
  <1>4. CASE packing[e] # "CREATED"
    <2>1. UNCHANGED packing /\ Stop(e)
      BY <1>2, <1>4 DEF PackingTaskStarted
    <2>2. Advances
      BY <1>1, <2>1, NothingAdvances DEF OutboundIInv
    <2> QED
      BY <1>1, <1>2, <2>1, <2>2, ServedOn
  <1> QED
    BY <1>3, <1>4

LEMMA PackingCompletedIsOK ==
  ASSUME OutboundIInv, NEW e \in Executions, PackingCompleted(e)
  PROVE  ServedOK(e)
  <1>1. /\ at[e] = "PackingCompleted"
        /\ UNCHANGED <<apiVars, report, inboundVars, newest, order, picking, shipment, countVars>>
    BY DEF PackingCompleted
  <1>2. /\ at[e] \in Fulfilling /\ OrderOf(e) = e /\ packing[e] # "NONE"
        /\ "Transportation" \in Fulfilling \ (PickingAt \cup PackingAt)
    BY <1>1, Serving DEF Fulfilling, PickingAt, PackingAt, Shipping
  <1>3. packing' = [packing EXCEPT ![e] = "COMPLETED"] /\ Go(e, "Transportation")
    BY <1>2 DEF PackingCompleted
  <1>4. Advances /\ packing'[e] = "COMPLETED"
    BY <1>1, <1>2, <1>3, PackAdvances DEF OutboundIInv, TaskStatus
  <1> QED
    BY <1>1, <1>2, <1>3, <1>4, ServedOn

LEMMA TransportationIsOK ==
  ASSUME OutboundIInv, NEW e \in Executions, Transportation(e)
  PROVE  ServedOK(e)
  <1>1. /\ at[e] = "Transportation"
        /\ UNCHANGED <<apiVars, report, inboundVars, newest, order, picking, packing, shipment, countVars>>
    BY DEF Transportation, outboundVars
  <1>2. Advances
    BY <1>1, NothingAdvances DEF OutboundIInv
  <1>3. at[e] \in Fulfilling /\ OrderOf(e) = e /\ packing[e] = "COMPLETED"
    BY <1>1, Serving DEF Fulfilling, Shipping
  <1>4. shipment[e] \in 0..5
    BY OutboundType, ShippingNames DEF OutboundIInv, OutboundTypeOK
  <1>5. PICK p : /\ Go(e, p)
                 /\ \/ p = "save" /\ shipment[e] = Delivered
                    \/ p \in Shipping \ {"Transportation"}
    <2>1. CASE shipment[e] = Delivered
      BY <1>3, <2>1 DEF Transportation
    <2>2. CASE shipment[e] # Delivered
      <3>1. Go(e, TransportationFlow[shipment[e] + 1])
        BY <1>3, <2>2 DEF Transportation
      <3>2. shipment[e] \in {0, 1, 2, 3, 4}
        BY <1>4, <2>2, ShippingNames
      <3>3. TransportationFlow[shipment[e] + 1] \in Shipping \ {"Transportation"}
        BY <3>2, ShippingNames DEF Shipping
      <3> QED
        BY <3>1, <3>3
    <2> QED
      BY <2>1, <2>2
  <1>6. /\ p \in Fulfilling \cup {"save"} /\ p \notin PickingAt /\ p \notin PackingAt
        /\ p \in Shipping => packing'[e] = "COMPLETED"
        /\ p = "save" => packing[e] = "COMPLETED" /\ shipment[e] = Delivered
    BY <1>1, <1>3, <1>5 DEF Fulfilling, PickingAt, PackingAt, Shipping
  <1> QED
    BY <1>1, <1>2, <1>3, <1>5, <1>6, ServedOn

LEMMA ShipmentMovesIsOK ==
  ASSUME OutboundIInv, NEW e \in Executions, ShipmentMoves(e)
  PROVE  ServedOK(e)
  <1>1. PICK k \in 1..Delivered :
          /\ at[e] = TransportationFlow[k]
          /\ IF shipment[OrderOf(e)] = k - 1
             THEN shipment' = [shipment EXCEPT ![OrderOf(e)] = k] /\ Go(e, "Transportation")
             ELSE UNCHANGED shipment /\ Stop(e)
          /\ UNCHANGED <<apiVars, report, inboundVars, newest, order, picking, packing, countVars>>
    BY DEF ShipmentMoves
  <1>2. at[e] \in Shipping
    <2>1. k \in {1, 2, 3, 4, 5}
      BY ShippingNames
    <2> QED
      BY <1>1, <2>1, ShippingNames DEF Shipping
  <1>3. /\ at[e] \in Fulfilling /\ OrderOf(e) = e /\ packing[e] = "COMPLETED"
        /\ "Transportation" \in Fulfilling \ (PickingAt \cup PackingAt)
    BY <1>2, Serving DEF Fulfilling, PickingAt, PackingAt, Shipping
  <1>4. CASE shipment[e] = k - 1
    <2>1. shipment[e] # Delivered /\ k \in 0..Delivered
      BY <1>4, ShippingNames
    <2>2. shipment' = [shipment EXCEPT ![e] = k] /\ Go(e, "Transportation")
      BY <1>1, <1>3, <1>4
    <2>3. UNCHANGED <<order, picking, packing>>
      BY <1>1
    <2>4. Advances
      BY <2>1, <2>2, <2>3, ShipAdvances DEF OutboundIInv
    <2> QED
      BY <1>1, <1>3, <2>2, <2>3, <2>4, ServedOn
  <1>5. CASE shipment[e] # k - 1
    <2>1. UNCHANGED shipment /\ Stop(e)
      BY <1>1, <1>3, <1>5
    <2>2. Advances
      BY <1>1, <2>1, NothingAdvances DEF OutboundIInv
    <2> QED
      BY <1>1, <1>3, <2>1, <2>2, ServedOn
  <1> QED
    BY <1>4, <1>5

LEMMA OutboundIsOK ==
  ASSUME OutboundIInv, NEW e \in Executions, OutboundStep(e)
  PROVE  ServedOK(e)
  <1>1. ASSUME InventoryAllocationCreated(e) \/ InventoryReserved(e)
        PROVE  ServedOK(e)
    BY <1>1, AllocationsMoveIsOK DEF InventoryAllocationCreated, InventoryReserved, Ordering
  <1> QED
    BY <1>1, OrderCreatedIsOK, LatestOrderIsOK, OrderItemCreatedIsOK, PickingTaskCreatedIsOK,
       PickingIsOK, PickingTaskStartedIsOK, PickingRecheckIsOK, PickingCompletedIsOK,
       PackingTaskCreatedIsOK, PackingIsOK, PackingTaskStartedIsOK, PackingCompletedIsOK,
       TransportationIsOK, ShipmentMovesIsOK
    DEF OutboundStep

-----------------------------------------------------------------------------
(* One step of an execution, put together.                                  *)

ApiTypeOK ==
  /\ holder \in 0..MaxExecutions
  /\ corr \in [Executions -> 0..MaxExecutions]
  /\ answer \in [Executions -> {"NONE", "SUCCESS", "FAILED", "LOST"}]
  /\ report \in [Executions -> Report] /\ latest \in Report
  /\ newest \in 0..MaxExecutions
  /\ byHand \in 0..MaxByHand /\ faults \in 0..MaxFaults

Places == Events \cup Lookups \cup
  {"waiting", "reset", "remove report", "start", "save", "exited", "killed", "done"}

LEMMA TypeParts ==
  TypeOK => /\ ApiTypeOK /\ InboundTypeOK /\ OutboundTypeOK
            /\ at \in [Executions -> Places] /\ context \in [Executions -> Context]
  BY DEF TypeOK, ApiTypeOK, InboundTypeOK, OutboundTypeOK, Places

\* The parts are kept, so TypeOK is.
LEMMA TypeStep ==
  ASSUME TypeOK, ApiTypeOK', InboundTypeOK', OutboundTypeOK', NEW e \in Executions,
         NEW p \in Places, NEW c \in Context, Goes(e, p, c)
  PROVE  TypeOK'
  <1>1. at' \in [Executions -> Places] /\ context' \in [Executions -> Context]
    BY TypeParts DEF Goes
  <1> QED
    BY <1>1 DEF TypeOK, ApiTypeOK, InboundTypeOK, OutboundTypeOK, Places

LEMMA Moved ==
  ASSUME TypeOK, NEW e \in Executions, NEW p, NEW c, Goes(e, p, c)
  PROVE  /\ at'[e] = p /\ context'[e] = c
         /\ \A d \in Executions : d # e => at'[d] = at[d] /\ context'[d] = context[d]
  BY DEF Goes, TypeOK

\* While an execution is on its way the others wait or are over.
LEMMA OthersRest ==
  ASSUME LockInv, NEW e \in Executions, Running(e), NEW d \in Executions, d # e
  PROVE  at[d] \in {"waiting", "done"}
  BY DEF LockInv, Running

LEMMA OthersStay ==
  ASSUME IInv, NEW e \in Executions, Running(e), NEW p, NEW c, Goes(e, p, c),
         NEW d \in Executions, d # e
  PROVE  ContextOK(d)' /\ InboundOK(d)' /\ FulfilOK(d)' /\ at'[d] # "exited"
  <1>1. at'[d] = at[d] /\ context'[d] = context[d]
    BY Moved DEF IInv
  <1>2. at[d] \in {"waiting", "done"}
    BY OthersRest DEF IInv
  <1>3. context[d].order \in {0, d}
    BY DEF IInv, ContextInv, ContextOK
  <1>4. ContextOK(d)'
    BY <1>1, <1>2, <1>3 DEF ContextOK, Ordering, Fulfilling, PickingAt, PackingAt, Shipping
  <1>5. InboundOK(d)' /\ FulfilOK(d)'
    BY <1>1, <1>2
    DEF InboundOK, FulfilOK, Succeeding, Ordering, Fulfilling, PickingAt, PackingAt, Shipping
  <1> QED
    BY <1>1, <1>2, <1>4, <1>5

LEMMA LockStays ==
  ASSUME TypeOK, LockInv, NEW e \in Executions, Running(e), NEW p, NEW c, Goes(e, p, c),
         p # "waiting", corr' = corr, holder' = holder \/ (holder' = 0 /\ p = "done")
  PROVE  LockInv'
  <1>1. at'[e] = p /\ \A d \in Executions : d # e => at'[d] = at[d]
    BY Moved
  <1>2. ASSUME NEW d \in Executions, at'[d] \notin {"waiting", "done"}
        PROVE  holder' = d
    <2>1. d # e => FALSE \/ (Running(d) /\ holder' = holder)
      BY <1>1, <1>2, OthersRest DEF Running
    <2>2. d = e => holder' = holder
      BY <1>1, <1>2
    <2> QED
      BY <2>1, <2>2 DEF LockInv
  <1>3. ASSUME NEW d \in Executions, at'[d] # "waiting"
        PROVE  corr'[d] \in Executions /\ \A o \in Executions : o < d => at'[o] = "done"
    <2>1. at[d] # "waiting"
      BY <1>1, <1>3 DEF Running
    <2>2. corr[d] \in Executions /\ \A o \in Executions : o < d => at[o] = "done"
      BY <2>1 DEF LockInv
    <2>3. \A o \in Executions : o < d => o # e
      BY <2>2 DEF Running
    <2> QED
      BY <1>1, <2>2, <2>3
  <1> QED
    BY <1>2, <1>3 DEF LockInv, Running

\* A step that the execution's own part of the invariant survives.
LEMMA PutTogether ==
  ASSUME IInv, NEW e \in Executions, Running(e), NEW p \in Places \ {"waiting"},
         NEW c \in Context, Goes(e, p, c),
         corr' = corr, holder' = holder \/ (holder' = 0 /\ p = "done"),
         ApiTypeOK', InboundTypeOK', OutboundTypeOK',
         ContextOK(e)', InboundOK(e)', FulfilOK(e)', FreshInv', TaskInv',
         p = "exited" =>
           report'[corr[e]] = [by |-> e, result |-> IF c.failed THEN "FAILED" ELSE "OK"]
  PROVE  IInv'
  <1>1. TypeOK'
    BY TypeStep DEF IInv
  <1>2. LockInv'
    BY LockStays DEF IInv
  <1>3. ContextInv' /\ InboundInv' /\ FulfilInv'
    BY OthersStay DEF ContextInv, InboundInv, FulfilInv
  <1>4. ReportInv'
    <2>1. at'[e] = p /\ context'[e] = c
      BY Moved DEF IInv
    <2>2. \A d \in Executions : d # e => at'[d] # "exited"
      BY OthersStay
    <2> QED
      BY <2>1, <2>2 DEF ReportInv
  <1> QED
    BY <1>1, <1>2, <1>3, <1>4 DEF IInv

LEMMA ReceivingKeeps ==
  ASSUME IInv, NEW e \in Executions, ReceivingStep(e)
  PROVE  IInv'
  <1>1. ReceivedOK(e)
    BY ReceivingIsOK DEF IInv
  <1>2. PICK p, c : Receives(e, p, c)
    BY <1>1 DEF ReceivedOK
  <1>3. /\ at[e] \in Receiving /\ Goes(e, p, c) /\ c \in Context
        /\ p \in Receiving \cup {"OrderCreated", "save"}
        /\ p = "save" => c.failed \/ c.window = "morning"
        /\ InboundTypeOK' /\ ContextOK(e)' /\ InboundOK(e)'
    BY <1>1, <1>2 DEF Receives, ReceivedOK, InboundTypeOK
  <1>4. /\ UNCHANGED <<holder, corr, answer, latest, report, byHand, faults>>
        /\ UNCHANGED <<newest, order, picking, packing, shipment>>
    BY <1>2 DEF Receives, apiVars, outboundVars, countVars
  <1>5. ApiTypeOK' /\ OutboundTypeOK'
    BY <1>4, TypeParts DEF IInv, ApiTypeOK, OutboundTypeOK
  <1>6. /\ at'[e] = p /\ context'[e] = c
        /\ \A d \in Executions : d # e => at'[d] = at[d]
    BY <1>3, Moved DEF IInv
  <1>7. at[e] \in Unordered /\ at[e] \in Unpicked /\ Running(e)
    BY <1>3 DEF Unordered, Unpicked, Running, Receiving
  <1>8. FreshInv' /\ TaskInv'
    <2>1. Advances
      BY <1>4, NothingAdvances DEF IInv
    <2>2. FreshInv'
      BY <1>6, <1>7, <2>1, FreshStays DEF IInv
    <2> QED
      BY <2>1, <2>2, TasksStay, OutboundType DEF IInv, Advances
  <1>9. FulfilOK(e)'
    BY <1>3, <1>6
    DEF FulfilOK, Succeeding, Receiving, Fulfilling, PickingAt, PackingAt, Shipping
  <1>10. p \in Places \ {"waiting"} /\ p # "exited"
    BY <1>3, EventNames DEF Places, Receiving
  <1> QED
    BY <1>3, <1>4, <1>5, <1>7, <1>8, <1>9, <1>10, PutTogether

LEMMA OutboundKeeps ==
  ASSUME IInv, NEW e \in Executions, OutboundStep(e)
  PROVE  IInv'
  <1>1. ServedOK(e)
    BY OutboundIsOK DEF IInv, OutboundIInv
  <1>2. PICK p, c : Serves(e, p, c)
    BY <1>1 DEF ServedOK
  <1>3. /\ at[e] \in {"OrderCreated"} \cup Ordering \cup Fulfilling
        /\ Goes(e, p, c) /\ c \in Context /\ c.task = context[e].task
        /\ p \in Ordering \cup Fulfilling \cup {"save"} /\ newest' \in 0..MaxExecutions
        /\ OutboundTypeOK' /\ ContextOK(e)' /\ FulfilOK(e)' /\ FreshInv' /\ TaskInv'
    BY <1>1, <1>2 DEF Serves, ServedOK
  <1>4. /\ UNCHANGED <<holder, corr, answer, latest, report, byHand, faults>>
        /\ UNCHANGED <<document, lines, stock>>
    BY <1>2 DEF Serves, apiVars, inboundVars, countVars
  <1>5. ApiTypeOK' /\ InboundTypeOK'
    BY <1>3, <1>4, TypeParts DEF IInv, ApiTypeOK, InboundTypeOK
  <1>6. at'[e] = p /\ context'[e] = c
    BY <1>3, Moved DEF IInv
  <1>7. Running(e)
    BY <1>3 DEF Running, Ordering, Fulfilling, PickingAt, PackingAt, Shipping
  <1>8. InboundOK(e)'
    <2>1. InboundOK(e)
      BY DEF IInv, InboundInv
    <2>2. Received(e, document)' = Received(e, document)
      BY <1>4 DEF Received, Documents
    <2>3. /\ c.task \in Executions /\ document[c.task] = 8
          /\ \A r \in Received(e, document) : stock[r[2]] = "STORED"
      BY <1>3, <2>1 DEF InboundOK
    <2>4. p # "InventoryPutaway"
      BY <1>3 DEF Ordering, Fulfilling, PickingAt, PackingAt, Shipping
    <2> QED
      BY <1>4, <1>6, <2>2, <2>3, <2>4 DEF InboundOK
  <1>9. p \in Places \ {"waiting"} /\ p # "exited"
    BY <1>3, EventNames DEF Places, Ordering, Fulfilling, PickingAt, PackingAt, Shipping
  <1> QED
    BY <1>3, <1>4, <1>5, <1>7, <1>8, <1>9, PutTogether

-----------------------------------------------------------------------------
(* The API's side and the runner's ways out.                                *)

\* A step that leaves the tables alone and after which nothing is promised.
LEMMA AsideKeeps ==
  ASSUME IInv, NEW e \in Executions, Running(e),
         NEW p \in {"start", "PurchaseOrderCreated", "killed", "done", "save"},
         NEW c \in Context, Goes(e, p, c), c.order \in {0, e}, p = "save" => c.failed,
         p \in {"start", "PurchaseOrderCreated"} => at[e] \in Preparing,
         corr' = corr, holder' = holder \/ (holder' = 0 /\ p = "done"), ApiTypeOK',
         UNCHANGED <<document, lines, stock, order, picking, packing, shipment>>
  PROVE  IInv'
  <1>1. InboundTypeOK' /\ OutboundTypeOK'
    BY TypeParts DEF IInv, InboundTypeOK, OutboundTypeOK
  <1>2. /\ at'[e] = p /\ context'[e] = c
        /\ \A d \in Executions : d # e => at'[d] = at[d]
    BY Moved DEF IInv
  <1>3. ContextOK(e)'
    BY <1>2 DEF ContextOK, Ordering, Fulfilling, PickingAt, PackingAt, Shipping
  <1>4. InboundOK(e)' /\ FulfilOK(e)'
    BY <1>2
    DEF InboundOK, FulfilOK, Succeeding, Ordering, Fulfilling, PickingAt, PackingAt, Shipping
  <1>5. FreshInv' /\ TaskInv'
    <2>1. Advances
      BY NothingAdvances DEF IInv
    <2>2. /\ p \in Unordered => at[e] \in Unordered
          /\ p \in Unpicked => at[e] \in Unpicked
      BY DEF Unpicked, Unordered, Ordering, Preparing, Receiving
    <2>3. FreshInv'
      BY <1>2, <2>1, <2>2, FreshStays DEF IInv
    <2> QED
      BY <2>1, <2>3, TasksStay, OutboundType DEF IInv, Advances
  <1>6. p \in Places \ {"waiting"} /\ p # "exited"
    BY EventNames DEF Places, Receiving
  <1> QED
    BY <1>1, <1>3, <1>4, <1>5, <1>6, PutTogether

LEMMA FaultCounts == TypeOK /\ Fault => faults' \in 0..MaxFaults
  <1>1. ASSUME TypeOK, Fault PROVE faults' \in 0..MaxFaults
    <2>1. faults \in 0..MaxFaults /\ MaxFaults \in Nat
      BY <1>1, TypeParts, FullFlowAssumption DEF ApiTypeOK
    <2>2. faults < MaxFaults /\ faults' = faults + 1
      BY <1>1 DEF Fault
    <2> QED
      BY <2>1, <2>2
  <1> QED
    BY <1>1

LEMMA NoContextIsOne == NoContext \in Context /\ NoContext.order = 0
  BY FullFlowAssumption DEF NoContext, Context

LEMMA EndsGoes ==
  ASSUME TypeOK, NEW e \in Executions, NEW result \in {"SUCCESS", "FAILED", "LOST"}, Ends(e, result)
  PROVE  /\ Goes(e, "done", NoContext) /\ holder' = 0
         /\ answer' \in [Executions -> {"NONE", "SUCCESS", "FAILED", "LOST"}]
  BY DEF Ends, Goes, TypeOK

\* An execution that ends, with whatever answer.
LEMMA EndsKeeps ==
  ASSUME IInv, NEW e \in Executions, Running(e), NEW result \in {"SUCCESS", "FAILED", "LOST"},
         Ends(e, result), latest' \in Report, faults' \in 0..MaxFaults,
         UNCHANGED <<corr, report, inboundVars, outboundVars, byHand>>
  PROVE  IInv'
  <1>1. /\ Goes(e, "done", NoContext) /\ holder' = 0
        /\ answer' \in [Executions -> {"NONE", "SUCCESS", "FAILED", "LOST"}]
    BY EndsGoes DEF IInv
  <1>2. UNCHANGED <<document, lines, stock, newest, order, picking, packing, shipment>>
    BY DEF inboundVars, outboundVars
  <1>3. ApiTypeOK'
    BY <1>1, <1>2, TypeParts, FullFlowAssumption DEF IInv, ApiTypeOK
  <1> QED
    BY <1>1, <1>2, <1>3, NoContextIsOne, AsideKeeps

\* What an execution knows of orders is of its own.
LEMMA OwnContext ==
  ASSUME IInv, NEW e \in Executions
  PROVE  context[e] \in Context /\ context[e].order \in {0, e}
  BY ContextFields DEF IInv, ContextInv, ContextOK

LEMMA EmptyTablesAre ==
  /\ EmptyTables.document = [e \in Executions |-> 0]
  /\ EmptyTables.lines = [e \in Executions |-> {}]
  /\ EmptyTables.stock = [p \in Products |-> "NONE"] /\ EmptyTables.newest = 0
  /\ EmptyTables.order = [e \in Executions |-> NoOrder]
  /\ EmptyTables.picking = [t \in Tasks |-> NoTask]
  /\ EmptyTables.packing = [e \in Executions |-> "NONE"]
  /\ EmptyTables.shipment = [e \in Executions |-> 0]
  BY DEF EmptyTables

LEMMA EmptyTablesType ==
  ASSUME document' = EmptyTables.document, lines' = EmptyTables.lines,
         stock' = EmptyTables.stock, order' = EmptyTables.order,
         picking' = EmptyTables.picking, packing' = EmptyTables.packing,
         shipment' = EmptyTables.shipment
  PROVE  /\ InboundTypeOK' /\ OutboundTypeOK'
         /\ \A o \in Executions : order'[o] = NoOrder /\ packing'[o] = "NONE"
         /\ \A t \in Tasks : picking'[t].status = "NONE"
  <1>1. NoOrder \in Order /\ NoOrder.picked = {}
    BY FullFlowAssumption DEF NoOrder, Order
  <1>2. NoTask \in Task /\ NoTask.status = "NONE"
    BY FullFlowAssumption DEF NoTask, Task, TaskStatus
  <1>3. InboundTypeOK'
    BY EmptyTablesAre DEF InboundTypeOK
  <1>4. OutboundTypeOK'
    BY <1>1, <1>2, EmptyTablesAre, ShippingNames DEF OutboundTypeOK, TaskStatus
  <1> QED
    BY <1>2, <1>3, <1>4, EmptyTablesAre

LEMMA ResetKeeps ==
  ASSUME IInv, NEW e \in Executions, Reset(e)
  PROVE  IInv'
  <1>1. /\ at[e] = "reset" /\ Running(e)
        /\ UNCHANGED <<corr, report, latest, byHand, faults>>
    BY DEF Reset, Running, fileVars, countVars
  <1>2. CASE Ends(e, "FAILED") /\ UNCHANGED <<inboundVars, outboundVars>>
    <2>1. latest' \in Report /\ faults' \in 0..MaxFaults
      BY <1>1, TypeParts DEF IInv, ApiTypeOK
    <2> QED
      BY <1>1, <1>2, <2>1, EndsKeeps
  <1>3. CASE /\ document' = EmptyTables.document /\ lines' = EmptyTables.lines
             /\ stock' = EmptyTables.stock /\ newest' = EmptyTables.newest
             /\ order' = EmptyTables.order /\ picking' = EmptyTables.picking
             /\ packing' = EmptyTables.packing /\ shipment' = EmptyTables.shipment
             /\ at' = [at EXCEPT ![e] = "remove report"]
             /\ UNCHANGED <<holder, answer, context>>
    <2>1. Goes(e, "remove report", context[e])
      BY <1>3 DEF Goes, IInv, TypeOK
    <2>2. context[e] \in Context /\ context[e].order \in {0, e}
      BY OwnContext
    <2>3. /\ InboundTypeOK' /\ OutboundTypeOK'
          /\ \A o \in Executions : order'[o] = NoOrder /\ packing'[o] = "NONE"
          /\ \A t \in Tasks : picking'[t].status = "NONE"
      BY <1>3, EmptyTablesType
    <2>4. ApiTypeOK'
      <3>1. newest' \in 0..MaxExecutions
        <4>1. newest' = 0
          BY <1>3, EmptyTablesAre
        <4> QED
          BY <4>1, FullFlowAssumption
      <3>2. UNCHANGED <<holder, corr, answer, report, latest, byHand, faults>>
        BY <1>1, <1>3
      <3> QED
        BY <3>1, <3>2, TypeParts DEF IInv, ApiTypeOK
    <2>5. at'[e] = "remove report" /\ context'[e] = context[e]
      BY <2>1, Moved DEF IInv
    <2>6. ContextOK(e)' /\ InboundOK(e)' /\ FulfilOK(e)'
      BY <2>2, <2>5
      DEF ContextOK, InboundOK, FulfilOK, Succeeding, Ordering, Fulfilling, PickingAt, PackingAt,
          Shipping
    <2>7. FreshInv' /\ TaskInv'
      BY <2>3 DEF FreshInv, TaskInv, NoOrder
    <2> QED
      BY <1>1, <1>3, <2>1, <2>2, <2>3, <2>4, <2>6, <2>7, PutTogether DEF Places
  <1> QED
    BY <1>2, <1>3 DEF Reset

LEMMA RemoveReportKeeps ==
  ASSUME IInv, NEW e \in Executions, RemoveReport(e)
  PROVE  IInv'
  <1>1. /\ at[e] = "remove report" /\ Running(e) /\ at[e] \in Preparing
        /\ UNCHANGED <<holder, corr, answer, latest, context, byHand>>
        /\ UNCHANGED <<document, lines, stock, newest, order, picking, packing, shipment>>
    BY DEF RemoveReport, Running, Preparing, apiVars, inboundVars, outboundVars
  <1>2. Goes(e, "start", context[e])
    BY <1>1 DEF RemoveReport, Goes, IInv, TypeOK
  <1>3. report' \in [Executions -> Report] /\ faults' \in 0..MaxFaults
    <2>1. NoReport \in Report
      BY FullFlowAssumption DEF Report, NoReport
    <2>2. report \in [Executions -> Report] /\ faults \in 0..MaxFaults
      BY TypeParts DEF IInv, ApiTypeOK
    <2>3. CASE report' = [report EXCEPT ![corr[e]] = NoReport] /\ UNCHANGED faults
      BY <2>1, <2>2, <2>3
    <2>4. CASE Fault /\ UNCHANGED report
      BY <2>2, <2>4, FaultCounts DEF IInv
    <2> QED
      BY <2>3, <2>4 DEF RemoveReport
  <1>4. ApiTypeOK'
    BY <1>1, <1>3, TypeParts DEF IInv, ApiTypeOK
  <1> QED
    BY <1>1, <1>2, <1>4, OwnContext, AsideKeeps

LEMMA StartRunnerKeeps ==
  ASSUME IInv, NEW e \in Executions, StartRunner(e)
  PROVE  IInv'
  <1>1. /\ at[e] = "start" /\ Running(e) /\ at[e] \in Preparing
        /\ UNCHANGED <<corr, report, latest, byHand>> /\ UNCHANGED <<inboundVars, outboundVars>>
    BY DEF StartRunner, Running, Preparing, fileVars
  <1>2. CASE Fault /\ Ends(e, "FAILED")
    <2>1. latest' \in Report /\ faults' \in 0..MaxFaults
      BY <1>1, <1>2, TypeParts, FaultCounts DEF IInv, ApiTypeOK
    <2> QED
      BY <1>1, <1>2, <2>1, EndsKeeps
  <1>3. CASE /\ at' = [at EXCEPT ![e] = DocumentFlow[1]]
             /\ UNCHANGED <<holder, answer, context, faults>>
    <2>1. Goes(e, "PurchaseOrderCreated", context[e])
      BY <1>3, DocumentNames DEF Goes, IInv, TypeOK
    <2>2. UNCHANGED <<document, lines, stock, newest, order, picking, packing, shipment>>
      BY <1>1 DEF inboundVars, outboundVars
    <2>3. ApiTypeOK'
      BY <1>1, <1>3, <2>2, TypeParts DEF IInv, ApiTypeOK
    <2> QED
      BY <1>1, <1>3, <2>1, <2>2, <2>3, OwnContext, AsideKeeps
  <1> QED
    BY <1>2, <1>3 DEF StartRunner

LEMMA RespondKeeps ==
  ASSUME IInv, NEW e \in Executions, Respond(e)
  PROVE  IInv'
  <1>1. /\ Running(e) /\ at[e] \in {"exited", "killed"}
        /\ UNCHANGED <<corr, report, inboundVars, outboundVars, byHand>> /\ UNCHANGED faults
    BY DEF Respond, Running, countVars
  <1>2. corr[e] \in Executions
    BY <1>1 DEF IInv, LockInv, Running
  <1>3. latest' \in Report /\ faults' \in 0..MaxFaults
    BY <1>1, <1>2, TypeParts DEF Respond, IInv, ApiTypeOK
  <1>4. PICK result \in {"SUCCESS", "FAILED"} : Ends(e, result)
    BY DEF Respond
  <1> QED
    BY <1>1, <1>3, <1>4, EndsKeeps

LEMMA CrashKeeps ==
  ASSUME IInv, NEW e \in Executions, Crash(e)
  PROVE  IInv'
  <1>1. /\ Running(e) /\ Ends(e, "LOST") /\ Fault
        /\ UNCHANGED <<corr, report, inboundVars, outboundVars, byHand>> /\ UNCHANGED latest
    BY DEF Crash, Running, fileVars
  <1>2. latest' \in Report /\ faults' \in 0..MaxFaults
    BY <1>1, TypeParts, FaultCounts DEF IInv, ApiTypeOK
  <1> QED
    BY <1>1, <1>2, EndsKeeps

LEMMA RaiseKeeps ==
  ASSUME IInv, NEW e \in Executions, Raise(e)
  PROVE  IInv'
  <1>1. /\ at[e] \in Events /\ Fault /\ Stop(e)
        /\ UNCHANGED <<holder, corr, answer, latest, report, byHand>>
        /\ UNCHANGED <<document, lines, stock, newest, order, picking, packing, shipment>>
    BY DEF Raise, apiVars, inboundVars, outboundVars
  <1>2. Running(e)
    BY <1>1, EventNames
    DEF Running, Receiving, Ordering, Fulfilling, PickingAt, PackingAt, Shipping
  <1>3. PICK c \in Context : Goes(e, "save", c) /\ c.failed /\ c.order = context[e].order
    BY <1>1, StopGoes DEF IInv
  <1>4. ApiTypeOK'
    BY <1>1, TypeParts, FaultCounts DEF IInv, ApiTypeOK
  <1> QED
    BY <1>1, <1>2, <1>3, <1>4, OwnContext, AsideKeeps

LEMMA KillKeeps ==
  ASSUME IInv, NEW e \in Executions, Kill(e)
  PROVE  IInv'
  <1>1. /\ at[e] \in Events \cup Lookups \cup {"save"} /\ Fault /\ Go(e, "killed")
        /\ UNCHANGED <<holder, corr, answer, latest, byHand>>
        /\ UNCHANGED <<document, lines, stock, newest, order, picking, packing, shipment>>
    BY DEF Kill, apiVars, inboundVars, outboundVars
  <1>2. Running(e)
    BY <1>1, EventNames
    DEF Running, Receiving, Ordering, Fulfilling, PickingAt, PackingAt, Shipping
  <1>3. Goes(e, "killed", context[e])
    BY <1>1, GoGoes DEF IInv
  <1>4. report' \in [Executions -> Report]
    <2>1. [by |-> e, result |-> "TORN"] \in Report
      BY FullFlowAssumption DEF Report, Executions
    <2> QED
      BY <2>1, TypeParts DEF Kill, IInv, ApiTypeOK
  <1>5. ApiTypeOK'
    BY <1>1, <1>4, TypeParts, FaultCounts DEF IInv, ApiTypeOK
  <1> QED
    BY <1>1, <1>2, <1>3, <1>5, OwnContext, AsideKeeps

\* Executions are numbers, and 0 is none of them.
LEMMA ExecutionNumbers ==
  /\ Executions \subseteq 0..MaxExecutions /\ 0 \notin Executions
  /\ \A e \in Executions : ~(e < e)
  BY FullFlowAssumption DEF Executions

LEMMA SaveReportKeeps ==
  ASSUME IInv, NEW e \in Executions, SaveReport(e)
  PROVE  IInv'
  <1>1. /\ at[e] = "save" /\ Running(e) /\ Go(e, "exited")
        /\ UNCHANGED <<holder, corr, answer, latest, byHand, faults>>
        /\ UNCHANGED <<document, lines, stock, newest, order, picking, packing, shipment>>
    BY DEF SaveReport, Running, apiVars, inboundVars, outboundVars, countVars
  <1>2. Goes(e, "exited", context[e])
    BY <1>1, GoGoes DEF IInv
  <1>3. at'[e] = "exited" /\ context'[e] = context[e]
        /\ \A d \in Executions : d # e => at'[d] = at[d]
    BY <1>2, Moved DEF IInv
  <1>4. PICK rep \in Report : rep = [by |-> e, result |-> IF context[e].failed THEN "FAILED" ELSE "OK"]
    <2>1. PICK result \in {"OK", "FAILED"} : result = IF context[e].failed THEN "FAILED" ELSE "OK"
      OBVIOUS
    <2>2. [by |-> e, result |-> result] \in Report
      BY ExecutionNumbers DEF Report
    <2> QED
      BY <2>1, <2>2
  <1>5. corr[e] \in Executions
    BY <1>1 DEF IInv, LockInv
  <1>6. report' = [report EXCEPT ![corr[e]] = rep]
    BY <1>4 DEF SaveReport
  <1>7. report' \in [Executions -> Report] /\ report'[corr[e]] = rep
    BY <1>5, <1>6, TypeParts DEF IInv, ApiTypeOK
  <1>8. ApiTypeOK' /\ InboundTypeOK' /\ OutboundTypeOK'
    BY <1>1, <1>7, TypeParts DEF IInv, ApiTypeOK, InboundTypeOK, OutboundTypeOK
  <1>9. ContextOK(e)'
    BY <1>3, OwnContext DEF ContextOK, Ordering, Fulfilling, PickingAt, PackingAt, Shipping
  <1>10. Succeeding(e)' = Succeeding(e)
    BY <1>1, <1>3 DEF Succeeding
  <1>11. InboundOK(e)'
    <2>1. Received(e, document)' = Received(e, document)
      BY <1>1 DEF Received, Documents
    <2>2. InboundOK(e)
      BY DEF IInv, InboundInv
    <2> QED
      BY <1>1, <1>3, <1>10, <2>1, <2>2
      DEF InboundOK, Ordering, Fulfilling, PickingAt, PackingAt, Shipping
  <1>12. Advances
    BY <1>1, NothingAdvances DEF IInv
  <1>13. FulfilOK(e)'
    <2>1. Succeeding(e) /\ context[e].window = "evening" => OrderIsDelivered(e)'
      BY <1>12, DeliveredStays, TypeParts DEF IInv, FulfilInv, FulfilOK
    <2> QED
      BY <1>3, <1>10, <2>1 DEF FulfilOK, Fulfilling, PickingAt, PackingAt, Shipping
  <1>14. FreshInv' /\ TaskInv'
    <2>1. FreshInv'
      BY <1>3, <1>12, FreshStays DEF IInv, Unpicked, Unordered, Ordering, Preparing, Receiving
    <2> QED
      BY <1>12, <2>1, TasksStay, TypeParts DEF IInv, Advances
  <1>15. "exited" \in Places \ {"waiting"}
    BY DEF Places
  <1> QED
    BY <1>1, <1>2, <1>4, <1>7, <1>8, <1>9, <1>11, <1>13, <1>14, <1>15, OwnContext, PutTogether

\* A request is let through: everybody before it is over.
LEMMA BeginKeeps ==
  ASSUME IInv, NEW e \in Executions, Begin(e)
  PROVE  IInv'
  <1>1. /\ holder = 0 /\ at[e] = "waiting" /\ holder' = e
        /\ \A d \in 1..(e - 1) : at[d] # "waiting"
        /\ UNCHANGED <<answer, report, latest, byHand, faults>>
        /\ UNCHANGED <<document, lines, stock, newest, order, picking, packing, shipment>>
    BY DEF Begin, fileVars, inboundVars, outboundVars, countVars
  <1>2. \A d \in Executions : at[d] \in {"waiting", "done"}
    <2>1. \A d \in Executions : holder # d
      BY <1>1, FullFlowAssumption DEF Executions
    <2> QED
      BY <2>1 DEF IInv, LockInv, Running
  <1>3. \A d \in Executions : d < e => at[d] = "done" /\ corr[d] \in Executions
    <2>1. ASSUME NEW d \in Executions, d < e PROVE d \in 1..(e - 1)
      BY <2>1, FullFlowAssumption DEF Executions
    <2>2. \A d \in Executions : d < e => at[d] # "waiting"
      BY <1>1, <2>1
    <2> QED
      BY <1>2, <2>2 DEF IInv, LockInv
  <1>4. PICK k \in Executions : corr' = [corr EXCEPT ![e] = k]
    <2>1. PICK k \in CorrsFor(e) : corr' = [corr EXCEPT ![e] = k]
      BY DEF Begin
    <2>2. \A d \in 1..(e - 1) : d \in Executions /\ d < e
      BY FullFlowAssumption DEF Executions
    <2>3. k \in Executions
      BY <1>3, <2>1, <2>2 DEF CorrsFor
    <2> QED
      BY <2>1, <2>3
  <1>5. PICK p \in {"reset", "remove report"} : at' = [at EXCEPT ![e] = p]
    BY DEF Begin
  <1>6. PICK c \in Context : c.order = context[e].order /\ Goes(e, p, c)
    <2>1. PICK w \in {"morning", "evening"} : context' = [context EXCEPT ![e].window = w]
      BY DEF Begin
    <2>2. PICK c \in Context : c = [context[e] EXCEPT !.window = w]
      BY ContextFields DEF IInv
    <2>3. context[e] \in Context
      BY ContextFields DEF IInv
    <2>4. c.order = context[e].order
      BY <2>2, <2>3 DEF Context
    <2> QED
      BY <1>5, <2>1, <2>2, <2>4 DEF Goes, IInv, TypeOK
  <1>7. /\ at'[e] = p /\ context'[e] = c
        /\ \A d \in Executions : d # e => at'[d] = at[d] /\ context'[d] = context[d]
    BY <1>6, Moved DEF IInv
  <1>8. TypeOK'
    <2>1. holder' \in 0..MaxExecutions
      BY <1>1, ExecutionNumbers
    <2>2. corr' \in [Executions -> 0..MaxExecutions]
      BY <1>4, ExecutionNumbers, TypeParts DEF IInv, ApiTypeOK
    <2>3. ApiTypeOK' /\ InboundTypeOK' /\ OutboundTypeOK'
      BY <1>1, <2>1, <2>2, TypeParts DEF IInv, ApiTypeOK, InboundTypeOK, OutboundTypeOK
    <2>4. p \in Places
      BY DEF Places
    <2> QED
      BY <1>6, <2>3, <2>4, TypeStep DEF IInv
  <1>9. LockInv'
    <2>1. \A d \in Executions : corr'[d] = IF d = e THEN k ELSE corr[d]
      BY <1>4, TypeParts DEF IInv, ApiTypeOK
    <2>2. ASSUME NEW d \in Executions, at'[d] \notin {"waiting", "done"}
          PROVE  holder' = d
      BY <1>1, <1>2, <1>7, <2>2
    <2>3. ASSUME NEW d \in Executions, at'[d] # "waiting"
          PROVE  corr'[d] \in Executions /\ \A o \in Executions : o < d => at'[o] = "done"
      <3>1. CASE d = e
        BY <1>3, <1>7, <2>1, <3>1, ExecutionNumbers
      <3>2. CASE d # e
        <4>1. /\ at[d] # "waiting" /\ corr[d] \in Executions
              /\ \A o \in Executions : o < d => at[o] = "done"
          BY <1>7, <2>3, <3>2 DEF IInv, LockInv
        <4>2. \A o \in Executions : o < d => o # e
          BY <1>1, <4>1
        <4> QED
          BY <1>7, <2>1, <3>2, <4>1, <4>2
      <3> QED
        BY <3>1, <3>2
    <2> QED
      BY <2>2, <2>3 DEF LockInv, Running
  <1>10. ASSUME NEW d \in Executions
         PROVE  ContextOK(d)' /\ InboundOK(d)' /\ FulfilOK(d)' /\ at'[d] # "exited"
    <2>1. at'[d] \in {"waiting", "done", "reset", "remove report"}
      BY <1>2, <1>7
    <2>2. context'[d].order \in {0, d}
      BY <1>6, <1>7, OwnContext
    <2> QED
      BY <2>1, <2>2
      DEF ContextOK, InboundOK, FulfilOK, Succeeding, Ordering, Fulfilling, PickingAt, PackingAt,
          Shipping
  <1>11. FreshInv' /\ TaskInv'
    <2>1. Advances
      BY <1>1, NothingAdvances DEF IInv
    <2>2. at[e] \in Unordered /\ at[e] \in Unpicked
      BY <1>1 DEF Unpicked, Unordered
    <2>3. FreshInv'
      BY <1>7, <2>1, <2>2, FreshStays DEF IInv
    <2> QED
      BY <2>1, <2>3, TasksStay, TypeParts DEF IInv, Advances
  <1> QED
    BY <1>8, <1>9, <1>10, <1>11 DEF IInv, ContextInv, InboundInv, FulfilInv, ReportInv

-----------------------------------------------------------------------------
(* What an operator does by hand, and the invariant.                        *)

LEMMA ByHandIsLater == NowByHand \in 0..(2 * MaxExecutions + 1)
  <1> DEFINE S == {e \in Executions : at[e] # "waiting"}
  <1>1. IsFiniteSet(Executions) /\ Cardinality(Executions) = MaxExecutions
    BY FS_Interval, FullFlowAssumption DEF Executions
  <1>2. /\ IsFiniteSet(S) /\ Cardinality(S) \in Nat
        /\ Cardinality(S) <= MaxExecutions
    <2>1. S \subseteq Executions
      OBVIOUS
    <2> HIDE DEF S
    <2> QED
      BY <1>1, <2>1, FS_Subset, FS_CardinalityType
  <1>3. NowByHand = 2 * Cardinality(S) + 1
    BY DEF NowByHand
  <1> HIDE DEF S
  <1> QED
    BY <1>2, <1>3, FullFlowAssumption

LEMMA ByHandAdvances ==
  ASSUME IInv, ByHand
  PROVE  Advances
  <1>1. CASE PickByHand
    <2>1. CASE /\ \E t \in Tasks : Started(t, NowByHand)
               /\ UNCHANGED <<order, packing, shipment>>
      <3>1. PICK t \in Tasks : Started(t, NowByHand)
        BY <2>1
      <3> QED
        BY <2>1, <3>1, ByHandIsLater, StartAdvances DEF IInv
    <2>2. CASE PickCompletes /\ UNCHANGED <<packing, shipment>>
      BY <2>2, PickAdvances DEF IInv
    <2> QED
      BY <1>1, <2>1, <2>2 DEF PickByHand
  <1>2. CASE PackByHand
    <2>1. PICK o \in Executions, v \in TaskStatus \ {"NONE"} :
            /\ CASE v = "CREATED"   -> packing[o] = "NONE" /\ PickingDone(o)
                 [] v = "STARTED"   -> packing[o] = "CREATED"
                 [] v = "COMPLETED" -> packing[o] \in {"CREATED", "STARTED"}
            /\ packing' = [packing EXCEPT ![o] = v]
      BY <1>2 DEF PackByHand
    <2>2. UNCHANGED <<order, picking, shipment>>
      BY <1>2 DEF PackByHand
    <2>3. v = "CREATED" \/ v = "STARTED" \/ v = "COMPLETED"
      BY DEF TaskStatus
    <2>4. packing[o] # "NONE" \/ PickingDone(o)
      BY <2>1, <2>3
    <2>5. packing[o] # "COMPLETED"
      BY <2>1, <2>3
    <2> QED
      BY <2>1, <2>2, <2>4, <2>5, PackAdvances DEF IInv
  <1>3. CASE ShipByHand
    <2>1. PICK o \in Executions : /\ shipment[o] < Delivered
                                  /\ shipment' = [shipment EXCEPT ![o] = @ + 1]
      BY <1>3 DEF ShipByHand
    <2>2. UNCHANGED <<order, picking, packing>>
      BY <1>3 DEF ShipByHand
    <2>3. shipment[o] \in 0..Delivered
      BY TypeParts DEF IInv, OutboundTypeOK
    <2>4. PICK k \in 0..Delivered : k = shipment[o] + 1
      BY <2>1, <2>3, ShippingNames
    <2>5. shipment[o] # Delivered /\ shipment' = [shipment EXCEPT ![o] = k]
      BY <2>1, <2>4, ShippingNames
    <2> QED
      BY <2>2, <2>5, ShipAdvances DEF IInv
  <1> QED
    BY <1>1, <1>2, <1>3 DEF ByHand

LEMMA ByHandKeeps ==
  ASSUME IInv, ByHand
  PROVE  IInv'
  <1>1. /\ UNCHANGED <<holder, corr, answer, latest, at, context, report, faults>>
        /\ UNCHANGED <<document, lines, stock, newest>>
        /\ byHand < MaxByHand /\ byHand' = byHand + 1
    BY DEF ByHand, apiVars, inboundVars
  <1>2. Advances
    BY ByHandAdvances
  <1>3. OutboundTypeOK'
    BY <1>2 DEF Advances, PickingAdvances, PackingAdvances, ShippingAdvances, OutboundTypeOK
  <1>4. TypeOK'
    <2>1. byHand' \in 0..MaxByHand
      <3>1. byHand \in 0..MaxByHand /\ MaxByHand \in Nat
        BY TypeParts, FullFlowAssumption DEF IInv, ApiTypeOK
      <3> QED
        BY <1>1, <3>1
    <2>2. ApiTypeOK' /\ InboundTypeOK'
      BY <1>1, <2>1, TypeParts DEF IInv, ApiTypeOK, InboundTypeOK
    <2>3. at' \in [Executions -> Places] /\ context' \in [Executions -> Context]
      BY <1>1, TypeParts DEF IInv
    <2> QED
      BY <1>3, <2>2, <2>3 DEF TypeOK, ApiTypeOK, InboundTypeOK, OutboundTypeOK, Places
  <1>5. LockInv' /\ ReportInv'
    BY <1>1 DEF IInv, LockInv, ReportInv, Running
  <1>6. ASSUME NEW e \in Executions
        PROVE  ContextOK(e)' /\ InboundOK(e)' /\ FulfilOK(e)'
    <2>1. Documents(e)' = Documents(e) /\ Received(e, document)' = Received(e, document)
      BY <1>1 DEF Documents, Received
    <2>2. ContextOK(e) /\ InboundOK(e) /\ FulfilOK(e)
      BY DEF IInv, ContextInv, InboundInv, FulfilInv
    <2>3. ContextOK(e)'
      BY <1>1, <2>1, <2>2 DEF ContextOK
    <2>4. InboundOK(e)'
      BY <1>1, <2>1, <2>2 DEF InboundOK, Succeeding
    <2>5. FulfilOK(e)'
      BY <1>1, <1>2, <2>2, FulfilStays DEF IInv
    <2> QED
      BY <2>3, <2>4, <2>5
  <1>7. FreshInv' /\ TaskInv'
    BY <1>1, <1>2, FreshStays, TasksStay, TypeParts DEF IInv, Advances
  <1> QED
    BY <1>4, <1>5, <1>6, <1>7 DEF IInv, ContextInv, InboundInv, FulfilInv

LEMMA Initially == Init => IInv
  <1>1. SUFFICES ASSUME Init PROVE IInv
    OBVIOUS
  <1>2. /\ holder = 0 /\ corr = [e \in Executions |-> 0]
        /\ at = [e \in Executions |-> "waiting"] /\ answer = [e \in Executions |-> "NONE"]
        /\ context = [e \in Executions |-> NoContext]
        /\ report = [c \in Executions |-> NoReport] /\ latest = NoReport
        /\ newest = 0 /\ byHand = 0 /\ faults = 0
    BY <1>1, EmptyTablesAre DEF Init
  <1>3. /\ InboundTypeOK /\ OutboundTypeOK
        /\ \A o \in Executions : order[o] = NoOrder /\ packing[o] = "NONE"
        /\ \A t \in Tasks : picking[t].status = "NONE"
    <2>1. NoOrder \in Order /\ NoOrder.picked = {}
      BY FullFlowAssumption DEF NoOrder, Order
    <2>2. NoTask \in Task /\ NoTask.status = "NONE"
      BY FullFlowAssumption DEF NoTask, Task, TaskStatus
    <2>3. InboundTypeOK
      BY <1>1, EmptyTablesAre DEF Init, InboundTypeOK
    <2>4. OutboundTypeOK
      BY <1>1, <2>1, <2>2, EmptyTablesAre, ShippingNames DEF Init, OutboundTypeOK, TaskStatus
    <2> QED
      BY <1>1, <2>2, <2>3, <2>4, EmptyTablesAre DEF Init
  <1>4. TypeOK
    <2>1. NoReport \in Report
      BY FullFlowAssumption DEF NoReport, Report
    <2>2. 0 \in 0..MaxExecutions /\ 0 \in 0..MaxByHand /\ 0 \in 0..MaxFaults
      BY FullFlowAssumption
    <2>3. ApiTypeOK
      BY <1>2, <2>1, <2>2 DEF ApiTypeOK
    <2>4. at \in [Executions -> Places] /\ context \in [Executions -> Context]
      BY <1>2, NoContextIsOne DEF Places
    <2> QED
      BY <1>3, <2>3, <2>4 DEF TypeOK, ApiTypeOK, InboundTypeOK, OutboundTypeOK, Places
  <1>5. \A e \in Executions : at[e] = "waiting" /\ context[e].order = 0
    BY <1>2, NoContextIsOne
  <1>6. LockInv /\ ReportInv
    BY <1>5 DEF LockInv, ReportInv, Running
  <1>7. ContextInv /\ InboundInv /\ FulfilInv
    BY <1>5
    DEF ContextInv, InboundInv, FulfilInv, ContextOK, InboundOK, FulfilOK, Succeeding, Ordering,
        Fulfilling, PickingAt, PackingAt, Shipping
  <1>8. FreshInv /\ TaskInv
    BY <1>3 DEF FreshInv, TaskInv, NoOrder
  <1> QED
    BY <1>4, <1>6, <1>7, <1>8 DEF IInv

LEMMA StutterKeeps ==
  ASSUME IInv, UNCHANGED vars
  PROVE  IInv'
  <1>1. UNCHANGED <<holder, corr, at, answer, context, report, latest, document, lines, stock,
                    newest, order, picking, packing, shipment, byHand, faults>>
    BY DEF vars, inboundVars, outboundVars, countVars
  <1>2. TypeOK' /\ LockInv' /\ ReportInv'
    BY <1>1 DEF IInv, TypeOK, LockInv, ReportInv, Running
  <1>3. ASSUME NEW e \in Executions
        PROVE  ContextOK(e)' /\ InboundOK(e)' /\ FulfilOK(e)'
    <2>1. Documents(e)' = Documents(e) /\ Received(e, document)' = Received(e, document)
      BY <1>1 DEF Documents, Received
    <2>2. OrderIsDelivered(e)' = OrderIsDelivered(e) /\ PickingDone(e)' = PickingDone(e)
      BY <1>1 DEF OrderIsDelivered, PickingDone, TasksOf
    <2>3. ContextOK(e) /\ InboundOK(e) /\ FulfilOK(e)
      BY DEF IInv, ContextInv, InboundInv, FulfilInv
    <2> QED
      BY <1>1, <2>1, <2>2, <2>3 DEF ContextOK, InboundOK, FulfilOK, Succeeding
  <1>4. FreshInv' /\ TaskInv'
    BY <1>1 DEF IInv, FreshInv, TaskInv
  <1> QED
    BY <1>2, <1>3, <1>4 DEF IInv, ContextInv, InboundInv, FulfilInv

LEMMA Inductive == IInv /\ [Next]_vars => IInv'
  <1>1. SUFFICES ASSUME IInv, [Next]_vars PROVE IInv'
    OBVIOUS
  <1>2. ASSUME NEW e \in Executions, ApiStep(e) \/ RunnerStep(e) \/ Begin(e)
        PROVE  IInv'
    <2>1. CASE ApiStep(e)
      BY <1>1, <2>1, ResetKeeps, RemoveReportKeeps, StartRunnerKeeps, RespondKeeps DEF ApiStep
    <2>2. CASE RunnerStep(e)
      <3>1. ReceivingStep(e) \/ OutboundStep(e) \/ SaveReport(e)
        BY <2>2 DEF RunnerStep, ReceivingStep, OutboundStep
      <3> QED
        BY <1>1, <3>1, ReceivingKeeps, OutboundKeeps, SaveReportKeeps
    <2> QED
      BY <1>1, <1>2, <2>1, <2>2, BeginKeeps
  <1>3. ASSUME NEW e \in Executions, Raise(e) \/ Kill(e) \/ Crash(e)
        PROVE  IInv'
    BY <1>1, <1>3, RaiseKeeps, KillKeeps, CrashKeeps
  <1>4. CASE ByHand
    BY <1>1, <1>4, ByHandKeeps
  <1>5. CASE UNCHANGED vars
    BY <1>1, <1>5, StutterKeeps
  <1> QED
    BY <1>1, <1>2, <1>3, <1>4, <1>5 DEF Next, AllServed

LEMMA Invariance == Spec => []IInv
  BY Initially, Inductive, PTL DEF Spec

\* The variables, and with them what a runner remembers and what the tables hold, have
\* their types whatever fails and whatever is started by hand.
THEOREM TypeCorrect == Spec => []TypeOK
  <1>1. IInv => TypeOK
    BY DEF IInv
  <1> QED
    BY <1>1, Invariance, PTL

-----------------------------------------------------------------------------
(* What a client that is told SUCCESS can rely on.                          *)

\* Nobody but the response to a request tells its client SUCCESS.
LEMMA OnlyRespondSucceeds ==
  ASSUME IInv, [Next]_vars, NEW e \in Executions, answer[e] = "NONE", answer'[e] = "SUCCESS"
  PROVE  Respond(e)
  <1>1. answer' # answer
    OBVIOUS
  <1>2. ASSUME NEW d \in Executions, NEW result, Ends(d, result), result # "SUCCESS"
        PROVE  FALSE
    <2>1. answer' = [answer EXCEPT ![d] = result]
      BY <1>2 DEF Ends
    <2> QED
      BY <1>2, <2>1, TypeParts DEF IInv, ApiTypeOK
  <1>3. ASSUME NEW d \in Executions, ApiStep(d)
        PROVE  Respond(e)
    <2>1. CASE Reset(d)
      BY <1>1, <1>2, <2>1 DEF Reset
    <2>2. CASE RemoveReport(d)
      BY <1>1, <2>2 DEF RemoveReport, apiVars
    <2>3. CASE StartRunner(d)
      BY <1>1, <1>2, <2>3 DEF StartRunner
    <2>4. CASE Respond(d)
      <3>1. PICK result : answer' = [answer EXCEPT ![d] = result]
        BY <2>4 DEF Respond, Ends
      <3>2. d = e
        BY <3>1, TypeParts DEF IInv, ApiTypeOK
      <3> QED
        BY <2>4, <3>2
    <2> QED
      BY <1>3, <2>1, <2>2, <2>3, <2>4 DEF ApiStep
  <1>4. ASSUME NEW d \in Executions, RunnerStep(d)
        PROVE  FALSE
    <2>1. CASE ReceivingStep(d)
      <3>1. PICK p, c : Receives(d, p, c)
        BY <2>1, ReceivingIsOK DEF IInv, ReceivedOK
      <3> QED
        BY <1>1, <3>1 DEF Receives, apiVars
    <2>2. CASE OutboundStep(d)
      <3>1. PICK p, c : Serves(d, p, c)
        BY <2>2, OutboundIsOK DEF IInv, OutboundIInv, ServedOK
      <3> QED
        BY <1>1, <3>1 DEF Serves, apiVars
    <2>3. CASE SaveReport(d)
      BY <1>1, <2>3 DEF SaveReport, apiVars
    <2> QED
      BY <1>4, <2>1, <2>2, <2>3 DEF RunnerStep, ReceivingStep, OutboundStep
  <1>5. ASSUME NEW d \in Executions, Begin(d) \/ Raise(d) \/ Kill(d)
        PROVE  FALSE
    BY <1>1, <1>5 DEF Begin, Raise, Kill, apiVars
  <1>6. ASSUME NEW d \in Executions, Crash(d)
        PROVE  FALSE
    BY <1>2, <1>6 DEF Crash
  <1>7. ~ByHand
    BY <1>1 DEF ByHand, apiVars
  <1>8. ~UNCHANGED vars
    BY <1>1 DEF vars
  <1> QED
    BY <1>3, <1>4, <1>5, <1>6, <1>7, <1>8 DEF Next, AllServed

\* A successful answer to an execution is about its own report.
LEMMA SuccessIsOwn ==
  ASSUME IInv, NEW e \in Executions, Respond(e), answer'[e] = "SUCCESS"
  PROVE  Succeeding(e) /\ latest' = [by |-> e, result |-> "OK"]
  <1> DEFINE rep == report[corr[e]]
  <1>1. /\ latest' = IF rep = NoReport THEN latest ELSE rep
        /\ Ends(e, IF Successful(at[e], rep) THEN "SUCCESS" ELSE "FAILED")
    BY DEF Respond
  <1>2. Successful(at[e], rep)
    <2>1. answer'[e] = IF Successful(at[e], rep) THEN "SUCCESS" ELSE "FAILED"
      BY <1>1, TypeParts DEF Ends, IInv, ApiTypeOK
    <2> QED
      BY <2>1
  <1>3. at[e] = "exited" /\ rep.result # "FAILED"
    BY <1>2 DEF Successful
  <1>4. rep = [by |-> e, result |-> IF context[e].failed THEN "FAILED" ELSE "OK"]
    BY <1>3 DEF IInv, ReportInv
  <1>5. ~context[e].failed
    BY <1>3, <1>4
  <1>6. rep = [by |-> e, result |-> "OK"]
    BY <1>4, <1>5
  <1>7. rep # NoReport
    BY <1>6, ExecutionNumbers DEF NoReport
  <1> QED
    BY <1>1, <1>3, <1>5, <1>6, <1>7 DEF Succeeding

\* A client that is told SUCCESS can rely on it, whatever report the correlation id had
\* before, whoever else had its turn and whatever an operator started meanwhile: the
\* report read is this execution's, its receiving task is done and all received is back
\* in its place, and after a full window its order is picked, packed and delivered
\* (_is_flow_successful, and the loops of run_event_flow).
THEOREM SuccessesAreDone == Spec => SuccessIsDone
  <1> DEFINE Done == \A e \in Executions : answer[e] = "NONE" /\ answer'[e] = "SUCCESS" =>
                       /\ latest' = [by |-> e, result |-> "OK"]
                       /\ document[context[e].task] = 8
                       /\ \A r \in Received(e, document) : stock[r[2]] = "STORED"
                       /\ context[e].window = "evening" => OrderIsDelivered(e)
  <1>1. IInv /\ [Next]_vars => Done
    <2>1. SUFFICES ASSUME IInv, [Next]_vars, NEW e \in Executions,
                          answer[e] = "NONE", answer'[e] = "SUCCESS"
                   PROVE  /\ latest' = [by |-> e, result |-> "OK"]
                          /\ document[context[e].task] = 8
                          /\ \A r \in Received(e, document) : stock[r[2]] = "STORED"
                          /\ context[e].window = "evening" => OrderIsDelivered(e)
      OBVIOUS
    <2>2. Succeeding(e) /\ latest' = [by |-> e, result |-> "OK"]
      BY <2>1, OnlyRespondSucceeds, SuccessIsOwn
    <2>3. InboundOK(e) /\ FulfilOK(e)
      BY <2>1 DEF IInv, InboundInv, FulfilInv
    <2> QED
      BY <2>2, <2>3 DEF InboundOK, FulfilOK
  <1>2. IInv /\ [Next]_vars => [Done]_vars
    BY <1>1
  <1> HIDE DEF Done
  <1>3. Spec => [][Done]_vars
    BY <1>2, Invariance, PTL DEF Spec
  <1> QED
    BY <1>3 DEF SuccessIsDone, Done

-----------------------------------------------------------------------------
(* Whose rows a runner works on.                                            *)

\* What moves a purchase order is an event of its correlation id.
LEMMA OwnDocuments ==
  ASSUME IInv, [Next]_vars, NEW e \in Executions, NEW d \in Executions,
         at'[e] # at[e], document'[d] > document[d]
  PROVE  corr[d] = corr[e]
  <1>1. document[d] \in 0..8
    BY TypeParts DEF IInv, InboundTypeOK
  <1>2. document' # document
    BY <1>1
  <1>3. ASSUME NEW x \in Executions, ApiStep(x)
        PROVE  FALSE
    <2>1. ~ UNCHANGED inboundVars
      BY <1>2 DEF inboundVars
    <2>2. CASE Reset(x)
      <3>1. document' = [o \in Executions |-> 0]
        BY <2>1, <2>2, EmptyTablesAre DEF Reset
      <3> QED
        BY <1>1, <3>1
    <2>3. CASE RemoveReport(x) \/ StartRunner(x) \/ Respond(x)
      BY <2>1, <2>3 DEF RemoveReport, StartRunner, Respond
    <2> QED
      BY <1>3, <2>2, <2>3 DEF ApiStep
  <1>4. ASSUME NEW x \in Executions, RunnerStep(x)
        PROVE  corr[d] = corr[e]
    <2>1. CASE ReceivingStep(x)
      <3>1. PICK p, c : Receives(x, p, c)
        BY <2>1, ReceivingIsOK DEF IInv, ReceivedOK
      <3>2. Goes(x, p, c) /\ corr[d] = corr[x]
        BY <3>1 DEF Receives
      <3>3. e = x
        BY <3>2, Moved DEF IInv
      <3> QED
        BY <3>2, <3>3
    <2>2. CASE OutboundStep(x)
      <3>1. PICK p, c : Serves(x, p, c)
        BY <2>2, OutboundIsOK DEF IInv, OutboundIInv, ServedOK
      <3> QED
        BY <1>2, <3>1 DEF Serves, inboundVars
    <2>3. CASE SaveReport(x)
      BY <1>2, <2>3 DEF SaveReport, inboundVars
    <2> QED
      BY <1>4, <2>1, <2>2, <2>3 DEF RunnerStep, ReceivingStep, OutboundStep
  <1>5. ASSUME NEW x \in Executions, Begin(x) \/ Raise(x) \/ Kill(x) \/ Crash(x)
        PROVE  FALSE
    BY <1>2, <1>5 DEF Begin, Raise, Kill, Crash, inboundVars
  <1>6. ~ByHand
    BY <1>2 DEF ByHand, inboundVars
  <1>7. ~UNCHANGED vars
    BY <1>2 DEF vars, inboundVars
  <1> QED
    BY <1>3, <1>4, <1>5, <1>6, <1>7 DEF Next, AllServed

\* An execution works on what is its own: the generators of a runner move purchase
\* orders of its correlation id only, and get_latest_order_id, which asks for the newest
\* order of all, gives it the order it created, for the lock lets no other create one.
THEOREM OwnWork == Spec => WorksOnItsOwn
  <1> DEFINE Own == /\ \A e, d \in Executions : at'[e] # at[e] /\ document'[d] > document[d] =>
                         corr[d] = corr[e]
                    /\ \A e \in Executions : context'[e].order \in {0, e}
  <1>1. IInv /\ IInv' /\ [Next]_vars => [Own]_vars
    <2>1. SUFFICES ASSUME IInv, IInv', [Next]_vars PROVE Own
      OBVIOUS
    <2>2. \A e, d \in Executions : at'[e] # at[e] /\ document'[d] > document[d] =>
            corr[d] = corr[e]
      BY <2>1, OwnDocuments
    <2>3. \A e \in Executions : context'[e].order \in {0, e}
      BY <2>1 DEF IInv, ContextInv, ContextOK
    <2> QED
      BY <2>2, <2>3
  <1> HIDE DEF Own
  <1>2. Spec => [][Own]_vars
    BY <1>1, Invariance, PTL DEF Spec
  <1> QED
    BY <1>2 DEF WorksOnItsOwn, Own
=============================================================================
