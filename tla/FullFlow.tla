------------------------------ MODULE FullFlow ------------------------------
(***************************************************************************)
(* The full flow of the legacy API (POST /simulate/full-flow): the request *)
(* holds the execution lock (module IndependentRuns) while it optionally   *)
(* resets the tables, removes the report an earlier execution of the same  *)
(* correlation id left, lets loading_scripts/run_event_flow run, reads the *)
(* report that leaves and answers.  The runner executes one generator      *)
(* after the other, each a transaction of its own, and looks up in between *)
(* what to call the next one with.  It exits with 0 whatever happened; what*)
(* did is in the report only.                                              *)
(*                                                                         *)
(* Meanwhile an operator may start generators by hand, and the runner is   *)
(* written to go on from whatever status it finds a task or shipment in.   *)
(* Clients leave the clock to the API, so later executions have later      *)
(* times.  What a generator needs of stock, workers and vehicles is the    *)
(* business of modules WarehouseFlows and Transportation; here a generator *)
(* may raise at any time.  When the API stops its runner stops with it.    *)
(***************************************************************************)
EXTENDS Naturals, Sequences, FiniteSets

CONSTANTS
  MaxExecutions, \* bound: requests served
  Products,      \* products of the one warehouse, an inventory row each
  MaxLines,      \* bound: allocations of an order
  MaxByHand,     \* bound: generators started by hand
  MaxFaults      \* bound: generators that raise, files that cannot be removed,
                 \* runners that are killed and crashes of the API

ASSUME FullFlowAssumption ==
  /\ MaxExecutions \in Nat \ {0} /\ MaxLines \in Nat \ {0}
  /\ Products # {}
  /\ MaxByHand \in Nat /\ MaxFaults \in Nat

Executions == 1..MaxExecutions

\* The events a purchase order and what it becomes go through, one status each.
DocumentFlow ==
  <<"PurchaseOrderCreated", "PurchaseOrderApproved", "SupplierShipmentCreated", "ASNReceived",
    "SupplierShipmentDelivered", "ReceivingTaskCreated", "ReceivingTaskStarted", "GoodsReceived">>

\* The events of a package, one status of its shipment each.
TransportationFlow ==
  <<"ShipmentReady", "CarrierAssigned", "ShipmentPickedUp", "ShipmentInTransit",
    "ShipmentDelivered">>

Delivered == Len(TransportationFlow)

\* Where the runner may be.  A name of an event: about to execute its generator.
Events ==
  {DocumentFlow[i] : i \in 1..8} \cup {TransportationFlow[i] : i \in 1..5} \cup
  {"StockIncreased", "InventoryPutaway", "OrderCreated", "OrderItemCreated",
   "InventoryAllocationCreated", "InventoryReserved", "PickingTaskCreated",
   "PickingTaskStarted", "PickingCompleted", "PackingTaskCreated", "PackingTaskStarted",
   "PackingCompleted"}
Lookups == {"LatestOrder", "Picking", "PickingRecheck", "Packing", "Transportation"}

Allocations == Executions \X (1..MaxLines)
Tasks       == Executions \X Allocations
Receipts    == Executions \X Products

VARIABLES
  holder,       \* execution that holds the lock, or 0
  corr,         \* correlation id of each execution, or 0
  at,           \* where it is
  answer,       \* what its client was told
  context,      \* the runner's context
  report,       \* the report file of each correlation id
  latest,       \* event_execution_report.json, which GET /simulate/report reads
  document,     \* events the purchase order an execution created has been through
  lines,        \* products it orders
  stock,        \* inventory.inventory_status; STORED once put away again
  newest,       \* execution that created the newest order, or 0
  order,        \* orders and the status of their allocations
  picking,      \* warehouse_tasks of type PICKING: creator, allocation
  packing,      \* warehouse_tasks of type PACKING, by order
  shipment,     \* events the outbound shipment of an order has been through
  byHand, faults

apiVars      == <<holder, corr, answer, latest>>
fileVars     == <<report, latest>>
inboundVars  == <<document, lines, stock>>
outboundVars == <<newest, order, picking, packing, shipment>>
countVars    == <<byHand, faults>>
vars == <<holder, corr, at, answer, context, report, latest, inboundVars, outboundVars, countVars>>

TaskStatus == {"NONE", "CREATED", "STARTED", "COMPLETED"}
Report     == [by : 0..MaxExecutions, result : {"NONE", "OK", "FAILED", "TORN"}]
NoReport   == [by |-> 0, result |-> "NONE"]
\* window: the environment; task: receiving task; ids: rows its loop has left; order;
\* now: current task; failed: the report has an entry that FAILED.
Context    == [window : {"none", "morning", "evening"}, task : 0..MaxExecutions,
               ids : (SUBSET Receipts) \cup (SUBSET Tasks), order : 0..MaxExecutions,
               now : Tasks \cup {<<>>}, failed : BOOLEAN]
Order      == [status : {"NONE", "CREATED", "ITEMS", "ALLOCATED", "RESERVED"},
               lines : 0..MaxLines, picked : SUBSET (1..MaxLines)]
Task       == [status : TaskStatus, order : 0..MaxExecutions,
               started : 0..(2 * MaxExecutions + 1)]
NoContext  == [window |-> "none", task |-> 0, ids |-> {}, order |-> 0, now |-> <<>>, failed |-> FALSE]
NoOrder    == [status |-> "NONE", lines |-> 0, picked |-> {}]
NoTask     == [status |-> "NONE", order |-> 0, started |-> 0]

\* The transaction tables after a reset.
EmptyTables ==
  [document |-> [e \in Executions |-> 0], lines |-> [e \in Executions |-> {}],
   stock |-> [p \in Products |-> "NONE"], newest |-> 0,
   order |-> [e \in Executions |-> NoOrder], picking |-> [t \in Tasks |-> NoTask],
   packing |-> [e \in Executions |-> "NONE"], shipment |-> [e \in Executions |-> 0]]

Init ==
  /\ holder = 0
  /\ corr = [e \in Executions |-> 0]
  /\ at = [e \in Executions |-> "waiting"]
  /\ answer = [e \in Executions |-> "NONE"]
  /\ context = [e \in Executions |-> NoContext]
  /\ report = [c \in Executions |-> NoReport] /\ latest = NoReport
  /\ document = EmptyTables.document /\ lines = EmptyTables.lines
  /\ stock = EmptyTables.stock /\ newest = EmptyTables.newest
  /\ order = EmptyTables.order /\ picking = EmptyTables.picking
  /\ packing = EmptyTables.packing /\ shipment = EmptyTables.shipment
  /\ byHand = 0 /\ faults = 0

-----------------------------------------------------------------------------
(* The API's side: _run_full_flow_unlocked.                                 *)

Fault == faults < MaxFaults /\ faults' = faults + 1

\* A correlation id is named by the first execution that has it.
CorrsFor(e) == {e} \cup {corr[d] : d \in 1..(e - 1)}

\* The execution is over: its client has its answer, the lock is free, and nothing
\* remembers what its runner knew.
Ends(e, result) ==
  /\ at' = [at EXCEPT ![e] = "done"]
  /\ context' = [context EXCEPT ![e] = NoContext]
  /\ answer' = [answer EXCEPT ![e] = result]
  /\ holder' = 0

Begin_NoLock(e) ==
  /\ at[e] = "waiting"
  /\ \A d \in 1..(e - 1) : at[d] # "waiting"
  /\ holder' = e
  /\ \E c \in CorrsFor(e) : corr' = [corr EXCEPT ![e] = c]
  /\ \E w \in {"morning", "evening"} : context' = [context EXCEPT ![e].window = w]
  /\ \E next \in {"reset", "remove report"} : at' = [at EXCEPT ![e] = next]
  /\ UNCHANGED <<answer, fileVars, inboundVars, outboundVars, countVars>>

\* A request is let through by the lock; it may ask for a reset.
Begin(e) ==
  /\ holder = 0
  /\ at[e] = "waiting"
  /\ \A d \in 1..(e - 1) : at[d] # "waiting"
  /\ holder' = e
  /\ \E c \in CorrsFor(e) : corr' = [corr EXCEPT ![e] = c]
  /\ \E w \in {"morning", "evening"} : context' = [context EXCEPT ![e].window = w]
  /\ \E next \in {"reset", "remove report"} : at' = [at EXCEPT ![e] = next]
  /\ UNCHANGED <<answer, fileVars, inboundVars, outboundVars, countVars>>

\* reset_transaction_tables, in one transaction; it refuses a schema with tables it
\* does not know, simulation_runs among them.
Reset(e) ==
  /\ at[e] = "reset"
  /\ \/ /\ document' = EmptyTables.document /\ lines' = EmptyTables.lines
        /\ stock' = EmptyTables.stock /\ newest' = EmptyTables.newest
        /\ order' = EmptyTables.order /\ picking' = EmptyTables.picking
        /\ packing' = EmptyTables.packing /\ shipment' = EmptyTables.shipment
        /\ at' = [at EXCEPT ![e] = "remove report"]
        /\ UNCHANGED <<holder, answer, context>>
     \/ /\ Ends(e, "FAILED")
        /\ UNCHANGED <<inboundVars, outboundVars>>
  /\ UNCHANGED <<corr, fileVars, countVars>>

\* An OSError is ignored.
RemoveReport(e) ==
  /\ at[e] = "remove report"
  /\ \/ /\ report' = [report EXCEPT ![corr[e]] = NoReport]
        /\ UNCHANGED faults
     \/ Fault /\ UNCHANGED report
  /\ at' = [at EXCEPT ![e] = "start"]
  /\ UNCHANGED <<apiVars, context, inboundVars, outboundVars, byHand>>

StartRunner(e) ==
  /\ at[e] = "start"
  /\ \/ /\ at' = [at EXCEPT ![e] = DocumentFlow[1]]
        /\ UNCHANGED <<holder, answer, context, faults>>
     \/ Fault /\ Ends(e, "FAILED")
  /\ UNCHANGED <<corr, fileVars, inboundVars, outboundVars, byHand>>

Successful_ExitCodeOnly(exited, rep) == exited = "exited"

\* _is_flow_successful: the runner exited with 0 and no entry of the report FAILED.
Successful(exited, rep) == exited = "exited" /\ rep.result # "FAILED"

\* Whatever report there is now is taken for this execution's, and becomes the latest.
Respond(e) ==
  /\ at[e] \in {"exited", "killed"}
  /\ LET rep == report[corr[e]]
     IN  /\ latest' = IF rep = NoReport THEN latest ELSE rep
         /\ Ends(e, IF Successful(at[e], rep) THEN "SUCCESS" ELSE "FAILED")
  /\ UNCHANGED <<corr, report, inboundVars, outboundVars, countVars>>

\* The API stops, and the runner with it.
Crash(e) ==
  /\ at[e] \notin {"waiting", "done"}
  /\ Fault
  /\ Ends(e, "LOST")
  /\ UNCHANGED <<corr, fileVars, inboundVars, outboundVars, byHand>>

-----------------------------------------------------------------------------
(* The runner's ways out: main's exception handler, a generator that raises,  *)
(* save_report in its finally clause, and a runner that is killed.            *)

Go(e, next) == at' = [at EXCEPT ![e] = next] /\ UNCHANGED context

\* An entry that FAILED is reported and nothing more is executed.
Stop(e) ==
  /\ at' = [at EXCEPT ![e] = "save"]
  /\ context' = [context EXCEPT ![e].failed = TRUE]

Raise(e) ==
  /\ at[e] \in Events
  /\ Fault
  /\ Stop(e)
  /\ UNCHANGED <<apiVars, report, inboundVars, outboundVars, byHand>>

SaveReport(e) ==
  /\ at[e] = "save"
  /\ report' = [report EXCEPT ![corr[e]] =
                  [by |-> e, result |-> IF context[e].failed THEN "FAILED" ELSE "OK"]]
  /\ Go(e, "exited")
  /\ UNCHANGED <<apiVars, inboundVars, outboundVars, countVars>>

Kill(e) ==
  /\ at[e] \in Events \cup Lookups \cup {"save"}
  /\ Fault
  /\ Go(e, "killed")
  /\ \/ UNCHANGED report
     \/ /\ at[e] = "save"
        /\ report' = [report EXCEPT ![corr[e]] = [by |-> e, result |-> "TORN"]]
  /\ UNCHANGED <<apiVars, inboundVars, outboundVars, byHand>>

-----------------------------------------------------------------------------
(* Inbound.                                                                 *)

Documents_OfAll(e) == Executions

\* The documents of the correlation id an execution works for.
Documents(e) == {d \in Executions : corr[d] = corr[e]}

\* What the generator of the k-th event takes: the oldest purchase order, or shipment,
\* of its status; from ASNReceived on the dates compared have random delays in them.
Waiting(e, k) ==
  LET ready == {d \in Documents(e) : document[d] = k - 1}
  IN  IF k <= 4 THEN {d \in ready : \A c \in ready : d <= c} ELSE ready

PurchaseOrderCreated(e) ==
  /\ at[e] = "PurchaseOrderCreated"
  /\ \E ordered \in (SUBSET Products) \ {{}} : lines' = [lines EXCEPT ![e] = ordered]
  /\ document' = [document EXCEPT ![e] = 1]
  /\ Go(e, "PurchaseOrderApproved")
  /\ UNCHANGED <<apiVars, report, stock, outboundVars, countVars>>

\* PurchaseOrderApproved, SupplierShipmentCreated, ASNReceived, SupplierShipmentDelivered.
DocumentMoves(e) ==
  \E k \in 2..5 :
    /\ at[e] = DocumentFlow[k]
    /\ \E d \in Waiting(e, k) : document' = [document EXCEPT ![d] = k]
    /\ Go(e, DocumentFlow[k + 1])
    /\ UNCHANGED <<apiVars, report, lines, stock, outboundVars, countVars>>

\* The runner then takes the newest receiving task of its correlation id, by a time
\* with a random delay in it and whatever its status.
ReceivingTaskCreated(e) ==
  /\ at[e] = "ReceivingTaskCreated"
  /\ \E d \in Waiting(e, 6) :
       /\ document' = [document EXCEPT ![d] = 6]
       /\ \E task \in {c \in Documents(e) : document'[c] >= 6} :
            context' = [context EXCEPT ![e].task = task]
  /\ at' = [at EXCEPT ![e] = "ReceivingTaskStarted"]
  /\ UNCHANGED <<apiVars, report, lines, stock, outboundVars, countVars>>

ReceivingTaskStarted(e) ==
  /\ at[e] = "ReceivingTaskStarted"
  /\ IF document[context[e].task] = 6
     THEN document' = [document EXCEPT ![context[e].task] = 7] /\ Go(e, "GoodsReceived")
     ELSE UNCHANGED document /\ Stop(e)
  /\ UNCHANGED <<apiVars, report, lines, stock, outboundVars, countVars>>

\* The inventory rows of all GOODS_RECEIVED transactions of the correlation id, one
\* for each transaction.
Received(e, stage) ==
  {r \in Receipts : r[1] \in Documents(e) /\ stage[r[1]] = 8 /\ r[2] \in lines[r[1]]}

GoodsReceived(e) ==
  /\ at[e] = "GoodsReceived"
  /\ LET d == context[e].task
     IN  /\ document' = [document EXCEPT ![d] = 8]
         /\ stock' = [p \in Products |-> IF p \in lines[d] THEN "RECEIVED" ELSE stock[p]]
  /\ context' = [context EXCEPT ![e].ids = Received(e, document')]
  /\ at' = [at EXCEPT ![e] = "StockIncreased"]
  /\ UNCHANGED <<apiVars, report, lines, outboundVars, countVars>>

Rest(e, id) == context[e].ids \ {id}

\* A row that is not RECEIVED stops the runner, one it has just increased among them.
StockIncreased(e) ==
  /\ at[e] = "StockIncreased"
  /\ \E id \in context[e].ids :
       IF stock[id[2]] = "RECEIVED"
       THEN /\ stock' = [stock EXCEPT ![id[2]] = "AVAILABLE"]
            /\ IF Rest(e, id) # {}
               THEN context' = [context EXCEPT ![e].ids = Rest(e, id)] /\ UNCHANGED at
               ELSE /\ context' = [context EXCEPT ![e].ids = Received(e, document)]
                    /\ at' = [at EXCEPT ![e] = "InventoryPutaway"]
       ELSE UNCHANGED stock /\ Stop(e)
  /\ UNCHANGED <<apiVars, report, document, lines, outboundVars, countVars>>

\* After the last row a morning execution is over.
InventoryPutaway(e) ==
  /\ at[e] = "InventoryPutaway"
  /\ \E id \in context[e].ids :
       /\ stock' = [stock EXCEPT ![id[2]] = "STORED"]
       /\ context' = [context EXCEPT ![e].ids = Rest(e, id)]
       /\ at' = [at EXCEPT ![e] = IF Rest(e, id) # {} THEN "InventoryPutaway"
                                  ELSE IF context[e].window = "morning" THEN "save"
                                  ELSE "OrderCreated"]
  /\ UNCHANGED <<apiVars, report, document, lines, outboundVars, countVars>>

-----------------------------------------------------------------------------
(* Outbound: the order.                                                     *)

OrderOf(e) == context[e].order

OrderCreated(e) ==
  /\ at[e] = "OrderCreated"
  /\ order' = [order EXCEPT ![e].status = "CREATED"]
  /\ newest' = e
  /\ Go(e, "LatestOrder")
  /\ UNCHANGED <<apiVars, report, inboundVars, picking, packing, shipment, countVars>>

\* get_latest_order_id: the newest order of all.
LatestOrder(e) ==
  /\ at[e] = "LatestOrder"
  /\ context' = [context EXCEPT ![e].order = newest]
  /\ at' = [at EXCEPT ![e] = "OrderItemCreated"]
  /\ UNCHANGED <<apiVars, report, inboundVars, outboundVars, countVars>>

OrderItemCreated(e) ==
  /\ at[e] = "OrderItemCreated"
  /\ IF order[OrderOf(e)].status = "CREATED"
     THEN /\ \E n \in 1..MaxLines :
               order' = [order EXCEPT ![OrderOf(e)] =
                           [status |-> "ITEMS", lines |-> n, picked |-> {}]]
          /\ Go(e, "InventoryAllocationCreated")
     ELSE UNCHANGED order /\ Stop(e)
  /\ UNCHANGED <<apiVars, report, inboundVars, newest, picking, packing, shipment, countVars>>

\* All allocations of the order are made by one generator and reserved by the next.
AllocationsMove(e, event, from, to, next) ==
  /\ at[e] = event
  /\ IF order[OrderOf(e)].status = from
     THEN order' = [order EXCEPT ![OrderOf(e)].status = to] /\ Go(e, next)
     ELSE UNCHANGED order /\ Stop(e)
  /\ UNCHANGED <<apiVars, report, inboundVars, newest, picking, packing, shipment, countVars>>

InventoryAllocationCreated(e) ==
  AllocationsMove(e, "InventoryAllocationCreated", "ITEMS", "ALLOCATED", "InventoryReserved")

InventoryReserved_Picked(e) ==
  AllocationsMove(e, "InventoryReserved", "ALLOCATED", "PICKED", "PickingTaskCreated")

InventoryReserved(e) ==
  AllocationsMove(e, "InventoryReserved", "ALLOCATED", "RESERVED", "PickingTaskCreated")

-----------------------------------------------------------------------------
(* Picking.  Times are those of the execution's clock, or later than its    *)
(* for what is started by hand.                                             *)

Now(e) == 2 * e

NowByHand == 2 * Cardinality({e \in Executions : at[e] # "waiting"}) + 1

ReservedAllocations ==
  {a \in Allocations : /\ order[a[1]].status = "RESERVED"
                       /\ a[2] \in 1..order[a[1]].lines
                       /\ a[2] \notin order[a[1]].picked}

TasksOf(o) == {t \in Tasks : picking[t].status # "NONE" /\ picking[t].order = o}

\* The script takes no argument: every RESERVED allocation gets a task, and all of them
\* carry the order of the earliest.  The runner then looks for tasks of its order.
PickingTaskCreated(e) ==
  /\ at[e] = "PickingTaskCreated"
  /\ \E first \in ReservedAllocations :
       /\ \A a \in ReservedAllocations : first[1] <= a[1]
       /\ picking' = [t \in Tasks |->
            IF t[1] = e /\ t[2] \in ReservedAllocations
            THEN [status |-> "CREATED", order |-> first[1], started |-> 0]
            ELSE picking[t]]
  /\ LET mine == {t \in Tasks : picking'[t].status # "NONE" /\ picking'[t].order = OrderOf(e)}
     IN  IF mine = {} THEN Stop(e)
         ELSE /\ context' = [context EXCEPT ![e].ids = mine]
              /\ at' = [at EXCEPT ![e] = "Picking"]
  /\ UNCHANGED <<apiVars, report, inboundVars, newest, order, packing, shipment, countVars>>

\* The loop over the tasks: one that is COMPLETED is passed over.
Picking(e) ==
  /\ at[e] = "Picking"
  /\ IF context[e].ids = {} THEN Go(e, "PackingTaskCreated")
     ELSE \E t \in context[e].ids :
            /\ context' = [context EXCEPT ![e].ids = Rest(e, t), ![e].now = t]
            /\ at' = [at EXCEPT ![e] = CASE picking[t].status = "CREATED" -> "PickingTaskStarted"
                                         [] picking[t].status = "STARTED" -> "PickingRecheck"
                                         [] OTHER -> "Picking"]
  /\ UNCHANGED <<apiVars, report, inboundVars, outboundVars, countVars>>

Started(t, time) ==
  /\ picking[t].status = "CREATED"
  /\ picking' = [picking EXCEPT ![t].status = "STARTED", ![t].started = time]

PickingTaskStarted(e) ==
  /\ at[e] = "PickingTaskStarted"
  /\ \/ Started(context[e].now, Now(e)) /\ Go(e, "PickingRecheck")
     \/ /\ picking[context[e].now].status # "CREATED"
        /\ UNCHANGED picking /\ Stop(e)
  /\ UNCHANGED <<apiVars, report, inboundVars, newest, order, packing, shipment, countVars>>

PickingRecheck(e) ==
  /\ at[e] = "PickingRecheck"
  /\ Go(e, IF picking[context[e].now].status = "COMPLETED" THEN "Picking"
           ELSE "PickingCompleted")
  /\ UNCHANGED <<apiVars, report, inboundVars, outboundVars, countVars>>

StartedTasks == {t \in Tasks : picking[t].status = "STARTED"}

\* The script takes no argument either: it completes the STARTED task of any order
\* that was started first.
PickCompletes ==
  \E t \in StartedTasks :
    /\ \A s \in StartedTasks : picking[t].started <= picking[s].started
    /\ picking' = [picking EXCEPT ![t].status = "COMPLETED"]
    /\ order' = [order EXCEPT ![t[2][1]].picked = @ \cup {t[2][2]}]

\* The runner goes on only if the task that is now COMPLETED is its own.
PickingCompleted(e) ==
  /\ at[e] = "PickingCompleted"
  /\ \/ /\ PickCompletes
        /\ IF picking'[context[e].now].status = "COMPLETED" THEN Go(e, "Picking") ELSE Stop(e)
     \/ /\ StartedTasks = {}
        /\ UNCHANGED <<picking, order>> /\ Stop(e)
  /\ UNCHANGED <<apiVars, report, inboundVars, newest, packing, shipment, countVars>>

-----------------------------------------------------------------------------
(* Packing: one task and one package for an order.                          *)

\* All picking tasks of the order are COMPLETED, and there are some.
PickingDone(o) == TasksOf(o) # {} /\ \A t \in TasksOf(o) : picking[t].status = "COMPLETED"

\* A packing task the order has already is used.
PackingTaskCreated(e) ==
  /\ at[e] = "PackingTaskCreated"
  /\ LET o == OrderOf(e)
     IN  \/ packing[o] # "NONE" /\ UNCHANGED packing /\ Go(e, "Packing")
         \/ /\ packing[o] = "NONE" /\ PickingDone(o)
            /\ packing' = [packing EXCEPT ![o] = "CREATED"]
            /\ Go(e, "Packing")
         \/ packing[o] = "NONE" /\ ~PickingDone(o) /\ UNCHANGED packing /\ Stop(e)
  /\ UNCHANGED <<apiVars, report, inboundVars, newest, order, picking, shipment, countVars>>

Packing(e) ==
  /\ at[e] = "Packing"
  /\ Go(e, CASE packing[OrderOf(e)] = "CREATED" -> "PackingTaskStarted"
             [] packing[OrderOf(e)] = "STARTED" -> "PackingCompleted"
             [] OTHER -> "Transportation")
  /\ UNCHANGED <<apiVars, report, inboundVars, outboundVars, countVars>>

PackingTaskStarted(e) ==
  /\ at[e] = "PackingTaskStarted"
  /\ IF packing[OrderOf(e)] = "CREATED"
     THEN packing' = [packing EXCEPT ![OrderOf(e)] = "STARTED"] /\ Go(e, "PackingCompleted")
     ELSE UNCHANGED packing /\ Stop(e)
  /\ UNCHANGED <<apiVars, report, inboundVars, newest, order, picking, shipment, countVars>>

\* A task that is COMPLETED stays so; the runner checks no further.
PackingCompleted(e) ==
  /\ at[e] = "PackingCompleted"
  /\ packing' = [packing EXCEPT ![OrderOf(e)] = "COMPLETED"]
  /\ Go(e, "Transportation")
  /\ UNCHANGED <<apiVars, report, inboundVars, newest, order, picking, shipment, countVars>>

-----------------------------------------------------------------------------
(* Transportation of the package.                                           *)

\* The runner reads the status of the shipment and goes on from there.
Transportation(e) ==
  /\ at[e] = "Transportation"
  /\ LET k == shipment[OrderOf(e)]
     IN  Go(e, IF k = Delivered THEN "save" ELSE TransportationFlow[k + 1])
  /\ UNCHANGED <<apiVars, report, inboundVars, outboundVars, countVars>>

\* A generator raises if the shipment has moved since.
ShipmentMoves(e) ==
  \E k \in 1..Delivered :
    /\ at[e] = TransportationFlow[k]
    /\ IF shipment[OrderOf(e)] = k - 1
       THEN shipment' = [shipment EXCEPT ![OrderOf(e)] = k] /\ Go(e, "Transportation")
       ELSE UNCHANGED shipment /\ Stop(e)
    /\ UNCHANGED <<apiVars, report, inboundVars, newest, order, picking, packing, countVars>>

-----------------------------------------------------------------------------
(* An operator starts a generator from the command line.                    *)

PickByHand ==
  \/ /\ \E t \in Tasks : Started(t, NowByHand)
     /\ UNCHANGED <<order, packing, shipment>>
  \/ PickCompletes /\ UNCHANGED <<packing, shipment>>

PackByHand ==
  /\ \E o \in Executions, next \in TaskStatus \ {"NONE"} :
       /\ CASE next = "CREATED"   -> packing[o] = "NONE" /\ PickingDone(o)
            [] next = "STARTED"   -> packing[o] = "CREATED"
            [] next = "COMPLETED" -> packing[o] \in {"CREATED", "STARTED"}
       /\ packing' = [packing EXCEPT ![o] = next]
  /\ UNCHANGED <<order, picking, shipment>>

ShipByHand ==
  /\ \E o \in Executions :
       /\ packing[o] = "COMPLETED" /\ shipment[o] < Delivered
       /\ shipment' = [shipment EXCEPT ![o] = @ + 1]
  /\ UNCHANGED <<order, picking, packing>>

ByHand ==
  /\ byHand < MaxByHand
  /\ byHand' = byHand + 1
  /\ PickByHand \/ PackByHand \/ ShipByHand
  /\ UNCHANGED <<apiVars, at, context, report, inboundVars, newest, faults>>

-----------------------------------------------------------------------------
(* What an execution does next when nothing interferes, and the whole.      *)

RunnerStep(e) ==
  \/ PurchaseOrderCreated(e) \/ DocumentMoves(e) \/ ReceivingTaskCreated(e)
  \/ ReceivingTaskStarted(e) \/ GoodsReceived(e) \/ StockIncreased(e) \/ InventoryPutaway(e)
  \/ OrderCreated(e) \/ LatestOrder(e) \/ OrderItemCreated(e)
  \/ InventoryAllocationCreated(e) \/ InventoryReserved(e)
  \/ PickingTaskCreated(e) \/ Picking(e) \/ PickingTaskStarted(e) \/ PickingRecheck(e)
  \/ PickingCompleted(e)
  \/ PackingTaskCreated(e) \/ Packing(e) \/ PackingTaskStarted(e) \/ PackingCompleted(e)
  \/ Transportation(e) \/ ShipmentMoves(e)
  \/ SaveReport(e)

ApiStep(e) == Reset(e) \/ RemoveReport(e) \/ StartRunner(e) \/ Respond(e)

\* Every request of the bound has been answered.
AllServed == (\A e \in Executions : at[e] = "done") /\ UNCHANGED vars

Next ==
  \/ \E e \in Executions :
       Begin(e) \/ ApiStep(e) \/ RunnerStep(e) \/ Raise(e) \/ Kill(e) \/ Crash(e)
  \/ ByHand
  \/ AllServed

Spec == Init /\ [][Next]_vars

-----------------------------------------------------------------------------
(* Type and safety.                                                         *)

TypeOK ==
  /\ holder \in 0..MaxExecutions
  /\ corr \in [Executions -> 0..MaxExecutions]
  /\ at \in [Executions -> Events \cup Lookups \cup
       {"waiting", "reset", "remove report", "start", "save", "exited", "killed", "done"}]
  /\ answer \in [Executions -> {"NONE", "SUCCESS", "FAILED", "LOST"}]
  /\ context \in [Executions -> Context]
  /\ report \in [Executions -> Report] /\ latest \in Report
  /\ document \in [Executions -> 0..8]
  /\ lines \in [Executions -> SUBSET Products]
  /\ stock \in [Products -> {"NONE", "RECEIVED", "AVAILABLE", "STORED"}]
  /\ newest \in 0..MaxExecutions
  /\ order \in [Executions -> Order]
  /\ \A o \in Executions : order[o].picked \subseteq 1..order[o].lines
  /\ picking \in [Tasks -> Task]
  /\ packing \in [Executions -> TaskStatus]
  /\ shipment \in [Executions -> 0..Delivered]
  /\ byHand \in 0..MaxByHand /\ faults \in 0..MaxFaults

\* An order is delivered: all it asked for was picked, packed and shipped.
OrderIsDelivered(o) ==
  /\ order[o].picked = 1..order[o].lines
  /\ PickingDone(o)
  /\ packing[o] = "COMPLETED"
  /\ shipment[o] = Delivered

\* A client that is told SUCCESS can rely on it, although the runner exits with 0 even
\* when it stopped: the report is the one of this execution, what its receiving task
\* brought is back in its place, and after a full window its order is delivered.
SuccessIsDone ==
  [][\A e \in Executions : answer[e] = "NONE" /\ answer'[e] = "SUCCESS" =>
       /\ latest' = [by |-> e, result |-> "OK"]
       /\ document[context[e].task] = 8
       /\ \A r \in Received(e, document) : stock[r[2]] = "STORED"
       /\ context[e].window = "evening" => OrderIsDelivered(e)]_vars

\* An execution works on what is its own: it moves purchase orders of its correlation
\* id only, and the order it looks up as the newest of all is the one it created.
WorksOnItsOwn ==
  [][/\ \A e, d \in Executions : at'[e] # at[e] /\ document'[d] > document[d] =>
          corr[d] = corr[e]
     /\ \A e \in Executions : context'[e].order \in {0, e}]_vars

-----------------------------------------------------------------------------
(* What the repository says of a correlation id.                            *)

\* simulator_schema.py:34, "Reusing it retries or resumes the same business run": there
\* is one purchase order for a correlation id, however often it is posted.
ReuseIsARetry ==
  \A c \in Executions : Cardinality({e \in Executions : corr[e] = c /\ document[e] > 0}) <= 1
=============================================================================
