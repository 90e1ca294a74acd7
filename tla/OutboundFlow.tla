---------------------------- MODULE OutboundFlow ----------------------------
(***************************************************************************)
(* The outbound flow: an order is created, stock is allocated and reserved *)
(* for it, picked, packed into one package and handed to transportation.   *)
(* Run r creates one order, also called r; an allocation is the pair of    *)
(* its order and product, for a product has one inventory row.  A picking  *)
(* task is named by the run that created it and its allocation; the order  *)
(* written on the task is a field of it.                                   *)
(***************************************************************************)
EXTENDS Warehouse

VARIABLES
  orders,       \* orders, order_items, packages and outbound_shipments, by order
  allocations,  \* inventory_allocations
  picking       \* warehouse_tasks of type PICKING

AllocationIds == Runs \X Products

TaskIds == Runs \X AllocationIds

Orders ==
  [status : {"NONE", "CREATED", "PACKING", "PACKED", "SHIPPED", "DELIVERED"},
   items : [Products -> 0..MaxItem],
   packing : {"NONE", "CREATED", "STARTED", "COMPLETED"},
   package : [Products -> Nat]]

Allocations ==
  [status : {"NONE", "ALLOCATED", "RESERVED", "PICKED"},
   location : Locations \cup {NoLocation}]

PickingTasks == [status : {"NONE", "CREATED", "STARTED", "COMPLETED"}, order : 0..MaxRuns]

OutboundInit ==
  /\ orders = [r \in Runs |-> [status |-> "NONE", items |-> [p \in Products |-> 0],
                               packing |-> "NONE", package |-> [p \in Products |-> 0]]]
  /\ allocations = [a \in AllocationIds |-> [status |-> "NONE", location |-> NoLocation]]
  /\ picking = [t \in TaskIds |-> [status |-> "NONE", order |-> 0]]

Ordered(o) == {p \in Products : orders[o].items[p] > 0}

\* The quantity of an allocation, and of every picking task for it.
Quantity(a) == orders[a[1]].items[a[2]]

AllocationOf(t) == t[2]

\* The picking tasks that carry order o.
TasksOf(o) == {t \in TaskIds : picking[t].status # "NONE" /\ picking[t].order = o}

\* The allocations that picking tasks are created for.
ReservedAllocations == {a \in AllocationIds : allocations[a].status = "RESERVED"}

Earliest_Unordered(S) == S

\* The members of S whose run has the earliest clock: ORDER BY allocated_at, or
\* task_started_at; equal times come in any order.
Earliest(S) == {x \in S : \A y \in S : run[x[1]].stamp <= run[y[1]].stamp}

\* Every product without a row gets one; rows that exist are left as they are.
SeedInventory(r) ==
  /\ Running(r, "SeedInventory")
  /\ inventory' = [p \in Products |->
       IF inventory[p].creator # 0 THEN inventory[p]
       ELSE [onHand |-> SeedQty, reserved |-> 0, status |-> "AVAILABLE",
             location |-> SeedLocation, creator |-> r]]
  /\ Advance(r, "OrderCreated")
  /\ UNCHANGED <<utilization, busy, todo, interrupts, orders, allocations, picking>>

OrderCreated(r) ==
  /\ Running(r, "OrderCreated")
  /\ IF \E p \in Products : inventory[p].status = "AVAILABLE" /\ Available(p) > 0
     THEN /\ orders' = [orders EXCEPT ![r].status = "CREATED"]
          /\ Advance(r, "OrderItemCreated")
          /\ UNCHANGED todo
     ELSE Fail(r) /\ UNCHANGED orders
  /\ UNCHANGED <<inventory, utilization, busy, interrupts, allocations, picking>>

OrderItemCreated(r) ==
  /\ Running(r, "OrderItemCreated")
  /\ LET stocked == {p \in Products : Allocatable(p)}
     IN  \/ \E items \in [Products -> 0..MaxItem] :
              /\ \E p \in Products : items[p] > 0
              /\ \A p \in Products : items[p] > 0 => p \in stocked /\ items[p] <= Available(p)
              /\ orders' = [orders EXCEPT ![r].items = items]
              /\ Advance(r, "InventoryAllocationCreated")
              /\ UNCHANGED todo
         \/ stocked = {} /\ Fail(r) /\ UNCHANGED orders
  /\ UNCHANGED <<inventory, utilization, busy, interrupts, allocations, picking>>

\* Allocating names the row and its location but takes nothing from it.
InventoryAllocationCreated(r) ==
  /\ Running(r, "InventoryAllocationCreated")
  /\ IF \A p \in Ordered(r) : Allocatable(p) /\ orders[r].items[p] <= Available(p)
     THEN /\ allocations' = [a \in AllocationIds |->
               IF a[1] = r /\ a[2] \in Ordered(r)
               THEN [status |-> "ALLOCATED", location |-> inventory[a[2]].location]
               ELSE allocations[a]]
          /\ Advance(r, "InventoryReserved")
          /\ UNCHANGED todo
     ELSE Fail(r) /\ UNCHANGED allocations
  /\ UNCHANGED <<inventory, utilization, busy, interrupts, orders, picking>>

InventoryReserved(r) ==
  /\ Running(r, "InventoryReserved")
  /\ IF \A p \in Ordered(r) : orders[r].items[p] <= Available(p)
     THEN /\ inventory' = [p \in Products |->
               IF p \in Ordered(r)
               THEN [inventory[p] EXCEPT !.reserved = @ + orders[r].items[p],
                                         !.status = "AVAILABLE"]
               ELSE inventory[p]]
          /\ allocations' = [a \in AllocationIds |->
               IF a[1] = r /\ a[2] \in Ordered(r)
               THEN [allocations[a] EXCEPT !.status = "RESERVED"]
               ELSE allocations[a]]
          /\ Advance(r, "PickingTaskCreated")
          /\ UNCHANGED todo
     ELSE Fail(r) /\ UNCHANGED <<inventory, allocations>>
  /\ UNCHANGED <<utilization, busy, interrupts, orders, picking>>

\* The script ignores the order id the runner passes: every RESERVED allocation
\* gets a task, and all of them carry the order of the earliest.  The runner then
\* looks for tasks of its own order, and stops when there are none.
PickingTaskCreated(r) ==
  /\ Running(r, "PickingTaskCreated")
  /\ \E first \in Earliest(ReservedAllocations) :
       /\ picking' = [t \in TaskIds |->
            IF t[1] = r /\ AllocationOf(t) \in ReservedAllocations
            THEN [status |-> "CREATED", order |-> first[1]]
            ELSE picking[t]]
       /\ IF first[1] = r
          THEN /\ todo' = {r} \X ReservedAllocations
               /\ Advance(r, "PickingTaskStarted")
          ELSE Fail(r)
  /\ UNCHANGED <<inventory, utilization, busy, interrupts, orders, allocations>>

\* The runner's next task is started, unless it no longer is CREATED.
PickingTaskStarted(r) ==
  /\ Running(r, "PickingTaskStarted")
  /\ \E t \in todo :
       /\ todo' = Rest(t)
       /\ IF picking[t].status = "CREATED"
          THEN picking' = [picking EXCEPT ![t].status = "STARTED"]
          ELSE UNCHANGED picking
  /\ Advance(r, "PickingCompleted")
  /\ UNCHANGED <<inventory, utilization, busy, interrupts, orders, allocations>>

\* "Insufficient on hand inventory", "Reserved inventory mismatch" otherwise.
CanPick(a) ==
  /\ inventory[a[2]].onHand >= Quantity(a)
  /\ inventory[a[2]].reserved >= Quantity(a)

Picked_StillReserved(a) == [inventory EXCEPT ![a[2]].onHand = @ - Quantity(a)]

\* The movement RESERVED -> PICKED.
Picked(a) == [inventory EXCEPT ![a[2]].onHand = @ - Quantity(a),
                               ![a[2]].reserved = @ - Quantity(a)]

\* The script ignores the task id the runner passes and completes the earliest
\* STARTED task of any order; an allocation's status is not looked at.
PickingCompleted(r) ==
  /\ Running(r, "PickingCompleted")
  /\ \E t \in Earliest({s \in TaskIds : picking[s].status = "STARTED"}) :
       LET a == AllocationOf(t)
       IN  IF CanPick(a)
           THEN /\ inventory' = Picked(a)
                /\ utilization' = [utilization EXCEPT ![allocations[a].location] =
                                     AtLeastZero(@ - Quantity(a))]
                /\ allocations' = [allocations EXCEPT ![a].status = "PICKED"]
                /\ picking' = [picking EXCEPT ![t].status = "COMPLETED"]
                /\ Advance(r, IF todo = {} THEN "PackingTaskCreated" ELSE "PickingTaskStarted")
                /\ UNCHANGED todo
           ELSE Fail(r) /\ UNCHANGED <<inventory, utilization, allocations, picking>>
  /\ UNCHANGED <<busy, interrupts, orders>>

PickingDone(o) ==
  /\ TasksOf(o) # {}
  /\ \A t \in TasksOf(o) : picking[t].status = "COMPLETED"

\* One packing task per order, and none while one of its picking tasks is open.
PackingTaskCreated(r) ==
  /\ Running(r, "PackingTaskCreated")
  /\ IF PickingDone(r)
     THEN /\ IF orders[r].packing = "NONE"
             THEN orders' = [orders EXCEPT ![r].packing = "CREATED", ![r].status = "PACKING"]
             ELSE UNCHANGED orders
          /\ Advance(r, "PackingTaskStarted")
          /\ UNCHANGED todo
     ELSE Fail(r) /\ UNCHANGED orders
  /\ UNCHANGED <<inventory, utilization, busy, interrupts, allocations, picking>>

PackingTaskStarted(r) ==
  /\ Running(r, "PackingTaskStarted")
  /\ orders' = [orders EXCEPT ![r].packing = IF @ = "CREATED" THEN "STARTED" ELSE @]
  /\ Advance(r, "PackingCompleted")
  /\ UNCHANGED <<inventory, utilization, busy, todo, interrupts, allocations, picking>>

\* The units of p that the completed picking tasks of an order brought.
PickedFor(o, p) ==
  Total([t \in TaskIds |-> Quantity(AllocationOf(t))],
        {t \in TasksOf(o) : AllocationOf(t)[2] = p /\ picking[t].status = "COMPLETED"})

\* A worker of the warehouse must be AVAILABLE; it is so again afterwards.
PackingCompleted(r) ==
  /\ Running(r, "PackingCompleted")
  /\ IF AvailableWorkers = {}
     THEN Fail(r) /\ UNCHANGED orders
     ELSE /\ orders' = [orders EXCEPT ![r].packing = "COMPLETED", ![r].status = "PACKED",
                                      ![r].package = [p \in Products |-> PickedFor(r, p)]]
          /\ Advance(r, "ShipmentReady")
          /\ UNCHANGED todo
  /\ UNCHANGED <<inventory, utilization, busy, interrupts, allocations, picking>>

ShipmentReady(r) ==
  /\ Running(r, "ShipmentReady")
  /\ orders[r].status = "PACKED"
  /\ orders' = [orders EXCEPT ![r].status = "SHIPPED"]
  /\ Advance(r, "Transportation")
  /\ UNCHANGED <<inventory, utilization, busy, todo, interrupts, allocations, picking>>

\* The four transportation generators: all commit and the order is DELIVERED, or
\* one of them raises.  What else they keep is not part of this module.
Transportation(r) ==
  /\ Running(r, "Transportation")
  /\ \/ /\ orders' = [orders EXCEPT ![r].status = "DELIVERED"]
        /\ Advance(r, "Exit")
        /\ UNCHANGED todo
     \/ Fail(r) /\ UNCHANGED orders
  /\ UNCHANGED <<inventory, utilization, busy, interrupts, allocations, picking>>

OutboundNext(r) ==
  \/ SeedInventory(r)
  \/ OrderCreated(r)
  \/ OrderItemCreated(r)
  \/ InventoryAllocationCreated(r)
  \/ InventoryReserved(r)
  \/ PickingTaskCreated(r)
  \/ PickingTaskStarted(r)
  \/ PickingCompleted(r)
  \/ PackingTaskCreated(r)
  \/ PackingTaskStarted(r)
  \/ PackingCompleted(r)
  \/ ShipmentReady(r)
  \/ Transportation(r)
=============================================================================
