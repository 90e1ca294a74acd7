------------------------------ MODULE Warehouse ------------------------------
(***************************************************************************)
(* What the inbound and the outbound flow share: the inventory rows and    *)
(* storage locations of one warehouse, its workers, and the runner         *)
(* (loading_scripts/domain_flow_runner.py), which executes the generators  *)
(* of a flow one after the other, each in a database transaction of its    *)
(* own.  The execution lock lets one run at a time through (module         *)
(* IndependentRuns); a run may still stop between any two generators, and  *)
(* nothing undoes what it committed.                                       *)
(***************************************************************************)
EXTENDS Integers, FiniteSets

CONSTANTS
  Products,       \* products; a warehouse holds one inventory row of each
  Locations,      \* its active storage locations
  Workers,        \* its active workers
  NoLocation,     \* location_id IS NULL
  NoWorker,       \* assigned_worker_id IS NULL
  SeedLocation,   \* the first active location, where seeded stock goes
  Capacity,       \* capacity_units of a location
  SeedQty,        \* units seeded for a product without a row (1000 in the code)
  MaxItem,        \* largest quantity of an order line (5 in the code)
  MaxOrdered,     \* largest quantity of a purchase order line
  Stamps,         \* simulation_timestamp values clients send
  MaxRuns,        \* bound: requests served
  MaxInterrupts   \* bound: runs stopped between two generators

ASSUME LocationAssumption == SeedLocation \in Locations /\ NoLocation \notin Locations

ASSUME WorkerAssumption == NoWorker \notin Workers

ASSUME QuantityAssumption ==
  /\ Capacity \in Nat
  /\ SeedQty \in Nat \ {0}
  /\ MaxItem \in Nat \ {0}
  /\ MaxOrdered \in Nat \ {0}

\* The tables of products and locations are finite.
ASSUME FiniteAssumption == IsFiniteSet(Products) /\ IsFiniteSet(Locations)

ASSUME RunAssumption ==
  /\ MaxRuns \in Nat
  /\ MaxInterrupts \in Nat
  /\ Stamps \subseteq Int

Runs == 1..MaxRuns

FirstStep == [inbound |-> "PurchaseOrderCreated", outbound |-> "SeedInventory"]

Flows == DOMAIN FirstStep

VARIABLES
  inventory,      \* the inventory table, by product
  utilization,    \* warehouse_locations.current_utilization
  busy,           \* workers whose current_status is BUSY
  run,            \* run[r]: the r-th run, its flow, clock, outcome and next generator
  todo,           \* ids the runner's current loop has left
  interrupts      \* runs stopped so far

warehouseVars == <<inventory, utilization, busy, run, todo, interrupts>>

InventoryRows ==
  [onHand : Nat, reserved : Nat, status : {"NONE", "RECEIVED", "AVAILABLE"},
   location : Locations \cup {NoLocation}, creator : 0..MaxRuns]

\* No row: creator, the run whose correlation id a row carries, is 0.
NoRow == [onHand |-> 0, reserved |-> 0, status |-> "NONE",
          location |-> NoLocation, creator |-> 0]

WarehouseInit ==
  /\ inventory   = [p \in Products |-> NoRow]
  /\ utilization = [l \in Locations |-> 0]
  /\ busy        = {}
  /\ run         = [r \in Runs |-> [flow |-> "none", stamp |-> 0,
                                    status |-> "WAITING", step |-> "none"]]
  /\ todo        = {}
  /\ interrupts  = 0

-----------------------------------------------------------------------------
(* Inventory.  available_quantity is computed by the database; no flow      *)
(* writes damaged_quantity, which stays 0.                                  *)

Available_OnHand(p) == inventory[p].onHand

Available(p) == inventory[p].onHand - inventory[p].reserved

\* What order items and allocations are taken from.
Allocatable(p) ==
  /\ inventory[p].status = "AVAILABLE"
  /\ Available(p) > 0
  /\ inventory[p].location # NoLocation

AvailableWorkers_Any == Workers

AvailableWorkers == Workers \ busy

AtLeastZero_Unclamped(n) == n

\* GREATEST(n, 0)
AtLeastZero(n) == IF n < 0 THEN 0 ELSE n

\* One element for each of the n[x] units of every x in S.
Units(n, S) == UNION {{x} \X (1..n[x]) : x \in S}

\* SUM(n): what the quantities n of the members of S add up to, counted unit by
\* unit.  No recursion, so that what it returns can be proved.
Total(n, S) == Cardinality(Units(n, S))

-----------------------------------------------------------------------------
(* Runs.  The clock of a run is the time of the request, or the timestamp   *)
(* its client sent.                                                         *)

Running(r, step) == run[r].status = "RUNNING" /\ run[r].step = step

Quiet == \A r \in Runs : run[r].status # "RUNNING"

StartRun(r, flow) ==
  /\ Quiet
  /\ run[r].status = "WAITING"
  /\ \A q \in 1..(r - 1) : run[q].status # "WAITING"
  /\ \E t \in {r} \cup Stamps :
       run' = [run EXCEPT ![r] = [flow |-> flow, stamp |-> t,
                                  status |-> "RUNNING", step |-> FirstStep[flow]]]

Rest_Nothing(x) == {}

\* What the current loop has left after id x.
Rest(x) == todo \ {x}

\* The generator committed and the runner goes on to the next.
Advance(r, step) == run' = [run EXCEPT ![r].step = step]

\* The generator, or the runner after it, raised: the runner exits non-zero.
Fail(r) ==
  /\ run' = [run EXCEPT ![r].status = "FAILED"]
  /\ todo' = {}

\* After the last generator of the flow the runner prints its report and ends.
RunnerExits(r) ==
  /\ Running(r, "Exit")
  /\ run' = [run EXCEPT ![r].status = "SUCCESS"]
  /\ UNCHANGED <<inventory, utilization, busy, todo, interrupts>>

\* The runner dies, or the database refuses the next transaction.
Interrupt(r) ==
  /\ run[r].status = "RUNNING"
  /\ interrupts < MaxInterrupts
  /\ interrupts' = interrupts + 1
  /\ run' = [run EXCEPT ![r].status = "INTERRUPTED"]
  /\ todo' = {}
  /\ UNCHANGED <<inventory, utilization, busy>>
=============================================================================
