--------------------------- MODULE Transportation ---------------------------
(***************************************************************************)
(* A shipment's way from READY to DELIVERED (simulator/generators/         *)
(* transportation), for runs of the transportation domain, which seed      *)
(* their shipment, and of the outbound domain, which come here with a      *)
(* packed package (loading_scripts/domain_flow_runner).  All runs draw on  *)
(* the same vehicles, trailers and drivers; nothing gives these back but   *)
(* the delivery of the shipment that has them.                             *)
(*                                                                         *)
(* An event is one transaction.  CarrierAssigned chooses its units in      *)
(* statements that lock nothing and writes them in later ones, so it is    *)
(* two steps here.  The runs of the API hold the execution lock (module    *)
(* IndependentRuns); generators started by hand hold none, and the model   *)
(* assumes that whoever starts one waits until no run is active.           *)
(***************************************************************************)
EXTENDS Naturals, Sequences, SequencesExt, FiniteSetsExt

CONSTANTS
  Runs,         \* runs of the API, each with the one shipment it ships
  Outbound,     \* those of the outbound domain
  Fleet,        \* Fleet[k]: how many units of each kind there are
  Nobody,       \* nobody holds the lock; no unit is chosen
  MaxByHand,    \* bound: generators started by hand
  MaxInterrupts \* bound: runs that are cut off

Kinds == {"vehicle", "trailer", "driver"}
TransportationFlow ==
  <<"CarrierAssigned", "ShipmentPickedUp", "ShipmentInTransit", "ShipmentDelivered">>

ASSUME TransportationAssumption ==
  /\ Outbound \subseteq Runs /\ Nobody \notin Runs
  /\ Nobody \notin [Kinds -> Nat]
  /\ Fleet \in [Kinds -> Nat \ {0}]
  /\ MaxByHand \in Nat /\ MaxInterrupts \in Nat

VARIABLES
  holder,       \* run that holds the execution lock
  run,          \* status of each run
  step,         \* next event of its chain, 0 before its shipment exists
  chosen,       \* units its open CarrierAssigned transaction has read
  shipment,     \* outbound_shipments.shipment_status
  transport,    \* outbound_shipment_transportation: rows of each shipment
  tracking,     \* outbound_shipment_tracking: rows of each shipment
  order,        \* orders.order_status
  fulfillment,  \* outbound_fulfillment.status
  status,       \* status of each unit
  outbox,       \* events of each shipment's correlation id
  byHand, interrupts

runVars == <<holder, run, step, chosen>>
shipmentVars == <<shipment, transport, tracking, order, fulfillment>>
vars == <<runVars, shipmentVars, status, outbox, byHand, interrupts>>

Units == [k \in Kinds |-> 1..Fleet[k]]
UnitOfEach == {unit \in [Kinds -> Nat] : \A k \in Kinds : unit[k] \in Units[k]}
ShipmentStatus == {"READY", "ASSIGNED", "PICKED_UP", "IN_TRANSIT", "DELIVERED"}
Row == [unit : [Kinds -> Nat], status : ShipmentStatus \ {"READY"}]
Events == {TransportationFlow[i] : i \in 1..4} \cup {"VehicleAssigned"}

TypeOK ==
  /\ holder \in Runs \cup {Nobody}
  /\ run \in [Runs -> {"NEW", "RUNNING", "SUCCESS", "FAILED"}]
  /\ step \in [Runs -> 0..5]
  /\ \A r \in Runs : chosen[r] = Nobody \/ chosen[r] \in UnitOfEach
  /\ shipment \in [Runs -> ShipmentStatus \cup {"NONE"}]
  /\ \A s \in Runs : transport[s] \in Seq(Row) /\ tracking[s] \in Seq(Row)
  /\ order \in [Runs -> {"NONE", "PACKED", "READY", "SHIPPED", "DELIVERED"}]
  /\ fulfillment \in [Runs -> {"NONE", "READY", "COMPLETED"}]
  /\ \A k \in Kinds : status[k] \in [Units[k] -> {"ACTIVE", "ASSIGNED", "IN_TRANSIT"}]
  /\ \A s \in Runs : outbox[s] \in Seq(Events)
  /\ byHand \in 0..MaxByHand /\ interrupts \in 0..MaxInterrupts

Init ==
  /\ holder = Nobody
  /\ run = [r \in Runs |-> "NEW"] /\ step = [r \in Runs |-> 0]
  /\ chosen = [r \in Runs |-> Nobody]
  /\ shipment = [s \in Runs |-> "NONE"]
  /\ transport = [s \in Runs |-> <<>>] /\ tracking = [s \in Runs |-> <<>>]
  /\ order = [s \in Runs |-> IF s \in Outbound THEN "PACKED" ELSE "NONE"]
  /\ fulfillment = [s \in Runs |-> "NONE"]
  /\ status = [k \in Kinds |-> [u \in Units[k] |-> "ACTIVE"]]
  /\ outbox = [s \in Runs |-> <<>>]
  /\ byHand = 0 /\ interrupts = 0

-----------------------------------------------------------------------------
(* The events, as effects on a shipment s that has been selected.           *)

Active(k) == {u \in Units[k] : status[k][u] = "ACTIVE"}

\* Mutant of Oldest: the newest unit is taken, whatever its status.
Oldest_AnyStatus(k) == Fleet[k]

\* ORDER BY created_at LIMIT 1: units are numbered by age.
Oldest(k) == Min(Active(k))

Available == \A k \in Kinds : Active(k) # {}

Marked(unit, mark) == [k \in Kinds |-> [status[k] EXCEPT ![unit[k]] = mark]]

Rows(rows, mark) == [i \in DOMAIN rows |-> [rows[i] EXCEPT !.status = mark]]

\* publish_event: an event of this shipment and correlation is published once.
Publish(s, event) ==
  outbox' = [outbox EXCEPT ![s] = IF event \in ToSet(@) THEN @ ELSE Append(@, event)]

AssignCarrier(s, unit) ==
  /\ transport' = [transport EXCEPT ![s] = Append(@, [unit |-> unit, status |-> "ASSIGNED"])]
  /\ shipment' = [shipment EXCEPT ![s] = "ASSIGNED"]
  /\ status' = Marked(unit, "ASSIGNED")
  /\ UNCHANGED <<tracking, order, fulfillment>>

Open(rows, marks) == {i \in DOMAIN rows : rows[i].status \in marks}

\* Units of the transportation row with this status, the newest of them.
AssignmentOf(s, mark) ==
  IF Open(transport[s], {mark}) = {} THEN Nobody
  ELSE transport[s][Max(Open(transport[s], {mark}))].unit

\* Mutant of PickUp: the units take the shipment's status.
PickUp_MarksUnits(s) ==
  LET unit == AssignmentOf(s, "ASSIGNED") IN
  /\ tracking' = [tracking EXCEPT ![s] = Append(@, [unit |-> unit, status |-> "PICKED_UP"])]
  /\ transport' = [transport EXCEPT ![s] = Rows(@, "PICKED_UP")]
  /\ shipment' = [shipment EXCEPT ![s] = "PICKED_UP"]
  /\ status' = Marked(unit, "PICKED_UP")
  /\ UNCHANGED <<order, fulfillment>>

\* Mutant of PickUp: the transportation row stays ASSIGNED.
PickUp_RowLeft(s) ==
  /\ tracking' = [tracking EXCEPT ![s] =
       Append(@, [unit |-> AssignmentOf(s, "ASSIGNED"), status |-> "PICKED_UP"])]
  /\ shipment' = [shipment EXCEPT ![s] = "PICKED_UP"]
  /\ UNCHANGED <<transport, order, fulfillment, status>>

\* ShipmentPickedUp, and VehicleAssigned, which writes the same.
PickUp(s) ==
  LET unit == AssignmentOf(s, "ASSIGNED") IN
  /\ tracking' = [tracking EXCEPT ![s] = Append(@, [unit |-> unit, status |-> "PICKED_UP"])]
  /\ transport' = [transport EXCEPT ![s] = Rows(@, "PICKED_UP")]
  /\ shipment' = [shipment EXCEPT ![s] = "PICKED_UP"]
  /\ UNCHANGED <<order, fulfillment, status>>

\* The tracking rows that are PICKED_UP or IN_TRANSIT, and the newest of them.
OpenTracking(s) == Open(tracking[s], {"PICKED_UP", "IN_TRANSIT"})
Tracked(s) == Max(OpenTracking(s))

\* Its units are the transportation's.
SameUnits(s) == tracking[s][Tracked(s)].unit = AssignmentOf(s, "PICKED_UP")

\* The row is updated, never inserted anew.
MarkTracking(s) ==
  tracking' = [tracking EXCEPT ![s][Tracked(s)].status = "IN_TRANSIT"]

StartTransit(s) ==
  /\ shipment' = [shipment EXCEPT ![s] = "IN_TRANSIT"]
  /\ transport' = [transport EXCEPT ![s] = [i \in DOMAIN @ |->
       IF @[i].status = "PICKED_UP" THEN [@[i] EXCEPT !.status = "IN_TRANSIT"] ELSE @[i]]]
  /\ status' = Marked(AssignmentOf(s, "PICKED_UP"), "IN_TRANSIT")
  /\ MarkTracking(s)
  /\ UNCHANGED <<order, fulfillment>>

\* The units are ACTIVE again, whoever else may have them.
Deliver(s) ==
  /\ shipment' = [shipment EXCEPT ![s] = "DELIVERED"]
  /\ transport' = [transport EXCEPT ![s] = Rows(@, "DELIVERED")]
  /\ tracking' = [tracking EXCEPT ![s] = Rows(@, "DELIVERED")]
  /\ status' = Marked(Head(transport[s]).unit, "ACTIVE")
  /\ fulfillment' = [fulfillment EXCEPT ![s] = "COMPLETED"]
  /\ order' = [order EXCEPT ![s] = "DELIVERED"]

\* What each event must find of its shipment, or raise.
CarrierReady(s) == shipment[s] = "READY"
VehicleReady(s) == AssignmentOf(s, "ASSIGNED") # Nobody
PickUpReady(s) == shipment[s] = "ASSIGNED" /\ AssignmentOf(s, "ASSIGNED") # Nobody
TransitReady(s) == /\ shipment[s] = "PICKED_UP" /\ AssignmentOf(s, "PICKED_UP") # Nobody
                   /\ OpenTracking(s) # {} /\ SameUnits(s)
DeliverReady(s) == shipment[s] = "IN_TRANSIT" /\ transport[s] # <<>>

Ready(s, event) ==
  CASE event = "CarrierAssigned" -> CarrierReady(s)
    [] event = "VehicleAssigned" -> VehicleReady(s)
    [] event = "ShipmentPickedUp" -> PickUpReady(s)
    [] event = "ShipmentInTransit" -> TransitReady(s)
    [] event = "ShipmentDelivered" -> DeliverReady(s)

-----------------------------------------------------------------------------
(* The runs.                                                                *)

NextEvent(r) == TransportationFlow[step[r]]
At(r, event) == /\ run[r] = "RUNNING"
                /\ step[r] \in 1..4 /\ NextEvent(r) = event
Advance(r) == step' = [step EXCEPT ![r] = @ + 1]
Bounds == <<byHand, interrupts>>

\* Mutant of Begin: the run does not wait for the lock.
Begin_NoLock(r) ==
  /\ run[r] = "NEW"
  /\ holder' = r
  /\ run' = [run EXCEPT ![r] = "RUNNING"]
  /\ UNCHANGED <<step, chosen, shipmentVars, status, outbox, Bounds>>

Begin(r) ==
  /\ holder = Nobody /\ run[r] = "NEW"
  /\ holder' = r
  /\ run' = [run EXCEPT ![r] = "RUNNING"]
  /\ UNCHANGED <<step, chosen, shipmentVars, status, outbox, Bounds>>

\* _seed_ready_shipment of the transportation domain, ShipmentReady of the
\* outbound one: the shipment exists and is READY.
CreateShipment(r) ==
  /\ run[r] = "RUNNING" /\ step[r] = 0
  /\ shipment' = [shipment EXCEPT ![r] = "READY"]
  /\ order' = [order EXCEPT ![r] = IF r \in Outbound THEN "SHIPPED" ELSE "READY"]
  /\ fulfillment' = [fulfillment EXCEPT ![r] = "READY"]
  /\ Advance(r)
  /\ UNCHANGED <<holder, run, chosen, transport, tracking, status, outbox, Bounds>>

\* CarrierAssigned up to its first write: three SELECTs without a lock.
ChooseCarrier(r) ==
  /\ At(r, "CarrierAssigned") /\ chosen[r] = Nobody
  /\ CarrierReady(r) /\ Available
  /\ chosen' = [chosen EXCEPT ![r] = [k \in Kinds |-> Oldest(k)]]
  /\ UNCHANGED <<holder, run, step, shipmentVars, status, outbox, Bounds>>

CarrierAssigned(r) ==
  /\ At(r, "CarrierAssigned") /\ chosen[r] # Nobody
  /\ AssignCarrier(r, chosen[r]) /\ Publish(r, "CarrierAssigned")
  /\ chosen' = [chosen EXCEPT ![r] = Nobody]
  /\ Advance(r)
  /\ UNCHANGED <<holder, run, Bounds>>

ShipmentPickedUp(r) ==
  /\ At(r, "ShipmentPickedUp") /\ PickUpReady(r)
  /\ PickUp(r) /\ Publish(r, "ShipmentPickedUp")
  /\ Advance(r)
  /\ UNCHANGED <<holder, run, chosen, Bounds>>

ShipmentInTransit(r) ==
  /\ At(r, "ShipmentInTransit") /\ TransitReady(r)
  /\ StartTransit(r) /\ Publish(r, "ShipmentInTransit")
  /\ Advance(r)
  /\ UNCHANGED <<holder, run, chosen, Bounds>>

ShipmentDelivered(r) ==
  /\ At(r, "ShipmentDelivered") /\ DeliverReady(r)
  /\ Deliver(r) /\ Publish(r, "ShipmentDelivered")
  /\ Advance(r)
  /\ UNCHANGED <<holder, run, chosen, Bounds>>

End(r, verdict) ==
  /\ run' = [run EXCEPT ![r] = verdict]
  /\ holder' = Nobody
  /\ chosen' = [chosen EXCEPT ![r] = Nobody]
  /\ UNCHANGED <<step, shipmentVars, status, outbox>>

\* The event finds nothing to work on: the transaction is rolled back and the
\* run fails.
Raise(r) ==
  /\ run[r] = "RUNNING" /\ step[r] \in 1..4 /\ chosen[r] = Nobody
  /\ \/ ~Ready(r, NextEvent(r))
     \/ NextEvent(r) = "CarrierAssigned" /\ ~Available
  /\ End(r, "FAILED")
  /\ UNCHANGED Bounds

\* What _validate_completed_flow asks of the shipment of a completed run.
Validated(r) ==
  /\ outbox[r] = TransportationFlow
  /\ shipment[r] = "DELIVERED"
  /\ Last(transport[r]).status = "DELIVERED" /\ Last(tracking[r]).status = "DELIVERED"

Complete(r) ==
  /\ run[r] = "RUNNING" /\ step[r] = 5
  /\ End(r, IF Validated(r) THEN "SUCCESS" ELSE "FAILED")
  /\ UNCHANGED Bounds

\* The runner is killed, or the database goes away: what is committed stays.
Interrupt(r) ==
  /\ run[r] = "RUNNING" /\ interrupts < MaxInterrupts
  /\ interrupts' = interrupts + 1
  /\ End(r, "FAILED")
  /\ UNCHANGED byHand

-----------------------------------------------------------------------------
(* Generators started by hand, without an argument: each takes the oldest   *)
(* shipment it can work on.  The dates they sort by are those clients give  *)
(* their runs, so the oldest may be any.                                    *)

ByHand(s, event) ==
  /\ holder = Nobody /\ byHand < MaxByHand
  /\ byHand' = byHand + 1
  /\ Ready(s, event)
  /\ Publish(s, event)
  /\ UNCHANGED <<runVars, interrupts>>

CarrierByHand(s) ==
  /\ ByHand(s, "CarrierAssigned") /\ Available
  /\ AssignCarrier(s, [k \in Kinds |-> Oldest(k)])

VehicleAssigned(s) == ByHand(s, "VehicleAssigned") /\ PickUp(s)
PickUpByHand(s) == ByHand(s, "ShipmentPickedUp") /\ PickUp(s)
TransitByHand(s) == ByHand(s, "ShipmentInTransit") /\ StartTransit(s)
DeliverByHand(s) == ByHand(s, "ShipmentDelivered") /\ Deliver(s)

RunStep(r) ==
  \/ CreateShipment(r) \/ ChooseCarrier(r) \/ CarrierAssigned(r)
  \/ ShipmentPickedUp(r) \/ ShipmentInTransit(r) \/ ShipmentDelivered(r)
  \/ Raise(r) \/ Complete(r)

HandStep(s) ==
  \/ CarrierByHand(s) \/ VehicleAssigned(s) \/ PickUpByHand(s)
  \/ TransitByHand(s) \/ DeliverByHand(s)

Next == \E r \in Runs : Begin(r) \/ RunStep(r) \/ Interrupt(r) \/ HandStep(r)

Spec == Init /\ [][Next]_vars

-----------------------------------------------------------------------------
(* Properties.                                                              *)

\* Units of the assignment of a shipment that is on its way.
HeldBy(s) ==
  IF shipment[s] \in {"ASSIGNED", "PICKED_UP", "IN_TRANSIT"}
  THEN Head(transport[s]).unit ELSE Nobody

\* The tables agree, whichever of the run and the generators by hand moved a
\* shipment: it has one assignment and one tracking row of the same units ("Do not
\* insert", shipment_in_transit.py), its order and fulfillment are closed when it
\* is delivered; and a unit is ACTIVE exactly when no shipment on its way has it,
\* although carrier_assigned.py checks and sets it without a lock,
\* shipment_delivered.py frees it without a check, and runs are cut off.
TablesAgree ==
  /\ \A s \in Runs :
       /\ transport[s] = IF shipment[s] \in {"NONE", "READY"} THEN <<>>
                         ELSE <<[unit |-> Head(transport[s]).unit, status |-> shipment[s]]>>
       /\ tracking[s] = IF shipment[s] \in {"NONE", "READY", "ASSIGNED"} THEN <<>>
                        ELSE transport[s]
       /\ (order[s] = "DELIVERED") = (shipment[s] = "DELIVERED")
       /\ (fulfillment[s] = "COMPLETED") = (shipment[s] = "DELIVERED")
  /\ \A k \in Kinds : \A u \in Units[k] :
       status[k][u] = "ACTIVE" <=> \A s \in Runs : HeldBy(s) # Nobody => HeldBy(s)[k] # u

\* A run that nobody cut off fails for one reason only, a pool that is empty: no
\* other of the checks of the four generators, and no check of the validator,
\* ever refuses what the run itself has written.
FailsOnlyWhenExhausted ==
  [][\A r \in Runs : run[r] = "RUNNING" /\ run'[r] = "FAILED" /\ interrupts' = interrupts =>
       ~Available]_vars

\* The generators implement a pool whose units are given to one shipment at a time.
Pool == INSTANCE ResourcePool WITH
  Shipments <- Runs,
  held <- [s \in Runs |-> HeldBy(s)]

ImplementsPool == Pool!Spec
=============================================================================
