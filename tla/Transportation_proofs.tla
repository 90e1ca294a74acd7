------------------------ MODULE Transportation_proofs ------------------------
(***************************************************************************)
(* Proofs about Transportation, for any runs, fleet and number of hand     *)
(* steps and interrupts: the tables agree, a run nobody cut off fails only *)
(* when a pool is empty, and the generators implement ResourcePool.        *)
(***************************************************************************)
EXTENDS Transportation, FiniteSetTheorems, TLAPS

OnItsWay == {"ASSIGNED", "PICKED_UP", "IN_TRANSIT"}

\* The tables are functions on the runs, which TypeOK says row by row.
ShapeInv ==
  /\ chosen \in [Runs -> UnitOfEach \cup {Nobody}]
  /\ transport \in [Runs -> Seq(Row)] /\ tracking \in [Runs -> Seq(Row)]
  /\ outbox \in [Runs -> Seq(Events)]

\* The units of a shipment on its way are units of the fleet, and no other
\* shipment on its way has one of them.
FleetInv ==
  /\ \A s \in Runs : shipment[s] \in OnItsWay => HeldBy(s) \in UnitOfEach
  /\ \A s, t \in Runs :
       s # t /\ shipment[s] \in OnItsWay /\ shipment[t] \in OnItsWay =>
         \A k \in Kinds : HeldBy(s)[k] # HeldBy(t)[k]

\* A run at event n of its chain finds its shipment and its outbox so.
Stands(r, n, mark, log) == step[r] = n => shipment[r] = mark /\ outbox[r] = log

\* While a run executes it holds the lock, nobody else touches its shipment, and
\* the units its open transaction has read are still free.
RunOK(r) ==
  /\ run[r] = "RUNNING" => holder = r
  /\ run[r] = "NEW" => step[r] = 0
  /\ run[r] \in {"NEW", "RUNNING"} =>
       /\ Stands(r, 0, "NONE", <<>>)
       /\ Stands(r, 1, "READY", <<>>)
       /\ Stands(r, 2, "ASSIGNED", <<"CarrierAssigned">>)
       /\ Stands(r, 3, "PICKED_UP", <<"CarrierAssigned", "ShipmentPickedUp">>)
       /\ Stands(r, 4, "IN_TRANSIT",
                 <<"CarrierAssigned", "ShipmentPickedUp", "ShipmentInTransit">>)
       /\ Stands(r, 5, "DELIVERED", TransportationFlow)
  /\ chosen[r] # Nobody =>
       /\ run[r] = "RUNNING" /\ step[r] = 1
       /\ \A k \in Kinds : chosen[r][k] \in Active(k)

RunInv == \A r \in Runs : RunOK(r)

\* The invariant of the tables, and that of the runs that write them.
TablesInv == TypeOK /\ ShapeInv /\ TablesAgree /\ FleetInv
IInv == TablesInv /\ RunInv

-----------------------------------------------------------------------------
(* Lemmas about the operators.                                              *)

\* A nonempty set of numbers up to n has a least element: one whose initial
\* segment is minimal under inclusion.
LEMMA LeastElement ==
  ASSUME NEW n \in Nat, NEW S \in SUBSET (1..n), S # {}
  PROVE  \E x \in S : \A y \in S : x <= y
  <1> DEFINE R == StrictSubsetOrdering(1..n)
             T == {1..x : x \in S}
  <1>1. IsWellFoundedOn(R, SUBSET (1..n))
    <2>1. IsFiniteSet(1..n)
      BY FS_Interval
    <2>2. FiniteSubsetsOf(1..n) = SUBSET (1..n)
      BY <2>1, FS_FiniteSubsetsOfFinite
    <2>3. IsWellFoundedOn(StrictSubsetOrdering(1..n), FiniteSubsetsOf(1..n))
      BY FS_StrictSubsetOrderingWellFounded
    <2> QED
      BY <2>2, <2>3
  <1>2. T \subseteq SUBSET (1..n) /\ T # {}
    <2>1. ASSUME NEW x \in S
          PROVE  1..x \in SUBSET (1..n)
      OBVIOUS
    <2>2. PICK x \in S : TRUE
      OBVIOUS
    <2> QED
      BY <2>1, <2>2
  <1>3. PICK X \in T : \A Y \in T : ~ (<<Y, X>> \in R)
    <2> HIDE DEF R, T
    <2> QED
      BY <1>1, <1>2, WFMin
  <1>4. PICK x \in S : X = 1..x
    OBVIOUS
  <1>5. ASSUME NEW y \in S, y < x
        PROVE  FALSE
    <2>1. 1..y \subseteq 1..x /\ x \in 1..x /\ x \notin 1..y
      BY <1>5
    <2>2. <<1..y, X>> \in R
      BY <1>2, <1>4, <2>1 DEF StrictSubsetOrdering
    <2> QED
      BY <1>3, <2>2
  <1> QED
    BY <1>5

\* A pool that is not empty has an oldest unit, and ORDER BY ... LIMIT 1 finds it.
LEMMA OldestIsActive ==
  ASSUME NEW k \in Kinds, Active(k) # {}
  PROVE  Oldest(k) \in Active(k)
  <1>1. Fleet[k] \in Nat /\ Active(k) \in SUBSET (1..Fleet[k])
    BY TransportationAssumption DEF Active, Units
  <1>2. PICK x \in Active(k) : \A y \in Active(k) : x <= y
    BY <1>1, LeastElement
  <1> QED
    BY <1>2 DEF Oldest, Min

\* What the newest-row query finds in a table that holds one row.
LEMMA OneRow ==
  ASSUME NEW u, NEW m, NEW n
  PROVE  LET rows == <<[unit |-> u, status |-> m]>> IN
         /\ \A marks : Open(rows, marks) = IF m \in marks THEN {1} ELSE {}
         /\ Rows(rows, n) = <<[unit |-> u, status |-> n]>>
         /\ Head(rows).unit = u /\ Last(rows).status = m
         /\ rows # <<>>
  <1> DEFINE rows == <<[unit |-> u, status |-> m]>>
  <1>1. DOMAIN rows = {1} /\ rows[1] = [unit |-> u, status |-> m] /\ Len(rows) = 1
    OBVIOUS
  <1>2. \A marks : Open(rows, marks) = IF m \in marks THEN {1} ELSE {}
    BY <1>1 DEF Open
  <1>3. Rows(rows, n) = <<[unit |-> u, status |-> n]>>
    <2>1. [[unit |-> u, status |-> m] EXCEPT !.status = n] = [unit |-> u, status |-> n]
      OBVIOUS
    <2>2. Rows(rows, n) = [i \in {1} |-> [unit |-> u, status |-> n]]
      BY <1>1, <2>1 DEF Rows
    <2> QED
      BY <2>2
  <1>4. Head(rows).unit = u /\ Last(rows).status = m /\ rows # <<>>
    BY <1>1 DEF Last
  <1> QED
    BY <1>2, <1>3, <1>4

LEMMA MaxOne == Max({1}) = 1
  BY DEF Max

LEMMA NoRow == \A marks : Open(<<>>, marks) = {}
  BY DEF Open

-----------------------------------------------------------------------------
(* What the events do, seen through the invariant.                          *)

\* Units of the fleet are never the absence of units.
LEMMA UnitsAreSomething == Nobody \notin UnitOfEach
  BY TransportationAssumption DEF UnitOfEach

\* A shipment on its way has one transportation row, and its units are those it holds.
LEMMA RowOfShipment ==
  ASSUME TablesInv, NEW s \in Runs, shipment[s] \in OnItsWay
  PROVE  /\ HeldBy(s) \in UnitOfEach /\ HeldBy(s) # Nobody
         /\ transport[s] = <<[unit |-> HeldBy(s), status |-> shipment[s]]>>
         /\ tracking[s] = IF shipment[s] = "ASSIGNED" THEN <<>> ELSE transport[s]
  BY UnitsAreSomething DEF TablesInv, FleetInv, TablesAgree, HeldBy, OnItsWay

LEMMA NotOnItsWay ==
  ASSUME NEW s \in Runs, shipment[s] \notin OnItsWay
  PROVE  HeldBy(s) = Nobody
  BY DEF HeldBy, OnItsWay

\* The transportation row in some status is found exactly when the shipment is in it.
LEMMA AssignmentFound ==
  ASSUME TablesInv, NEW s \in Runs, NEW mark \in {"ASSIGNED", "PICKED_UP"}
  PROVE  AssignmentOf(s, mark) = IF shipment[s] = mark THEN HeldBy(s) ELSE Nobody
  <1>1. CASE shipment[s] \in {"NONE", "READY"}
    <2>1. transport[s] = <<>>
      BY <1>1 DEF TablesInv, TablesAgree
    <2> QED
      BY <1>1, <2>1, NoRow DEF AssignmentOf
  <1>2. CASE shipment[s] \notin {"NONE", "READY"}
    <2>1. PICK u : transport[s] = <<[unit |-> u, status |-> shipment[s]]>>
      BY <1>2 DEF TablesInv, TablesAgree
    <2>2. Open(transport[s], {mark}) = IF shipment[s] = mark THEN {1} ELSE {}
      BY <2>1, OneRow
    <2>3. transport[s][1].unit = u
      BY <2>1
    <2>4. AssignmentOf(s, mark) = IF shipment[s] = mark THEN u ELSE Nobody
      BY <2>2, <2>3, MaxOne DEF AssignmentOf
    <2>5. shipment[s] = mark => HeldBy(s) = u
      BY <2>1 DEF HeldBy
    <2> QED
      BY <2>4, <2>5
  <1> QED
    BY <1>1, <1>2

\* A unit of a shipment on its way is not free.
LEMMA HeldUnitIsBusy ==
  ASSUME TablesInv, NEW s \in Runs, shipment[s] \in OnItsWay, NEW k \in Kinds
  PROVE  HeldBy(s)[k] \in Units[k] /\ status[k][HeldBy(s)[k]] # "ACTIVE"
  BY RowOfShipment DEF TablesInv, TablesAgree, UnitOfEach

\* The units u are free afterwards if m says so, and busy if not.
StatusMoves(u, m) ==
  \A k \in Kinds :
    /\ status'[k] \in [Units[k] -> {"ACTIVE", "ASSIGNED", "IN_TRANSIT"}]
    /\ \A v \in Units[k] :
         (status'[k][v] = "ACTIVE") <=>
           IF v = u[k] THEN m = "DELIVERED" ELSE status[k][v] = "ACTIVE"

\* The shipment s, with the units u, enters status m, and every table follows.
Moved(s, u, m) ==
  /\ u \in UnitOfEach /\ m \in OnItsWay \cup {"DELIVERED"}
  /\ shipment' = [shipment EXCEPT ![s] = m]
  /\ transport' = [transport EXCEPT ![s] = <<[unit |-> u, status |-> m]>>]
  /\ tracking' = [tracking EXCEPT ![s] =
                    IF m = "ASSIGNED" THEN <<>> ELSE <<[unit |-> u, status |-> m]>>]
  /\ order' = IF m = "DELIVERED" THEN [order EXCEPT ![s] = "DELIVERED"] ELSE order
  /\ fulfillment' = IF m = "DELIVERED" THEN [fulfillment EXCEPT ![s] = "COMPLETED"]
                                       ELSE fulfillment
  /\ StatusMoves(u, m)

\* Marking units keeps the type of the pools and touches no other unit.
LEMMA MarkedUnits ==
  ASSUME TypeOK, NEW u \in UnitOfEach, NEW mark \in {"ACTIVE", "ASSIGNED", "IN_TRANSIT"},
         status' = Marked(u, mark), NEW k \in Kinds
  PROVE  /\ status'[k] \in [Units[k] -> {"ACTIVE", "ASSIGNED", "IN_TRANSIT"}]
         /\ \A v \in Units[k] : status'[k][v] = IF v = u[k] THEN mark ELSE status[k][v]
  BY DEF TypeOK, Marked, UnitOfEach

\* CarrierAssigned, for free units.
LEMMA AssignMoves ==
  ASSUME TablesInv, NEW s \in Runs, shipment[s] = "READY", NEW u \in UnitOfEach,
         AssignCarrier(s, u)
  PROVE  Moved(s, u, "ASSIGNED")
  <1>1. transport[s] = <<>> /\ tracking[s] = <<>>
    BY DEF TablesInv, TablesAgree
  <1>2. transport' = [transport EXCEPT ![s] = <<[unit |-> u, status |-> "ASSIGNED"]>>]
    BY <1>1 DEF AssignCarrier
  <1>3. tracking' = [tracking EXCEPT ![s] = <<>>]
    BY <1>1 DEF AssignCarrier, TablesInv, ShapeInv
  <1>4. status' = Marked(u, "ASSIGNED")
    BY DEF AssignCarrier
  <1>5. StatusMoves(u, "ASSIGNED")
    BY <1>4, MarkedUnits DEF TablesInv, StatusMoves
  <1> QED
    BY <1>2, <1>3, <1>5 DEF AssignCarrier, Moved, OnItsWay

\* ShipmentPickedUp, whoever runs it.
LEMMA PickUpMoves ==
  ASSUME TablesInv, NEW s \in Runs, shipment[s] = "ASSIGNED", PickUp(s)
  PROVE  Moved(s, HeldBy(s), "PICKED_UP")
  <1> DEFINE u == HeldBy(s)
  <1>1. /\ u \in UnitOfEach /\ transport[s] = <<[unit |-> u, status |-> "ASSIGNED"]>>
        /\ tracking[s] = <<>> /\ AssignmentOf(s, "ASSIGNED") = u
    BY RowOfShipment, AssignmentFound DEF OnItsWay
  <1> HIDE DEF u
  <1>2. Rows(transport[s], "PICKED_UP") = <<[unit |-> u, status |-> "PICKED_UP"]>>
    BY <1>1, OneRow
  <1>3. transport' = [transport EXCEPT ![s] = <<[unit |-> u, status |-> "PICKED_UP"]>>]
    BY <1>2 DEF PickUp
  <1>4. tracking' = [tracking EXCEPT ![s] = <<[unit |-> u, status |-> "PICKED_UP"]>>]
    <2>1. Append(tracking[s], [unit |-> u, status |-> "PICKED_UP"])
            = <<[unit |-> u, status |-> "PICKED_UP"]>>
      BY <1>1
    <2> QED
      BY <1>1, <2>1 DEF PickUp
  <1>5. \A k \in Kinds : status[k][u[k]] # "ACTIVE"
    BY <1>1, HeldUnitIsBusy DEF u, OnItsWay
  <1>6. StatusMoves(u, "PICKED_UP")
    BY <1>5 DEF PickUp, TablesInv, TypeOK, StatusMoves
  <1> QED
    BY <1>1, <1>3, <1>4, <1>6 DEF PickUp, Moved, OnItsWay, u

\* ShipmentInTransit.
LEMMA TransitMoves ==
  ASSUME TablesInv, NEW s \in Runs, shipment[s] = "PICKED_UP", StartTransit(s)
  PROVE  Moved(s, HeldBy(s), "IN_TRANSIT")
  <1> DEFINE u == HeldBy(s)
             row == [unit |-> u, status |-> "PICKED_UP"]
             moved == [unit |-> u, status |-> "IN_TRANSIT"]
  <1>1. /\ u \in UnitOfEach /\ transport[s] = <<row>>
        /\ tracking[s] = <<row>> /\ AssignmentOf(s, "PICKED_UP") = u
    BY RowOfShipment, AssignmentFound DEF OnItsWay
  <1> HIDE DEF u
  <1>2. Tracked(s) = 1
    BY <1>1, OneRow, MaxOne DEF Tracked, OpenTracking
  <1>3. [row EXCEPT !.status = "IN_TRANSIT"] = moved /\ row.status = "PICKED_UP"
    OBVIOUS
  <1>4. [tracking[s] EXCEPT ![1].status = "IN_TRANSIT"] = <<moved>>
    BY <1>1, <1>3
  <1>5. tracking' = [tracking EXCEPT ![s] = <<moved>>]
    BY <1>2, <1>4 DEF StartTransit, MarkTracking
  <1>6. [i \in DOMAIN transport[s] |->
           IF transport[s][i].status = "PICKED_UP"
             THEN [transport[s][i] EXCEPT !.status = "IN_TRANSIT"] ELSE transport[s][i]]
          = <<moved>>
    <2>1. DOMAIN transport[s] = {1} /\ transport[s][1] = row
      BY <1>1
    <2> HIDE DEF row
    <2> QED
      BY <1>3, <2>1
  <1>7. transport' = [transport EXCEPT ![s] = <<moved>>]
    BY <1>6 DEF StartTransit
  <1>8. status' = Marked(u, "IN_TRANSIT")
    BY <1>1 DEF StartTransit
  <1>9. StatusMoves(u, "IN_TRANSIT")
    BY <1>1, <1>8, MarkedUnits DEF TablesInv, StatusMoves
  <1> QED
    BY <1>1, <1>5, <1>7, <1>9 DEF StartTransit, Moved, OnItsWay, u

\* ShipmentDelivered.
LEMMA DeliverMoves ==
  ASSUME TablesInv, NEW s \in Runs, shipment[s] = "IN_TRANSIT", Deliver(s)
  PROVE  Moved(s, HeldBy(s), "DELIVERED")
  <1> DEFINE u == HeldBy(s)
  <1>1. /\ u \in UnitOfEach /\ transport[s] = <<[unit |-> u, status |-> "IN_TRANSIT"]>>
        /\ tracking[s] = transport[s]
    BY RowOfShipment DEF OnItsWay
  <1> HIDE DEF u
  <1>2. /\ Rows(transport[s], "DELIVERED") = <<[unit |-> u, status |-> "DELIVERED"]>>
        /\ Head(transport[s]).unit = u
    BY <1>1, OneRow
  <1>3. transport' = [transport EXCEPT ![s] = <<[unit |-> u, status |-> "DELIVERED"]>>]
    BY <1>2 DEF Deliver
  <1>4. tracking' = [tracking EXCEPT ![s] = <<[unit |-> u, status |-> "DELIVERED"]>>]
    BY <1>1, <1>2 DEF Deliver
  <1>5. status' = Marked(u, "ACTIVE")
    BY <1>2 DEF Deliver
  <1>6. StatusMoves(u, "DELIVERED")
    BY <1>1, <1>5, MarkedUnits DEF TablesInv, StatusMoves
  <1> QED
    BY <1>1, <1>3, <1>4, <1>6 DEF Deliver, Moved, OnItsWay, u

\* The types of what the generators' tables do not hold.
RestOK ==
  /\ holder \in Runs \cup {Nobody}
  /\ run \in [Runs -> {"NEW", "RUNNING", "SUCCESS", "FAILED"}]
  /\ step \in [Runs -> 0..5]
  /\ chosen \in [Runs -> UnitOfEach \cup {Nobody}]
  /\ outbox \in [Runs -> Seq(Events)]
  /\ byHand \in 0..MaxByHand /\ interrupts \in 0..MaxInterrupts

LEMMA RestIsOK == TablesInv => RestOK
  BY DEF TablesInv, TypeOK, ShapeInv, RestOK

\* A shipment that moves leaves the tables in agreement, and holds its units to
\* itself until it is delivered.
LEMMA MovedKeeps ==
  ASSUME TablesInv, NEW s \in Runs, NEW u, NEW m, Moved(s, u, m),
         IF m = "ASSIGNED" THEN shipment[s] = "READY" /\ \A k \in Kinds : u[k] \in Active(k)
                           ELSE shipment[s] \in OnItsWay /\ u = HeldBy(s),
         RestOK'
  PROVE  /\ TablesInv'
         /\ HeldBy(s)' = IF m = "DELIVERED" THEN Nobody ELSE u
         /\ \A t \in Runs \ {s} : HeldBy(t)' = HeldBy(t)
  <1> DEFINE row == [unit |-> u, status |-> m]
  <1>1. u \in UnitOfEach /\ u # Nobody /\ m \in OnItsWay \cup {"DELIVERED"}
    BY UnitsAreSomething DEF Moved
  <1>2. row \in Row /\ row.unit = u /\ row.status = m
    BY <1>1 DEF Row, ShipmentStatus, OnItsWay, UnitOfEach
  <1> HIDE DEF row
  <1>3. <<row>> \in Seq(Row) /\ Head(<<row>>) = row
    BY <1>2
  <1>4. /\ transport' = [transport EXCEPT ![s] = <<row>>]
        /\ tracking' = [tracking EXCEPT ![s] = IF m = "ASSIGNED" THEN <<>> ELSE <<row>>]
        /\ shipment' = [shipment EXCEPT ![s] = m]
    BY DEF Moved, row
  <1>5. ShapeInv'
    BY <1>3, <1>4 DEF TablesInv, ShapeInv, RestOK
  <1>6. /\ shipment'[s] = m /\ transport'[s] = <<row>>
        /\ tracking'[s] = IF m = "ASSIGNED" THEN <<>> ELSE <<row>>
        /\ \A t \in Runs \ {s} : /\ shipment'[t] = shipment[t]
                                /\ transport'[t] = transport[t] /\ tracking'[t] = tracking[t]
    BY <1>4 DEF TablesInv, ShapeInv, TypeOK
  <1>7. HeldBy(s)' = IF m = "DELIVERED" THEN Nobody ELSE u
    BY <1>1, <1>2, <1>3, <1>6 DEF HeldBy, OnItsWay
  <1>8. \A t \in Runs \ {s} : HeldBy(t)' = HeldBy(t)
    BY <1>6 DEF HeldBy
  <1>9. TypeOK'
    <2>1. shipment' \in [Runs -> ShipmentStatus \cup {"NONE"}]
      BY <1>1, <1>4 DEF TablesInv, TypeOK, ShipmentStatus, OnItsWay
    <2>2. /\ order' \in [Runs -> {"NONE", "PACKED", "READY", "SHIPPED", "DELIVERED"}]
          /\ fulfillment' \in [Runs -> {"NONE", "READY", "COMPLETED"}]
      BY DEF Moved, TablesInv, TypeOK
    <2>3. \A k \in Kinds : status'[k] \in [Units[k] -> {"ACTIVE", "ASSIGNED", "IN_TRANSIT"}]
      BY DEF Moved, StatusMoves
    <2> QED
      BY <1>5, <2>1, <2>2, <2>3 DEF TypeOK, ShapeInv, RestOK
  <1>10. ASSUME NEW t \in Runs
         PROVE  /\ transport'[t] = IF shipment'[t] \in {"NONE", "READY"} THEN <<>>
                     ELSE <<[unit |-> Head(transport'[t]).unit, status |-> shipment'[t]]>>
                /\ tracking'[t] = IF shipment'[t] \in {"NONE", "READY", "ASSIGNED"} THEN <<>>
                                  ELSE transport'[t]
                /\ (order'[t] = "DELIVERED") = (shipment'[t] = "DELIVERED")
                /\ (fulfillment'[t] = "COMPLETED") = (shipment'[t] = "DELIVERED")
    <2>1. CASE t = s
      <3>1. /\ transport'[t] = IF shipment'[t] \in {"NONE", "READY"} THEN <<>>
                     ELSE <<[unit |-> Head(transport'[t]).unit, status |-> shipment'[t]]>>
            /\ tracking'[t] = IF shipment'[t] \in {"NONE", "READY", "ASSIGNED"} THEN <<>>
                                  ELSE transport'[t]
        BY <1>1, <1>2, <1>3, <1>6, <2>1 DEF OnItsWay, row
      <3>2. /\ (order[s] = "DELIVERED") = (shipment[s] = "DELIVERED")
            /\ (fulfillment[s] = "COMPLETED") = (shipment[s] = "DELIVERED")
            /\ shipment[s] # "DELIVERED"
        BY DEF TablesInv, TablesAgree, OnItsWay
      <3>3. /\ (order'[t] = "DELIVERED") = (shipment'[t] = "DELIVERED")
            /\ (fulfillment'[t] = "COMPLETED") = (shipment'[t] = "DELIVERED")
        BY <1>6, <2>1, <3>2 DEF Moved, TablesInv, TypeOK
      <3> QED
        BY <3>1, <3>3
    <2>2. CASE t # s
      <3>1. order'[t] = order[t] /\ fulfillment'[t] = fulfillment[t]
        BY <2>2 DEF Moved, TablesInv, TypeOK
      <3> QED
        BY <1>6, <2>2, <3>1 DEF TablesInv, TablesAgree
    <2> QED
      BY <2>1, <2>2
  <1>11. FleetInv'
    <2>1. ASSUME NEW t \in Runs \ {s}, shipment[t] \in OnItsWay, NEW k \in Kinds
          PROVE  HeldBy(t)[k] # u[k]
      <3>1. CASE m = "ASSIGNED"
        BY <2>1, <3>1, HeldUnitIsBusy DEF Active
      <3>2. CASE m # "ASSIGNED"
        BY <2>1, <3>2 DEF TablesInv, FleetInv
      <3> QED
        BY <3>1, <3>2
    <2>2. \A t \in Runs : shipment'[t] \in OnItsWay => HeldBy(t)' \in UnitOfEach
      BY <1>1, <1>6, <1>7, <1>8 DEF TablesInv, FleetInv, OnItsWay
    <2>3. ASSUME NEW t1 \in Runs, NEW t2 \in Runs, t1 # t2, NEW k \in Kinds,
                 shipment'[t1] \in OnItsWay, shipment'[t2] \in OnItsWay
          PROVE  HeldBy(t1)'[k] # HeldBy(t2)'[k]
      <3>1. CASE t1 = s
        BY <1>6, <1>7, <1>8, <2>1, <2>3, <3>1 DEF OnItsWay
      <3>2. CASE t2 = s
        BY <1>6, <1>7, <1>8, <2>1, <2>3, <3>2 DEF OnItsWay
      <3>3. CASE t1 # s /\ t2 # s
        BY <1>6, <1>8, <2>3, <3>3 DEF TablesInv, FleetInv
      <3> QED
        BY <3>1, <3>2, <3>3
    <2> QED
      BY <2>2, <2>3 DEF FleetInv
  <1>12. ASSUME NEW k \in Kinds, NEW v \in Units[k]
         PROVE  status'[k][v] = "ACTIVE" <=>
                  \A t \in Runs : HeldBy(t)' # Nobody => HeldBy(t)'[k] # v
    <2>1. status[k][v] = "ACTIVE" <=> \A t \in Runs : HeldBy(t) # Nobody => HeldBy(t)[k] # v
      BY DEF TablesInv, TablesAgree
    <2>2. (status'[k][v] = "ACTIVE") <=>
            IF v = u[k] THEN m = "DELIVERED" ELSE status[k][v] = "ACTIVE"
      BY DEF Moved, StatusMoves
    <2>3. CASE m = "ASSIGNED"
      <3>1. HeldBy(s) = Nobody
        BY <2>3, NotOnItsWay DEF OnItsWay
      <3> QED
        BY <1>1, <1>7, <1>8, <2>1, <2>2, <2>3, <3>1
    <2>4. CASE m \in OnItsWay /\ m # "ASSIGNED"
      <3>1. status[k][u[k]] # "ACTIVE"
        BY <2>4, HeldUnitIsBusy
      <3> QED
        BY <1>1, <1>7, <1>8, <2>1, <2>2, <2>4, <3>1 DEF OnItsWay
    <2>5. CASE m = "DELIVERED"
      <3>1. \A t \in Runs \ {s} : HeldBy(t) # Nobody => HeldBy(t)[k] # u[k]
        BY <2>5, NotOnItsWay DEF TablesInv, FleetInv
      <3>2. HeldBy(s) = u /\ HeldBy(s) # Nobody
        BY <1>1, <2>5
      <3> QED
        BY <1>7, <1>8, <2>1, <2>2, <2>5, <3>1, <3>2
    <2> QED
      BY <1>1, <2>3, <2>4, <2>5
  <1>13. TablesAgree'
    BY <1>10, <1>12 DEF TablesAgree
  <1> QED
    BY <1>5, <1>7, <1>8, <1>9, <1>11, <1>13 DEF TablesInv

\* A step that leaves the generators' tables and the pools alone.
LEMMA TablesStay ==
  ASSUME TablesInv, UNCHANGED <<shipmentVars, status>>, RestOK'
  PROVE  TablesInv' /\ \A t \in Runs : HeldBy(t)' = HeldBy(t)
  <1>1. UNCHANGED <<shipment, transport, tracking, order, fulfillment, status>>
    BY DEF shipmentVars
  <1>2. \A t \in Runs : HeldBy(t)' = HeldBy(t)
    BY <1>1 DEF HeldBy
  <1>3. ShapeInv'
    BY <1>1 DEF TablesInv, ShapeInv, RestOK
  <1>4. TypeOK'
    BY <1>1, <1>3 DEF TablesInv, TypeOK, ShapeInv, RestOK
  <1>5. TablesAgree'
    BY <1>1, <1>2 DEF TablesInv, TablesAgree
  <1>6. FleetInv'
    BY <1>1, <1>2 DEF TablesInv, FleetInv
  <1> QED
    BY <1>2, <1>3, <1>4, <1>5, <1>6 DEF TablesInv

-----------------------------------------------------------------------------
(* The steps.                                                               *)

\* One run executes at a time, so a step of run r, or one made while nobody
\* holds the lock, leaves what is said of the other runs true.
LEMMA OthersStay ==
  ASSUME IInv, NEW r \in Runs, holder = Nobody \/ run[r] = "RUNNING",
         \A t \in Runs \ {r} :
           /\ run'[t] = run[t] /\ step'[t] = step[t] /\ chosen'[t] = chosen[t]
           /\ shipment'[t] = shipment[t] /\ outbox'[t] = outbox[t],
         RunOK(r)'
  PROVE  RunInv'
  <1> SUFFICES ASSUME NEW t \in Runs \ {r}
               PROVE  RunOK(t)'
    BY DEF RunInv
  <1>1. run[t] # "RUNNING" /\ chosen[t] = Nobody /\ RunOK(t)
    BY TransportationAssumption DEF IInv, RunInv, RunOK
  <1> QED
    BY <1>1 DEF RunOK, Stands

\* The chain, event by event.
LEMMA Chain ==
  /\ TransportationFlow[1] = "CarrierAssigned" /\ TransportationFlow[2] = "ShipmentPickedUp"
  /\ TransportationFlow[3] = "ShipmentInTransit" /\ TransportationFlow[4] = "ShipmentDelivered"
  /\ {"CarrierAssigned", "ShipmentPickedUp", "ShipmentInTransit", "ShipmentDelivered",
      "VehicleAssigned"} \subseteq Events
  BY DEF TransportationFlow, Events

\* A published event is appended unless it is there already.
LEMMA PublishAppends ==
  ASSUME IInv, NEW s \in Runs, NEW event \in Events, Publish(s, event)
  PROVE  /\ outbox' \in [Runs -> Seq(Events)]
         /\ \A t \in Runs \ {s} : outbox'[t] = outbox[t]
         /\ event \notin ToSet(outbox[s]) => outbox'[s] = Append(outbox[s], event)
  BY DEF Publish, IInv, TablesInv, ShapeInv

\* An executing run holds the lock, and stands where its events have brought it.
LEMMA Executing ==
  ASSUME IInv, NEW r \in Runs, run[r] = "RUNNING"
  PROVE  /\ holder = r /\ step[r] \in 0..5
         /\ Stands(r, 0, "NONE", <<>>) /\ Stands(r, 1, "READY", <<>>)
         /\ Stands(r, 2, "ASSIGNED", <<"CarrierAssigned">>)
         /\ Stands(r, 3, "PICKED_UP", <<"CarrierAssigned", "ShipmentPickedUp">>)
         /\ Stands(r, 4, "IN_TRANSIT",
                   <<"CarrierAssigned", "ShipmentPickedUp", "ShipmentInTransit">>)
         /\ Stands(r, 5, "DELIVERED", TransportationFlow)
  BY DEF IInv, TablesInv, TypeOK, RunInv, RunOK

\* A run starts: nothing else runs, and it has done nothing yet.
LEMMA BeginKeeps ==
  ASSUME IInv, NEW r \in Runs, Begin(r)
  PROVE  IInv' /\ \A t \in Runs : HeldBy(t)' = HeldBy(t)
  <1>1. RestOK'
    BY RestIsOK DEF Begin, Bounds, RestOK, IInv
  <1>2. TablesInv' /\ \A t \in Runs : HeldBy(t)' = HeldBy(t)
    BY <1>1, TablesStay DEF Begin, IInv
  <1>3. RunOK(r)
    BY DEF IInv, RunInv
  <1>4. run'[r] = "RUNNING" /\ \A t \in Runs \ {r} : run'[t] = run[t]
    BY DEF Begin, IInv, TablesInv, TypeOK
  <1>5. RunOK(r)'
    BY <1>3, <1>4 DEF Begin, RunOK, Stands, shipmentVars
  <1> QED
    BY <1>2, <1>4, <1>5, OthersStay DEF Begin, shipmentVars, IInv

\* The shipment is created, with no row in another table.
LEMMA CreateKeeps ==
  ASSUME IInv, NEW r \in Runs, CreateShipment(r)
  PROVE  IInv' /\ \A t \in Runs : HeldBy(t)' = HeldBy(t)
  <1>1. shipment[r] = "NONE" /\ outbox[r] = <<>> /\ holder = r
    BY Executing DEF CreateShipment, Stands
  <1>2. /\ shipment'[r] = "READY" /\ step'[r] = 1
        /\ \A t \in Runs \ {r} : shipment'[t] = shipment[t] /\ step'[t] = step[t]
                                /\ order'[t] = order[t] /\ fulfillment'[t] = fulfillment[t]
        /\ order'[r] # "DELIVERED" /\ fulfillment'[r] # "COMPLETED"
        /\ UNCHANGED <<holder, run, chosen, transport, tracking, status, outbox>>
    BY DEF CreateShipment, Advance, IInv, TablesInv, TypeOK
  <1>3. RestOK'
    <2>1. step' \in [Runs -> 0..5]
      BY DEF CreateShipment, Advance, IInv, TablesInv, TypeOK
    <2> QED
      BY <1>2, <2>1, RestIsOK DEF CreateShipment, Bounds, RestOK, IInv
  <1>4. ASSUME NEW t \in Runs
        PROVE  HeldBy(t)' = HeldBy(t)
    BY <1>1, <1>2 DEF HeldBy
  <1>5. ShapeInv'
    BY <1>2 DEF IInv, TablesInv, ShapeInv
  <1>6. TypeOK'
    <2>1. /\ shipment' \in [Runs -> ShipmentStatus \cup {"NONE"}]
          /\ order' \in [Runs -> {"NONE", "PACKED", "READY", "SHIPPED", "DELIVERED"}]
          /\ fulfillment' \in [Runs -> {"NONE", "READY", "COMPLETED"}]
      BY DEF CreateShipment, IInv, TablesInv, TypeOK, ShipmentStatus
    <2>2. \A k \in Kinds : status'[k] \in [Units[k] -> {"ACTIVE", "ASSIGNED", "IN_TRANSIT"}]
      BY <1>2 DEF IInv, TablesInv, TypeOK
    <2> QED
      BY <1>3, <1>5, <2>1, <2>2 DEF TypeOK, ShapeInv, RestOK
  <1>7. TablesAgree'
    <2>1. ASSUME NEW t \in Runs
          PROVE  /\ transport'[t] = IF shipment'[t] \in {"NONE", "READY"} THEN <<>>
                      ELSE <<[unit |-> Head(transport'[t]).unit, status |-> shipment'[t]]>>
                 /\ tracking'[t] = IF shipment'[t] \in {"NONE", "READY", "ASSIGNED"} THEN <<>>
                                   ELSE transport'[t]
                 /\ (order'[t] = "DELIVERED") = (shipment'[t] = "DELIVERED")
                 /\ (fulfillment'[t] = "COMPLETED") = (shipment'[t] = "DELIVERED")
      <3>1. CASE t = r
        BY <1>1, <1>2, <3>1 DEF IInv, TablesInv, TablesAgree
      <3>2. CASE t # r
        BY <1>2, <3>2 DEF IInv, TablesInv, TablesAgree
      <3> QED
        BY <3>1, <3>2
    <2>2. ASSUME NEW k \in Kinds, NEW u \in Units[k]
          PROVE  status'[k][u] = "ACTIVE" <=>
                   \A t \in Runs : HeldBy(t)' # Nobody => HeldBy(t)'[k] # u
      BY <1>2, <1>4 DEF IInv, TablesInv, TablesAgree
    <2> QED
      BY <2>1, <2>2 DEF TablesAgree
  <1>8. FleetInv'
    BY <1>1, <1>2, <1>4 DEF IInv, TablesInv, FleetInv, OnItsWay
  <1>9. RunOK(r)'
    <2>1. run[r] = "RUNNING" /\ chosen[r] = Nobody
      BY DEF CreateShipment, IInv, RunInv, RunOK
    <2> QED
      BY <1>1, <1>2, <2>1 DEF RunOK, Stands
  <1>10. RunInv'
    BY <1>2, <1>9, OthersStay DEF CreateShipment
  <1> QED
    BY <1>4, <1>5, <1>6, <1>7, <1>8, <1>10 DEF IInv, TablesInv

\* The transaction reads the oldest unit of each pool.
LEMMA ChooseKeeps ==
  ASSUME IInv, NEW r \in Runs, ChooseCarrier(r)
  PROVE  IInv' /\ \A t \in Runs : HeldBy(t)' = HeldBy(t)
  <1> DEFINE u == [k \in Kinds |-> Oldest(k)]
  <1>1. \A k \in Kinds : Oldest(k) \in Active(k)
    BY OldestIsActive DEF ChooseCarrier, Available
  <1>2. u \in UnitOfEach
    <2>1. \A k \in Kinds : Oldest(k) \in Nat /\ Oldest(k) \in Units[k]
      BY <1>1, TransportationAssumption DEF Active, Units
    <2> QED
      BY <2>1 DEF UnitOfEach
  <1>3. \A k \in Kinds : u[k] \in Active(k)
    BY <1>1
  <1> HIDE DEF u
  <1>4. /\ chosen' = [chosen EXCEPT ![r] = u]
        /\ UNCHANGED <<holder, run, step, shipmentVars, status, outbox, Bounds>>
    BY DEF ChooseCarrier, u
  <1>5. chosen'[r] = u /\ \A t \in Runs \ {r} : chosen'[t] = chosen[t]
    BY <1>4 DEF IInv, TablesInv, ShapeInv
  <1>6. RestOK'
    BY <1>2, <1>4, RestIsOK DEF Bounds, RestOK, IInv
  <1>7. TablesInv' /\ \A t \in Runs : HeldBy(t)' = HeldBy(t)
    BY <1>4, <1>6, TablesStay DEF IInv
  <1>8. run[r] = "RUNNING" /\ step[r] = 1 /\ RunOK(r)
    BY Chain DEF ChooseCarrier, At, NextEvent, IInv, RunInv
  <1>9. RunOK(r)'
    BY <1>3, <1>4, <1>5, <1>8 DEF RunOK, Stands, shipmentVars, Active
  <1> QED
    BY <1>4, <1>5, <1>7, <1>8, <1>9, OthersStay DEF shipmentVars, IInv

\* Which event is due at which step.
LEMMA DueAt ==
  ASSUME IInv, NEW r \in Runs, NEW n \in 1..4, At(r, TransportationFlow[n])
  PROVE  run[r] = "RUNNING" /\ step[r] = n
  BY Chain DEF At, NextEvent

\* The n-th event of the chain brings its shipment into status m.
Enters(n, m) ==
  \/ n = 1 /\ m = "ASSIGNED"
  \/ n = 2 /\ m = "PICKED_UP"
  \/ n = 3 /\ m = "IN_TRANSIT"
  \/ n = 4 /\ m = "DELIVERED"

\* Appending to a sequence of two and of three.
LEMMA Appended ==
  ASSUME NEW a, NEW b, NEW c, NEW d
  PROVE  /\ Append(<<a, b>>, c) = <<a, b, c>>
         /\ Append(<<a, b, c>>, d) = <<a, b, c, d>>
  <1>1. Append(<<a, b>>, c) = <<a, b, c>>
    <2> DEFINE l == Append(<<a, b>>, c)
    <2>1. l \in Seq({a, b, c}) /\ Len(l) = 3 /\ l[1] = a /\ l[2] = b /\ l[3] = c
      OBVIOUS
    <2> HIDE DEF l
    <2>2. l = <<a, b, c>>
      BY <2>1
    <2> QED
      BY <2>2 DEF l
  <1>2. Append(<<a, b, c>>, d) = <<a, b, c, d>>
    <2> DEFINE l == Append(<<a, b, c>>, d)
    <2>1. /\ l \in Seq({a, b, c, d}) /\ Len(l) = 4
          /\ l[1] = a /\ l[2] = b /\ l[3] = c /\ l[4] = d
      OBVIOUS
    <2> HIDE DEF l
    <2>2. l = <<a, b, c, d>>
      BY <2>1
    <2> QED
      BY <2>2 DEF l
  <1> QED
    BY <1>1, <1>2

\* An event of a run: its shipment moves, its event is appended to the outbox, and
\* its step advances.
LEMMA EventKeeps ==
  ASSUME IInv, NEW r \in Runs, NEW n \in 1..4, run[r] = "RUNNING", step[r] = n,
         NEW u, NEW m, Moved(r, u, m),
         Enters(n, m),
         IF m = "ASSIGNED" THEN shipment[r] = "READY" /\ \A k \in Kinds : u[k] \in Active(k)
                           ELSE shipment[r] \in OnItsWay /\ u = HeldBy(r),
         Publish(r, TransportationFlow[n]), Advance(r),
         chosen' = [chosen EXCEPT ![r] = Nobody],
         UNCHANGED <<holder, run, Bounds>>
  PROVE  /\ IInv'
         /\ HeldBy(r)' = IF m = "DELIVERED" THEN Nobody ELSE u
         /\ \A t \in Runs \ {r} : HeldBy(t)' = HeldBy(t)
  <1>1. TransportationFlow[n] \in Events
    BY Chain
  <1>2. /\ outbox' \in [Runs -> Seq(Events)]
        /\ \A t \in Runs \ {r} : outbox'[t] = outbox[t]
        /\ TransportationFlow[n] \notin ToSet(outbox[r]) =>
             outbox'[r] = Append(outbox[r], TransportationFlow[n])
    BY <1>1, PublishAppends
  <1>3. step' \in [Runs -> 0..5] /\ step'[r] = n + 1
        /\ \A t \in Runs \ {r} : step'[t] = step[t]
    BY DEF Advance, IInv, TablesInv, TypeOK
  <1>4. chosen' \in [Runs -> UnitOfEach \cup {Nobody}] /\ chosen'[r] = Nobody
        /\ \A t \in Runs \ {r} : chosen'[t] = chosen[t]
    BY DEF IInv, TablesInv, ShapeInv
  <1>5. RestOK'
    BY <1>2, <1>3, <1>4, RestIsOK DEF RestOK, Bounds, IInv
  <1>6. /\ TablesInv'
        /\ HeldBy(r)' = IF m = "DELIVERED" THEN Nobody ELSE u
        /\ \A t \in Runs \ {r} : HeldBy(t)' = HeldBy(t)
    BY <1>5, MovedKeeps DEF IInv
  <1>7. shipment'[r] = m /\ \A t \in Runs \ {r} : shipment'[t] = shipment[t]
    BY DEF Moved, IInv, TablesInv, TypeOK
  <1>8. Stands(r, n, shipment[r], outbox[r]) /\ holder = r
    BY Executing DEF Stands
  <1>9. /\ n = 1 => outbox'[r] = <<"CarrierAssigned">>
        /\ n = 2 => outbox'[r] = <<"CarrierAssigned", "ShipmentPickedUp">>
        /\ n = 3 => outbox'[r] = <<"CarrierAssigned", "ShipmentPickedUp", "ShipmentInTransit">>
        /\ n = 4 => outbox'[r] = TransportationFlow
    <2>1. CASE n = 1
      <3>1. outbox[r] = <<>>
        BY <2>1, Executing DEF Stands
      <3> QED
        BY <1>2, <2>1, <3>1, Chain DEF ToSet
    <2>2. CASE n = 2
      <3>1. outbox[r] = <<"CarrierAssigned">>
        BY <2>2, Executing DEF Stands
      <3>2. ToSet(outbox[r]) = {"CarrierAssigned"}
        BY <3>1 DEF ToSet
      <3> QED
        BY <1>2, <2>2, <3>1, <3>2, Chain
    <2>3. CASE n = 3
      <3>1. outbox[r] = <<"CarrierAssigned", "ShipmentPickedUp">>
        BY <2>3, Executing DEF Stands
      <3>2. ToSet(outbox[r]) = {"CarrierAssigned", "ShipmentPickedUp"}
        BY <3>1 DEF ToSet
      <3>3. outbox'[r] = Append(<<"CarrierAssigned", "ShipmentPickedUp">>, "ShipmentInTransit")
        BY <1>2, <2>3, <3>1, <3>2, Chain
      <3>4. Append(<<"CarrierAssigned", "ShipmentPickedUp">>, "ShipmentInTransit")
              = <<"CarrierAssigned", "ShipmentPickedUp", "ShipmentInTransit">>
        BY Appended
      <3> QED
        BY <2>3, <3>3, <3>4
    <2>4. CASE n = 4
      <3>1. outbox[r] = <<"CarrierAssigned", "ShipmentPickedUp", "ShipmentInTransit">>
        BY <2>4, Executing DEF Stands
      <3>2. ToSet(outbox[r]) = {"CarrierAssigned", "ShipmentPickedUp", "ShipmentInTransit"}
        BY <3>1 DEF ToSet
      <3>3. outbox'[r] = Append(<<"CarrierAssigned", "ShipmentPickedUp", "ShipmentInTransit">>,
                                "ShipmentDelivered")
        BY <1>2, <2>4, <3>1, <3>2, Chain
      <3>4. Append(<<"CarrierAssigned", "ShipmentPickedUp", "ShipmentInTransit">>,
                   "ShipmentDelivered")
              = <<"CarrierAssigned", "ShipmentPickedUp", "ShipmentInTransit",
                  "ShipmentDelivered">>
        BY Appended
      <3> QED
        BY <2>4, <3>3, <3>4 DEF TransportationFlow
    <2> QED
      BY <2>1, <2>2, <2>3, <2>4
  <1>10. RunOK(r)'
    BY <1>3, <1>4, <1>7, <1>8, <1>9 DEF RunOK, Stands, Enters
  <1>11. RunInv'
    BY <1>2, <1>3, <1>4, <1>7, <1>10, OthersStay
  <1> QED
    BY <1>6, <1>11 DEF IInv

\* The four events of a run.
LEMMA RunEventKeeps ==
  ASSUME IInv, NEW r \in Runs,
         \/ CarrierAssigned(r) \/ ShipmentPickedUp(r)
         \/ ShipmentInTransit(r) \/ ShipmentDelivered(r)
  PROVE  /\ IInv'
         /\ \A t \in Runs \ {r} : HeldBy(t)' = HeldBy(t)
         /\ \/ HeldBy(r)' = HeldBy(r)
            \/ /\ HeldBy(r) = Nobody /\ HeldBy(r)' \in UnitOfEach
               /\ \A k \in Kinds : HeldBy(r)'[k] \in Active(k)
            \/ HeldBy(r) # Nobody /\ HeldBy(r)' = Nobody
  <1>1. CASE CarrierAssigned(r)
    <2>1. run[r] = "RUNNING" /\ step[r] = 1
      BY <1>1, DueAt, Chain DEF CarrierAssigned
    <2>2. /\ chosen[r] \in UnitOfEach /\ \A k \in Kinds : chosen[r][k] \in Active(k)
      BY <1>1 DEF CarrierAssigned, IInv, TablesInv, ShapeInv, RunInv, RunOK
    <2>3. shipment[r] = "READY"
      BY <2>1, Executing DEF Stands
    <2>4. Moved(r, chosen[r], "ASSIGNED")
      BY <1>1, <2>2, <2>3, AssignMoves DEF CarrierAssigned, IInv
    <2>5. /\ Publish(r, TransportationFlow[1]) /\ Advance(r)
          /\ chosen' = [chosen EXCEPT ![r] = Nobody] /\ UNCHANGED <<holder, run, Bounds>>
      BY <1>1, Chain DEF CarrierAssigned
    <2>6. IInv' /\ HeldBy(r)' = chosen[r] /\ \A t \in Runs \ {r} : HeldBy(t)' = HeldBy(t)
      <3>1. PICK m : m = "ASSIGNED"
        OBVIOUS
      <3>2. PICK n \in 1..4 : n = 1
        OBVIOUS
      <3>3. Enters(n, m) /\ m # "DELIVERED"
        BY <3>1, <3>2 DEF Enters
      <3>4. /\ step[r] = n /\ Moved(r, chosen[r], m) /\ Publish(r, TransportationFlow[n])
            /\ IF m = "ASSIGNED"
                 THEN shipment[r] = "READY" /\ \A k \in Kinds : chosen[r][k] \in Active(k)
                 ELSE shipment[r] \in OnItsWay /\ chosen[r] = HeldBy(r)
        BY <2>1, <2>2, <2>3, <2>4, <2>5, <3>1, <3>2
      <3> QED
        BY <2>1, <2>5, <3>3, <3>4, EventKeeps
    <2> QED
      BY <2>2, <2>3, <2>6, NotOnItsWay DEF OnItsWay
  <1>2. ASSUME NEW n \in 2..4, At(r, TransportationFlow[n]),
               NEW m, Enters(n, m),
               shipment[r] \in OnItsWay, Moved(r, HeldBy(r), m),
               Publish(r, TransportationFlow[n]), Advance(r),
               UNCHANGED <<holder, run, chosen, Bounds>>
        PROVE  /\ IInv' /\ \A t \in Runs \ {r} : HeldBy(t)' = HeldBy(t)
               /\ \/ HeldBy(r)' = HeldBy(r)
                  \/ HeldBy(r) # Nobody /\ HeldBy(r)' = Nobody
    <2>1. run[r] = "RUNNING" /\ step[r] = n
      BY <1>2, DueAt
    <2>2. chosen' = [chosen EXCEPT ![r] = Nobody]
      BY <1>2, <2>1 DEF IInv, TablesInv, ShapeInv, RunInv, RunOK
    <2>3. m # "ASSIGNED" /\ n \in 1..4
      BY <1>2 DEF Enters
    <2>4. /\ IInv' /\ HeldBy(r)' = IF m = "DELIVERED" THEN Nobody ELSE HeldBy(r)
          /\ \A t \in Runs \ {r} : HeldBy(t)' = HeldBy(t)
      BY <1>2, <2>1, <2>2, <2>3, EventKeeps
    <2>5. HeldBy(r) # Nobody
      BY <1>2, RowOfShipment DEF IInv
    <2> QED
      BY <2>4, <2>5
  <1>3. CASE ShipmentPickedUp(r)
    BY <1>2, <1>3, Chain, PickUpMoves DEF ShipmentPickedUp, PickUpReady, OnItsWay, IInv, Enters
  <1>4. CASE ShipmentInTransit(r)
    BY <1>2, <1>4, Chain, TransitMoves DEF ShipmentInTransit, TransitReady, OnItsWay, IInv, Enters
  <1>5. CASE ShipmentDelivered(r)
    BY <1>2, <1>5, Chain, DeliverMoves DEF ShipmentDelivered, DeliverReady, OnItsWay, IInv, Enters
  <1> QED
    BY <1>1, <1>3, <1>4, <1>5

\* A run ends, on its own account or because it is cut off: its open transaction
\* is gone, and what is committed stays.
LEMMA EndKeeps ==
  ASSUME IInv, NEW r \in Runs, run[r] = "RUNNING", NEW verdict \in {"SUCCESS", "FAILED"},
         End(r, verdict), byHand' = byHand, interrupts' \in 0..MaxInterrupts
  PROVE  IInv' /\ \A t \in Runs : HeldBy(t)' = HeldBy(t)
  <1>1. /\ run' \in [Runs -> {"NEW", "RUNNING", "SUCCESS", "FAILED"}]
        /\ run'[r] = verdict /\ chosen'[r] = Nobody
        /\ chosen' \in [Runs -> UnitOfEach \cup {Nobody}]
        /\ \A t \in Runs \ {r} : run'[t] = run[t] /\ chosen'[t] = chosen[t]
    BY DEF End, IInv, TablesInv, TypeOK, ShapeInv
  <1>2. RestOK'
    BY <1>1, RestIsOK DEF End, RestOK, IInv
  <1>3. TablesInv' /\ \A t \in Runs : HeldBy(t)' = HeldBy(t)
    BY <1>2, TablesStay DEF End, IInv
  <1>4. RunOK(r)'
    BY <1>1 DEF RunOK
  <1>5. RunInv'
    BY <1>1, <1>4, OthersStay DEF End, shipmentVars
  <1> QED
    BY <1>3, <1>5 DEF IInv

\* A generator started by hand works on a shipment no run is at work on.
LEMMA HandKeeps ==
  ASSUME IInv, NEW s \in Runs, HandStep(s)
  PROVE  /\ IInv'
         /\ \A t \in Runs \ {s} : HeldBy(t)' = HeldBy(t)
         /\ \/ HeldBy(s)' = HeldBy(s)
            \/ /\ HeldBy(s) = Nobody /\ HeldBy(s)' \in UnitOfEach
               /\ \A k \in Kinds : HeldBy(s)'[k] \in Active(k)
            \/ HeldBy(s) # Nobody /\ HeldBy(s)' = Nobody
  <1>1. ASSUME NEW u, NEW m, NEW event \in Events, ByHand(s, event), Moved(s, u, m),
               IF m = "ASSIGNED"
                 THEN shipment[s] = "READY" /\ \A k \in Kinds : u[k] \in Active(k)
                 ELSE shipment[s] \in OnItsWay /\ u = HeldBy(s)
        PROVE  /\ IInv' /\ HeldBy(s)' = IF m = "DELIVERED" THEN Nobody ELSE u
               /\ \A t \in Runs \ {s} : HeldBy(t)' = HeldBy(t)
    <2>1. /\ holder = Nobody /\ Publish(s, event)
          /\ byHand' \in 0..MaxByHand /\ UNCHANGED <<runVars, interrupts>>
      BY <1>1, TransportationAssumption DEF ByHand, IInv, TablesInv, TypeOK
    <2>2. outbox' \in [Runs -> Seq(Events)] /\ \A t \in Runs \ {s} : outbox'[t] = outbox[t]
      BY <2>1, PublishAppends
    <2>3. RestOK'
      BY <2>1, <2>2, RestIsOK DEF RestOK, runVars, IInv
    <2>4. /\ TablesInv'
          /\ HeldBy(s)' = IF m = "DELIVERED" THEN Nobody ELSE u
          /\ \A t \in Runs \ {s} : HeldBy(t)' = HeldBy(t)
      BY <1>1, <2>3, MovedKeeps DEF IInv
    <2>5. run[s] \notin {"NEW", "RUNNING"} /\ chosen[s] = Nobody
      BY <1>1, <2>1, TransportationAssumption
      DEF IInv, RunInv, RunOK, Stands, OnItsWay
    <2>6. RunOK(s)'
      BY <2>1, <2>5 DEF RunOK, runVars
    <2>7. \A t \in Runs \ {s} : shipment'[t] = shipment[t]
      BY <1>1 DEF Moved, IInv, TablesInv, TypeOK
    <2>8. RunInv'
      BY <2>1, <2>2, <2>6, <2>7, OthersStay DEF runVars
    <2> QED
      BY <2>4, <2>8 DEF IInv
  <1>2. CASE CarrierByHand(s)
    <2> DEFINE u == [k \in Kinds |-> Oldest(k)]
    <2>1. \A k \in Kinds : Oldest(k) \in Active(k)
      BY <1>2, OldestIsActive DEF CarrierByHand, Available
    <2>2. \A k \in Kinds : Oldest(k) \in Nat /\ Oldest(k) \in Units[k]
      BY <2>1, TransportationAssumption DEF Active, Units
    <2>3. u \in UnitOfEach /\ \A k \in Kinds : u[k] \in Active(k)
      BY <2>1, <2>2 DEF UnitOfEach
    <2>4. ByHand(s, "CarrierAssigned") /\ AssignCarrier(s, u)
      BY <1>2 DEF CarrierByHand
    <2> HIDE DEF u
    <2>5. shipment[s] = "READY"
      BY <2>4 DEF ByHand, Ready, CarrierReady
    <2>6. Moved(s, u, "ASSIGNED")
      BY <2>3, <2>4, <2>5, AssignMoves DEF IInv
    <2>7. /\ IInv' /\ HeldBy(s)' = u
          /\ \A t \in Runs \ {s} : HeldBy(t)' = HeldBy(t)
      BY <1>1, <2>3, <2>4, <2>5, <2>6, Chain
    <2> QED
      BY <2>3, <2>5, <2>7, NotOnItsWay DEF OnItsWay
  <1>3. ASSUME NEW m \in {"PICKED_UP", "IN_TRANSIT", "DELIVERED"}, NEW event \in Events,
               ByHand(s, event), shipment[s] \in OnItsWay, Moved(s, HeldBy(s), m)
        PROVE  /\ IInv' /\ \A t \in Runs \ {s} : HeldBy(t)' = HeldBy(t)
               /\ \/ HeldBy(s)' = HeldBy(s)
                  \/ HeldBy(s) # Nobody /\ HeldBy(s)' = Nobody
    <2>1. HeldBy(s) # Nobody
      BY <1>3, RowOfShipment DEF IInv
    <2> QED
      BY <1>1, <1>3, <2>1
  <1>4. CASE VehicleAssigned(s)
    <2>1. shipment[s] = "ASSIGNED"
      BY <1>4, AssignmentFound DEF VehicleAssigned, ByHand, Ready, VehicleReady, IInv
    <2> QED
      BY <1>3, <1>4, <2>1, PickUpMoves, Chain DEF VehicleAssigned, OnItsWay, IInv
  <1>5. CASE PickUpByHand(s)
    <2>1. shipment[s] = "ASSIGNED"
      BY <1>5 DEF PickUpByHand, ByHand, Ready, PickUpReady
    <2> QED
      BY <1>3, <1>5, <2>1, PickUpMoves, Chain DEF PickUpByHand, OnItsWay, IInv
  <1>6. CASE TransitByHand(s)
    <2>1. shipment[s] = "PICKED_UP"
      BY <1>6 DEF TransitByHand, ByHand, Ready, TransitReady
    <2> QED
      BY <1>3, <1>6, <2>1, TransitMoves, Chain DEF TransitByHand, OnItsWay, IInv
  <1>7. CASE DeliverByHand(s)
    <2>1. shipment[s] = "IN_TRANSIT"
      BY <1>7 DEF DeliverByHand, ByHand, Ready, DeliverReady
    <2> QED
      BY <1>3, <1>7, <2>1, DeliverMoves, Chain DEF DeliverByHand, OnItsWay, IInv
  <1> QED
    BY <1>2, <1>4, <1>5, <1>6, <1>7 DEF HandStep

\* Nothing the run has written is refused: while it executes, the event at hand
\* finds what it needs of its shipment.
LEMMA RunIsReady ==
  ASSUME IInv, NEW r \in Runs, run[r] = "RUNNING", step[r] \in 1..4
  PROVE  Ready(r, NextEvent(r))
  <1>1. CASE step[r] = 1
    BY <1>1, Executing, Chain DEF Stands, Ready, NextEvent, CarrierReady
  <1>2. CASE step[r] = 2
    <2>1. shipment[r] = "ASSIGNED"
      BY <1>2, Executing DEF Stands
    <2>2. AssignmentOf(r, "ASSIGNED") # Nobody
      BY <2>1, AssignmentFound, RowOfShipment DEF OnItsWay, IInv
    <2> QED
      BY <1>2, <2>1, <2>2, Chain DEF Ready, NextEvent, PickUpReady
  <1>3. CASE step[r] = 3
    <2>1. shipment[r] = "PICKED_UP"
      BY <1>3, Executing DEF Stands
    <2>2. AssignmentOf(r, "PICKED_UP") = HeldBy(r) /\ HeldBy(r) # Nobody
      BY <2>1, AssignmentFound, RowOfShipment DEF OnItsWay, IInv
    <2>3. tracking[r] = <<[unit |-> HeldBy(r), status |-> "PICKED_UP"]>>
      BY <2>1, RowOfShipment DEF OnItsWay, IInv
    <2>4. OpenTracking(r) = {1}
      <3>1. DOMAIN tracking[r] = {1} /\ tracking[r][1].status = "PICKED_UP"
        BY <2>3
      <3> QED
        BY <3>1 DEF OpenTracking, Open
    <2>5. SameUnits(r)
      BY <2>2, <2>3, <2>4, MaxOne DEF SameUnits, Tracked
    <2> QED
      BY <1>3, <2>1, <2>2, <2>4, <2>5, Chain DEF Ready, NextEvent, TransitReady
  <1>4. CASE step[r] = 4
    <2>1. shipment[r] = "IN_TRANSIT"
      BY <1>4, Executing DEF Stands
    <2>2. transport[r] # <<>>
      <3>1. transport[r] = <<[unit |-> HeldBy(r), status |-> "IN_TRANSIT"]>>
        BY <2>1, RowOfShipment DEF OnItsWay, IInv
      <3> QED
        BY <3>1
    <2> QED
      BY <1>4, <2>1, <2>2, Chain DEF Ready, NextEvent, DeliverReady
  <1> QED
    BY <1>1, <1>2, <1>3, <1>4

\* ... and the validator accepts it.
LEMMA RunIsValid ==
  ASSUME IInv, NEW r \in Runs, run[r] = "RUNNING", step[r] = 5
  PROVE  Validated(r)
  <1>1. shipment[r] = "DELIVERED" /\ outbox[r] = TransportationFlow
    BY Executing DEF Stands
  <1>2. PICK u : transport[r] = <<[unit |-> u, status |-> "DELIVERED"]>>
    <2>1. transport[r] = <<[unit |-> Head(transport[r]).unit, status |-> "DELIVERED"]>>
      BY <1>1 DEF IInv, TablesInv, TablesAgree
    <2> QED
      BY <2>1
  <1>3. tracking[r] = transport[r]
    BY <1>1 DEF IInv, TablesInv, TablesAgree
  <1> QED
    BY <1>1, <1>2, <1>3, OneRow DEF Validated

\* What a step does to the units shipments hold: nothing, or one shipment takes
\* free units, or one gives its units back.
HoldingsMove(s) ==
  /\ \A t \in Runs \ {s} : HeldBy(t)' = HeldBy(t)
  /\ \/ HeldBy(s)' = HeldBy(s)
     \/ /\ HeldBy(s) = Nobody /\ HeldBy(s)' \in UnitOfEach
        /\ \A k \in Kinds : HeldBy(s)'[k] \in Active(k)
     \/ HeldBy(s) # Nobody /\ HeldBy(s)' = Nobody

LEMMA StepKeeps ==
  ASSUME IInv, NEW r \in Runs, Begin(r) \/ RunStep(r) \/ Interrupt(r) \/ HandStep(r)
  PROVE  IInv' /\ HoldingsMove(r)
  <1>1. CASE Begin(r)
    BY <1>1, BeginKeeps DEF HoldingsMove
  <1>2. CASE CreateShipment(r) \/ ChooseCarrier(r)
    BY <1>2, CreateKeeps, ChooseKeeps DEF HoldingsMove
  <1>3. CASE CarrierAssigned(r) \/ ShipmentPickedUp(r) \/ ShipmentInTransit(r)
             \/ ShipmentDelivered(r)
    BY <1>3, RunEventKeeps DEF HoldingsMove
  <1>4. CASE Raise(r) \/ Complete(r) \/ Interrupt(r)
    <2>1. run[r] = "RUNNING" /\ byHand' = byHand
      BY <1>4 DEF Raise, Complete, Interrupt, Bounds
    <2>2. \E verdict \in {"SUCCESS", "FAILED"} : End(r, verdict)
      BY <1>4 DEF Raise, Complete, Interrupt
    <2>3. interrupts' \in 0..MaxInterrupts
      BY <1>4, TransportationAssumption
      DEF Raise, Complete, Interrupt, Bounds, IInv, TablesInv, TypeOK
    <2> QED
      BY <2>1, <2>2, <2>3, EndKeeps DEF HoldingsMove
  <1>5. CASE HandStep(r)
    BY <1>5, HandKeeps DEF HoldingsMove
  <1> QED
    BY <1>1, <1>2, <1>3, <1>4, <1>5 DEF RunStep

\* The strengthened invariant holds initially and is kept by every step.
LEMMA Initially == Init => IInv /\ \A s \in Runs : HeldBy(s) = Nobody
  <1> SUFFICES ASSUME Init
               PROVE  IInv /\ \A s \in Runs : HeldBy(s) = Nobody
    OBVIOUS
  <1>1. \A s \in Runs : HeldBy(s) = Nobody
    BY DEF Init, HeldBy
  <1>2. ShapeInv
    BY DEF Init, ShapeInv
  <1>3. TypeOK
    BY TransportationAssumption DEF Init, TypeOK, ShipmentStatus
  <1>4. TablesAgree
    BY <1>1 DEF Init, TablesAgree
  <1>5. FleetInv
    BY DEF Init, FleetInv, OnItsWay
  <1>6. RunInv
    BY DEF Init, RunInv, RunOK, Stands
  <1> QED
    BY <1>1, <1>2, <1>3, <1>4, <1>5, <1>6 DEF IInv, TablesInv

LEMMA Stuttering ==
  ASSUME IInv, UNCHANGED vars
  PROVE  IInv' /\ \A s \in Runs : HeldBy(s)' = HeldBy(s)
  <1>1. UNCHANGED <<shipmentVars, status, holder, run, step, chosen, outbox, byHand, interrupts>>
    BY DEF vars, runVars
  <1>2. RestOK'
    BY <1>1, RestIsOK DEF RestOK, IInv
  <1>3. TablesInv' /\ \A s \in Runs : HeldBy(s)' = HeldBy(s)
    BY <1>1, <1>2, TablesStay DEF IInv
  <1>4. RunInv'
    BY <1>1 DEF IInv, RunInv, RunOK, Stands, Active, shipmentVars
  <1> QED
    BY <1>3, <1>4 DEF IInv

LEMMA Inductive == IInv /\ [Next]_vars => IInv'
  BY StepKeeps, Stuttering DEF Next

LEMMA Invariance == Spec => []IInv
  <1>1. Init => IInv
    BY Initially
  <1> QED
    BY <1>1, Inductive, PTL DEF Spec

-----------------------------------------------------------------------------
(* Theorems.                                                                *)

\* Tables, pools, runs and bounds keep their types.
THEOREM TypeCorrect == Spec => []TypeOK
  <1>1. IInv => TypeOK
    BY DEF IInv, TablesInv
  <1> QED
    BY <1>1, Invariance, PTL

\* Whoever moved the shipments and wherever runs were cut off, the tables agree on
\* each shipment, and a unit is ACTIVE exactly when no shipment on its way has it.
THEOREM Agreement == Spec => []TablesAgree
  <1>1. IInv => TablesAgree
    BY DEF IInv, TablesInv
  <1> QED
    BY <1>1, Invariance, PTL

\* A run that nobody cut off fails only because a pool is empty: no other check of
\* the generators or of the validator refuses what the run has written.
THEOREM OnlyExhaustionFails == Spec => FailsOnlyWhenExhausted
  <1> DEFINE A == \A r \in Runs :
        run[r] = "RUNNING" /\ run'[r] = "FAILED" /\ interrupts' = interrupts => ~Available
  <1>1. IInv /\ [Next]_vars => A \/ UNCHANGED vars
    <2> SUFFICES ASSUME IInv, NEW r \in Runs, NEW t \in Runs,
                        Begin(t) \/ RunStep(t) \/ Interrupt(t) \/ HandStep(t),
                        run[r] = "RUNNING", run'[r] = "FAILED", interrupts' = interrupts
                 PROVE  ~Available
      BY DEF Next
    <2>1. CASE Raise(t)
      <3>1. t = r
        BY <2>1 DEF Raise, End, IInv, TablesInv, TypeOK
      <3> QED
        BY <2>1, <3>1, RunIsReady DEF Raise
    <2>2. CASE Complete(t)
      <3>1. t = r
        BY <2>2 DEF Complete, End, IInv, TablesInv, TypeOK
      <3>2. run'[r] = "SUCCESS"
        BY <2>2, <3>1, RunIsValid DEF Complete, End, IInv, TablesInv, TypeOK
      <3> QED
        BY <3>2
    <2>3. CASE Interrupt(t)
      BY <2>3 DEF Interrupt, IInv, TablesInv, TypeOK
    <2>4. CASE Begin(t)
      BY <2>4 DEF Begin, IInv, TablesInv, TypeOK
    <2>5. CASE \/ CreateShipment(t) \/ ChooseCarrier(t) \/ CarrierAssigned(t)
               \/ ShipmentPickedUp(t) \/ ShipmentInTransit(t) \/ ShipmentDelivered(t)
               \/ HandStep(t)
      <3>1. run' = run
        BY <2>5
        DEF CreateShipment, ChooseCarrier, CarrierAssigned, ShipmentPickedUp,
            ShipmentInTransit, ShipmentDelivered, HandStep, CarrierByHand, VehicleAssigned,
            PickUpByHand, TransitByHand, DeliverByHand, ByHand, runVars
      <3> QED
        BY <3>1
    <2> QED
      BY <2>1, <2>2, <2>3, <2>4, <2>5 DEF RunStep
  <1> QED
    BY <1>1, Invariance, PTL DEF Spec, FailsOnlyWhenExhausted

\* A step of the transportation system, seen in the pool, is a step of the pool or
\* none: units are taken only while no shipment has them.
LEMMA PoolStep ==
  ASSUME IInv, NEW s \in Runs, HoldingsMove(s)
  PROVE  \/ Pool!Next
         \/ UNCHANGED [t \in Runs |-> HeldBy(t)]
  <1> DEFINE held == [t \in Runs |-> HeldBy(t)]
  <1>1. DOMAIN Units = Kinds
    BY DEF Units
  <1>2. CASE HeldBy(s)' = HeldBy(s)
    BY <1>2 DEF HoldingsMove
  <1>3. CASE /\ HeldBy(s) = Nobody /\ HeldBy(s)' \in UnitOfEach
             /\ \A k \in Kinds : HeldBy(s)'[k] \in Active(k)
    <2>1. \A k \in Kinds : HeldBy(s)'[k] \in Units[k]
      BY <1>3 DEF UnitOfEach
    <2>2. HeldBy(s)' \in [Kinds -> UNION {Units[k] : k \in Kinds}]
      BY <1>3, <2>1 DEF UnitOfEach
    <2>3. ASSUME NEW k \in Kinds
          PROVE  HeldBy(s)'[k] \notin Pool!InUse(k)
      BY <1>3, <2>1 DEF Pool!InUse, IInv, TablesInv, TablesAgree, Active
    <2>4. [t \in Runs |-> HeldBy(t)]' = [held EXCEPT ![s] = HeldBy(s)']
      BY DEF HoldingsMove
    <2>5. Pool!Take(s)
      BY <1>1, <1>3, <2>1, <2>2, <2>3, <2>4 DEF Pool!Take, Pool!Kinds
    <2> QED
      BY <2>5 DEF Pool!Next
  <1>4. CASE HeldBy(s) # Nobody /\ HeldBy(s)' = Nobody
    <2>1. [t \in Runs |-> HeldBy(t)]' = [held EXCEPT ![s] = HeldBy(s)']
      BY DEF HoldingsMove
    <2>2. Pool!GiveBack(s)
      BY <1>4, <2>1 DEF Pool!GiveBack
    <2> QED
      BY <2>2 DEF Pool!Next
  <1> QED
    BY <1>2, <1>3, <1>4 DEF HoldingsMove

\* The generators implement the pool: a vehicle, trailer or driver belongs to one
\* shipment at a time, from the assignment of its carrier to its delivery.
THEOREM PoolIsImplemented == Spec => ImplementsPool
  <1>1. Init => Pool!Init
    BY Initially DEF Pool!Init
  <1>2. IInv /\ [Next]_vars => Pool!Next \/ UNCHANGED [s \in Runs |-> HeldBy(s)]
    BY StepKeeps, PoolStep, Stuttering DEF Next
  <1> QED
    BY <1>1, <1>2, Invariance, PTL DEF Spec, ImplementsPool, Pool!Spec

=============================================================================
