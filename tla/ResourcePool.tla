---------------------------- MODULE ResourcePool ----------------------------
(***************************************************************************)
(* What the transportation flow promises of the vehicles, trailers and     *)
(* drivers: a shipment on its way has one of each to itself, from the      *)
(* moment a carrier is assigned until it is delivered.                     *)
(***************************************************************************)
CONSTANTS
  Shipments,
  Units,        \* Units[k]: the units of each kind
  Nobody        \* no units are assigned

Kinds == DOMAIN Units

VARIABLE held   \* units each shipment has

Init == held = [s \in Shipments |-> Nobody]

InUse(k) == {held[s][k] : s \in {t \in Shipments : held[t] # Nobody}}

\* The choice among the free units is left open.
Take(s) ==
  /\ held[s] = Nobody
  /\ held'[s] \in [Kinds -> UNION {Units[k] : k \in Kinds}]
  /\ \A k \in Kinds : held'[s][k] \in Units[k] \ InUse(k)
  /\ held' = [held EXCEPT ![s] = held'[s]]

GiveBack(s) ==
  /\ held[s] # Nobody
  /\ held' = [held EXCEPT ![s] = Nobody]

Next == \E s \in Shipments : Take(s) \/ GiveBack(s)

Spec == Init /\ [][Next]_held
=============================================================================
