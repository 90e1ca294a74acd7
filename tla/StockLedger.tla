----------------------------- MODULE StockLedger -----------------------------
(***************************************************************************)
(* What the warehouse flows promise of a product's stock, whatever order,  *)
(* shipment or task moves it: units come in, free units are promised, and  *)
(* only promised units leave.                                              *)
(***************************************************************************)
EXTENDS Integers

CONSTANT Products

VARIABLES onHand, reserved

Init ==
  /\ onHand = [p \in Products |-> 0]
  /\ reserved = [p \in Products |-> 0]

\* A delivery, or seeding: units are added, of any number of products.
Receive ==
  /\ onHand' \in [Products -> Nat]
  /\ \A p \in Products : onHand'[p] >= onHand[p]
  /\ UNCHANGED reserved

\* Free units of any number of products are promised to an order.
Reserve ==
  /\ reserved' \in [Products -> Nat]
  /\ \A p \in Products : reserved'[p] \in reserved[p]..onHand[p]
  /\ UNCHANGED onHand

\* n promised units of p are picked.
Issue(p, n) ==
  /\ onHand' = [onHand EXCEPT ![p] = @ - n]
  /\ reserved' = [reserved EXCEPT ![p] = @ - n]

Next ==
  \/ Receive
  \/ Reserve
  \/ \E p \in Products : \E n \in 1..reserved[p] : Issue(p, n)

Spec == Init /\ [][Next]_<<onHand, reserved>>
=============================================================================
