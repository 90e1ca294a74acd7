SPECIFICATION Spec
CONSTANTS
  r1 = r1
  r2 = r2
  r3 = r3
  r4 = r4
  Runs = {r1, r2, r3, r4}
  Outbound = {r1}
  Fleet <- MCFleet
  Nobody = Nobody
  MaxByHand = 3
  MaxInterrupts = 3
SYMMETRY MCSymmetry
INVARIANTS
  TypeOK
  TablesAgree
PROPERTIES
  FailsOnlyWhenExhausted
  ImplementsPool
CHECK_DEADLOCK FALSE
