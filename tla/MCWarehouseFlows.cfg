SPECIFICATION Spec
CONSTANTS
  p1 = p1
  p2 = p2
  l1 = l1
  l2 = l2
  w1 = w1
  Products = {p1, p2}
  Locations = {l1, l2}
  Workers = {w1}
  NoLocation = NoLocation
  NoWorker = NoWorker
  SeedLocation = l1
  Capacity = 4
  SeedQty = 3
  MaxItem = 2
  MaxOrdered = 2
  Stamps = {}
  MaxRuns = 3
  MaxInterrupts = 1
SYMMETRY MCSymmetry
INVARIANTS
  TypeOK
  StockIsConserved
  BusyWhileReceiving
  
  
  
PROPERTIES
  SuccessIsComplete
  ImplementsLedger
