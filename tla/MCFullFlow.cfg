SPECIFICATION Spec
CONSTANTS
  p1 = p1
  p2 = p2
  MaxExecutions = 2
  Products <- MCProducts
  MaxLines = 2
  MaxByHand = 1
  MaxFaults = 1
INVARIANTS
  TypeOK

  
  
