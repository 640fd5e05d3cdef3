SPECIFICATION Spec
CONSTANTS
  w1 = w1
  w2 = w2
  r1 = r1
  r2 = r2
  k1 = k1
  k2 = k2
  Warehouses <- TwoWarehouses
  Requests <- TwoRequests
  Keys <- TwoKeys
  Quantities <- OneAndThree
  Costs <- CheapAndDear
  Counts <- DebtAndSome
  Scale = 2
CHECK_DEADLOCK FALSE
INVARIANTS TypeOK OncePerKey ValueIsBooked
