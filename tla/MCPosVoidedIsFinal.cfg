SPECIFICATION Spec
CONSTANTS
  t1 = t1
  s1 = s1
  r1 = r1
  q1 = q1
  c1 = c1
  c2 = c2
  Tickets <- OneTicket
  Sessions <- OneSession
  Cashiers <- TwoCashiers
  Tills <- OneTill
  Cancels <- OneCancel
  FuelAttempts = 2
  MaxByHand = 2
  MaxAttempts = 2
  MaxTries = 3
PROPERTY VoidedIsFinal
CHECK_DEADLOCK FALSE
