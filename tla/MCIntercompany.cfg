SPECIFICATION Spec
CONSTANTS
  r1 = r1
  r2 = r2
  c1 = c1
  Transactions <- OneTransaction
  Cases <- OneCase
  Requests <- TwoRequests
  Amount = 5
  Offers <- OffersMade
  Limit = 1
  MaxCrashes = 1
SYMMETRY Symmetric
INVARIANTS TypeOK ClosedIsMatched
PROPERTIES ClosedIsFinal
