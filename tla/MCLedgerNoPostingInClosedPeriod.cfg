SPECIFICATION Spec
CONSTANTS
  ana = ana
  luis = luis
  p1 = p1
  Nobody = Nobody
  Events <- OneEvent
  Users <- MCUsers
  Periods <- OnePeriod
  PeriodOf <- InFirst
  MaxVersion = 1
  Faulty = {}
  Unmapped = {}
SYMMETRY People
PROPERTIES NoPostingInClosedPeriod
CHECK_DEADLOCK FALSE
