SPECIFICATION Spec
CONSTANTS
  ana = ana
  luis = luis
  p1 = p1
  Nobody = Nobody
  Events <- OneEvent
  Users <- MCUsers
  Periods <- OnePeriod
  PeriodOf <- InFirst
  MaxVersion = 2
  Faulty = {}
  Unmapped <- BadSecond
SYMMETRY People
INVARIANTS TypeOK PostedHasEntry
PROPERTIES ReversalInOpenPeriod CloseMissesOnlyTheLate
CHECK_DEADLOCK FALSE
