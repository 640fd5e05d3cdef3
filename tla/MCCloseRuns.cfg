SPECIFICATION CloseSpec
CONSTANTS
  r1 = r1
  r2 = r2
  u1 = u1
  p1 = p1
  p2 = p2
  gap = gap
  e1 = e1
  Runs <- MCRuns
  CausesOf <- MCCausesOf
  StrictCauses <- MCStrictCauses
  Events <- MCEvents
  Malformed <- MCMalformed
  Users <- MCUsers
  Asked <- MCAsked
  Projectors <- MCProjectors
  BatchLimit = 2
  MaxTriggers = 2
  MaxAdvances = 1
  MaxFaults = 1
INVARIANTS CloseTypeOK LastSaidPackagedIsClean
PROPERTIES TriggersSettle
CHECK_DEADLOCK FALSE
