CONSTANTS
  o1 = o1
  o2 = o2
  p1 = p1
  Orders = {o1, o2}
  Situations <- MCSituations
  DailyLimit = 2
  Cap = 1
  Presses <- MCPresses
  MaxTime = 2
  MaxCrashes = 1
  Schedules = {s1, s2}
  Minutes = 3
  Days = 2
  MaxFaults = 2
  Employees = {e1, e2, e3}
  Worked = {e1, e2}
  Phones = {e1, e3}
  MaxIncidents = 2
SPECIFICATION Spec
INVARIANTS TypeOK Spaced  OncePerDay NotForgotten SlipOncePerMonth NobodyMissed
CHECK_DEADLOCK FALSE
