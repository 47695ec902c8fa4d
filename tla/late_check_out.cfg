CONSTANTS
  Shifts <- MCShifts
  Grace = 1
  MaxTime = 4
  Slots = {s1}
  MaxSamples = 1
  MaxChecks = 2
  MaxAdjustments = 0
SPECIFICATION Spec
INVARIANTS LateOutRefused
CHECK_DEADLOCK FALSE
