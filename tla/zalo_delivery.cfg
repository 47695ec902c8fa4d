CONSTANTS
  m1 = m1
  m2 = m2
  n1 = n1
  g1 = g1
  g2 = g2
  f1 = f1
  Messages = {m1, m2}
  Numbers = {n1}
  Groups = {g1, g2}
  Features = {f1}
  NoFeature = NoFeature
  Scenarios <- MCScenarios
  MaxAttempts = 2
  MaxStalled = 1
SPECIFICATION Spec
INVARIANTS TypeOK SentMeansDelivered CopiesBounded OffIsSilent
PROPERTY ImplementsOutbox
CHECK_DEADLOCK FALSE
