CONSTANTS
  Tx = {t1, t2}
  Receipt = {b1, b2}
  TxAmount = 1
  BillTotal = 2
  Clerks = {c1, c2}
  MaxCalls = 3
SPECIFICATION Spec
INVARIANTS TotalWithinTransaction
CHECK_DEADLOCK FALSE
