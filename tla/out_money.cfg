CONSTANTS
  t1 = t1
  t2 = t2
  r1 = r1
  r2 = r2
  e1 = e1
  Tx = {t1, t2}
  OutTx = {t1, t2}
  Receipt = {r1, r2}
  Refund = {f1}
  Expense = {e1}
  TxAmount <- MCTxAmount
  BillTotal <- MCBillTotal
  ExpenseAmount <- MCExpenseAmount
  LineExpenses <- MCLineExpenses
  MaxAmount = 2
  NoTx = NoTx
  NoTotal = NoTotal
  Category = {"shipping"}
  CostCategory = {"shipping"}
  NoCategory = NoCategory
  Asked = {0, 2}
  Idle = Idle
SPECIFICATION Spec
CONSTRAINT FewLinks
INVARIANTS TypeOK NoOverAllocation ReconciledIsPaid PointerIsOldest CleanPairsApply
PROPERTY NoAllocationOnUsedTx
CHECK_DEADLOCK FALSE
