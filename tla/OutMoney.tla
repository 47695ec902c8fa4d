------------------------------ MODULE OutMoney ------------------------------
(***************************************************************************)
(* Where outgoing bank money is accounted for.  A transaction can be       *)
(* allocated to stock receipts, linked to an order refund, linked to a     *)
(* manual expense, or be a shipping payment; the automatic reconciliation  *)
(* proposes receipts and expenses and applies what the user left ticked.   *)
(* Every call is one database transaction and the calls run one after the  *)
(* other here; a batch call is a loop, one action per iteration, with the  *)
(* state it would roll back to kept in job.saved.                          *)
(***************************************************************************)
EXTENDS ReceiptAllocations

CONSTANTS
  OutTx,         \* the transactions with transfer_type = 'out'
  Refund,        \* order_refunds ids
  Expense,       \* manual_expenses ids
  ExpenseAmount, \* manual_expenses.amount
  LineExpenses,  \* the expenses created from the opex lines of a receipt
  Category,      \* expense_category values an operator may set
  CostCategory,  \* those expense_category_is_cost accepts
  NoCategory,    \* NULL expense_category
  Asked,         \* amounts a request names, 0 when it names none
  Idle           \* no batch call is running

ASSUME OutAssumption ==
  /\ OutTx \subseteq Tx
  /\ Receipt \cap Expense = {}
  /\ ExpenseAmount \in [Expense -> 0..MaxAmount]
  /\ LineExpenses \in [Receipt -> SUBSET Expense]
  /\ CostCategory \subseteq Category
  /\ "shipping" \in CostCategory
  /\ NoCategory \notin Category
  /\ Asked \subseteq 0..MaxAmount

VARIABLES
  refund,   \* order_refunds: existence and reconciliation columns
  expense,  \* manual_expenses: existence and transaction_id
  ship,     \* ship[t]: amount of the shipping payment of t, 0 when there is none
  flags,    \* expense_category, settled_out and cost_excluded of a transaction
  preview,  \* the pairs shown by the open ledger_auto_reconcile_preview dialog
  job       \* the batch call that is running

linkVars == <<refund, expense, ship, flags>>
vars == <<allocVars, linkVars, preview, job>>

Refunds == [exists : BOOLEAN, tx : Tx \cup {NoTx}, reconciled : BOOLEAN,
            method : {"none", "sepay", "cash"}]
Expenses == [exists : BOOLEAN, tx : Tx \cup {NoTx}]
TxFlags == [category : Category \cup {NoCategory}, settled : BOOLEAN, excluded : BOOLEAN]

NoRefund == [exists |-> FALSE, tx |-> NoTx, reconciled |-> FALSE, method |-> "none"]
NoExpense == [exists |-> FALSE, tx |-> NoTx]

RefundLinked(t) == \E f \in Refund : refund[f].tx = t
ExpenseLinked(t) == \E e \in Expense : expense[e].tx = t
Shipped(t) == ship[t] > 0
Allocated(t) == \E r \in Receipt : alloc[t][r] > 0

(***************************************************************************)
(* Which transactions the previews and the automatic match offer.          *)
(***************************************************************************)
Unclassified(t) == t \in OutTx /\ ~flags[t].settled /\ ~flags[t].excluded

stock_receipt_out_reconcilable(t) ==
  /\ Unclassified(t)
  /\ ~RefundLinked(t) /\ ~ExpenseLinked(t) /\ ~Shipped(t)
  /\ receipt_tx_remaining(t) > 0

expense_out_reconcilable(t) ==
  /\ Unclassified(t)
  /\ flags[t].category \in CostCategory \cup {NoCategory}
  /\ ~RefundLinked(t) /\ ~ExpenseLinked(t) /\ ~Shipped(t)

(***************************************************************************)
(* Receipts: single allocations by hand.                                   *)
(***************************************************************************)
\* Mutant: the check for a manual expense is missing.
AllocLinksAdmit_NoExpenseCheck(t) == t \in OutTx /\ ~RefundLinked(t) /\ ~Shipped(t)

AllocLinksAdmit(t) ==
  t \in OutTx /\ ~RefundLinked(t) /\ ~ExpenseLinked(t) /\ ~Shipped(t)

\* Also stock_receipt_reconcile, which asks for the automatic amount.
receipt_alloc_add(r, t, asked) == AllocLinksAdmit(t) /\ AddAlloc(r, t, asked)

(***************************************************************************)
(* One pair of stock_receipt_reconcile_apply.  A bill of zero makes the    *)
(* INSERT violate CHECK (amount > 0), which aborts the whole call.         *)
(***************************************************************************)
StockPairApplies(r, t) ==
  /\ t \in OutTx /\ ~RefundLinked(t) /\ ~ExpenseLinked(t)
  /\ bill[r].exists /\ ~bill[r].reconciled /\ BillTotal[r] # NoTotal
  /\ \A u \in Tx : alloc[u][r] = 0
  /\ receipt_tx_remaining(t) > 0

StockPairAmount(r, t) ==
  IF receipt_tx_remaining(t) < BillTotal[r] THEN receipt_tx_remaining(t) ELSE BillTotal[r]

StockPair(r, t) ==
  /\ StockPairApplies(r, t)
  /\ StockPairAmount(r, t) > 0
  /\ WriteAlloc(r, t, StockPairAmount(r, t))

StockPairFails(r, t) ==
  /\ StockPairApplies(r, t)
  /\ StockPairAmount(r, t) <= 0 \/ ~IndexAdmits(r, Upserted(r, t)[r])

(***************************************************************************)
(* stock_receipt_create: the header, the expenses of its opex lines, then  *)
(* the automatic match with a transaction of exactly the bill's amount     *)
(* (the closest date: any of them here).                                   *)
(***************************************************************************)
AutoMatches(r) ==
  {t \in Tx : /\ TotalOrZero(r) > 0
              /\ stock_receipt_out_reconcilable(t)
              /\ TxAmount[t] = BillTotal[r]}

Unmatched(r) ==
  /\ bill' = [bill EXCEPT ![r] = NewBill]
  /\ UNCHANGED <<alloc, since>>

Matched(r, t) ==
  LET amount == StockPairAmount(r, t) IN
  /\ IndexAdmits(r, <<t>>)
  /\ alloc' = [alloc EXCEPT ![t][r] = amount]
  /\ since' = [since EXCEPT ![r] = <<t>>]
  /\ bill' = [bill EXCEPT ![r] =
                [NewBill EXCEPT !.reconciled = amount >= BillTotal[r], !.ptr = t]]

stock_receipt_create(r) ==
  /\ ~bill[r].exists
  /\ \A e \in LineExpenses[r] : ~expense[e].exists
  /\ expense' = [e \in Expense |->
                   IF e \in LineExpenses[r] THEN [NoExpense EXCEPT !.exists = TRUE]
                   ELSE expense[e]]
  /\ \/ AutoMatches(r) = {} /\ Unmatched(r)
     \/ \E t \in AutoMatches(r) : Matched(r, t)
  /\ UNCHANGED <<refund, ship, flags>>

\* stock_receipt_delete: refused once reconciled; rows and line expenses go too.
stock_receipt_delete(r) ==
  /\ bill[r].exists /\ ~bill[r].reconciled
  /\ ClearAllocs(r)
  /\ bill' = [bill EXCEPT ![r] = NoBill]
  /\ expense' = [e \in Expense |-> IF e \in LineExpenses[r] THEN NoExpense ELSE expense[e]]
  /\ UNCHANGED <<refund, ship, flags>>

(***************************************************************************)
(* Manual expenses.                                                        *)
(***************************************************************************)
LinkSucceeds(t, e) ==
  /\ expense[e].exists /\ expense[e].tx = NoTx
  /\ ~ExpenseLinked(t) /\ t \in OutTx

expense_out_link(t, e) ==
  /\ LinkSucceeds(t, e)
  /\ expense' = [expense EXCEPT ![e].tx = t]

expense_out_unlink(t) ==
  /\ ExpenseLinked(t)
  /\ expense' = [e \in Expense |->
                   IF expense[e].tx = t THEN [expense[e] EXCEPT !.tx = NoTx] ELSE expense[e]]

\* manual_expense_upsert: only the unique index looks at the transaction it is given.
manual_expense_upsert(e, t) ==
  /\ t # NoTx => \A d \in Expense \ {e} : expense[d].tx # t
  /\ expense' = [expense EXCEPT ![e] = [exists |-> TRUE, tx |-> t]]

manual_expense_delete(e) ==
  /\ expense[e].exists
  /\ expense' = [expense EXCEPT ![e] = NoExpense]

(***************************************************************************)
(* Order refunds.                                                          *)
(***************************************************************************)
Settled(t, method) == [exists |-> TRUE, tx |-> t, reconciled |-> TRUE, method |-> method]

order_refund_create(f, t) ==
  /\ ~refund[f].exists
  /\ t # NoTx => t \in OutTx /\ ~RefundLinked(t)
  /\ refund' = [refund EXCEPT ![f] =
                  IF t = NoTx THEN [NoRefund EXCEPT !.exists = TRUE] ELSE Settled(t, "sepay")]

order_refund_reconcile(f, t) ==
  /\ refund[f].exists
  /\ t \in OutTx /\ \A g \in Refund \ {f} : refund[g].tx # t
  /\ refund' = [refund EXCEPT ![f] = Settled(t, "sepay")]

order_refund_mark_cash(f) ==
  /\ refund[f].exists
  /\ refund' = [refund EXCEPT ![f] = Settled(NoTx, "cash")]

order_refund_unreconcile(f) ==
  /\ refund[f].exists
  /\ refund' = [refund EXCEPT ![f] = [NoRefund EXCEPT !.exists = TRUE]]

\* order_delete takes the refunds of the order with it (ON DELETE CASCADE).
order_delete(f) ==
  /\ refund[f].exists
  /\ refund' = [refund EXCEPT ![f] = NoRefund]

(***************************************************************************)
(* Shipping payments, and the flags an operator sets on a transaction.     *)
(***************************************************************************)
shipping_payment_create(t, asked) ==
  /\ t \in OutTx
  /\ ~RefundLinked(t) /\ ~ExpenseLinked(t) /\ ~Allocated(t)
  /\ asked <= TxAmount[t]
  /\ ship' = [ship EXCEPT ![t] = IF asked = 0 THEN TxAmount[t] ELSE asked]
  /\ flags' = [flags EXCEPT ![t].category = "shipping", ![t].excluded = FALSE]

shipping_payment_unlink(t) ==
  /\ Shipped(t)
  /\ ship' = [ship EXCEPT ![t] = 0]
  /\ flags' = [flags EXCEPT ![t].category = IF @ = "shipping" THEN NoCategory ELSE @]

transaction_set_expense(t, category, excluded) ==
  flags' = [flags EXCEPT ![t].category = category, ![t].excluded = excluded]

transaction_mark_settled(t, settled) ==
  flags' = [flags EXCEPT ![t].settled = settled]

\* expense_apply_rules: found[t] is the category of the first rule t's text matches.
RuleCandidates ==
  {t \in Tx : Unclassified(t) /\ flags[t].category = NoCategory /\ ~RefundLinked(t)}

expense_apply_rules(found) ==
  flags' = [t \in Tx |->
              IF t \in RuleCandidates THEN [flags[t] EXCEPT !.category = found[t]]
              ELSE flags[t]]

(***************************************************************************)
(* The dialog of ledger_auto_reconcile_preview: the pairs of equal amount  *)
(* that are candidates of each other only, without the transactions that   *)
(* match a receipt and an expense alike.  Dates are all in the window.     *)
(***************************************************************************)
Pairs(S) == [tx : Tx, on : S]
BulkItems == [tx : Tx, on : Receipt, asked : Asked]

OneToOne(pairs) ==
  {p \in pairs : \A q \in pairs : (q.tx = p.tx) <=> (q.on = p.on)}

\* Mutant: offers transactions that are already shared out in part.
ReceiptPairs_PartlyAllocated ==
  {p \in Pairs(Receipt) :
     /\ expense_out_reconcilable(p.tx)
     /\ bill[p.on].exists /\ ~bill[p.on].reconciled
     /\ TotalOrZero(p.on) - Paid(alloc, p.on) = TxAmount[p.tx]}

ReceiptPairs ==
  {p \in Pairs(Receipt) :
     /\ expense_out_reconcilable(p.tx)
     /\ receipt_tx_allocated(p.tx) = 0
     /\ bill[p.on].exists /\ ~bill[p.on].reconciled
     /\ TotalOrZero(p.on) - Paid(alloc, p.on) = TxAmount[p.tx]}

ExpensePairs ==
  {p \in Pairs(Expense) :
     /\ expense_out_reconcilable(p.tx)
     /\ expense[p.on].exists /\ expense[p.on].tx = NoTx
     /\ ExpenseAmount[p.on] = TxAmount[p.tx]}

Txs(pairs) == {p.tx : p \in pairs}

Conflict == Txs(OneToOne(ReceiptPairs)) \cap Txs(OneToOne(ExpensePairs))

CleanPairs ==
  {p \in OneToOne(ReceiptPairs) \cup OneToOne(ExpensePairs) : p.tx \notin Conflict}

ledger_auto_reconcile_preview == preview' = CleanPairs

(***************************************************************************)
(* Batch calls.                                                            *)
(***************************************************************************)
Snapshot == [alloc |-> alloc, since |-> since, bill |-> bill]

Start(kind, items) == job' = [kind |-> kind, rest |-> items, saved |-> Snapshot]

Advance(rest, none) == job' = IF rest = none THEN Idle ELSE [job EXCEPT !.rest = rest]

Rollback ==
  /\ alloc' = job.saved.alloc
  /\ since' = job.saved.since
  /\ bill' = job.saved.bill
  /\ job' = Idle
  /\ UNCHANGED linkVars

AddSucceeds(r, t, asked) ==
  /\ AllocLinksAdmit(t) /\ AllocAdmissible(r, t, asked)
  /\ IndexAdmits(r, Upserted(r, t)[r])

(***************************************************************************)
(* tx_receipt_alloc_add_bulk: stops quietly once the transaction is spent, *)
(* cuts an amount down to what is left, fails as a whole otherwise.        *)
(***************************************************************************)
BulkItem ==
  LET i     == Head(job.rest)
      left  == receipt_tx_remaining(i.tx)
      asked == IF i.asked > left THEN left ELSE i.asked
  IN  \/ /\ left > 0
         /\ receipt_alloc_add(i.on, i.tx, asked)
         /\ Advance(Tail(job.rest), <<>>)
         /\ UNCHANGED linkVars
      \/ /\ left <= 0
         /\ job' = Idle
         /\ UNCHANGED <<allocVars, linkVars>>
      \/ left > 0 /\ ~AddSucceeds(i.on, i.tx, asked) /\ Rollback

\* stock_receipt_reconcile_apply: a pair that no longer applies is skipped.
StockItem ==
  LET i == Head(job.rest) IN
  \/ StockPairFails(i.on, i.tx) /\ Rollback
  \/ /\ \/ StockPair(i.on, i.tx)
        \/ ~StockPairApplies(i.on, i.tx) /\ UNCHANGED allocVars
     /\ Advance(Tail(job.rest), <<>>)
     /\ UNCHANGED linkVars

(***************************************************************************)
(* ledger_auto_reconcile_apply: the pairs left ticked, expenses before     *)
(* receipts, each pair that no longer holds or that raises being skipped   *)
(* (EXCEPTION WHEN OTHERS).                                                *)
(***************************************************************************)
AutoItem(i) ==
  /\ i.on \in Receipt => \A p \in job.rest : p.on \in Receipt
  /\ \/ i.on \in Expense /\ expense_out_link(i.tx, i.on) /\ UNCHANGED allocVars
     \/ i.on \in Receipt /\ receipt_alloc_add(i.on, i.tx, TxAmount[i.tx]) /\ UNCHANGED expense
     \/ /\ \/ i.on \in Expense /\ ~LinkSucceeds(i.tx, i.on)
           \/ i.on \in Receipt /\ ~AddSucceeds(i.on, i.tx, TxAmount[i.tx])
        /\ UNCHANGED <<allocVars, expense>>
  /\ Advance(job.rest \ {i}, {})
  /\ UNCHANGED <<refund, ship, flags>>

BatchStep ==
  /\ job # Idle
  /\ \/ job.kind = "bulk" /\ BulkItem
     \/ job.kind = "stock" /\ StockItem
     \/ job.kind = "auto" /\ \E i \in job.rest : AutoItem(i)
  /\ UNCHANGED preview

ledger_auto_reconcile_apply(ticked) == Start("auto", ticked) /\ preview' = {}

tx_receipt_alloc_add_bulk(items) == Start("bulk", items) /\ UNCHANGED preview

stock_receipt_reconcile_apply(pairs) == Start("stock", pairs) /\ UNCHANGED preview

(***************************************************************************)
(* The operations on each group of variables, and the next-state relation. *)
(***************************************************************************)
AllocCalls ==
  /\ \E r \in Receipt :
       \/ \E t \in Tx : \E asked \in Asked : receipt_alloc_add(r, t, asked)
       \/ \E t \in Tx : receipt_alloc_remove(r, t)
       \/ \E forced \in BOOLEAN : receipt_alloc_set_forced(r, forced)
       \/ stock_receipt_unreconcile(r)
  /\ UNCHANGED linkVars

ReceiptCalls ==
  \E r \in Receipt : stock_receipt_create(r) \/ stock_receipt_delete(r)

ExpenseCalls ==
  /\ \/ \E t \in Tx, e \in Expense : expense_out_link(t, e)
     \/ \E t \in Tx : expense_out_unlink(t)
     \/ \E e \in Expense, t \in Tx \cup {NoTx} : manual_expense_upsert(e, t)
     \/ \E e \in Expense : manual_expense_delete(e)
  /\ UNCHANGED <<allocVars, refund, ship, flags>>

RefundCalls ==
  /\ \E f \in Refund :
       \/ \E t \in Tx \cup {NoTx} : order_refund_create(f, t)
       \/ \E t \in Tx : order_refund_reconcile(f, t)
       \/ order_refund_mark_cash(f)
       \/ order_refund_unreconcile(f)
       \/ order_delete(f)
  /\ UNCHANGED <<allocVars, expense, ship, flags>>

TransactionCalls ==
  /\ \/ \E t \in Tx, asked \in Asked : shipping_payment_create(t, asked)
     \/ \E t \in Tx : shipping_payment_unlink(t)
     \/ /\ \/ \E t \in Tx, category \in Category \cup {NoCategory}, excluded \in BOOLEAN :
                 transaction_set_expense(t, category, excluded)
           \/ \E t \in Tx, settled \in BOOLEAN : transaction_mark_settled(t, settled)
           \/ \E found \in [Tx -> Category \cup {NoCategory}] : expense_apply_rules(found)
        /\ UNCHANGED ship
  /\ UNCHANGED <<allocVars, refund, expense>>

\* A single call, and the opening or the closing of the dialog.
Call ==
  /\ job = Idle
  /\ UNCHANGED job
  /\ \/ /\ AllocCalls \/ ReceiptCalls \/ ExpenseCalls \/ RefundCalls \/ TransactionCalls
        /\ UNCHANGED preview
     \/ /\ ledger_auto_reconcile_preview \/ preview' = {}
        /\ UNCHANGED <<allocVars, linkVars>>

StartBatch ==
  /\ job = Idle
  /\ UNCHANGED <<allocVars, linkVars>>
  /\ \/ \E ticked \in SUBSET preview \ {{}} : ledger_auto_reconcile_apply(ticked)
     \/ \E i, j \in BulkItems :
          i.tx = j.tx /\ i.on # j.on /\ tx_receipt_alloc_add_bulk(<<i, j>>)
     \/ \E p, q \in Pairs(Receipt) : p # q /\ stock_receipt_reconcile_apply(<<p, q>>)

OutMoneyInit ==
  /\ AllocInit
  /\ refund = [f \in Refund |-> NoRefund]
  /\ expense = [e \in Expense |-> NoExpense]
  /\ ship = [t \in Tx |-> 0]
  /\ flags = [t \in Tx |-> [category |-> NoCategory, settled |-> FALSE, excluded |-> FALSE]]
  /\ preview = {}
  /\ job = Idle

Next == Call \/ StartBatch \/ BatchStep

Spec == OutMoneyInit /\ [][Next]_vars

Snapshots ==
  [alloc : [Tx -> [Receipt -> 0..MaxAmount]], since : [Receipt -> Seq(Tx)],
   bill : [Receipt -> Bills]]

Jobs ==
  [kind : {"bulk"}, rest : Seq(BulkItems) \ {<<>>}, saved : Snapshots]
  \cup [kind : {"stock"}, rest : Seq(Pairs(Receipt)) \ {<<>>}, saved : Snapshots]
  \cup [kind : {"auto"}, rest : SUBSET (Pairs(Receipt) \cup Pairs(Expense)), saved : Snapshots]

TypeOK ==
  /\ AllocTypeOK
  /\ refund \in [Refund -> Refunds]
  /\ expense \in [Expense -> Expenses]
  /\ ship \in [Tx -> 0..MaxAmount]
  /\ flags \in [Tx -> TxFlags]
  /\ preview \subseteq Pairs(Receipt) \cup Pairs(Expense)
  /\ job \in Jobs \cup {Idle}

(***************************************************************************)
(* What the dialog shows can be applied: were the user to confirm at once, *)
(* no pair would be refused, by the checks of receipt_alloc_add and        *)
(* expense_out_link or by a unique index, nor for another pair of the same *)
(* transaction that is applied before it (conflict).                       *)
(***************************************************************************)
PairApplies(p) ==
  IF p.on \in Receipt THEN AddSucceeds(p.on, p.tx, TxAmount[p.tx]) ELSE LinkSucceeds(p.tx, p.on)

CleanPairsApply ==
  /\ \A p \in CleanPairs : PairApplies(p)
  /\ \A p, q \in CleanPairs : p.tx = q.tx => p = q

(***************************************************************************)
(* No call that gives money of a transaction to receipts, by hand or in a  *)
(* batch, with a stale dialog or not, does so when the transaction already *)
(* pays a refund or a manual expense.                                      *)
(***************************************************************************)
NoAllocationOnUsedTx ==
  [][\A t \in Tx :
       receipt_tx_allocated(t)' > receipt_tx_allocated(t)
         => ~RefundLinked(t) /\ ~ExpenseLinked(t)]_vars

(***************************************************************************)
(* "An outgoing transaction may belong to ONE kind only" (the header of    *)
(* ledger_auto_reconcile.sql).  Only receipt_alloc_add and                 *)
(* shipping_payment_create look at the other kinds, and the shipping check *)
(* is absent from stock_receipt_reconcile_apply.                           *)
(***************************************************************************)
OneKindPerTx ==
  \A t \in Tx :
    LET kinds == <<Allocated(t), RefundLinked(t), ExpenseLinked(t), Shipped(t)>>
    IN  Cardinality({k \in DOMAIN kinds : kinds[k]}) <= 1

(***************************************************************************)
(* "With no allocation left the forced flag is removed" (the header of     *)
(* receipt_alloc_recompute); stock_receipt_unreconcile keeps it, and the   *)
(* next allocation, however small, reconciles the bill.                    *)
(***************************************************************************)
ForcedNeedsAllocation == \A r \in Receipt : bill[r].forced => Paid(alloc, r) > 0

(***************************************************************************)
(* "One transaction can be shared between several bills" (migration 055):  *)
(* a request that passes every check of receipt_alloc_add is written.  The *)
(* unique index of migration 009 on the legacy column still refuses the    *)
(* second bill of a transaction.                                           *)
(***************************************************************************)
SplitAccepted ==
  \A r \in Receipt, t \in Tx, asked \in Asked :
    AllocLinksAdmit(t) /\ AllocAdmissible(r, t, asked) => AddSucceeds(r, t, asked)
=============================================================================
