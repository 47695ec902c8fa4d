------------------------- MODULE ReceiptAllocations -------------------------
(***************************************************************************)
(* The allocation table receipt_tx_allocations between bank transactions   *)
(* (Tx) and stock receipts (Receipt), and the columns of stock_receipts    *)
(* that are computed from it.  One call of a stored function is one        *)
(* database transaction, so every operator below is the whole effect of a  *)
(* call (or of one iteration of a batch call) on these three variables.    *)
(* Amounts are whole VND: the 0.0001 tolerance of the code never matters.  *)
(***************************************************************************)
EXTENDS Integers, FiniteSets, SequencesExt

CONSTANTS
  Tx,         \* transaction ids
  Receipt,    \* stock receipt ids
  TxAmount,   \* transactions.transfer_amount
  BillTotal,  \* stock_receipts.total_amount, never rewritten after creation
  MaxAmount,  \* bound on every amount of money
  NoTx,       \* NULL transaction_id
  NoTotal     \* NULL total_amount

ASSUME TxAssumption == IsFiniteSet(Tx) /\ IsFiniteSet(Receipt) /\ NoTx \notin Tx
ASSUME AmountAssumption ==
  /\ MaxAmount \in Nat
  /\ TxAmount \in [Tx -> 1..MaxAmount]
  /\ NoTotal \notin Nat
  /\ BillTotal \in [Receipt -> 0..MaxAmount \cup {NoTotal}]

VARIABLES
  alloc,  \* alloc[t][r]: amount of the row (r, t), 0 when there is no such row
  since,  \* since[r]: the transactions allocated to r, ORDER BY created_at
  bill    \* the reconciliation columns of stock_receipts

allocVars == <<alloc, since, bill>>

(***************************************************************************)
(* sum(amount): a sum of the amounts f over S counted as the set of the    *)
(* units of money it is made of.                                           *)
(***************************************************************************)
Units(f, S) == {u \in S \X (1..MaxAmount) : u[2] <= f[u[1]]}
TotalOf(f, S) == Cardinality(Units(f, S))

receipt_tx_allocated(t) == TotalOf(alloc[t], Receipt)
receipt_tx_remaining(t) == TxAmount[t] - receipt_tx_allocated(t)

Paid(a, r) == TotalOf([t \in Tx |-> a[t][r]], Tx)
TotalOrZero(r) == IF BillTotal[r] = NoTotal THEN 0 ELSE BillTotal[r]

NoBill == [exists |-> FALSE, reconciled |-> FALSE, forced |-> FALSE, ptr |-> NoTx]
NewBill == [NoBill EXCEPT !.exists = TRUE]
Bills == [exists : BOOLEAN, reconciled : BOOLEAN, forced : BOOLEAN, ptr : Tx \cup {NoTx}]

\* The legacy stock_receipts.transaction_id: the oldest allocation of the bill.
FirstTx(s) == IF s = <<>> THEN NoTx ELSE Head(s)

(***************************************************************************)
(* receipt_alloc_recompute, given the flag reconcile_forced it reads, the  *)
(* table a and the order s of r's rows.  Its UPDATE goes through the       *)
(* partial unique index uniq_receipt_txn.                                  *)
(***************************************************************************)
Recomputed(r, wasForced, a, s) ==
  LET paid   == Paid(a, r)
      forced == wasForced /\ paid > 0
  IN  [bill[r] EXCEPT
         !.forced = forced,
         !.reconciled = /\ BillTotal[r] # NoTotal
                        /\ paid > 0
                        /\ forced \/ paid >= BillTotal[r],
         !.ptr = FirstTx(s)]

IndexAdmits(r, s) ==
  s # <<>> => \A q \in Receipt \ {r} : bill[q].ptr # Head(s)

receipt_alloc_recompute(r) ==
  /\ IndexAdmits(r, since'[r])
  /\ bill' = [bill EXCEPT ![r] = Recomputed(r, bill[r].forced, alloc', since'[r])]

\* INSERT ... ON CONFLICT DO UPDATE SET amount, created_at = now().
Upserted(r, t) == [since EXCEPT ![r] = Append(RemoveFirst(@, t), t)]

WriteAlloc(r, t, amount) ==
  /\ alloc' = [alloc EXCEPT ![t][r] = amount]
  /\ since' = Upserted(r, t)
  /\ receipt_alloc_recompute(r)

(***************************************************************************)
(* receipt_alloc_add: asked is the amount of the request, 0 when it has    *)
(* none (or one <= 0, which the code treats alike).                        *)
(***************************************************************************)
\* Mutants: the row being edited is counted twice; the other rows are forgotten.
Room_Twice(t, r) == receipt_tx_remaining(t) + 2 * alloc[t][r]
Room_ForgetsOthers(t, r) == TxAmount[t]

Room(t, r) == receipt_tx_remaining(t) + alloc[t][r]

Missing(t, r) == TotalOrZero(r) - Paid(alloc, r) + alloc[t][r]

AllocAmount(r, t, asked) ==
  IF asked > 0 THEN asked
  ELSE IF Missing(t, r) > 0 /\ Missing(t, r) < Room(t, r) THEN Missing(t, r)
  ELSE Room(t, r)

AllocAdmissible(r, t, asked) ==
  /\ bill[r].exists
  /\ AllocAmount(r, t, asked) \in 1..Room(t, r)

AddAlloc(r, t, asked) ==
  /\ AllocAdmissible(r, t, asked)
  /\ WriteAlloc(r, t, AllocAmount(r, t, asked))

\* Mutant: the bill is not recomputed after the row is gone.
receipt_alloc_remove_NoRecompute(r, t) ==
  /\ alloc[t][r] > 0
  /\ alloc' = [alloc EXCEPT ![t][r] = 0]
  /\ since' = [since EXCEPT ![r] = RemoveFirst(@, t)]
  /\ UNCHANGED bill

\* receipt_alloc_remove, and tx_receipt_alloc_remove from the transaction's side.
receipt_alloc_remove(r, t) ==
  /\ alloc[t][r] > 0
  /\ alloc' = [alloc EXCEPT ![t][r] = 0]
  /\ since' = [since EXCEPT ![r] = RemoveFirst(@, t)]
  /\ receipt_alloc_recompute(r)

\* receipt_alloc_set_forced: forcing needs at least one allocation.
receipt_alloc_set_forced(r, forced) ==
  /\ bill[r].exists
  /\ forced => Paid(alloc, r) > 0
  /\ bill' = [bill EXCEPT ![r] = Recomputed(r, forced, alloc, since[r])]
  /\ UNCHANGED <<alloc, since>>

\* Every row of r disappears: ON DELETE CASCADE, or the DELETE of unreconcile.
ClearAllocs(r) ==
  /\ alloc' = [t \in Tx |-> [alloc[t] EXCEPT ![r] = 0]]
  /\ since' = [since EXCEPT ![r] = <<>>]

\* Mutant: the legacy pointer survives the rows.
stock_receipt_unreconcile_KeepsPointer(r) ==
  /\ bill[r].exists
  /\ ClearAllocs(r)
  /\ bill' = [bill EXCEPT ![r].reconciled = FALSE]

\* stock_receipt_unreconcile leaves reconcile_forced as it is.
stock_receipt_unreconcile(r) ==
  /\ bill[r].exists
  /\ ClearAllocs(r)
  /\ bill' = [bill EXCEPT ![r].reconciled = FALSE, ![r].ptr = NoTx]

AllocInit ==
  /\ alloc = [t \in Tx |-> [r \in Receipt |-> 0]]
  /\ since = [r \in Receipt |-> <<>>]
  /\ bill = [r \in Receipt |-> NoBill]

AllocTypeOK ==
  /\ alloc \in [Tx -> [Receipt -> 0..MaxAmount]]
  /\ since \in [Receipt -> Seq(Tx)]
  /\ bill \in [Receipt -> Bills]

(***************************************************************************)
(* Migration 055: the allocations of a transaction never exceed its        *)
(* transfer_amount, whatever sequence of additions, edits, batches and     *)
(* automatic reconciliations produced them.                                *)
(***************************************************************************)
NoOverAllocation == \A t \in Tx : receipt_tx_allocated(t) <= TxAmount[t]

(***************************************************************************)
(* The stored flag reconciled is what its comment says it is: paid in full *)
(* or forced by hand, and never without an allocation.                     *)
(***************************************************************************)
ReconciledIsPaid ==
  \A r \in Receipt :
    LET paid == Paid(alloc, r) IN
    bill[r].reconciled <=> /\ BillTotal[r] # NoTotal
                           /\ paid > 0
                           /\ bill[r].forced \/ paid >= BillTotal[r]

(***************************************************************************)
(* The legacy pointer the ledger reads never dangles: it is the oldest     *)
(* allocation of the bill, that row still has money in it, and the order   *)
(* lists exactly the rows of the table.                                    *)
(***************************************************************************)
PointerIsOldest ==
  \A r \in Receipt :
    /\ bill[r].ptr = FirstTx(since[r])
    /\ ToSet(since[r]) = {t \in Tx : alloc[t][r] > 0}
    /\ Len(since[r]) = Cardinality(ToSet(since[r]))
=============================================================================
