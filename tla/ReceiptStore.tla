---------------------------- MODULE ReceiptStore -----------------------------
(***************************************************************************)
(* The receipts of one supplier: saveStockReceiptDraft and deleteReceipt   *)
(* over stock_receipt_create and stock_receipt_delete.  Each is one        *)
(* transaction; two of them overlap until they meet at a receipt they both *)
(* delete, or at the row of the supplier, which counts its receipts: a     *)
(* save adds one to it, a delete counts anew what was committed when its   *)
(* statement began.                                                        *)
(***************************************************************************)
EXTENDS Naturals, FiniteSets

CONSTANTS
  Clerks,      \* those who save and delete, one call each at a time
  Hashes,      \* the bill_hash of the drafts
  MaxReceipts  \* bound on the calls that save

StoreAssumption == MaxReceipts \in Nat /\ IsFiniteSet(Clerks)

VARIABLES
  receipts, \* the committed rows of stock_receipts
  count,    \* receipt_count of the row of suppliers
  lock,     \* the transaction that has written the row of the supplier
  calls,    \* the call of each clerk
  asked,
  drifted   \* the last delete overlapped a commit it could not see (history)

vars == <<receipts, count, lock, calls, asked, drifted>>

Sources == {"ocr", "manual"}
Nobody == "nobody"
Free == [pc |-> "free"]

Init ==
  /\ receipts = {} /\ count = 0
  /\ lock = Nobody
  /\ calls = [c \in Clerks |-> Free]
  /\ asked = 0 /\ drifted = FALSE

\* The row is locked by the transaction that has deleted it, to the end of that one.
BeingDeleted(id) ==
  \E c \in Clerks : calls[c].pc \in {"deleted", "counted"} /\ calls[c].id = id

\* (A mistake: a bill that was paid is not compared with.)
Duplicate_Unpaid(hash) == \E r \in receipts : r.hash = hash /\ ~r.reconciled

Duplicate(hash) == \E r \in receipts : r.hash = hash

\* The draft of a photo is refused when its hash is known, DUPLICATE_BILL; what was typed
\* in by hand is not compared.
Save(c) ==
  /\ calls[c] = Free /\ asked < MaxReceipts /\ asked' = asked + 1
  /\ \E hash \in Hashes, source \in Sources :
       /\ source = "ocr" => ~Duplicate(hash)
       /\ calls' = [calls EXCEPT ![c] =
            [pc |-> "checked", id |-> asked', hash |-> hash, source |-> source]]
  /\ UNCHANGED <<receipts, count, lock, drifted>>

\* The statistics of the supplier are written first, which locks its row.
AddToSupplier(c) ==
  /\ calls[c].pc = "checked" /\ lock = Nobody
  /\ lock' = c
  /\ calls' = [calls EXCEPT ![c].pc = "added"]
  /\ UNCHANGED <<receipts, count, asked, drifted>>

\* A commit: the deletes that counted before it did not see it.
Unseen == [c \in Clerks |->
  IF calls[c].pc = "counted" THEN [calls[c] EXCEPT !.crossed = TRUE] ELSE calls[c]]

CommitSave(c) ==
  /\ calls[c].pc = "added"
  /\ receipts' = receipts \cup
       {[id |-> calls[c].id, hash |-> calls[c].hash, source |-> calls[c].source,
         reconciled |-> FALSE]}
  /\ count' = count + 1
  /\ lock' = Nobody
  /\ calls' = [Unseen EXCEPT ![c] = Free]
  /\ UNCHANGED <<asked, drifted>>

\* A payment is linked to the receipt, or unlinked (OutMoney has the whole of it).
Reconcile ==
  \E r \in receipts :
    /\ ~BeingDeleted(r.id)
    /\ receipts' = (receipts \ {r}) \cup {[r EXCEPT !.reconciled = ~@]}
    /\ UNCHANGED <<count, lock, calls, asked, drifted>>

\* A receipt that is paid is not deleted (the exception of stock_receipt_delete); one that
\* another call is deleting is still there.
Delete(c) ==
  /\ calls[c] = Free
  /\ \E r \in receipts :
       /\ ~r.reconciled
       /\ calls' = [calls EXCEPT ![c] = [pc |-> "found", id |-> r.id]]
  /\ UNCHANGED <<receipts, count, lock, asked, drifted>>

\* Its lines and the row: it waits for who deletes them, and then has nothing to delete.
DeleteRow(c) ==
  /\ calls[c].pc = "found" /\ ~BeingDeleted(calls[c].id)
  /\ calls' = [calls EXCEPT ![c].pc = "deleted"]
  /\ UNCHANGED <<receipts, count, lock, asked, drifted>>

\* (A mistake: the receipt is counted before it is deleted.)
Remaining_Before(id) == Cardinality(receipts)

Remaining(id) == Cardinality({r \in receipts : r.id # id})

\* The statement counts what is committed, less what its own transaction deleted, and then
\* waits for the row of the supplier.
Count(c) ==
  /\ calls[c].pc = "deleted"
  /\ calls' = [calls EXCEPT ![c] =
       [pc |-> "counted", id |-> @.id, n |-> Remaining(@.id), crossed |-> FALSE]]
  /\ lock' = IF lock = Nobody THEN c ELSE lock
  /\ UNCHANGED <<receipts, count, asked, drifted>>

GetRow(c) ==
  /\ calls[c].pc = "counted" /\ lock = Nobody
  /\ lock' = c
  /\ UNCHANGED <<receipts, count, calls, asked, drifted>>

CommitDelete(c) ==
  /\ calls[c].pc = "counted" /\ lock = c
  /\ receipts' = {r \in receipts : r.id # calls[c].id}
  /\ count' = calls[c].n
  /\ drifted' = calls[c].crossed
  /\ lock' = Nobody
  /\ calls' = [Unseen EXCEPT ![c] = Free]
  /\ UNCHANGED asked

Next ==
  \/ \E c \in Clerks :
       \/ Save(c) \/ AddToSupplier(c) \/ CommitSave(c)
       \/ Delete(c) \/ DeleteRow(c) \/ Count(c) \/ GetRow(c) \/ CommitDelete(c)
  \/ Reconcile

Spec == Init /\ [][Next]_vars

-----------------------------------------------------------------------------
\* The rows and the calls are well formed.
TypeOK ==
  /\ receipts \subseteq [id : 1..MaxReceipts, hash : Hashes, source : Sources,
                         reconciled : BOOLEAN]
  /\ count \in 0..MaxReceipts
  /\ lock \in Clerks \cup {Nobody}
  /\ \A c \in Clerks : calls[c].pc \in {"free", "checked", "added", "found", "deleted", "counted"}
  /\ asked \in 0..MaxReceipts /\ drifted \in BOOLEAN

\* The supplier counts its receipts, however saves and deletes follow each other, unless a
\* delete counted while another transaction was to commit; the next delete repairs it.
SupplierCounted == ~drifted => count = Cardinality(receipts)

\* What was read from photos of one bill, by its hash.
ReadOf(hash) == {r \in receipts : r.source = "ocr" /\ r.hash = hash}

\* No index keeps a bill from entering twice, only a look at the receipts before each save.
\* Still a bill is there at most as often as it could be being saved at one moment, whatever
\* is saved, paid and deleted over time: who begins after a save is refused
\* (DUPLICATE_BILL of stock_receipt_create).
BillsBounded == \A hash \in Hashes : Cardinality(ReadOf(hash)) <= Cardinality(Clerks)
=============================================================================
