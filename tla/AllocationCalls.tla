--------------------------- MODULE AllocationCalls ----------------------------
(***************************************************************************)
(* Calls of receipt_alloc_add and receipt_alloc_remove that overlap.  Each *)
(* is one transaction at READ COMMITTED: what it reads is what others have *)
(* committed, with what it wrote itself, and no row of the transaction or  *)
(* of the bill is locked while it checks and sums.  ReceiptAllocations has *)
(* the whole of these functions, for calls one after the other.            *)
(***************************************************************************)
EXTENDS Integers, FiniteSetsExt

CONSTANTS
  Tx, Receipt,
  TxAmount,   \* transfer_amount of each transaction
  BillTotal,  \* total_amount of each bill
  Clerks,     \* those who call, one call each at a time
  MaxCalls    \* bound on the calls

VARIABLES
  rows,       \* rows[t][r]: the committed row of r and t, its amount 0 when there is none
  pointer,    \* the legacy transaction_id of each bill
  calls, begun

vars == <<rows, pointer, calls, begun>>

Free == [pc |-> "free"]
NoTx == "none"
NoRow == [amount |-> 0, at |-> 0]

Init ==
  /\ rows = [t \in Tx |-> [r \in Receipt |-> NoRow]]
  /\ pointer = [r \in Receipt |-> NoTx]
  /\ calls = [c \in Clerks |-> Free] /\ begun = 0

receipt_tx_allocated(t) == MapThenSumSet(LAMBDA r : rows[t][r].amount, Receipt)
Paid(table, r) == MapThenSumSet(LAMBDA t : table[t][r].amount, Tx)

\* The oldest row of the bill; its created_at is when the call began.
First(table, r) ==
  LET given == {t \in Tx : table[t][r].amount > 0}
  IN IF given = {} THEN NoTx
     ELSE CHOOSE t \in given : \A u \in given : table[t][r].at <= table[u][r].at

Begins(c, pc, t, r, amount) ==
  /\ calls[c] = Free /\ begun < MaxCalls /\ begun' = begun + 1
  /\ calls' = [calls EXCEPT ![c] =
       [pc |-> pc, tx |-> t, on |-> r, row |-> [amount |-> amount, at |-> begun']]]
  /\ UNCHANGED <<rows, pointer>>

\* receipt_alloc_add, up to its INSERT: the amount is what the bill lacks, or else what the
\* transaction has left.
Check(c) ==
  \E t \in Tx, r \in Receipt :
    LET room == TxAmount - receipt_tx_allocated(t) + rows[t][r].amount
        missing == BillTotal - Paid(rows, r) + rows[t][r].amount
    IN /\ room > 0
       /\ Begins(c, "checked", t, r, IF missing > 0 /\ missing < room THEN missing ELSE room)

\* The row of a pair belongs to the call that wrote it, to its end.
Written(t, r) ==
  \E c \in Clerks : calls[c].pc \in {"written", "summed"} /\ calls[c].tx = t /\ calls[c].on = r

Insert(c) ==
  /\ calls[c].pc = "checked" /\ ~Written(calls[c].tx, calls[c].on)
  /\ calls' = [calls EXCEPT ![c].pc = "written"]
  /\ UNCHANGED <<rows, pointer, begun>>

\* receipt_alloc_remove, and its DELETE.
Remove(c) ==
  \E t \in Tx, r \in Receipt :
    rows[t][r].amount > 0 /\ ~Written(t, r) /\ Begins(c, "written", t, r, 0)

\* The table as the call sees it.
Seen(call) == [rows EXCEPT ![call.tx][call.on] = call.row]

\* receipt_alloc_recompute looks for the oldest row of the bill (and sums them, for a flag
\* that no step here reads),
Sum(c) ==
  LET call == calls[c] IN
  /\ call.pc = "written"
  /\ calls' = [calls EXCEPT ![c] =
       [pc |-> "summed", tx |-> call.tx, on |-> call.on, row |-> call.row,
        first |-> First(Seen(call), call.on)]]
  /\ UNCHANGED <<rows, pointer, begun>>

\* and writes it on the bill once its row is free, unless the index of the legacy column
\* refuses it; the call commits.
Save(c) ==
  LET call == calls[c] IN
  /\ call.pc = "summed"
  /\ call.first # NoTx => \A q \in Receipt \ {call.on} : pointer[q] # call.first
  /\ rows' = Seen(call)
  /\ pointer' = [pointer EXCEPT ![call.on] = call.first]
  /\ calls' = [calls EXCEPT ![c] = Free]
  /\ UNCHANGED begun

\* The function raises, or the connection is lost: nothing is written.
Fails(c) ==
  /\ calls[c] # Free
  /\ calls' = [calls EXCEPT ![c] = Free]
  /\ UNCHANGED <<rows, pointer, begun>>

Next == \E c \in Clerks : Check(c) \/ Insert(c) \/ Remove(c) \/ Sum(c) \/ Save(c) \/ Fails(c)

Spec == Init /\ [][Next]_vars

-----------------------------------------------------------------------------
\* What migration 055 says of the table: a transaction is not given to bills beyond its
\* amount, so that no money out counts twice.
TotalWithinTransaction == \A t \in Tx : receipt_tx_allocated(t) <= TxAmount
=============================================================================
