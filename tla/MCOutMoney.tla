----------------------------- MODULE MCOutMoney -----------------------------
EXTENDS OutMoney

CONSTANTS t1, t2, r1, r2, e1

MCTxAmount == (t1 :> 2) @@ (t2 :> 1)
MCBillTotal == (r1 :> 2) @@ (r2 :> 1)
MCExpenseAmount == (e1 :> 2)
MCLineExpenses == (r1 :> {e1}) @@ (r2 :> {})

(***************************************************************************)
(* MaxLinks bounds how many facts other than allocations hold of the       *)
(* transactions together: one is enough to meet an allocation.  While a    *)
(* dialog is open, no state with a flag set and no batch call other than   *)
(* the one that applies the dialog is explored: neither reads the other.   *)
(***************************************************************************)
MaxLinks == 1
Count(P(_)) == Cardinality({t \in Tx : P(t)})
Flags ==
  Count(LAMBDA t : flags[t].settled) + Count(LAMBDA t : flags[t].excluded)
  + Count(LAMBDA t : flags[t].category # NoCategory /\ ~Shipped(t))
Links == Count(RefundLinked) + Count(ExpenseLinked) + Count(Shipped) + Flags
FewLinks ==
  /\ Links <= MaxLinks
  /\ preview # {} => Flags = 0 /\ job = Idle
=============================================================================
