--------------------------- MODULE MCIncomingMoney ---------------------------
EXTENDS IncomingMoney, TLC

CONSTANTS d1, d2, d3, x1, x2, x3, x4, o1, o2

(***************************************************************************)
(* x1 and x2 are free text and fit the total of o1 only, x3 names o1, x4   *)
(* is money out that names o1.  A transfer announced twice meets another   *)
(* of each kind.                                                           *)
(***************************************************************************)
MCAnnounced ==
  {(d1 :> x1) @@ (d2 :> x1) @@ (d3 :> x2),
   (d1 :> x3) @@ (d2 :> x3) @@ (d3 :> x1),
   (d1 :> x4) @@ (d2 :> x3) @@ (d3 :> x1)}

MCAmount == [x \in {x1, x2, x3, x4} |-> 1]
MCMentions == (x1 :> NoOrder) @@ (x2 :> NoOrder) @@ (x3 :> o1) @@ (x4 :> o1)
MCTotal == (o1 :> 1) @@ (o2 :> 2)
MCDeposit == (o1 :> 0) @@ (o2 :> 0)
=============================================================================
