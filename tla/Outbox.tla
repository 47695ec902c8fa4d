------------------------------- MODULE Outbox --------------------------------
(***************************************************************************)
(* What the sending of Zalo messages promises its callers: a message they  *)
(* hand over ends with a line in the journal the shop reads ("Thông báo"), *)
(* and only a message that a fault touched (a crash of the process, a      *)
(* failed write of the journal) may disappear without one.                 *)
(***************************************************************************)
CONSTANT Messages

VARIABLES
  fate,  \* where each message stands
  hit    \* the messages some fault touched

Fates == {"unsent", "skipped", "held", "journalled", "dropped"}

TypeOK == fate \in [Messages -> Fates] /\ hit \in SUBSET Messages

Init == fate = [m \in Messages |-> "unsent"] /\ hit = {}

Settled(m) == fate[m] \in {"journalled", "dropped"}

Accept(m) ==
  /\ fate[m] = "unsent"
  /\ fate' = [fate EXCEPT ![m] = "held"]
  /\ UNCHANGED hit

\* The feature of the message is switched off: nothing is sent, nothing is written.
Skip(m) ==
  /\ fate[m] = "unsent"
  /\ fate' = [fate EXCEPT ![m] = "skipped"]
  /\ UNCHANGED hit

Journal(m) ==
  /\ fate[m] = "held"
  /\ fate' = [fate EXCEPT ![m] = "journalled"]
  /\ UNCHANGED hit

\* A fault touches the messages S; some of those still held are lost at once.
Fault(S) ==
  /\ hit' = hit \cup S
  /\ \E L \in SUBSET {m \in S : fate[m] = "held"} :
       fate' = [m \in Messages |-> IF m \in L THEN "dropped" ELSE fate[m]]

Drop(m) ==
  /\ fate[m] = "held" /\ m \in hit
  /\ fate' = [fate EXCEPT ![m] = "dropped"]
  /\ UNCHANGED hit

Next ==
  \/ \E m \in Messages : Accept(m) \/ Skip(m) \/ Journal(m) \/ Drop(m)
  \/ \E S \in SUBSET Messages : Fault(S)

EventuallySettled == \A m \in Messages : fate[m] = "held" ~> Settled(m)

Safety == Init /\ [][Next]_<<fate, hit>>
Spec == Safety /\ EventuallySettled
=============================================================================
