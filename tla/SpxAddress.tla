----------------------------- MODULE SpxAddress ------------------------------
(***************************************************************************)
(* The address of an order refined into the carrier's catalogues, one of   *)
(* three levels and one of two (resolveOrderSpx, resolveOrderSpx2).  A     *)
(* call reads the address and what was refined before, asks the catalogue  *)
(* and the model of the AI service, and then writes over whatever is       *)
(* there; the form may change the address, and a hand pick may be saved,   *)
(* while it waits.                                                         *)
(***************************************************************************)
EXTENDS Naturals

CONSTANTS
  Addresses,        \* what the form may say: the address and the city, joined
  Blank,            \* the one of them that says nothing
  Calls,            \* the calls of the service
  MaxEdits          \* bound on the edits of the form

SpxAssumption == Blank \in Addresses /\ MaxEdits \in Nat

VARIABLES
  address,  \* address and customer_city of the order
  refined,  \* refined[l]: the columns spx_* and spx2_* of the order
  calls,
  edits

vars == <<address, refined, calls, edits>>

Levels == {"three", "two"}
Hand == "hand"

\* of: the address the value was refined from (history); source: the column of that name,
\* whose NULL counts as a blank address.
Init ==
  /\ address \in Addresses
  /\ refined = [l \in Levels |-> [of |-> Blank, source |-> Blank, manual |-> FALSE]]
  /\ calls = [c \in Calls |-> [pc |-> "new"]]
  /\ edits = 0

\* updateOrder: the form carries another address.
Edit ==
  /\ edits < MaxEdits /\ edits' = edits + 1
  /\ address' \in Addresses \ {address}
  /\ UNCHANGED <<refined, calls>>

\* Where a call goes when it ends with level l: resolveOrderSpxBoth does the other one.
After(call, l) ==
  IF call.both /\ l = "three"
  THEN [pc |-> "read", level |-> "two", force |-> call.force, both |-> TRUE, by |-> "service"]
  ELSE [pc |-> "end"]

\* (A mistake: a hand pick counts for nothing.)
Skips_OverHand(call, l) == ~call.force /\ refined[l].source = address

\* What is left alone: a hand pick, and an address refined before.
Skips(call, l) == ~call.force /\ (refined[l].manual \/ refined[l].source = address)

\* The controller takes the call: of one level, or of both.
Resolve(c) ==
  /\ calls[c].pc = "new"
  /\ \E l \in Levels, force, both \in BOOLEAN :
       /\ both => l = "three"
       /\ calls' = [calls EXCEPT ![c] =
            [pc |-> "read", level |-> l, force |-> force, both |-> both, by |-> "service"]]
  /\ UNCHANGED <<address, refined, edits>>

\* getAddressForResolve, and what is decided from it.
Read(c) ==
  LET call == calls[c] IN
  /\ call.pc = "read" /\ call.by = "service"
  /\ calls' = [calls EXCEPT ![c] =
       IF Skips(call, call.level) THEN After(call, call.level)
       ELSE [pc |-> "write", source |-> address, level |-> call.level, force |-> call.force,
             both |-> call.both, by |-> "service", picked |-> refined[call.level].manual]]
  /\ UNCHANGED <<address, refined, edits>>

\* (A mistake: the source is taken from the order when the answer is there.)
Written_SourceNow(call) == [of |-> call.source, source |-> address, manual |-> FALSE]

\* The columns an answer sets together (order_set_spx_address, order_set_spx2_address).
Written(call) == [of |-> call.source, source |-> call.source, manual |-> FALSE]

\* The answer arrives and is written, unconditionally.
Write(c) ==
  LET call == calls[c] IN
  /\ call.pc = "write" /\ call.by = "service"
  /\ refined' = [refined EXCEPT ![call.level] = Written(call)]
  /\ calls' = [calls EXCEPT ![c] = After(call, call.level)]
  /\ UNCHANGED <<address, edits>>

\* The service of the AI fails: the exception ends the call, of both levels too.
Fails(c) ==
  /\ calls[c].pc = "write" /\ calls[c].by = "service" /\ calls[c].source # Blank
  /\ calls' = [calls EXCEPT ![c] = [pc |-> "end"]]
  /\ UNCHANGED <<address, refined, edits>>

\* setOrderSpxAddressManual, setOrderSpx2AddressManual: the address is read first, too.
Pick(c) ==
  /\ calls[c].pc = "new"
  /\ \E l \in Levels :
       calls' = [calls EXCEPT ![c] =
         [pc |-> "write", level |-> l, source |-> address, by |-> "hand"]]
  /\ UNCHANGED <<address, refined, edits>>

WritePick(c) ==
  LET call == calls[c] IN
  /\ call.pc = "write" /\ call.by = "hand"
  /\ refined' = [refined EXCEPT ![call.level] =
       [of |-> Hand, source |-> call.source, manual |-> TRUE]]
  /\ calls' = [calls EXCEPT ![c] = [pc |-> "end"]]
  /\ UNCHANGED <<address, edits>>

Next ==
  \/ Edit
  \/ \E c \in Calls : Resolve(c) \/ Read(c) \/ Write(c) \/ Fails(c) \/ Pick(c) \/ WritePick(c)

Spec == Init /\ [][Next]_vars

-----------------------------------------------------------------------------
\* The columns and the calls are well formed.
TypeOK ==
  /\ address \in Addresses /\ edits \in 0..MaxEdits
  /\ refined \in [Levels -> [of : Addresses \cup {Hand},
                             source : Addresses, manual : BOOLEAN]]
  /\ \A c \in Calls : calls[c].pc \in {"new", "read", "write", "end"}

\* What was refined of another address never passes for refined of this one: were it so,
\* no later call would refine it again (spx_source, spx2_source).  Calls that cross may
\* leave the older answer, but with the older source.
StaleIsMarked ==
  \A l \in Levels : ~refined[l].manual /\ refined[l].source = address => refined[l].of = address

\* A hand pick is only lost to a call that asks for it, or that read before it.
HandPickKept ==
  [][\A l \in Levels : refined[l].manual /\ ~refined'[l].manual =>
       \E c \in Calls : /\ calls[c].pc = "write" /\ calls'[c] # calls[c] /\ calls[c].level = l
                        /\ calls[c].force \/ ~calls[c].picked]_vars
=============================================================================
