------------------------------ MODULE Tracking -------------------------------
(***************************************************************************)
(* The parcel of an order: its number, its status and the time it was      *)
(* delivered.  A refresh reads the number, asks the carrier and writes     *)
(* what it says (refreshTracking); meanwhile a file of the carrier may     *)
(* give the order another number (order_sync_tracking), or a form may.     *)
(* The order itself is not cancelled.                                      *)
(***************************************************************************)
EXTENDS Naturals

CONSTANTS
  MaxNumber,   \* the parcels are 1..MaxNumber, in the order the carrier made them
  Refreshes,   \* the calls of refreshTracking
  MaxFiles     \* bound on the files and forms

TrackingAssumption == MaxNumber \in Nat /\ MaxFiles \in Nat

VARIABLES
  parcel,    \* parcel[n]: what the carrier knows
  number,    \* tracking_number
  shown,     \* tracking_status
  delivered, \* the parcel whose time is in delivered_at
  refresh,
  files,
  typed      \* a form changed the number (history)

vars == <<parcel, number, shown, delivered, refresh, files, typed>>

Numbers == 1..MaxNumber
NoNumber == 0
Final == {"delivered", "cancelled"}
Idle == [pc |-> "idle"]

Init ==
  /\ parcel = [n \in Numbers |-> "moving"]
  /\ number = NoNumber /\ shown = "none" /\ delivered = NoNumber
  /\ refresh = [r \in Refreshes |-> Idle]
  /\ files = 0 /\ typed = FALSE

\* The carrier delivers a parcel, or its sender cancels it.
Carry(n) ==
  /\ parcel[n] = "moving"
  /\ \E s \in Final : parcel' = [parcel EXCEPT ![n] = s]
  /\ UNCHANGED <<number, shown, delivered, refresh, files, typed>>

\* trackedForRefresh: the orders with a number, but those shown as delivered once both times
\* are known; the time the parcel was shipped, shipped_at, is left open here.
Read(r) ==
  /\ refresh[r] = Idle /\ number # NoNumber
  /\ refresh' = [refresh EXCEPT ![r] = [pc |-> "fetch", number |-> number]]
  /\ UNCHANGED <<parcel, number, shown, delivered, files, typed>>

\* fetchTracking: what fails comes back empty, and nothing is written.
Fetch(r) ==
  LET n == refresh[r].number IN
  /\ refresh[r].pc = "fetch"
  /\ \/ refresh' = [refresh EXCEPT ![r] = [pc |-> "write", number |-> n, says |-> parcel[n]]]
     \/ refresh' = [refresh EXCEPT ![r] = Idle]
  /\ UNCHANGED <<parcel, number, shown, delivered, files, typed>>

\* The time is kept once it is there, and the carrier may not tell it.
DeliveredAt(r) ==
  IF delivered = NoNumber /\ refresh[r].says = "delivered" THEN refresh[r].number ELSE delivered

\* setTrackingStatus, by the id of the order.
Write(r) ==
  /\ refresh[r].pc = "write"
  /\ shown' = refresh[r].says
  /\ delivered' \in {DeliveredAt(r), delivered}
  /\ refresh' = [refresh EXCEPT ![r] = Idle]
  /\ UNCHANGED <<parcel, number, files, typed>>

\* (A mistake: the newest parcel of the file always wins.)
Decision_Newest(best, gone) ==
  IF best = NoNumber THEN IF number \in gone THEN "cancelled" ELSE "noop"
  ELSE IF best = number THEN "skip" ELSE "replace"

\* best: the newest parcel of the file that is not cancelled; gone: the cancelled ones.
Decision(best, gone) ==
  IF best = NoNumber THEN IF number \in gone THEN "cancelled" ELSE "noop"
  ELSE IF number = NoNumber THEN "assign"
  ELSE IF number # best /\ number \in gone THEN "replace" ELSE "skip"

\* The newest of some parcels, by its number.
IsNewest(best, ns) ==
  IF ns = {} THEN best = NoNumber ELSE best \in ns /\ \A n \in ns : n <= best

\* A file made earlier, of some parcels of the order, is applied.
Sync(rows, gone, best) ==
  LET action == Decision(best, gone) IN
  /\ files < MaxFiles /\ files' = files + 1
  /\ gone \subseteq {n \in rows : parcel[n] = "cancelled"}
  /\ IsNewest(best, rows \ gone)
  /\ number' = IF action \in {"assign", "replace"} THEN best ELSE number
  /\ \/ action \in {"assign", "replace"} /\ shown' \in {"moving", parcel[best]} \ {"cancelled"}
     \/ action = "cancelled" /\ shown' = "cancelled"
     \/ action \in {"noop", "skip"} /\ shown' = shown
  /\ UNCHANGED <<parcel, delivered, refresh, typed>>

\* order_update with a tracking number: the status stays.
Form ==
  /\ files < MaxFiles /\ files' = files + 1
  /\ number' \in (Numbers \cup {NoNumber}) \ {number}
  /\ typed' = TRUE
  /\ UNCHANGED <<parcel, shown, delivered, refresh>>

Next ==
  \/ \E n \in Numbers : Carry(n)
  \/ \E r \in Refreshes : Read(r) \/ Fetch(r) \/ Write(r)
  \/ \E rows \in SUBSET Numbers :
       \E gone \in SUBSET rows, best \in Numbers \cup {NoNumber} : Sync(rows, gone, best)
  \/ Form

Spec == Init /\ [][Next]_vars

-----------------------------------------------------------------------------
\* The order and the calls are well formed.
TypeOK ==
  /\ parcel \in [Numbers -> {"moving"} \cup Final]
  /\ number \in Numbers \cup {NoNumber} /\ delivered \in Numbers \cup {NoNumber}
  /\ shown \in {"none", "moving"} \cup Final
  /\ \A r \in Refreshes : refresh[r].pc \in {"idle", "fetch", "write"}
  /\ files \in 0..MaxFiles /\ typed \in BOOLEAN

\* The time of delivery is that of the parcel the order has, whatever files are applied while
\* a refresh is under way (order_sync_tracking only replaces a number that was cancelled), as
\* long as no one typed another number over it.
DeliveredIsItsOwn ==
  ~typed /\ delivered # NoNumber => delivered = number /\ parcel[number] = "delivered"
=============================================================================
