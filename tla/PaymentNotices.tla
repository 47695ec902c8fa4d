--------------------------- MODULE PaymentNotices ----------------------------
(***************************************************************************)
(* What is told of a transfer: webhook_sepay looks for its row and, when   *)
(* there is none, writes it; once that is committed handleSepay sends the  *)
(* toast and the message to the Zalo group, the sound of the POS device    *)
(* and, three seconds later, the end of the QR the device shows            *)
(* (emitOrderPaid, over MqttService, which drops what it is given while it *)
(* is not connected).  IncomingMoney has the money itself.                 *)
(***************************************************************************)
EXTENDS Naturals

CONSTANTS
  Transfers,  \* the transfers SePay reports, each perhaps several times
  Orders,
  Untold,     \* the transfers of accounts left out of SEPAY_NOTIFY_ACCOUNTS
  MaxReports, MaxFaults, MaxShows \* bounds

NoQr == "none"

NoticesAssumption ==
  /\ NoQr \notin Orders
  /\ Untold \subseteq Transfers
  /\ MaxReports \in Nat /\ MaxFaults \in Nat /\ MaxShows \in Nat

VARIABLES
  outcome,  \* outcome[t]: what webhook_sepay made of it, once there is a row of it
  runs,     \* runs[t][h]: how far the handler h is with it
  reports,  \* how often SePay, or a retry of the job, reported one
  toasts, messages, \* toasts[t], messages[t]: how often it was told
  retained, \* the QR kept by the broker under order/create
  timers,   \* the setTimeouts of emitOrderPaid, by their order
  connected,
  paid,     \* orders told to be paid since their QR was last shown (history)
  lost,     \* of those, the ones whose QR was not cleared (history)
  unheard,  \* transfers written by a handler that was not to hear of it (history)
  overlapped, \* transfers looked for by both handlers before either wrote (history)
  faults, shows

vars == <<outcome, runs, reports, toasts, messages, retained, timers, connected,
          paid, lost, unheard, overlapped, faults, shows>>

\* The job of the queue, and the request that handles a report itself when Redis refuses it.
Handlers == {"worker", "request"}
Other(h) == IF h = "worker" THEN "request" ELSE "worker"

\* It paid an order; or it is money out, or in for no order, or for one of several.
Outcomes == [kind : {"matched"}, order : Orders] \cup [kind : {"unmatched"}]
Unknown == [kind |-> "unknown"]
Idle == [kind |-> "idle"]
Absent == [kind |-> "absent"] \* there was no row when it looked

Init ==
  /\ outcome = [t \in Transfers |-> Unknown]
  /\ runs = [t \in Transfers |-> [h \in Handlers |-> Idle]]
  /\ reports = 0
  /\ toasts = [t \in Transfers |-> 0] /\ messages = [t \in Transfers |-> 0]
  /\ retained = NoQr /\ timers = {}
  /\ connected \in BOOLEAN
  /\ paid = {} /\ lost = {} /\ unheard = {} /\ overlapped = {}
  /\ faults = 0 /\ shows = 0

\* (A mistake: a row that is there does not stop the handler.)
Found_Never(t) == FALSE

\* The row that transaction_create_from_sepay looks for.
Found(t) == outcome[t] # Unknown

\* The worker has one job at a time; the requests know nothing of each other.
Free(t, h) == \A u \in Transfers : (h = "worker" \/ u = t) => runs[u][h] = Idle

\* handleSepay, up to the answer to its SELECT.  It returns at once when there is a row, and
\* (whatever the transfer) when the tracking of the account is turned off.
Lookup(t, h) ==
  /\ Free(t, h)
  /\ reports < MaxReports /\ reports' = reports + 1
  /\ \/ /\ ~Found(t)
        /\ runs' = [runs EXCEPT ![t][h] = Absent]
        /\ overlapped' = IF runs[t][Other(h)] = Absent THEN overlapped \cup {t} ELSE overlapped
     \/ UNCHANGED <<runs, overlapped>>
  /\ UNCHANGED <<outcome, toasts, messages, retained, timers, connected, paid, lost, unheard,
                 faults, shows>>

\* webhook_sepay writes the row and commits; sepay_id has no unique index.  The answer may be
\* lost with the connection: then it is an error to the handler, and the row stays.
Commit(t, h) ==
  /\ runs[t][h] = Absent
  /\ \E o \in Outcomes :
       /\ outcome' = [outcome EXCEPT ![t] = o]
       /\ \/ /\ runs' = [runs EXCEPT ![t][h] = o]
             /\ UNCHANGED unheard
          \/ /\ runs' = [runs EXCEPT ![t][h] = Idle]
             /\ unheard' = unheard \cup {t}
  /\ UNCHANGED <<reports, toasts, messages, retained, timers, connected, paid, lost, overlapped,
                 faults, shows>>

\* It throws and nothing is written: the job is retried, or SePay reports it again.
Abort(t, h) ==
  /\ runs[t][h] = Absent
  /\ runs' = [runs EXCEPT ![t][h] = Idle]
  /\ UNCHANGED <<outcome, reports, toasts, messages, retained, timers, connected, paid, lost,
                 unheard, overlapped, faults, shows>>

\* sendZalo, for any outcome that gets this far (the message of each is its own).
SendZalo(t) == messages' = IF t \in Untold THEN messages ELSE [messages EXCEPT ![t] = @ + 1]

\* emitOrderPaid: the toast, the sound, the timer.
EmitOrderPaid(t, o) ==
  /\ toasts' = [toasts EXCEPT ![t] = @ + 1]
  /\ timers' = timers \cup {o}
  /\ paid' = paid \cup {o}

\* The handler has its answer: the rest of handleSepay runs at once.
Tell(t, h) ==
  /\ runs[t][h] \in Outcomes
  /\ runs' = [runs EXCEPT ![t][h] = Idle]
  /\ SendZalo(t)
  /\ IF runs[t][h].kind = "matched" THEN EmitOrderPaid(t, runs[t][h].order)
     ELSE UNCHANGED <<toasts, timers, paid>>
  /\ UNCHANGED <<outcome, reports, retained, connected, lost, unheard, overlapped, faults, shows>>

\* (A mistake: the device is sent home, but the broker keeps the QR.)
Cleared_CancelOnly == retained

\* order/cancel for the device that listens, and the retained QR, whosever it is.
Cleared == IF connected THEN NoQr ELSE retained

\* Three seconds after the payment.
Timer(o) ==
  /\ o \in timers /\ timers' = timers \ {o}
  /\ retained' = Cleared
  /\ lost' = IF connected THEN lost ELSE lost \cup {o}
  /\ UNCHANGED <<outcome, runs, reports, toasts, messages, connected, paid, unheard, overlapped,
                 faults, shows>>

\* PosService.showQr
ShowQr(o) ==
  /\ shows < MaxShows /\ shows' = shows + 1
  /\ retained' = IF connected THEN o ELSE retained
  /\ paid' = IF connected THEN paid \ {o} ELSE paid
  /\ lost' = IF connected THEN lost \ {o} ELSE lost
  /\ UNCHANGED <<outcome, runs, reports, toasts, messages, timers, connected, unheard, overlapped,
                 faults>>

\* PosService.clear
Clear ==
  /\ shows < MaxShows /\ shows' = shows + 1
  /\ retained' = Cleared
  /\ UNCHANGED <<outcome, runs, reports, toasts, messages, timers, connected, paid, lost,
                 unheard, overlapped, faults>>

\* The connection to the broker is lost, or comes back.
Connection ==
  /\ faults < MaxFaults /\ faults' = faults + 1
  /\ connected' = ~connected
  /\ UNCHANGED <<outcome, runs, reports, toasts, messages, retained, timers, paid, lost,
                 unheard, overlapped, shows>>

\* A handler of t has committed, and not told.
Telling(t) == \E h \in Handlers : runs[t][h] \in Outcomes

\* The process restarts: what was to be told, and the timers, are gone.
Restart ==
  /\ faults < MaxFaults /\ faults' = faults + 1
  /\ runs' = [t \in Transfers |-> [h \in Handlers |-> Idle]] /\ timers' = {}
  /\ unheard' = unheard \cup {t \in Transfers : Telling(t)}
  /\ lost' = lost \cup timers
  /\ UNCHANGED <<outcome, reports, toasts, messages, retained, connected, paid, overlapped, shows>>

Next ==
  \/ \E t \in Transfers, h \in Handlers :
       Lookup(t, h) \/ Commit(t, h) \/ Abort(t, h) \/ Tell(t, h)
  \/ \E o \in Orders : Timer(o) \/ ShowQr(o)
  \/ Clear \/ Connection \/ Restart

Spec == Init /\ [][Next]_vars

-----------------------------------------------------------------------------
\* The counters and the sets hold what they should.
TypeOK ==
  /\ outcome \in [Transfers -> Outcomes \cup {Unknown}]
  /\ runs \in [Transfers -> [Handlers -> Outcomes \cup {Idle, Absent}]]
  /\ reports \in 0..MaxReports
  /\ toasts \in [Transfers -> 0..2] /\ messages \in [Transfers -> 0..2]
  /\ retained \in Orders \cup {NoQr} /\ timers \subseteq Orders /\ connected \in BOOLEAN
  /\ paid \subseteq Orders /\ lost \subseteq Orders
  /\ unheard \subseteq Transfers /\ overlapped \subseteq Transfers

\* However often a transfer is reported, the group hears of it once, and the staff once if it
\* paid an order.  Only what was written by a handler that never heard of it, for the answer
\* was lost or the process restarted, stays untold for good; and only what both handlers
\* looked for before either wrote is told twice, once by each (handleSepay).
ToldOnce ==
  \A t \in Transfers :
    LET told == outcome[t] # Unknown /\ ~Telling(t) /\ t \notin unheard IN
    IF t \in overlapped
    THEN /\ messages[t] <= 2 /\ toasts[t] <= 2
         /\ told /\ t \notin Untold => messages[t] > 0
    ELSE /\ messages[t] = IF told /\ t \notin Untold THEN 1 ELSE 0
         /\ toasts[t] = IF told /\ outcome[t].kind = "matched" THEN 1 ELSE 0

\* A device that connects is not handed the QR of an order told to be paid, but within the
\* three seconds, or when the clearing was lost with the connection or in a restart.
PaidQrGone == retained \in paid => retained \in timers \cup lost
=============================================================================
