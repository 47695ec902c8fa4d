--------------------------- MODULE CustomerNotify ----------------------------
(***************************************************************************)
(* The thank-you message of an order to its customer (notifyOrder): asked  *)
(* for once by the creation of the order and, by hand, by the button of    *)
(* its page.  The requests interleave at their awaits; the messages wait   *)
(* in the notifications queue until their time, one slot of 30 s apart.    *)
(* Time counts such slots within one day.                                  *)
(***************************************************************************)
EXTENDS Integers, FiniteSets, FiniteSetsExt

CONSTANTS
  Orders,
  Situations,         \* what the orders may be like: functions to Sorts
  DailyLimit,         \* customer_notify_daily_limit
  Cap,                \* the 15 minutes a message may be put off, in slots
  Presses,            \* the uses of the button to try: pairs of an order and a name
  MaxTime, MaxCrashes \* bounds: of the time, of the crashes and lapses together

\* An order without a number, of a customer who opted out, or made for a test.
Sorts == {"plain", "no_phone", "opt_out", "test"}

CustomerAssumption ==
  /\ Situations \subseteq [Orders -> Sorts]
  /\ \A p \in Presses : p \in Orders \X {p[2]} /\ p[2] # "hook"
  /\ DailyLimit \in Nat /\ Cap \in Nat /\ MaxTime \in Nat /\ MaxCrashes \in Nat

VARIABLES
  sort,            \* sort[o]: chosen once for all
  now,
  enabled,         \* customer_notify_enabled
  notified,        \* the orders with a customer_notified_at
  lastScheduledAt, \* memory of the process
  request,         \* the calls of notifyOrder
  waiting,         \* the messages in the queue
  sent,            \* those delivered: the lines 'sent' of the journal of today
  crashes,
  lapses           \* calls whose effect and answer differed

vars ==
  <<sort, now, enabled, notified, lastScheduledAt, request, waiting, sent, crashes, lapses>>

\* A request is the hook of addOrder or a press of the button.
Requests == (Orders \X {"hook"}) \cup Presses

\* room: the limit allowed another message when the settings were read; since: the
\* requests for the order that had ended when this one began (history).
Unasked == [pc |-> "idle", force |-> FALSE, room |-> FALSE, reason |-> "none",
            since |-> {}]
Reasons == {"none", "disabled", "no_phone", "opt_out", "already_sent", "test_order",
            "daily_limit", "sent", "thrown"}
Ended(o) == {r \in Requests : r[1] = o /\ request[r].pc = "end"}

Init ==
  /\ sort \in Situations
  /\ now = 0
  /\ enabled \in BOOLEAN
  /\ notified = {}
  /\ lastScheduledAt = 0
  /\ request = [r \in Requests |-> Unasked]
  /\ waiting = {} /\ sent = {}
  /\ crashes = 0 /\ lapses = 0

Begin(r, force) ==
  /\ request[r].pc = "idle"
  /\ r[2] = "hook" => ~force
  /\ request' = [request EXCEPT ![r] =
       [Unasked EXCEPT !.pc = "config", !.force = force, !.since = Ended(r[1])]]
  /\ UNCHANGED <<sort, now, enabled, notified, lastScheduledAt, waiting, sent, crashes, lapses>>

Leave(r, why) == request' = [request EXCEPT ![r].pc = "end", ![r].reason = why]

\* customerNotifyConfig: the switch and the lines 'sent' of today, in one query.
ReadConfig(r) ==
  /\ request[r].pc = "config"
  /\ \/ ~enabled /\ ~request[r].force /\ Leave(r, "disabled")
     \/ /\ enabled \/ request[r].force
        /\ request' = [request EXCEPT ![r].pc = "info", ![r].room = Cardinality(sent) < DailyLimit]
  /\ UNCHANGED <<sort, now, enabled, notified, lastScheduledAt, waiting, sent, crashes, lapses>>

\* The gates after orderNotifyInfo, in the order of the code.
Gate(r) ==
  LET o == r[1] IN
  IF sort[o] = "no_phone" THEN "no_phone"
  ELSE IF sort[o] = "opt_out" THEN "opt_out"
  ELSE IF ~request[r].force /\ o \in notified THEN "already_sent"
  ELSE IF ~request[r].force /\ sort[o] = "test" THEN "test_order"
  ELSE IF ~request[r].room THEN "daily_limit" ELSE "none"

ReadInfo(r) ==
  /\ request[r].pc = "info"
  /\ \/ Gate(r) # "none" /\ Leave(r, Gate(r))
     \/ Gate(r) = "none" /\ request' = [request EXCEPT ![r].pc = "token"]
  /\ UNCHANGED <<sort, now, enabled, notified, lastScheduledAt, waiting, sent, crashes, lapses>>

\* A call whose effect and answer differ.
Lapse == crashes + lapses < MaxCrashes /\ lapses' = lapses + 1

(***************************************************************************)
(* After ensurePublicToken: the slot is taken without another await.       *)
(***************************************************************************)
Least(a, b) == IF a <= b THEN a ELSE b
Most(a, b) == IF a >= b THEN a ELSE b
Delay == Least(Most(now, lastScheduledAt + 1) - now, Cap)

\* unspaced: not put off for as long as it should (history).
Message(r) == [req |-> r, at |-> now + Delay, boot |-> crashes,
               unspaced |-> lastScheduledAt + 1 - now > Cap]

\* Mutant: the slot is not kept for the next message.
Schedule_SlotForgotten(r) ==
  /\ request[r].pc = "token"
  /\ lastScheduledAt' = now
  /\ waiting' = waiting \cup {Message(r)}
  /\ request' = [request EXCEPT ![r].pc = "mark"]
  /\ UNCHANGED <<sort, now, enabled, notified, sent, crashes, lapses>>

Schedule(r) ==
  /\ request[r].pc = "token"
  /\ lastScheduledAt' = now + Delay
  /\ waiting' = waiting \cup {Message(r)}
  /\ request' = [request EXCEPT ![r].pc = "mark"]
  /\ UNCHANGED <<sort, now, enabled, notified, sent, crashes, lapses>>

\* queue.add throws, though the queue may have the job (ZaloDelivery): ZaloService delivers
\* at once, and throws when it cannot.
SendDirect(r) ==
  /\ request[r].pc = "token"
  /\ lastScheduledAt' = now + Delay
  /\ \/ UNCHANGED <<waiting, lapses>>
     \/ waiting' = waiting \cup {Message(r)} /\ Lapse
  /\ \/ /\ sent' = sent \cup {[Message(r) EXCEPT !.at = now, !.unspaced = TRUE]}
        /\ request' = [request EXCEPT ![r].pc = "mark"]
     \/ Leave(r, "thrown") /\ UNCHANGED sent
  /\ UNCHANGED <<sort, now, enabled, notified, crashes>>

\* Mutant: the request ends without markCustomerNotified.
Mark_Missing(r) ==
  /\ request[r].pc = "mark"
  /\ Leave(r, "sent")
  /\ UNCHANGED <<sort, now, enabled, notified, lastScheduledAt, waiting, sent, crashes, lapses>>

Mark(r) ==
  /\ request[r].pc = "mark"
  /\ notified' = notified \cup {r[1]}
  /\ Leave(r, "sent")
  /\ UNCHANGED <<sort, now, enabled, lastScheduledAt, waiting, sent, crashes, lapses>>

\* The query of the mark throws: the message is on its way, the order does not say so.
MarkFails(r) ==
  /\ request[r].pc = "mark"
  /\ Lapse
  /\ Leave(r, "thrown")
  /\ UNCHANGED <<sort, now, enabled, notified, lastScheduledAt, waiting, sent, crashes>>

\* The worker delivers a message whose time has come, or gives it up (ZaloDelivery).
Deliver(w) ==
  /\ w \in waiting /\ w.at <= now
  /\ waiting' = waiting \ {w}
  /\ sent' = sent \cup {w} \/ sent' = sent
  /\ UNCHANGED <<sort, now, enabled, notified, lastScheduledAt, request, crashes, lapses>>

Tick ==
  /\ now < MaxTime
  /\ now' = now + 1
  /\ UNCHANGED <<sort, enabled, notified, lastScheduledAt, request, waiting, sent, crashes, lapses>>

\* The settings page.
Switch ==
  /\ enabled' = ~enabled
  /\ UNCHANGED <<sort, now, notified, lastScheduledAt, request, waiting, sent, crashes, lapses>>

\* A restart: the requests and lastScheduledAt are gone, the queue is not.
Crash ==
  /\ crashes + lapses < MaxCrashes
  /\ crashes' = crashes + 1
  /\ lastScheduledAt' = 0
  /\ request' = [r \in Requests |-> IF request[r].pc \in {"idle", "end"} THEN request[r]
                                   ELSE [request[r] EXCEPT !.pc = "lost"]]
  /\ UNCHANGED <<sort, now, enabled, notified, waiting, sent, lapses>>

Next ==
  \/ \E r \in Requests : \/ \E force \in BOOLEAN : Begin(r, force)
                         \/ ReadConfig(r) \/ ReadInfo(r) \/ Schedule(r) \/ SendDirect(r)
                         \/ Mark(r) \/ MarkFails(r)
  \/ \E w \in waiting : Deliver(w)
  \/ Tick \/ Switch \/ Crash

Spec == Init /\ [][Next]_vars

-----------------------------------------------------------------------------
Messages == [req : Requests, at : Nat, boot : Nat, unspaced : BOOLEAN]

TypeOK ==
  /\ sort \in Situations /\ now \in Nat /\ enabled \in BOOLEAN /\ notified \in SUBSET Orders
  /\ lastScheduledAt \in Nat
  /\ request \in [Requests ->
       [pc : {"idle", "config", "info", "token", "mark", "end", "lost"}, force : BOOLEAN,
        room : BOOLEAN, reason : Reasons, since : SUBSET Requests]]
  /\ waiting \in SUBSET Messages /\ sent \in SUBSET Messages
  /\ crashes \in Nat /\ lapses \in Nat

\* Two messages scheduled by the same process leave 30 s apart, unless one of them went
\* past the queue or was put off for the longest time allowed (lastScheduledAt against the
\* interleaved requests).
Spaced ==
  \A w, v \in waiting \cup sent :
    w # v /\ w.boot = v.boot /\ ~w.unspaced /\ ~v.unspaced => w.at # v.at

\* Unless it is forced, a request that begins after another one has written to the
\* customer of an order does not write again; unless that one threw after it had written.
NotRepeated ==
  \A w, v \in waiting \cup sent :
    w.req[1] = v.req[1] /\ ~request[v.req].force /\ request[w.req].reason # "thrown"
    => w.req \notin request[v.req].since
=============================================================================
