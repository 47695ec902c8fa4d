---------------------------- MODULE ZaloDelivery -----------------------------
(***************************************************************************)
(* The sending of a Zalo message: ZaloService.send, the notifications      *)
(* queue with its single worker, the direct call when the queue is not     *)
(* there, and the resending of a line of the journal by hand.  A message   *)
(* goes to several targets by concurrent HTTP calls (Promise.all): the     *)
(* first one to fail ends the attempt, the others stay in flight.          *)
(* The rate limit and the back-off of the queue only delay and are left    *)
(* out; each message is handed over once.                                  *)
(***************************************************************************)
EXTENDS Naturals, Sequences, FiniteSets

CONSTANTS
  Messages, Numbers, Groups, Features,
  NoFeature,     \* a payload without a feature
  Scenarios,     \* the situations to try: see the assumption
  MaxAttempts,   \* attempts of a job (defaultJobOptions)
  MaxStalled     \* how often BullMQ puts back the job of a dead worker

Targets == Numbers \cup Groups
\* payload: what each message is addressed to; handed: those some caller hands over;
\* redis: whether its answer to queue.add may be lost;
\* incidents: bound on faults, changes of settings and resendings together.
ASSUME DeliveryAssumption ==
  /\ Scenarios \subseteq
       [payload : [Messages -> [numbers : SUBSET Numbers, groups : SUBSET Groups,
                                feature : Features \cup {NoFeature}]],
        handed : SUBSET Messages, redis : {"sound", "lossy"}, incidents : Nat]
  /\ NoFeature \notin Features
  /\ MaxAttempts \in Nat \ {0} /\ MaxStalled \in Nat

VARIABLES
  scenario,   \* chosen once for all
  enabled,    \* enabled[f]: the feature is switched on (zalo_feature_enabled)
  assigned,   \* assigned[f]: the groups that receive it (zalo_group_ids_for_feature)
  configured, \* ZALO_URL, ZALO_SHOP_CODE and ZALO_TOKEN are set
  job,        \* the message in the queue, or with a direct caller
  tries,      \* attempts of its job that ended
  stalls,     \* times its worker died
  doubled,    \* history: the messages both with the queue and with a direct caller
  call,       \* the runs of deliver
  late,       \* HTTP calls still in flight when their attempt had failed
  got,        \* got[m][t]: copies of m that t received
  journal,    \* notifications: the lines about m, oldest first
  hit,        \* history: the messages touched by a fault
  spent       \* history: the resendings, the answers misread and the other incidents

settings == <<scenario, enabled, assigned, configured>>
vars == <<settings, job, tries, stalls, doubled, call, late, got, journal, hit, spent>>

Vias == {"worker", "direct", "resend"}
Calls == Messages \X Vias
payload == scenario.payload
Feature(m) == payload[m].feature

Retryable == {"network", "off", "nogroup"}
Errors == {"none", "refused", "unconfigured"} \cup Retryable

Off(m) == Feature(m) # NoFeature /\ ~enabled[Feature(m)]

\* aim: the targets of the attempt; wait: those whose answer is awaited; row: the
\* line of the journal a resending is about; off: history, the feature of the
\* message has been off since the attempt began.
Idle == [pc |-> "idle", aim |-> {}, wait |-> {}, err |-> "none", row |-> 0, off |-> FALSE]
Started(m, r) == [Idle EXCEPT !.pc = "start", !.row = r, !.off = Off(m)]

Kinds == {"resend", "misread", "other"}
Spend(k) ==
  /\ spent["resend"] + spent["misread"] + spent["other"] < scenario.incidents
  /\ spent' = [spent EXCEPT ![k] = @ + 1]

Init ==
  /\ scenario \in Scenarios
  /\ enabled \in [Features -> BOOLEAN]
  /\ assigned = [f \in Features |-> Groups]
  /\ configured \in BOOLEAN
  /\ job = [m \in Messages |-> "none"]
  /\ tries = [m \in Messages |-> 0]
  /\ stalls = [m \in Messages |-> 0]
  /\ doubled = {}
  /\ call = [c \in Calls |-> Idle]
  /\ late = [m \in Messages |-> [t \in Targets |-> 0]]
  /\ got = [m \in Messages |-> [t \in Targets |-> 0]]
  /\ journal = [m \in Messages |-> <<>>]
  /\ hit = {}
  /\ spent = [k \in Kinds |-> 0]

(***************************************************************************)
(* send.                                                                   *)
(***************************************************************************)
Pending(m) == m \in scenario.handed /\ job[m] = "none"

SendSkipped(m) ==
  /\ Pending(m) /\ Off(m)
  /\ job' = [job EXCEPT ![m] = "skipped"]
  /\ UNCHANGED <<settings, tries, stalls, doubled, call, late, got, journal, hit, spent>>

SendQueued(m) ==
  /\ Pending(m) /\ ~Off(m)
  /\ job' = [job EXCEPT ![m] = "waiting"]
  /\ UNCHANGED <<settings, tries, stalls, doubled, call, late, got, journal, hit, spent>>

\* Mutant: the failure of queue.add is caught and nothing is sent.
SendDirect_Swallowed(m) ==
  /\ Pending(m) /\ ~Off(m)
  /\ job' = [job EXCEPT ![m] = "direct"]
  /\ UNCHANGED <<settings, tries, stalls, doubled, call, late, got, journal, hit, spent>>

\* queue.add throws: the caller runs deliver itself.  It may throw although Redis has the
\* job (its answer is lost): then the worker will run deliver as well.
SendDirect(m) ==
  /\ Pending(m) /\ ~Off(m)
  /\ \/ job' = [job EXCEPT ![m] = "direct"] /\ UNCHANGED doubled
     \/ /\ scenario.redis = "lossy" /\ job' = [job EXCEPT ![m] = "waiting"]
        /\ doubled' = doubled \cup {m}
  /\ call' = [call EXCEPT ![<<m, "direct">>] = Started(m, 0)]
  /\ UNCHANGED <<settings, tries, stalls, late, got, journal, hit, spent>>

(***************************************************************************)
(* The worker takes one job at a time.                                     *)
(***************************************************************************)
Take(m) ==
  /\ job[m] = "waiting" /\ \A n \in Messages : job[n] # "active"
  /\ job' = [job EXCEPT ![m] = "active"]
  /\ call' = [call EXCEPT ![<<m, "worker">>] = Started(m, 0)]
  /\ UNCHANGED <<settings, tries, stalls, doubled, late, got, journal, hit, spent>>

\* POST /zalo/resend/:id takes any line of the journal.
Resend(m, r) ==
  /\ call[<<m, "resend">>].pc = "idle"
  /\ Spend("resend")
  /\ call' = [call EXCEPT ![<<m, "resend">>] = Started(m, r)]
  /\ UNCHANGED <<settings, job, tries, stalls, doubled, late, got, journal, hit>>

(***************************************************************************)
(* deliverRaw, up to its HTTP calls: each read of the database is an await.*)
(***************************************************************************)
Refuse(c, e) == call' = [call EXCEPT ![c].pc = "journal", ![c].err = e]
Post(c, ts) == call' = [call EXCEPT ![c].pc = "post", ![c].aim = ts, ![c].wait = ts]

\* Mutant: groups are looked up without a second look at the switch.
Address_SwitchForgotten(c) ==
  LET p == payload[c[1]] IN
  /\ call[c].pc = "start"
  /\ \/ ~configured /\ Refuse(c, "unconfigured")
     \/ configured /\ p.numbers # {} /\ Post(c, p.numbers)
     \/ configured /\ p.numbers = {} /\ p.groups # {} /\ Post(c, p.groups)
     \/ configured /\ p.numbers = {} /\ p.groups = {} /\ p.feature = NoFeature
        /\ Refuse(c, "nogroup")
     \/ configured /\ p.numbers = {} /\ p.groups = {} /\ p.feature # NoFeature
        /\ call' = [call EXCEPT ![c].pc = "groups"]
  /\ UNCHANGED <<settings, job, tries, stalls, doubled, late, got, journal, hit, spent>>

Address(c) ==
  LET p == payload[c[1]]
      off == Off(c[1]) IN
  /\ call[c].pc = "start"
  /\ \/ ~configured /\ Refuse(c, "unconfigured")
     \/ configured /\ p.numbers # {} /\ Post(c, p.numbers)
     \/ configured /\ p.numbers = {} /\ off /\ Refuse(c, "off")
     \/ configured /\ p.numbers = {} /\ ~off /\ p.groups # {} /\ Post(c, p.groups)
     \/ configured /\ p.numbers = {} /\ ~off /\ p.groups = {} /\ p.feature = NoFeature
        /\ Refuse(c, "nogroup")
     \/ configured /\ p.numbers = {} /\ ~off /\ p.groups = {} /\ p.feature # NoFeature
        /\ call' = [call EXCEPT ![c].pc = "groups"]
  /\ UNCHANGED <<settings, job, tries, stalls, doubled, late, got, journal, hit, spent>>

FindGroups(c) ==
  LET gs == assigned[Feature(c[1])] IN
  /\ call[c].pc = "groups"
  /\ \/ gs = {} /\ Refuse(c, "nogroup")
     \/ gs # {} /\ Post(c, gs)
  /\ UNCHANGED <<settings, job, tries, stalls, doubled, late, got, journal, hit, spent>>

(***************************************************************************)
(* One HTTP call of an attempt ends.  The bridge may have sent the message *)
(* although its answer is lost.                                            *)
(***************************************************************************)
Received(m, t) == got' = [got EXCEPT ![m][t] = @ + 1]

\* Mutant: the body of the answer is not looked at, HTTP 200 is a success.
Verdicts_StatusOnly(delivered) == {"none", "network"}

\* assertBridgeOk: what the caller makes of an answer with a status.
Verdicts(delivered) ==
  IF delivered THEN {"none", "network"} ELSE {"network", "refused"}

Answer(c, t, delivered, e) ==
  LET m == c[1]
      left == call[c].wait \ {t} IN
  /\ call[c].pc = "post" /\ t \in call[c].wait
  /\ IF delivered THEN Received(m, t) ELSE UNCHANGED got
  /\ call' = [call EXCEPT ![c].wait = IF e = "none" THEN left ELSE {},
                          ![c].err = e,
                          ![c].pc = IF e = "none" /\ left # {} THEN "post" ELSE "journal"]
  /\ late' = IF e = "none" THEN late
             ELSE [late EXCEPT ![m] = [u \in Targets |->
                     @[u] + IF u \in left THEN 1 ELSE 0]]
  /\ UNCHANGED <<settings, job, tries, stalls, doubled, journal, hit>>

\* The answer is what Verdicts says, or one that is not JSON, or has no status, to a
\* message that was not sent: assertBridgeOk takes that for a success.
Answered(c) ==
  \E t \in call[c].wait :
    \/ \E delivered \in BOOLEAN : \E e \in Verdicts(delivered) :
         Answer(c, t, delivered, e) /\ UNCHANGED spent
    \/ Answer(c, t, FALSE, "none") /\ Spend("misread")

\* Mutant: answers of calls that are over still come in.
LateAnswer_Uncounted(m, t) ==
  /\ late' = [late EXCEPT ![m][t] = @ - 1]
  /\ Received(m, t)
  /\ UNCHANGED <<settings, job, tries, stalls, doubled, call, journal, hit, spent>>

\* A call left behind by a failed attempt reaches its target after all, if ever.
LateAnswer(m, t) ==
  /\ late[m][t] > 0
  /\ late' = [late EXCEPT ![m][t] = @ - 1]
  /\ Received(m, t)
  /\ UNCHANGED <<settings, job, tries, stalls, doubled, call, journal, hit, spent>>

(***************************************************************************)
(* The end of deliver and of resend.  NotificationsService.log never       *)
(* throws: a line that cannot be written is gone.                          *)
(***************************************************************************)
Status(e) == IF e = "none" THEN "sent" ELSE "failed"
Line(c) == [status |-> Status(call[c].err), error |-> call[c].err, via |-> c[2],
            aim |-> call[c].aim]

\* Mutant: only a success is logged, the catch rethrows at once.
Log_SuccessOnly(c) ==
  LET m == c[1] IN
  /\ c[2] # "resend" /\ call[c].pc = "journal"
  /\ journal' = IF call[c].err = "none" THEN [journal EXCEPT ![m] = Append(@, Line(c))]
                ELSE journal
  /\ call' = [call EXCEPT ![c].pc = "ack"]
  /\ UNCHANGED <<settings, job, tries, stalls, doubled, late, got, hit, spent>>

Log(c) ==
  LET m == c[1] IN
  /\ c[2] # "resend" /\ call[c].pc = "journal"
  /\ journal' = [journal EXCEPT ![m] = Append(@, Line(c))]
  /\ call' = [call EXCEPT ![c].pc = "ack"]
  /\ UNCHANGED <<settings, job, tries, stalls, doubled, late, got, hit, spent>>

LogFails(c) ==
  /\ c[2] # "resend" /\ call[c].pc = "journal"
  /\ Spend("other")
  /\ hit' = hit \cup {c[1]}
  /\ call' = [call EXCEPT ![c].pc = "ack"]
  /\ UNCHANGED <<settings, job, tries, stalls, doubled, late, got, journal>>

\* resend: setStatus on the original line.  When the write of 'sent' throws, the
\* catch block writes 'failed'; when the write of 'failed' throws, nothing changes.
SetStatus(c) ==
  LET m == c[1] IN
  /\ c[2] = "resend" /\ call[c].pc = "journal"
  /\ \/ /\ journal' = [journal EXCEPT ![m][call[c].row] = Line(c)]
        /\ UNCHANGED spent
     \/ /\ Spend("other")
        /\ journal' = IF call[c].err = "none"
                      THEN [journal EXCEPT ![m][call[c].row].status = "failed"]
                      ELSE journal
  /\ call' = [call EXCEPT ![c] = Idle]
  /\ UNCHANGED <<settings, job, tries, stalls, doubled, late, got, hit>>

\* Mutant: one attempt more than the queue is configured for.
Outcome_OneMore(m, e) ==
  IF e = "none" THEN "completed"
  ELSE IF e \in Retryable /\ tries[m] < MaxAttempts THEN "waiting" ELSE "failed"

\* NotificationsProcessor: what the bridge refused is not tried again.
Outcome(m, e) ==
  IF e = "none" THEN "completed"
  ELSE IF e \in Retryable /\ tries[m] + 1 < MaxAttempts THEN "waiting" ELSE "failed"

EndJob(m) ==
  LET c == <<m, "worker">> IN
  /\ call[c].pc = "ack"
  /\ job' = [job EXCEPT ![m] = Outcome(m, call[c].err)]
  /\ tries' = [tries EXCEPT ![m] = @ + 1]
  /\ call' = [call EXCEPT ![c] = Idle]
  /\ UNCHANGED <<settings, stalls, doubled, late, got, journal, hit, spent>>

\* The caller is done; a job of the same message in the queue goes its own way.
EndDirect(m) ==
  LET c == <<m, "direct">> IN
  /\ call[c].pc = "ack"
  /\ job' = [job EXCEPT ![m] = IF @ # "direct" THEN @
                               ELSE IF call[c].err = "none" THEN "completed" ELSE "failed"]
  /\ call' = [call EXCEPT ![c] = Idle]
  /\ UNCHANGED <<settings, tries, stalls, doubled, late, got, journal, hit, spent>>

(***************************************************************************)
(* From outside: a restart of the process, and the settings page.          *)
(***************************************************************************)
Crash ==
  LET cut == {m \in Messages : \E v \in Vias : call[<<m, v>>].pc # "idle"} IN
  /\ Spend("other")
  /\ cut # {}
  /\ hit' = hit \cup cut
  /\ job' = [m \in Messages |->
       CASE job[m] = "active" -> IF stalls[m] < MaxStalled THEN "waiting" ELSE "failed"
         [] job[m] = "direct" -> "failed"
         [] OTHER -> job[m]]
  /\ stalls' = [m \in Messages |-> IF job[m] = "active" THEN stalls[m] + 1 ELSE stalls[m]]
  /\ call' = [c \in Calls |-> Idle]
  /\ late' = [m \in Messages |-> [t \in Targets |-> 0]]
  /\ UNCHANGED <<settings, tries, doubled, got, journal>>

Switch(f) ==
  /\ Spend("other")
  /\ enabled' = [enabled EXCEPT ![f] = ~@]
  /\ call' = [c \in Calls |-> IF Feature(c[1]) = f THEN [call[c] EXCEPT !.off = FALSE]
                             ELSE call[c]]
  /\ UNCHANGED <<scenario, assigned, configured, job, tries, stalls, doubled, late, got, journal, hit>>

Assign(f, gs) ==
  /\ Spend("other")
  /\ assigned' = [assigned EXCEPT ![f] = gs]
  /\ UNCHANGED <<scenario, enabled, configured, job, tries, stalls, doubled, call, late, got, journal, hit>>

CallStep(c) ==
  \/ Address(c) \/ FindGroups(c)
  \/ Answered(c)
  \/ Log(c) \/ LogFails(c) \/ SetStatus(c)

Work(m) == Take(m) \/ EndJob(m) \/ EndDirect(m)
Progress == (\E m \in Messages : Work(m)) \/ (\E c \in Calls : CallStep(c))

Next ==
  \/ \E m \in Messages : SendSkipped(m) \/ SendQueued(m) \/ SendDirect(m)
  \/ Progress
  \/ \E m \in Messages : \E r \in DOMAIN journal[m] : Resend(m, r)
  \/ \E m \in Messages, t \in Targets : LateAnswer(m, t)
  \/ Crash
  \/ \E f \in Features : Switch(f) \/ \E gs \in SUBSET Groups : Assign(f, gs)

\* The worker and the event loop do not stop while there is something to do.
Fairness == WF_vars(Progress)

Spec == Init /\ [][Next]_vars /\ Fairness

-----------------------------------------------------------------------------
\* The run of deliver beside the job.
Extra(m) == IF m \in doubled THEN 1 ELSE 0

JobStates == {"none", "skipped", "waiting", "active", "direct", "completed", "failed"}
CallRecords == [pc : {"idle", "start", "groups", "post", "journal", "ack"},
                aim : SUBSET Targets, wait : SUBSET Targets, err : Errors, row : Nat,
                off : BOOLEAN]
Lines == [status : {"sent", "failed"}, error : Errors, via : Vias, aim : SUBSET Targets]

\* The variables of the delivery have the types the code gives them.
TypeOK ==
  /\ scenario \in Scenarios
  /\ enabled \in [Features -> BOOLEAN]
  /\ assigned \in [Features -> SUBSET Groups]
  /\ configured \in BOOLEAN
  /\ job \in [Messages -> JobStates]
  /\ tries \in [Messages -> Nat] /\ stalls \in [Messages -> Nat]
  /\ doubled \in SUBSET Messages
  /\ call \in [Calls -> CallRecords]
  /\ late \in [Messages -> [Targets -> Nat]]
  /\ got \in [Messages -> [Targets -> Nat]]
  /\ journal \in [Messages -> Seq(Lines)]
  /\ hit \in SUBSET Messages
  /\ spent \in [Kinds -> Nat]

\* A line that says 'sent' is true: every target the message was then addressed to
\* has it (assertBridgeOk and the Promise.all of deliverRaw, whatever is retried,
\* resent or left in flight around them), unless an answer it cannot read was misread.
SentMeansDelivered == spent["misread"] = 0 =>
  \A m \in Messages : \A i \in DOMAIN journal[m] :
    journal[m][i].status = "sent" =>
      /\ journal[m][i].aim # {}
      /\ \A t \in journal[m][i].aim : got[m][t] > 0

\* Nobody gets a message more often than the attempts of its job, the deaths of its
\* worker and the resendings by hand account for: partly failed attempts and calls
\* that outlive them add no copies of their own.  A message whose caller ran deliver
\* although the queue had it may come once more.
CopiesBounded ==
  \A m \in Messages, t \in Targets :
    got[m][t] <= MaxAttempts + stalls[m] + spent["resend"] + Extra(m)

\* While its feature stays switched off, an attempt to send a message that was queued
\* before calls no target (the second look at the switch, in deliverRaw).
OffIsSilent == \A c \in Calls : call[c].off /\ payload[c[1]].numbers = {} => call[c].aim = {}

(***************************************************************************)
(* The delivery implements the promise of Outbox.                          *)
(***************************************************************************)
\* A message is lost when neither the queue nor a direct caller has it any more.
Fate(m) ==
  CASE job[m] = "none" -> "unsent"
    [] job[m] = "skipped" -> "skipped"
    [] journal[m] # <<>> -> "journalled"
    [] journal[m] = <<>> /\ job[m] \in {"completed", "failed"}
       /\ call[<<m, "direct">>].pc = "idle" -> "dropped"
    [] OTHER -> "held"

Promise == INSTANCE Outbox WITH fate <- [m \in Messages |-> Fate(m)], hit <- hit

\* Every message handed over does end, with a line of the journal; only a fault may take it
\* away before (send, deliver and the worker against Outbox).
ImplementsOutbox == Promise!Spec
=============================================================================
