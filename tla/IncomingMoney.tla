---------------------------- MODULE IncomingMoney ----------------------------
(***************************************************************************)
(* How a bank transfer announced by SePay becomes a row of transactions    *)
(* and money on an order: the webhook endpoint, its queue with one worker, *)
(* the synchronous fallback, the statements of webhook_sepay run by the    *)
(* two concurrently, and the calls by which the shop corrects the result   *)
(* by hand.  The orders exist from the start and every transfer is within  *)
(* the date window of every order.                                         *)
(***************************************************************************)
EXTENDS Integers, FiniteSets

CONSTANTS
  Delivery,    \* HTTP requests SePay makes
  Transfer,    \* sepay_id: the transfers they announce
  Announced,   \* the functions from deliveries to the transfer they announce to try
  Amount,      \* transfer_amount
  Incoming,    \* those with transfer_type = 'in'
  Tracked,     \* those on an account with is_tracked
  Order,
  Mentions,    \* Mentions[x]: the existing order named in the text, or NoOrder
  Total, Deposit,
  NoOrder, NoTransfer, NoDesk,
  Attempts,    \* attempts of a job
  MaxEvents,   \* bound on faults (of Redis, Postgres, the process) and calls by hand
  MaxPaid      \* bound on what an operator may make of paid_amount

ASSUME IncomingAssumption ==
  /\ IsFiniteSet(Delivery)
  /\ Announced \subseteq [Delivery -> Transfer]
  /\ Amount \in [Transfer -> Nat \ {0}]
  /\ Incoming \subseteq Transfer /\ Tracked \subseteq Transfer
  /\ Mentions \in [Transfer -> Order \cup {NoOrder}]
  /\ Total \in [Order -> Nat] /\ Deposit \in [Order -> Nat]
  /\ NoOrder \notin Order /\ NoTransfer \notin Transfer
  /\ Attempts \in Nat \ {0} /\ MaxEvents \in Nat /\ MaxPaid \in Nat

VARIABLES
  of,       \* of[d]: the transfer announced by d, chosen once for all
  http,     \* what SePay knows of a delivery
  job,      \* the BullMQ job of a delivery
  run,      \* the runs of handleSepay, by the worker or inside the request
  rows,     \* transactions: a run of handleSepay inserts at most one
  order,    \* orders: paid_amount, payment_status and sepay_id
  shown,    \* the pairs of the open transaction_reconcile_preview dialog
  desk,     \* an order_reconcile_transaction between its read and its write
  reported, \* the runs whose Zalo message left
  touched,  \* history: orders whose money was corrected by hand
  events    \* how many faults and calls by hand there were

world == <<of, events>>
dbVars == <<rows, order, shown, desk, touched>>
vars == <<world, http, job, run, reported, dbVars>>

Run == Delivery \X {"worker", "sync"}
xfer(h) == of[h[1]]

NoJob == [st |-> "none", tries |-> 0, stalled |-> FALSE]
Jobs == [st : {"none", "waiting", "active", "completed", "failed"},
         tries : 0..Attempts, stalled : BOOLEAN]

\* cands: the orders counted by the fallback on the amount; fresh: this run inserted a row.
NotRunning == [pc |-> "idle", cands |-> {}, fresh |-> FALSE]
Runs == [pc : {"idle", "start", "absent", "counted", "done"}, cands : SUBSET Order,
         fresh : BOOLEAN]

\* matchBy and needs_review as webhook_sepay returns them.
NoRow == [exists |-> FALSE, order |-> NoOrder, by |-> "none", review |-> FALSE]
Rows == [exists : BOOLEAN, order : Order \cup {NoOrder},
         by : {"none", "content", "amount"}, review : BOOLEAN]

Statuses == {"UNPAID", "DEPOSITED", "PAID", "REFUNDED"}

order_derive_pay_status(paid, total, explicit) ==
  IF explicit = "REFUNDED" THEN "REFUNDED"
  ELSE IF paid <= 0 THEN "UNPAID"
  ELSE IF paid < total THEN "DEPOSITED" ELSE "PAID"

RowsOf(x) == {h \in Run : xfer(h) = x /\ rows[h].exists}
Event == events < MaxEvents /\ events' = events + 1

(***************************************************************************)
(* The endpoint.  SePay sends, and sends again, whatever it was answered.  *)
(***************************************************************************)
Receive(d) ==
  /\ http[d] = "unsent"
  /\ http' = [http EXCEPT ![d] = "received"]
  /\ UNCHANGED <<job, run, reported, world, dbVars>>

Enqueue(d) ==
  /\ http[d] = "received"
  /\ job' = [job EXCEPT ![d].st = "waiting"]
  /\ http' = [http EXCEPT ![d] = "ok"]
  /\ UNCHANGED <<run, reported, world, dbVars>>

\* Mutant: the exception of queue.add is logged and SePay is answered 200.
EnqueueThrows_Answered(d) ==
  /\ http[d] = "received"
  /\ \E stored \in {"none", "waiting"} : job' = [job EXCEPT ![d].st = stored]
  /\ http' = [http EXCEPT ![d] = "ok"]
  /\ Event
  /\ UNCHANGED <<of, run, reported, dbVars>>

\* queue.add throws; Redis may have stored the job all the same.
EnqueueThrows(d) ==
  /\ http[d] = "received"
  /\ \E stored \in {"none", "waiting"} : job' = [job EXCEPT ![d].st = stored]
  /\ http' = [http EXCEPT ![d] = "fallback"]
  /\ run' = [run EXCEPT ![<<d, "sync">>].pc = "start"]
  /\ Event
  /\ UNCHANGED <<of, reported, dbVars>>

\* Mutant: a second job is taken while one is active.
TakeJob_Concurrent(d) ==
  /\ job[d].st = "waiting"
  /\ job' = [job EXCEPT ![d].st = "active"]
  /\ run' = [run EXCEPT ![<<d, "worker">>].pc = "start"]
  /\ UNCHANGED <<http, reported, world, dbVars>>

\* The worker has concurrency 1.  Waiting jobs may overtake each other in their backoff.
TakeJob(d) ==
  /\ job[d].st = "waiting"
  /\ \A e \in Delivery : job[e].st # "active"
  /\ job' = [job EXCEPT ![d].st = "active"]
  /\ run' = [run EXCEPT ![<<d, "worker">>].pc = "start"]
  /\ UNCHANGED <<http, reported, world, dbVars>>

(***************************************************************************)
(* The statements of webhook_sepay.  Its writes are seen when it commits;  *)
(* an order it updates is locked from the UPDATE to the commit.            *)
(***************************************************************************)
Known(h) == RowsOf(xfer(h)) # {}

\* The first SELECT of transaction_create_from_sepay, and the tracked account.
Lookup(h) ==
  /\ run[h].pc = "start"
  /\ run' = [run EXCEPT ![h].pc =
               IF Known(h) \/ xfer(h) \notin Tracked THEN "done" ELSE "absent"]
  /\ UNCHANGED <<http, job, reported, world, dbVars>>

ByContent(h) == xfer(h) \in Incoming /\ Mentions[xfer(h)] # NoOrder
ByAmount(h) == xfer(h) \in Incoming /\ Mentions[xfer(h)] = NoOrder

\* Open to a match by amount: in the count, in the guarded UPDATE and in the dialog.
Claimable(o) == order[o].status # "PAID" /\ order[o].sepay = NoTransfer

AmountFits(o, x) == Total[o] = Amount[x] \/ Deposit[o] = Amount[x]

CountCandidates(h) ==
  /\ run[h].pc = "absent" /\ ByAmount(h)
  /\ run' = [run EXCEPT ![h].pc = "counted",
               ![h].cands = {o \in Order : Claimable(o) /\ AmountFits(o, xfer(h))}]
  /\ UNCHANGED <<http, job, reported, world, dbVars>>

Credited(o, x) ==
  LET paid == order[o].paid + Amount[x] IN
  [order EXCEPT ![o] =
     [paid |-> paid, sepay |-> x,
      status |-> order_derive_pay_status(paid, Total[o], order[o].status)]]

Insert(h, row) == rows' = [rows EXCEPT ![h] = row]

NewRow(h) == [NoRow EXCEPT !.exists = TRUE, !.order = Mentions[xfer(h)]]

CommitContent(h) ==
  /\ run[h].pc = "absent" /\ ByContent(h)
  /\ Insert(h, [NewRow(h) EXCEPT !.by = "content"])
  /\ order' = Credited(Mentions[xfer(h)], xfer(h))

\* Mutant: the gate on transfer_type is missing, money out is credited.
CommitOutgoing_Credits(h) ==
  /\ run[h].pc = "absent" /\ xfer(h) \notin Incoming
  /\ Insert(h, NewRow(h))
  /\ IF Mentions[xfer(h)] = NoOrder THEN UNCHANGED order
     ELSE order' = Credited(Mentions[xfer(h)], xfer(h))

\* Money out is recorded with the order its text names, and credits nothing.
CommitOutgoing(h) ==
  /\ run[h].pc = "absent" /\ xfer(h) \notin Incoming
  /\ Insert(h, NewRow(h))
  /\ UNCHANGED order

\* Mutant: the UPDATE of the only candidate has lost its guard.
CommitAmount_Unguarded(h) ==
  /\ run[h].pc = "counted"
  /\ \/ \E o \in Order :
          /\ run[h].cands = {o}
          /\ Insert(h, [NewRow(h) EXCEPT !.order = o, !.by = "amount"])
          /\ order' = Credited(o, xfer(h))
     \/ /\ Cardinality(run[h].cands) # 1
        /\ Insert(h, [NewRow(h) EXCEPT !.review = Cardinality(run[h].cands) >= 2])
        /\ UNCHANGED order

CommitAmount(h) ==
  /\ run[h].pc = "counted"
  /\ \/ \E o \in Order :
          /\ run[h].cands = {o} /\ Claimable(o)
          /\ Insert(h, [NewRow(h) EXCEPT !.order = o, !.by = "amount"])
          /\ order' = Credited(o, xfer(h))
     \/ /\ \A o \in Order : run[h].cands = {o} => ~Claimable(o)
        /\ Insert(h, [NewRow(h) EXCEPT !.review = Cardinality(run[h].cands) >= 2])
        /\ UNCHANGED order

Commit(h) ==
  /\ CommitContent(h) \/ CommitOutgoing(h) \/ CommitAmount(h)
  /\ run' = [run EXCEPT ![h] = [pc |-> "done", cands |-> {}, fresh |-> TRUE]]
  /\ UNCHANGED <<http, job, reported, world, shown, desk, touched>>

(***************************************************************************)
(* The result: Zalo and the answer, or the end of the job.                 *)
(***************************************************************************)
Finish(h) ==
  /\ run[h].pc = "done"
  /\ reported' = IF run[h].fresh THEN reported \cup {h} ELSE reported
  /\ run' = [run EXCEPT ![h] = NotRunning]
  /\ \/ /\ h[2] = "worker"
        /\ job' = [job EXCEPT ![h[1]].st = "completed"]
        /\ UNCHANGED http
     \/ /\ h[2] = "sync"
        /\ http' = [http EXCEPT ![h[1]] = "ok"]
        /\ UNCHANGED job
  /\ UNCHANGED <<world, dbVars>>

\* Mutant: the processor swallows the exception, so that the job completes.
Fail_Swallowed(h) ==
  /\ run[h].pc \in {"start", "absent", "counted"}
  /\ run' = [run EXCEPT ![h] = NotRunning]
  /\ \/ /\ h[2] = "worker"
        /\ job' = [job EXCEPT ![h[1]].st = "completed"]
        /\ UNCHANGED http
     \/ /\ h[2] = "sync"
        /\ http' = [http EXCEPT ![h[1]] = "error"]
        /\ UNCHANGED job
  /\ Event
  /\ UNCHANGED <<of, reported, dbVars>>

\* A statement fails: nothing is written; the job is retried, SePay is told 500.
Fail(h) ==
  /\ run[h].pc \in {"start", "absent", "counted"}
  /\ run' = [run EXCEPT ![h] = NotRunning]
  /\ \/ /\ h[2] = "worker"
        /\ job' = [job EXCEPT ![h[1]].tries = @ + 1,
                     ![h[1]].st = IF job[h[1]].tries + 1 < Attempts THEN "waiting" ELSE "failed"]
        /\ UNCHANGED http
     \/ /\ h[2] = "sync"
        /\ http' = [http EXCEPT ![h[1]] = "error"]
        /\ UNCHANGED job
  /\ Event
  /\ UNCHANGED <<of, reported, dbVars>>

\* A stalled job is taken up again once, and given up the second time.
Recovered(j) ==
  IF j.st # "active" THEN j
  ELSE [j EXCEPT !.st = IF j.stalled THEN "failed" ELSE "waiting", !.stalled = TRUE]

\* The backend restarts: open requests and runs are lost, Redis and Postgres are not.
Restart ==
  /\ Event
  /\ http' = [d \in Delivery |->
                IF http[d] \in {"received", "fallback"} THEN "error" ELSE http[d]]
  /\ job' = [d \in Delivery |-> Recovered(job[d])]
  /\ run' = [h \in Run |-> NotRunning]
  /\ desk' = NoDesk
  /\ shown' = {}
  /\ UNCHANGED <<of, reported, rows, order, touched>>

(***************************************************************************)
(* Corrections by hand.                                                    *)
(***************************************************************************)
OrdersOf(h) == {rows[h].order} \ {NoOrder}

\* order_reconcile_transaction reads the order and the transaction, ...
order_reconcile_read(o, h) ==
  /\ Event
  /\ desk = NoDesk
  /\ rows[h].exists
  /\ desk' = [order |-> o, row |-> h, paid |-> order[o].paid, linked |-> rows[h].order]
  /\ UNCHANGED <<rows, order, shown, touched>>

Signed(h) == IF xfer(h) \in Incoming THEN Amount[xfer(h)] ELSE -Amount[xfer(h)]

\* Mutant: GREATEST(0, ...) is missing.
Corrected_Negative(paid, h) == paid + Signed(h)

Corrected(paid, h) == IF paid + Signed(h) < 0 THEN 0 ELSE paid + Signed(h)

\* ... and writes absolute values computed from what it read.
order_reconcile_write ==
  /\ desk # NoDesk
  /\ LET o    == desk.order
         h    == desk.row
         paid == Corrected(desk.paid, h)
         old  == order[o]
     IN  \/ /\ desk.linked # o
            /\ paid <= MaxPaid
            /\ order' = [order EXCEPT ![o] =
                 [paid |-> paid,
                  status |-> order_derive_pay_status(paid, Total[o], old.status),
                  sepay |-> IF old.sepay = NoTransfer THEN xfer(h) ELSE old.sepay]]
            /\ rows' = [rows EXCEPT ![h].order = o, ![h].review = FALSE]
            /\ touched' = touched \cup {o} \cup OrdersOf(h)
         \/ /\ desk.linked = o
            /\ UNCHANGED <<order, rows, touched>>
  /\ desk' = NoDesk
  /\ UNCHANGED <<shown, events>>

\* transaction_link_order changes the link and leaves paid_amount.
transaction_link_order(h, o) ==
  /\ Event
  /\ rows[h].exists
  /\ rows' = [rows EXCEPT ![h].order = o, ![h].review = FALSE]
  /\ touched' = touched \cup OrdersOf(h) \cup ({o} \ {NoOrder})
  /\ UNCHANGED <<order, shown, desk>>

\* The paymentStatus of order_patch_fields.
order_patch_fields(o, status) ==
  /\ Event
  /\ order[o].status # status
  /\ order' = [order EXCEPT ![o].status = status]
  /\ UNCHANGED <<rows, shown, desk, touched>>

\* transaction_reconcile_preview; classified are the rows put aside by hand.
ReconcilePairs(classified) ==
  {p \in Run \X Order :
     /\ rows[p[1]].exists /\ xfer(p[1]) \in Incoming /\ p[1] \notin classified
     /\ rows[p[1]].order = NoOrder
     /\ Claimable(p[2]) /\ AmountFits(p[2], xfer(p[1]))}

transaction_reconcile_preview(classified) ==
  /\ Event
  /\ LET pairs == ReconcilePairs(classified)
     IN  shown' = {p \in pairs : \A q \in pairs : (q[1] = p[1]) <=> (q[2] = p[2])}
  /\ UNCHANGED <<rows, order, desk, touched>>

\* One pair of transaction_reconcile_apply: claimed, or skipped.
PairHolds(p) == rows[p[1]].order = NoOrder /\ Claimable(p[2])

transaction_reconcile_apply(p) ==
  /\ p \in shown
  /\ shown' = shown \ {p}
  /\ \/ /\ PairHolds(p)
        /\ order' = Credited(p[2], xfer(p[1]))
        /\ rows' = [rows EXCEPT ![p[1]].order = p[2], ![p[1]].review = FALSE]
     \/ ~PairHolds(p) /\ UNCHANGED <<order, rows>>
  /\ UNCHANGED <<desk, touched, events>>

Desk ==
  /\ \/ \E h \in Run, o \in Order : order_reconcile_read(o, h)
     \/ order_reconcile_write
     \/ \E h \in Run, o \in Order \cup {NoOrder} : transaction_link_order(h, o)
     \/ \E o \in Order, status \in Statuses : order_patch_fields(o, status)
     \/ \E classified \in SUBSET {h \in Run : rows[h].exists} :
          transaction_reconcile_preview(classified)
     \/ \E p \in shown : transaction_reconcile_apply(p)
  /\ UNCHANGED <<of, http, job, run, reported>>

Step(h) == Lookup(h) \/ CountCandidates(h) \/ Commit(h) \/ Finish(h)

Init ==
  /\ of \in Announced
  /\ http = [d \in Delivery |-> "unsent"]
  /\ job = [d \in Delivery |-> NoJob]
  /\ run = [h \in Run |-> NotRunning]
  /\ rows = [h \in Run |-> NoRow]
  /\ order = [o \in Order |->
       [paid |-> 0, status |-> order_derive_pay_status(0, Total[o], "UNPAID"),
        sepay |-> NoTransfer]]
  /\ shown = {} /\ desk = NoDesk /\ reported = {} /\ touched = {}
  /\ events = 0

Next ==
  \/ \E d \in Delivery : Receive(d) \/ Enqueue(d) \/ EnqueueThrows(d) \/ TakeJob(d)
  \/ \E h \in Run : Step(h) \/ Fail(h)
  \/ Restart
  \/ Desk

\* The event loop, the worker and Postgres keep going; nobody is obliged to fail or to act.
Fairness ==
  /\ \A d \in Delivery : WF_vars(Enqueue(d)) /\ WF_vars(TakeJob(d))
  /\ \A h \in Run : WF_vars(Step(h))

Spec == Init /\ [][Next]_vars /\ Fairness

Desks == [order : Order, row : Run, paid : Nat, linked : Order \cup {NoOrder}]

TypeOK ==
  /\ of \in [Delivery -> Transfer]
  /\ http \in [Delivery -> {"unsent", "received", "fallback", "ok", "error"}]
  /\ job \in [Delivery -> Jobs]
  /\ run \in [Run -> Runs]
  /\ rows \in [Run -> Rows]
  /\ order \in [Order -> [paid : Nat, status : Statuses, sepay : Transfer \cup {NoTransfer}]]
  /\ shown \subseteq Run \X Order
  /\ desk \in Desks \cup {NoDesk}
  /\ reported \subseteq Run /\ touched \subseteq Order
  /\ events \in 0..MaxEvents

(***************************************************************************)
(* A transfer SePay was told "200" about is never forgotten: it is on an   *)
(* account that is not tracked, or it has a row, or a job that will be     *)
(* tried, or one that stays in the failed set for someone to see.          *)
(***************************************************************************)
NothingLost ==
  \A d \in Delivery :
    http[d] = "ok" /\ of[d] \in Tracked
      => RowsOf(of[d]) # {} \/ job[d].st \in {"waiting", "active", "failed"}

(***************************************************************************)
(* The queue with its single worker makes the SELECT-then-INSERT safe,     *)
(* across retries, restarts and repeated deliveries: two rows of a         *)
(* transfer are never both the worker's, and a run that found the row of   *)
(* an earlier one does not report it again.                                *)
(***************************************************************************)
QueueSerialises ==
  /\ \A x \in Transfer : Cardinality({h \in RowsOf(x) : h[2] = "worker"}) <= 1
  /\ \A h \in reported : rows[h].exists

(***************************************************************************)
(* The money of an order nobody corrected by hand is the sum of the        *)
(* incoming rows that name it, whatever runs and confirmed dialogs were    *)
(* interleaved: no credit is lost, none is given without its row.          *)
(***************************************************************************)
Credits(o) == {h \in Run : rows[h].exists /\ rows[h].order = o /\ xfer(h) \in Incoming}

\* A sum, counted as the set of the units of money it is made of.
Coins(H) == UNION {{h} \X (1..Amount[xfer(h)]) : h \in H}
Received(o) == Cardinality(Coins(Credits(o)))

CreditsAddUp == \A o \in Order \ touched : order[o].paid = Received(o)

(***************************************************************************)
(* An order is matched by its amount at most once, though several runs may *)
(* have counted it as their only candidate and a dialog may show it.       *)
(***************************************************************************)
ClaimedOnce ==
  \A g, h \in Run :
    rows[g].by = "amount" /\ rows[h].by = "amount" /\ g # h
    /\ rows[g].order \in Order \ touched
      => rows[g].order # rows[h].order

(***************************************************************************)
(* What SePay was told "200" about is eventually recorded or visibly given *)
(* up, and stays so: the deliveries, the failures of the database and the  *)
(* restarts being finitely many.                                           *)
(***************************************************************************)
Settled(d) ==
  http[d] = "ok" /\ of[d] \in Tracked => RowsOf(of[d]) # {} \/ job[d].st = "failed"

EventuallyRecorded == <>[](\A d \in Delivery : Settled(d))

(***************************************************************************)
(* "Idempotent by sepay_id" (transaction_create_from_sepay): a transfer    *)
(* has at most one row.  There is no unique index, and a run inside the    *)
(* request overlaps the worker's or another request's.                     *)
(***************************************************************************)
OneRowPerTransfer == \A x \in Transfer : Cardinality(RowsOf(x)) <= 1

(***************************************************************************)
(* "Money in is added to the order" (order_reconcile_transaction): the     *)
(* call raises paid_amount by the amount of the transfer.  It writes what  *)
(* it computed from an earlier read, over a credit given in between.       *)
(***************************************************************************)
ReconcileAdds ==
  [][\A o \in Order :
       desk # NoDesk /\ desk' = NoDesk /\ desk.order = o /\ events' = events
       /\ xfer(desk.row) \in Incoming /\ rows'[desk.row].order = o /\ desk.linked # o
         => order'[o].paid = order[o].paid + Amount[xfer(desk.row)]]_vars
=============================================================================
