------------------------- MODULE IncomingMoneyProofs -------------------------
(***************************************************************************)
(* Every safety property of IncomingMoney that the run incoming_money      *)
(* checks holds of every behavior, for any deliveries, transfers and       *)
(* orders.  IInv is about deliveries, jobs and rows; MoneyInv, proved from *)
(* it in the second half, is about rows and the money of the orders.       *)
(***************************************************************************)
EXTENDS IncomingMoney, FiniteSetTheorems, TLAPS

(***************************************************************************)
(* The parts of the type invariant that the calls of a group write.        *)
(***************************************************************************)
Orders == [paid : Nat, status : Statuses, sepay : Transfer \cup {NoTransfer}]

QueueTypeOK ==
  /\ of \in [Delivery -> Transfer]
  /\ http \in [Delivery -> {"unsent", "received", "fallback", "ok", "error"}]
  /\ job \in [Delivery -> Jobs]
  /\ run \in [Run -> Runs]
  /\ reported \subseteq Run
  /\ events \in 0..MaxEvents

TablesTypeOK ==
  /\ rows \in [Run -> Rows]
  /\ order \in [Order -> Orders]
  /\ shown \subseteq Run \X Order
  /\ desk \in Desks \cup {NoDesk}
  /\ touched \subseteq Order

LEMMA TypeParts == TypeOK <=> QueueTypeOK /\ TablesTypeOK
BY DEF TypeOK, QueueTypeOK, TablesTypeOK, Orders

LEMMA RunOfDelivery ==
  /\ \A d \in Delivery : <<d, "worker">> \in Run /\ <<d, "sync">> \in Run
  /\ \A h \in Run : h[1] \in Delivery /\ h[2] \in {"worker", "sync"}
BY DEF Run

LEMMA XferType ==
  ASSUME QueueTypeOK, NEW h \in Run
  PROVE  xfer(h) \in Transfer
BY RunOfDelivery DEF QueueTypeOK, xfer

LEMMA StatusType ==
  ASSUME NEW paid \in Int, NEW total \in Nat, NEW explicit
  PROVE  order_derive_pay_status(paid, total, explicit) \in Statuses
BY DEF order_derive_pay_status, Statuses

LEMMA InitTypes == Init => TypeOK
<1> SUFFICES ASSUME Init
             PROVE  QueueTypeOK /\ TablesTypeOK
  BY TypeParts
<1>1. NoJob \in Jobs /\ NotRunning \in Runs /\ NoRow \in Rows
  BY IncomingAssumption DEF NoJob, Jobs, NotRunning, Runs, NoRow, Rows
<1>2. QueueTypeOK
  BY <1>1, IncomingAssumption DEF Init, QueueTypeOK
<1>3. order \in [Order -> Orders]
  BY StatusType, IncomingAssumption DEF Init, Orders
<1>4. TablesTypeOK
  BY <1>1, <1>3 DEF Init, TablesTypeOK
<1> QED
  BY <1>2, <1>4

(***************************************************************************)
(* The endpoint, the worker and restarts.                                  *)
(***************************************************************************)
Endpoint(d) == Receive(d) \/ Enqueue(d) \/ EnqueueThrows(d) \/ TakeJob(d)

LEMMA EventType ==
  ASSUME events \in 0..MaxEvents, Event
  PROVE  events' \in 0..MaxEvents
BY IncomingAssumption DEF Event

LEMMA EndpointTypes ==
  ASSUME QueueTypeOK, TablesTypeOK, NEW d \in Delivery, Endpoint(d)
  PROVE  QueueTypeOK' /\ TablesTypeOK'
<1>1. TablesTypeOK'
  BY DEF TablesTypeOK, Endpoint, Receive, Enqueue, EnqueueThrows, TakeJob, dbVars
<1>2. CASE Receive(d)
  BY <1>1, <1>2 DEF QueueTypeOK, Receive, world
<1>3. CASE Enqueue(d)
  BY <1>1, <1>3 DEF QueueTypeOK, Enqueue, world, Jobs
<1>4. CASE EnqueueThrows(d)
  <2>1. job' \in [Delivery -> Jobs]
    BY <1>4 DEF QueueTypeOK, EnqueueThrows, Jobs
  <2>2. run' \in [Run -> Runs]
    BY <1>4 DEF QueueTypeOK, EnqueueThrows, Runs
  <2> QED
    BY <1>1, <1>4, <2>1, <2>2, EventType DEF QueueTypeOK, EnqueueThrows
<1>5. CASE TakeJob(d)
  <2>1. job' \in [Delivery -> Jobs]
    BY <1>5 DEF QueueTypeOK, TakeJob, Jobs
  <2>2. run' \in [Run -> Runs]
    BY <1>5 DEF QueueTypeOK, TakeJob, Runs
  <2> QED
    BY <1>1, <1>5, <2>1, <2>2 DEF QueueTypeOK, TakeJob, world
<1> QED
  BY <1>2, <1>3, <1>4, <1>5 DEF Endpoint

(***************************************************************************)
(* A job that may still be tried has attempts left, the worker runs the    *)
(* one active job, and a delivery has no job before it is answered.        *)
(***************************************************************************)
Worker(d) == <<d, "worker">>

TriesLeft == \A d \in Delivery : job[d].st # "failed" => job[d].tries < Attempts
WorkerOnActive == \A d \in Delivery : run[Worker(d)].pc # "idle" => job[d].st = "active"
OneActive == \A d, e \in Delivery : job[d].st = "active" /\ job[e].st = "active" => d = e
NoJobYet == \A d \in Delivery : http[d] \in {"unsent", "received"} => job[d].st = "none"

QueueInv == TriesLeft /\ WorkerOnActive /\ OneActive /\ NoJobYet

LEMMA EndpointQueue ==
  ASSUME QueueTypeOK, QueueInv, NEW d \in Delivery, Endpoint(d)
  PROVE  QueueInv'
<1> USE DEF QueueTypeOK, QueueInv, TriesLeft, WorkerOnActive, OneActive, NoJobYet, Worker, Jobs,
       Runs
<1>1. CASE Receive(d)
  BY <1>1 DEF Receive
<1>2. CASE Enqueue(d)
  BY <1>2 DEF Enqueue
<1>3. CASE EnqueueThrows(d)
  BY <1>3, RunOfDelivery DEF EnqueueThrows
<1>4. CASE TakeJob(d)
  BY <1>4, RunOfDelivery DEF TakeJob
<1> QED
  BY <1>1, <1>2, <1>3, <1>4 DEF Endpoint

(***************************************************************************)
(* Runs of handleSepay.                                                    *)
(***************************************************************************)
LEMMA FailTypes ==
  ASSUME QueueTypeOK, TablesTypeOK, QueueInv, NEW h \in Run, Fail(h)
  PROVE  QueueTypeOK' /\ TablesTypeOK'
<1>1. TablesTypeOK'
  BY DEF TablesTypeOK, Fail, dbVars
<1>2. run' \in [Run -> Runs]
  BY DEF QueueTypeOK, Fail, NotRunning, Runs
<1>3. job' \in [Delivery -> Jobs]
  <2>1. CASE h[2] = "worker"
    <3>1. h = Worker(h[1]) /\ h[1] \in Delivery
      BY <2>1 DEF Run, Worker
    <3>2. job[h[1]].tries < Attempts
      BY <3>1 DEF Fail, QueueInv, WorkerOnActive, TriesLeft
    <3>3. job[h[1]].tries + 1 \in 0..Attempts
      BY <3>1, <3>2, IncomingAssumption DEF QueueTypeOK, Jobs
    <3> QED
      BY <2>1, <3>1, <3>3 DEF Fail, QueueTypeOK, Jobs
  <2>2. CASE h[2] = "sync"
    BY <2>2 DEF Fail, QueueTypeOK
  <2> QED
    BY <2>1, <2>2, RunOfDelivery
<1>4. http' \in [Delivery -> {"unsent", "received", "fallback", "ok", "error"}]
  BY DEF Fail, QueueTypeOK
<1> QED
  BY <1>1, <1>2, <1>3, <1>4, EventType DEF Fail, QueueTypeOK

LEMMA FailQueue ==
  ASSUME QueueTypeOK, QueueInv, NEW h \in Run, Fail(h)
  PROVE  QueueInv'
<1> USE DEF QueueTypeOK, QueueInv, TriesLeft, WorkerOnActive, OneActive, NoJobYet, Worker, Jobs,
       Runs, NotRunning
<1>1. h[1] \in Delivery /\ h = <<h[1], h[2]>> /\ \A d \in Delivery : Worker(d) \in Run
  BY DEF Run
<1>2. CASE h[2] = "worker"
  BY <1>1, <1>2, IncomingAssumption DEF Fail
<1>3. CASE h[2] = "sync"
  BY <1>1, <1>3 DEF Fail
<1> QED
  BY <1>2, <1>3, RunOfDelivery

LEMMA FinishKeepsQueue ==
  ASSUME QueueTypeOK, TablesTypeOK, QueueInv, NEW h \in Run, Finish(h)
  PROVE  QueueTypeOK' /\ TablesTypeOK' /\ QueueInv'
<1>1. TablesTypeOK' /\ UNCHANGED of /\ UNCHANGED events
  BY DEF TablesTypeOK, Finish, dbVars, world
<1>2. h[1] \in Delivery /\ h = <<h[1], h[2]>> /\ \A d \in Delivery : Worker(d) \in Run
  BY DEF Run, Worker
<1>3. run' \in [Run -> Runs] /\ reported' \subseteq Run
  BY DEF QueueTypeOK, Finish, NotRunning, Runs
<1>4. CASE h[2] = "worker"
  <2>1. job' \in [Delivery -> Jobs] /\ http' = http
    BY <1>2, <1>4 DEF Finish, QueueTypeOK, Jobs
  <2>2. /\ job[h[1]].st = "active"
        /\ job'[h[1]].st = "completed" /\ job'[h[1]].tries = job[h[1]].tries
        /\ \A e \in Delivery \ {h[1]} : job'[e] = job[e] /\ run'[Worker(e)] = run[Worker(e)]
        /\ run'[Worker(h[1])].pc = "idle"
    BY <1>2, <1>4
    DEF Finish, QueueTypeOK, QueueInv, WorkerOnActive, Worker, Jobs, NotRunning
  <2>3. QueueInv'
    BY <1>2, <2>1, <2>2 DEF QueueInv, TriesLeft, WorkerOnActive, OneActive, NoJobYet
  <2> QED
    BY <1>1, <1>3, <2>1, <2>3 DEF QueueTypeOK
<1>5. CASE h[2] = "sync"
  <2>1. /\ http' \in [Delivery -> {"unsent", "received", "fallback", "ok", "error"}]
        /\ job' = job
    BY <1>2, <1>5 DEF Finish, QueueTypeOK
  <2>2. QueueInv'
    BY <1>2, <1>5
    DEF Finish, QueueTypeOK, QueueInv, TriesLeft, WorkerOnActive, OneActive, NoJobYet,
        Worker, Runs, NotRunning
  <2> QED
    BY <1>1, <1>3, <2>1, <2>2 DEF QueueTypeOK
<1> QED
  BY <1>4, <1>5, RunOfDelivery

\* A run that goes on leaves the queue alone.
LEMMA RunningKeepsQueue ==
  ASSUME QueueTypeOK, QueueInv, NEW h \in Run, run[h].pc # "idle", NEW r \in Runs,
         run' = [run EXCEPT ![h] = r], UNCHANGED <<world, http, job, reported>>
  PROVE  QueueTypeOK' /\ QueueInv'
<1>1. QueueTypeOK'
  BY DEF QueueTypeOK, world
<1>2. \A d \in Delivery : run'[Worker(d)].pc # "idle" => run[Worker(d)].pc # "idle"
  BY DEF QueueTypeOK, Run, Worker
<1>3. QueueInv'
  BY <1>2 DEF QueueInv, TriesLeft, WorkerOnActive, OneActive, NoJobYet
<1> QED
  BY <1>1, <1>3

LEMMA LookupKeepsQueue ==
  ASSUME QueueTypeOK, TablesTypeOK, QueueInv, NEW h \in Run, Lookup(h)
  PROVE  QueueTypeOK' /\ TablesTypeOK' /\ QueueInv'
<1> DEFINE r == [run[h] EXCEPT !.pc =
                   IF Known(h) \/ xfer(h) \notin Tracked THEN "done" ELSE "absent"]
<1>1. r \in Runs /\ run[h].pc # "idle"
  BY DEF Lookup, QueueTypeOK, Runs
<1>2. run' = [run EXCEPT ![h] = r] /\ UNCHANGED <<world, http, job, reported>>
  BY DEF Lookup
<1>3. TablesTypeOK'
  BY DEF Lookup, TablesTypeOK, dbVars
<1> HIDE DEF r
<1> QED
  BY <1>1, <1>2, <1>3, RunningKeepsQueue

LEMMA CountKeepsQueue ==
  ASSUME QueueTypeOK, TablesTypeOK, QueueInv, NEW h \in Run, CountCandidates(h)
  PROVE  QueueTypeOK' /\ TablesTypeOK' /\ QueueInv'
<1> DEFINE r == [run[h] EXCEPT !.pc = "counted",
                   !.cands = {o \in Order : Claimable(o) /\ AmountFits(o, xfer(h))}]
<1>1. r \in Runs /\ run[h].pc # "idle"
  BY DEF CountCandidates, QueueTypeOK, Runs
<1>2. run' = [run EXCEPT ![h] = r] /\ UNCHANGED <<world, http, job, reported>>
  BY DEF CountCandidates, QueueTypeOK, Runs
<1>3. TablesTypeOK'
  BY DEF CountCandidates, TablesTypeOK, dbVars
<1> HIDE DEF r
<1> QED
  BY <1>1, <1>2, <1>3, RunningKeepsQueue

LEMMA CreditedType ==
  ASSUME order \in [Order -> Orders], NEW o \in Order, NEW x \in Transfer
  PROVE  Credited(o, x) \in [Order -> Orders]
<1>1. order[o].paid + Amount[x] \in Nat /\ Total[o] \in Nat
  BY IncomingAssumption DEF Orders
<1> QED
  BY <1>1, StatusType DEF Credited, Orders

\* The row a commit inserts, and the orders it leaves.
LEMMA CommitWrites ==
  ASSUME QueueTypeOK, TablesTypeOK, NEW h \in Run,
         CommitContent(h) \/ CommitOutgoing(h) \/ CommitAmount(h)
  PROVE  /\ \E row \in Rows : row.exists /\ rows' = [rows EXCEPT ![h] = row]
         /\ order' \in [Order -> Orders]
<1>1. xfer(h) \in Transfer /\ Mentions[xfer(h)] \in Order \cup {NoOrder}
  BY XferType, IncomingAssumption
<1>2. NewRow(h) \in Rows /\ NewRow(h).exists
  BY <1>1 DEF NewRow, NoRow, Rows
<1>3. CASE CommitContent(h)
  <2>1. [NewRow(h) EXCEPT !.by = "content"] \in Rows
        /\ [NewRow(h) EXCEPT !.by = "content"].exists
    BY <1>2 DEF Rows
  <2>2. Mentions[xfer(h)] \in Order
    BY <1>1, <1>3 DEF CommitContent, ByContent
  <2> QED
    BY <1>1, <1>3, <2>1, <2>2, CreditedType DEF CommitContent, Insert, TablesTypeOK
<1>4. CASE CommitOutgoing(h)
  BY <1>2, <1>4 DEF CommitOutgoing, Insert, TablesTypeOK
<1>5. CASE CommitAmount(h)
  <2>1. CASE \E o \in Order :
               /\ Insert(h, [NewRow(h) EXCEPT !.order = o, !.by = "amount"])
               /\ order' = Credited(o, xfer(h))
    <3>1. PICK o \in Order :
            /\ Insert(h, [NewRow(h) EXCEPT !.order = o, !.by = "amount"])
            /\ order' = Credited(o, xfer(h))
      BY <2>1
    <3> DEFINE row == [NewRow(h) EXCEPT !.order = o, !.by = "amount"]
    <3>2. row \in Rows /\ row.exists /\ rows' = [rows EXCEPT ![h] = row]
      BY <1>2, <3>1 DEF Insert, Rows
    <3>3. order' \in [Order -> Orders]
      BY <1>1, <3>1, CreditedType DEF TablesTypeOK
    <3> HIDE DEF row
    <3> QED
      BY <3>2, <3>3
  <2>2. CASE /\ Insert(h, [NewRow(h) EXCEPT !.review = Cardinality(run[h].cands) >= 2])
             /\ UNCHANGED order
    <3> DEFINE many == Cardinality(run[h].cands) >= 2
               row == [NewRow(h) EXCEPT !.review = many]
    <3>1. many \in BOOLEAN
      OBVIOUS
    <3>2. rows' = [rows EXCEPT ![h] = row]
      BY <2>2 DEF Insert
    <3> HIDE DEF many
    <3>3. row \in Rows /\ row.exists
      BY <1>2, <3>1 DEF Rows
    <3> HIDE DEF row
    <3> QED
      BY <2>2, <3>2, <3>3 DEF TablesTypeOK
  <2> QED
    BY <1>5, <2>1, <2>2 DEF CommitAmount
<1> QED
  BY <1>3, <1>4, <1>5

LEMMA CommitKeepsQueue ==
  ASSUME QueueTypeOK, TablesTypeOK, QueueInv, NEW h \in Run, Commit(h)
  PROVE  QueueTypeOK' /\ TablesTypeOK' /\ QueueInv'
<1> DEFINE r == [pc |-> "done", cands |-> {}, fresh |-> TRUE]
<1>1. r \in Runs /\ run[h].pc # "idle"
  BY DEF Commit, CommitContent, CommitOutgoing, CommitAmount, Runs
<1>2. run' = [run EXCEPT ![h] = r] /\ UNCHANGED <<world, http, job, reported>>
  BY DEF Commit
<1>3. TablesTypeOK'
  BY CommitWrites DEF Commit, TablesTypeOK
<1> HIDE DEF r
<1> QED
  BY <1>1, <1>2, <1>3, RunningKeepsQueue

\* What a restart makes of job j: k.
Comeback(j, k) ==
  /\ k \in Jobs
  /\ k.tries = j.tries /\ (j.st = "failed" => k.st = "failed")
  /\ j.st # "active" => k.st = j.st
  /\ j.st = "active" => k.st \in {"waiting", "failed"}

LEMMA RestartKeepsQueue ==
  ASSUME QueueTypeOK, TablesTypeOK, QueueInv, Restart
  PROVE  QueueTypeOK' /\ TablesTypeOK' /\ QueueInv'
<1>1. \A j \in Jobs : Comeback(j, Recovered(j))
  BY DEF Comeback, Recovered, Jobs
<1>2. \A d \in Delivery : Comeback(job[d], job'[d])
  <2>1. job' = [d \in Delivery |-> Recovered(job[d])]
    BY DEF Restart
  <2>2. \A d \in Delivery : job[d] \in Jobs
    BY DEF QueueTypeOK
  <2> QED
    BY <1>1, <2>1, <2>2
<1>3. job' \in [Delivery -> Jobs]
  <2>1. job' = [d \in Delivery |-> Recovered(job[d])]
    BY DEF Restart
  <2> QED
    BY <1>2, <2>1 DEF Comeback
<1>4. QueueTypeOK'
  BY <1>3, EventType DEF Restart, QueueTypeOK, NotRunning, Runs
<1>5. TablesTypeOK'
  BY DEF Restart, TablesTypeOK
<1>6. QueueInv'
  <2>1. TriesLeft' /\ OneActive'
    BY <1>2 DEF QueueInv, TriesLeft, OneActive, Comeback
  <2>2. WorkerOnActive'
    BY RunOfDelivery DEF Restart, WorkerOnActive, Worker, NotRunning
  <2>3. NoJobYet'
    <3>1. \A d \in Delivery : http'[d] \in {"unsent", "received"} => http'[d] = http[d]
      BY DEF Restart
    <3> QED
      BY <1>2, <3>1 DEF QueueInv, NoJobYet, Comeback
  <2> QED
    BY <2>1, <2>2, <2>3 DEF QueueInv
<1> QED
  BY <1>4, <1>5, <1>6

(***************************************************************************)
(* The calls made by hand write the tables only, and delete no row.        *)
(***************************************************************************)
RowsStay == \A h \in Run : rows[h].exists => rows'[h].exists

SameExistence == \A h \in Run : rows'[h].exists = rows[h].exists

LEMMA RelinkTypes ==
  ASSUME TablesTypeOK, NEW h \in Run, NEW o \in Order \cup {NoOrder},
         rows' = [rows EXCEPT ![h].order = o, ![h].review = FALSE]
  PROVE  rows' \in [Run -> Rows] /\ SameExistence
BY DEF TablesTypeOK, Rows, SameExistence

LEMMA DeskTypes ==
  ASSUME QueueTypeOK, TablesTypeOK, Desk
  PROVE  TablesTypeOK' /\ SameExistence /\ events' \in 0..MaxEvents
<1>1. CASE \E h \in Run, o \in Order : order_reconcile_read(o, h)
  <2>1. PICK h \in Run, o \in Order : order_reconcile_read(o, h)
    BY <1>1
  <2>2. desk' \in Desks
    BY <2>1 DEF order_reconcile_read, Desks, TablesTypeOK, Orders, Rows
  <2> QED
    BY <2>1, <2>2, EventType
    DEF order_reconcile_read, TablesTypeOK, SameExistence, QueueTypeOK
<1>2. CASE order_reconcile_write
  <2>1. desk \in Desks /\ desk' = NoDesk /\ UNCHANGED <<shown, events>>
    BY <1>2 DEF order_reconcile_write, TablesTypeOK
  <2>2. CASE UNCHANGED <<order, rows, touched>>
    BY <2>1, <2>2 DEF TablesTypeOK, SameExistence, QueueTypeOK
  <2>3. CASE desk.linked # desk.order
    <3> DEFINE o == desk.order
               h == desk.row
               paid == Corrected(desk.paid, h)
    <3>1. o \in Order /\ h \in Run
      BY <2>1 DEF Desks
    <3>2. paid \in Nat
      <4>1. Amount[xfer(h)] \in Nat /\ desk.paid \in Nat
        BY <2>1, <3>1, XferType, IncomingAssumption DEF Desks
      <4> QED
        BY <4>1 DEF Corrected, Signed
    <3>3. xfer(h) \in Transfer /\ Total[o] \in Nat
      BY <3>1, XferType, IncomingAssumption
    <3>4. rows' = [rows EXCEPT ![h].order = o, ![h].review = FALSE]
      BY <1>2, <2>3 DEF order_reconcile_write
    <3>5. order' \in [Order -> Orders]
      <4> DEFINE st == order_derive_pay_status(paid, Total[o], order[o].status)
                 id == IF order[o].sepay = NoTransfer THEN xfer(h) ELSE order[o].sepay
      <4>1. st \in Statuses
        BY <3>2, <3>3, StatusType
      <4>2. id \in Transfer \cup {NoTransfer}
        BY <3>1, <3>3 DEF TablesTypeOK, Orders
      <4>3. order' = [order EXCEPT ![o] = [paid |-> paid, status |-> st, sepay |-> id]]
        BY <1>2, <2>3 DEF order_reconcile_write
      <4> HIDE DEF st, id, paid, o, h
      <4> QED
        BY <3>2, <4>1, <4>2, <4>3 DEF TablesTypeOK, Orders
    <3>6. touched' \subseteq Order
      BY <1>2, <2>3, <3>1 DEF order_reconcile_write, OrdersOf, TablesTypeOK, Rows
    <3> HIDE DEF o, h, paid
    <3> QED
      BY <2>1, <3>1, <3>4, <3>5, <3>6, RelinkTypes DEF TablesTypeOK, QueueTypeOK
  <2> QED
    BY <1>2, <2>2, <2>3 DEF order_reconcile_write
<1>3. CASE \E h \in Run, o \in Order \cup {NoOrder} : transaction_link_order(h, o)
  <2>1. PICK h \in Run, o \in Order \cup {NoOrder} : transaction_link_order(h, o)
    BY <1>3
  <2>2. rows' \in [Run -> Rows] /\ SameExistence
    BY <2>1, RelinkTypes DEF transaction_link_order
  <2>3. touched' \subseteq Order
    BY <2>1 DEF transaction_link_order, OrdersOf, TablesTypeOK, Rows
  <2> QED
    BY <2>1, <2>2, <2>3, EventType DEF transaction_link_order, TablesTypeOK, QueueTypeOK
<1>4. CASE \E o \in Order, status \in Statuses : order_patch_fields(o, status)
  <2>1. PICK o \in Order, status \in Statuses : order_patch_fields(o, status)
    BY <1>4
  <2>2. order' \in [Order -> Orders]
    BY <2>1 DEF order_patch_fields, TablesTypeOK, Orders
  <2> QED
    BY <2>1, <2>2, EventType DEF order_patch_fields, TablesTypeOK, QueueTypeOK, SameExistence
<1>5. CASE \E classified \in SUBSET {h \in Run : rows[h].exists} :
              transaction_reconcile_preview(classified)
  BY <1>5, EventType
  DEF transaction_reconcile_preview, ReconcilePairs, TablesTypeOK, QueueTypeOK, SameExistence
<1>6. CASE \E p \in shown : transaction_reconcile_apply(p)
  <2>1. PICK p \in shown : transaction_reconcile_apply(p)
    BY <1>6
  <2>2. p[1] \in Run /\ p[2] \in Order /\ xfer(p[1]) \in Transfer
    BY <2>1, XferType DEF TablesTypeOK
  <2>3. shown' \subseteq Run \X Order /\ UNCHANGED <<desk, touched, events>>
    BY <2>1 DEF transaction_reconcile_apply, TablesTypeOK
  <2>4. CASE UNCHANGED <<order, rows>>
    BY <2>3, <2>4 DEF TablesTypeOK, SameExistence, QueueTypeOK
  <2>5. CASE PairHolds(p)
    <3>1. order' \in [Order -> Orders]
      BY <2>1, <2>2, <2>5, CreditedType DEF transaction_reconcile_apply, TablesTypeOK
    <3>2. rows' \in [Run -> Rows] /\ SameExistence
      BY <2>1, <2>2, <2>5, RelinkTypes DEF transaction_reconcile_apply
    <3> QED
      BY <2>3, <3>1, <3>2 DEF TablesTypeOK, QueueTypeOK
  <2> QED
    BY <2>1, <2>4, <2>5 DEF transaction_reconcile_apply
<1> QED
  BY <1>1, <1>2, <1>3, <1>4, <1>5, <1>6 DEF Desk

(***************************************************************************)
(* What the runs and the jobs say of the rows: a run that is done found or *)
(* made the row of its transfer; while the worker is between its SELECT    *)
(* and its INSERT no row of the transfer is the worker's.                  *)
(***************************************************************************)
DoneRecorded == \A h \in Run : run[h].pc = "done" /\ xfer(h) \in Tracked => RowsOf(xfer(h)) # {}

FreshRecorded == \A h \in Run : run[h].fresh \/ h \in reported => rows[h].exists

Unseen ==
  \A d, e \in Delivery :
    run[Worker(d)].pc \in {"absent", "counted"} /\ of[e] = of[d] => ~rows[Worker(e)].exists

OneByWorker ==
  \A d, e \in Delivery :
    rows[Worker(d)].exists /\ rows[Worker(e)].exists /\ of[d] = of[e] => d = e

RecordInv == NothingLost /\ DoneRecorded /\ FreshRecorded /\ Unseen /\ OneByWorker

IInv == QueueTypeOK /\ TablesTypeOK /\ QueueInv /\ RecordInv

LEMMA RecordedStays ==
  ASSUME of' = of, RowsStay, NEW x, RowsOf(x) # {}
  PROVE  (RowsOf(x) # {})'
BY DEF RowsStay, RowsOf, xfer

LEMMA EndpointRecords ==
  ASSUME IInv, NEW d \in Delivery, Endpoint(d)
  PROVE  RecordInv'
<1>1. /\ of' = of /\ rows' = rows /\ reported' = reported
      /\ \A h \in Run : RowsOf(xfer(h))' = RowsOf(xfer(h)) /\ xfer(h)' = xfer(h)
      /\ \A e \in Delivery : RowsOf(of[e])' = RowsOf(of[e])
  BY DEF Endpoint, Receive, Enqueue, EnqueueThrows, TakeJob, world, dbVars, RowsOf, xfer
<1>2. \A h \in Run : run'[h].pc \in {"start", run[h].pc} /\ run'[h].fresh = run[h].fresh
  <2>1. CASE run' = run
    BY <2>1
  <2>2. ASSUME NEW g \in Run, run' = [run EXCEPT ![g].pc = "start"]
        PROVE  \A h \in Run : run'[h].pc \in {"start", run[h].pc} /\ run'[h].fresh = run[h].fresh
    BY <2>2 DEF IInv, QueueTypeOK, Runs
  <2> QED
    BY <2>1, <2>2, RunOfDelivery DEF Endpoint, Receive, Enqueue, EnqueueThrows, TakeJob
<1>3. NothingLost'
  <2>1. \A e \in Delivery :
          \/ http'[e] = http[e] /\ job'[e].st = job[e].st
          \/ http'[e] # "ok"
          \/ job'[e].st \in {"waiting", "active"}
    BY DEF IInv, QueueTypeOK, Jobs, Endpoint, Receive, Enqueue, EnqueueThrows, TakeJob
  <2> QED
    BY <1>1, <2>1 DEF IInv, RecordInv, NothingLost
<1>4. DoneRecorded' /\ FreshRecorded'
  BY <1>1, <1>2 DEF IInv, RecordInv, DoneRecorded, FreshRecorded
<1>5. Unseen' /\ OneByWorker'
  BY <1>1, <1>2, RunOfDelivery DEF IInv, RecordInv, Unseen, OneByWorker, Worker
<1> QED
  BY <1>3, <1>4, <1>5 DEF RecordInv

LEMMA LookupRecords ==
  ASSUME IInv, NEW h \in Run, Lookup(h)
  PROVE  RecordInv'
<1>1. /\ of' = of /\ rows' = rows /\ reported' = reported /\ http' = http /\ job' = job
      /\ \A g \in Run : RowsOf(xfer(g))' = RowsOf(xfer(g)) /\ xfer(g)' = xfer(g)
      /\ \A e \in Delivery : RowsOf(of[e])' = RowsOf(of[e])
  BY DEF Lookup, world, dbVars, RowsOf, xfer
<1>2. /\ \A g \in Run \ {h} : run'[g] = run[g]
      /\ run'[h].fresh = run[h].fresh
      /\ \/ run'[h].pc = "done" /\ Known(h)
         \/ run'[h].pc = "done" /\ xfer(h) \notin Tracked
         \/ run'[h].pc = "absent" /\ ~Known(h)
  <2>1. run \in [Run -> Runs]
    BY DEF IInv, QueueTypeOK
  <2>2. CASE Known(h) \/ xfer(h) \notin Tracked
    <3>1. run' = [run EXCEPT ![h].pc = "done"]
      BY <2>2 DEF Lookup
    <3>2. /\ \A g \in Run \ {h} : run'[g] = run[g]
          /\ run'[h].fresh = run[h].fresh /\ run'[h].pc = "done"
      BY <2>1, <3>1 DEF Runs
    <3> QED
      BY <2>2, <3>2
  <2>3. CASE ~(Known(h) \/ xfer(h) \notin Tracked)
    <3>1. run' = [run EXCEPT ![h].pc = "absent"]
      BY <2>3 DEF Lookup
    <3>2. /\ \A g \in Run \ {h} : run'[g] = run[g]
          /\ run'[h].fresh = run[h].fresh /\ run'[h].pc = "absent"
      BY <2>1, <3>1 DEF Runs
    <3> QED
      BY <2>3, <3>2
  <2> QED
    BY <2>2, <2>3
<1>3. NothingLost'
  BY <1>1 DEF IInv, RecordInv, NothingLost
<1>4. DoneRecorded'
  BY <1>1, <1>2 DEF IInv, RecordInv, DoneRecorded, Known
<1>5. FreshRecorded'
  BY <1>1, <1>2 DEF IInv, RecordInv, FreshRecorded
<1>6. Unseen'
  <2>1. ASSUME NEW d \in Delivery, NEW e \in Delivery, ~Known(h), h = Worker(d), of[e] = of[d]
        PROVE  ~rows[Worker(e)].exists
    BY <2>1, RunOfDelivery DEF Known, RowsOf, xfer, Worker
  <2> QED
    BY <1>1, <1>2, <2>1, RunOfDelivery DEF IInv, RecordInv, Unseen, Worker
<1>7. OneByWorker'
  BY <1>1 DEF IInv, RecordInv, OneByWorker
<1> QED
  BY <1>3, <1>4, <1>5, <1>6, <1>7 DEF RecordInv

LEMMA CountRecords ==
  ASSUME IInv, NEW h \in Run, CountCandidates(h)
  PROVE  RecordInv'
<1>1. /\ of' = of /\ rows' = rows /\ reported' = reported /\ http' = http /\ job' = job
      /\ \A g \in Run : RowsOf(xfer(g))' = RowsOf(xfer(g)) /\ xfer(g)' = xfer(g)
      /\ \A e \in Delivery : RowsOf(of[e])' = RowsOf(of[e])
  BY DEF CountCandidates, world, dbVars, RowsOf, xfer
<1>2. /\ \A g \in Run \ {h} : run'[g] = run[g]
      /\ run'[h].fresh = run[h].fresh /\ run'[h].pc = "counted" /\ run[h].pc = "absent"
  BY DEF IInv, QueueTypeOK, Runs, CountCandidates
<1>3. NothingLost' /\ DoneRecorded' /\ FreshRecorded' /\ OneByWorker'
  BY <1>1, <1>2
  DEF IInv, RecordInv, NothingLost, DoneRecorded, FreshRecorded, OneByWorker
<1>4. Unseen'
  BY <1>1, <1>2, RunOfDelivery DEF IInv, RecordInv, Unseen, Worker
<1> QED
  BY <1>3, <1>4 DEF RecordInv

LEMMA CommitRecords ==
  ASSUME IInv, NEW h \in Run, Commit(h)
  PROVE  RecordInv'
<1>1. of' = of /\ reported' = reported /\ http' = http /\ job' = job
  BY DEF Commit, world
<1>2. /\ \A g \in Run \ {h} : run'[g] = run[g] /\ rows'[g] = rows[g]
      /\ run'[h].pc = "done" /\ run[h].pc \in {"absent", "counted"}
      /\ rows'[h].exists
  <2>1. \E row \in Rows : row.exists /\ rows' = [rows EXCEPT ![h] = row]
    BY CommitWrites DEF IInv, Commit
  <2>2. run[h].pc \in {"absent", "counted"}
    BY DEF Commit, CommitContent, CommitOutgoing, CommitAmount
  <2> QED
    BY <2>1, <2>2 DEF IInv, QueueTypeOK, TablesTypeOK, Commit
<1>3. RowsStay
  BY <1>2 DEF RowsStay
<1>4. NothingLost'
  BY <1>1, <1>3, RecordedStays DEF IInv, RecordInv, NothingLost
<1>5. DoneRecorded'
  <2>1. (RowsOf(xfer(h)) # {})'
    BY <1>1, <1>2 DEF RowsOf, xfer
  <2>2. \A g \in Run : RowsOf(xfer(g)) # {} => (RowsOf(xfer(g)) # {})'
    BY <1>1, <1>3 DEF RowsStay, RowsOf, xfer
  <2>3. \A g \in Run : xfer(g)' = xfer(g)
    BY <1>1 DEF xfer
  <2> QED
    BY <1>2, <2>1, <2>2, <2>3 DEF IInv, RecordInv, DoneRecorded
<1>6. FreshRecorded'
  BY <1>1, <1>2 DEF IInv, RecordInv, FreshRecorded
<1>7. Unseen' /\ OneByWorker'
  <2>1. CASE \A d \in Delivery : h # Worker(d)
    BY <1>1, <1>2, <2>1, RunOfDelivery DEF IInv, RecordInv, Unseen, OneByWorker, Worker
  <2>2. CASE \E d \in Delivery : h = Worker(d)
    <3>1. PICK d \in Delivery : h = Worker(d)
      BY <2>2
    <3>2. \A e \in Delivery : run[Worker(e)].pc # "idle" => e = d
      BY <1>2, <3>1 DEF IInv, QueueInv, WorkerOnActive, OneActive
    <3>3. \A e \in Delivery : Worker(e) \in Run /\ (e # d => Worker(e) # h)
      BY <3>1, RunOfDelivery DEF Worker
    <3>4. Unseen'
      BY <1>2, <3>1, <3>2, <3>3 DEF Unseen
    <3>5. \A e \in Delivery : of[e] = of[d] => ~rows[Worker(e)].exists
      BY <1>2, <3>1 DEF IInv, RecordInv, Unseen
    <3>6. OneByWorker'
      BY <1>1, <1>2, <3>1, <3>3, <3>5 DEF IInv, RecordInv, OneByWorker
    <3> QED
      BY <3>4, <3>6
  <2> QED
    BY <2>1, <2>2
<1> QED
  BY <1>4, <1>5, <1>6, <1>7 DEF RecordInv

LEMMA FinishRecords ==
  ASSUME IInv, NEW h \in Run, Finish(h)
  PROVE  RecordInv'
<1>1. /\ of' = of /\ rows' = rows
      /\ \A g \in Run : RowsOf(xfer(g))' = RowsOf(xfer(g)) /\ xfer(g)' = xfer(g)
      /\ \A e \in Delivery : RowsOf(of[e])' = RowsOf(of[e])
  BY DEF Finish, world, dbVars, RowsOf, xfer
<1>2. /\ \A g \in Run \ {h} : run'[g] = run[g]
      /\ ~run'[h].fresh /\ run'[h].pc = "idle" /\ run[h].pc = "done"
      /\ reported' \subseteq reported \cup {g \in {h} : run[g].fresh}
  BY DEF IInv, QueueTypeOK, Finish, NotRunning
<1>3. NothingLost'
  <2>1. h[1] \in Delivery /\ of[h[1]] = xfer(h)
    BY RunOfDelivery DEF xfer
  <2>2. \A e \in Delivery \ {h[1]} : http'[e] = http[e] /\ job'[e] = job[e]
    BY <2>1 DEF Finish, IInv, QueueTypeOK
  <2>3. xfer(h) \in Tracked => RowsOf(xfer(h)) # {}
    BY <1>2 DEF IInv, RecordInv, DoneRecorded
  <2> QED
    BY <1>1, <2>1, <2>2, <2>3 DEF IInv, RecordInv, NothingLost
<1>4. DoneRecorded' /\ FreshRecorded'
  BY <1>1, <1>2 DEF IInv, RecordInv, DoneRecorded, FreshRecorded
<1>5. Unseen' /\ OneByWorker'
  BY <1>1, <1>2, RunOfDelivery DEF IInv, RecordInv, Unseen, OneByWorker, Worker
<1> QED
  BY <1>3, <1>4, <1>5 DEF RecordInv

LEMMA FailRecords ==
  ASSUME IInv, NEW h \in Run, Fail(h)
  PROVE  RecordInv'
<1>1. /\ of' = of /\ rows' = rows /\ reported' = reported
      /\ \A g \in Run : RowsOf(xfer(g))' = RowsOf(xfer(g)) /\ xfer(g)' = xfer(g)
      /\ \A e \in Delivery : RowsOf(of[e])' = RowsOf(of[e])
  BY DEF Fail, dbVars, RowsOf, xfer
<1>2. /\ \A g \in Run \ {h} : run'[g] = run[g]
      /\ ~run'[h].fresh /\ run'[h].pc = "idle"
  BY DEF IInv, QueueTypeOK, Fail, NotRunning
<1>3. \A e \in Delivery :
        \/ http'[e] = http[e] /\ job'[e].st = job[e].st
        \/ http'[e] # "ok"
        \/ job'[e].st \in {"waiting", "failed"}
  <2>1. h[1] \in Delivery
    BY RunOfDelivery
  <2>2. CASE h[2] = "worker"
    <3>1. job'[h[1]].st \in {"waiting", "failed"} /\ http' = http
      BY <2>1, <2>2 DEF Fail, IInv, QueueTypeOK, Jobs
    <3>2. \A e \in Delivery \ {h[1]} : job'[e] = job[e]
      BY <2>1, <2>2 DEF Fail, IInv, QueueTypeOK
    <3> QED
      BY <3>1, <3>2
  <2>3. CASE h[2] = "sync"
    BY <2>1, <2>3 DEF Fail, IInv, QueueTypeOK
  <2> QED
    BY <2>2, <2>3, RunOfDelivery
<1>4. NothingLost'
  BY <1>1, <1>3 DEF IInv, RecordInv, NothingLost
<1>5. DoneRecorded' /\ FreshRecorded'
  BY <1>1, <1>2 DEF IInv, RecordInv, DoneRecorded, FreshRecorded
<1>6. Unseen' /\ OneByWorker'
  BY <1>1, <1>2, RunOfDelivery DEF IInv, RecordInv, Unseen, OneByWorker, Worker
<1> QED
  BY <1>4, <1>5, <1>6 DEF RecordInv

LEMMA RestartRecords ==
  ASSUME IInv, Restart
  PROVE  RecordInv'
<1>1. /\ of' = of /\ rows' = rows /\ reported' = reported
      /\ \A e \in Delivery : RowsOf(of[e])' = RowsOf(of[e])
  BY DEF Restart, RowsOf, xfer
<1>2. \A h \in Run : run'[h].pc = "idle" /\ ~run'[h].fresh
  BY DEF Restart, NotRunning
<1>3. \A d \in Delivery : job'[d].st = job[d].st \/ job'[d].st \in {"waiting", "failed"}
  BY DEF Restart, Recovered, IInv, QueueTypeOK, Jobs
<1>4. \A d \in Delivery : http'[d] = "ok" => http[d] = "ok"
  BY DEF Restart
<1>5. NothingLost'
  BY <1>1, <1>3, <1>4 DEF IInv, RecordInv, NothingLost
<1>6. DoneRecorded' /\ FreshRecorded'
  BY <1>1, <1>2 DEF IInv, RecordInv, DoneRecorded, FreshRecorded
<1>7. Unseen' /\ OneByWorker'
  BY <1>1, <1>2, RunOfDelivery DEF IInv, RecordInv, Unseen, OneByWorker, Worker
<1> QED
  BY <1>5, <1>6, <1>7 DEF RecordInv

\* A step that leaves the runs, the jobs and the existence of every row.
LEMMA StillRecords ==
  ASSUME IInv, SameExistence, UNCHANGED <<of, http, job, run, reported>>
  PROVE  RecordInv'
<1>1. /\ \A x : RowsOf(x)' = RowsOf(x)
      /\ \A h \in Run : xfer(h)' = xfer(h)
  BY DEF SameExistence, RowsOf, xfer
<1>2. NothingLost' /\ DoneRecorded'
  BY <1>1 DEF IInv, RecordInv, NothingLost, DoneRecorded
<1>3. FreshRecorded'
  BY DEF IInv, RecordInv, FreshRecorded, SameExistence
<1>4. Unseen' /\ OneByWorker'
  BY RunOfDelivery DEF IInv, RecordInv, Unseen, OneByWorker, Worker, SameExistence
<1> QED
  BY <1>2, <1>3, <1>4 DEF RecordInv

(***************************************************************************)
(* The invariant, and the theorems.                                        *)
(***************************************************************************)
LEMMA InitIInv == Init => IInv
<1> SUFFICES ASSUME Init
             PROVE  IInv
  OBVIOUS
<1>1. QueueTypeOK /\ TablesTypeOK
  BY InitTypes, TypeParts
<1>2. QueueInv
  <2>1. \A d \in Delivery : job[d] = NoJob /\ run[Worker(d)] = NotRunning
    BY RunOfDelivery DEF Init, Worker
  <2>2. NoJob.st = "none" /\ NoJob.tries = 0 /\ NotRunning.pc = "idle"
    BY DEF NoJob, NotRunning
  <2> QED
    BY <2>1, <2>2, IncomingAssumption
    DEF QueueInv, TriesLeft, WorkerOnActive, OneActive, NoJobYet
<1>3. RecordInv
  BY RunOfDelivery
  DEF Init, RecordInv, NothingLost, DoneRecorded, FreshRecorded, Unseen, OneByWorker,
      NotRunning, NoRow, Worker
<1> QED
  BY <1>1, <1>2, <1>3 DEF IInv

LEMMA NextKeeps == IInv /\ [Next]_vars => IInv'
<1> SUFFICES ASSUME IInv, [Next]_vars
             PROVE  IInv'
  OBVIOUS
<1>1. QueueTypeOK /\ TablesTypeOK /\ QueueInv
  BY DEF IInv
<1>2. ASSUME NEW d \in Delivery, Endpoint(d)
      PROVE  IInv'
  BY <1>1, <1>2, EndpointTypes, EndpointQueue, EndpointRecords DEF IInv
<1>3. ASSUME NEW h \in Run, Lookup(h)
      PROVE  IInv'
  BY <1>1, <1>3, LookupKeepsQueue, LookupRecords DEF IInv
<1>4. ASSUME NEW h \in Run, CountCandidates(h)
      PROVE  IInv'
  BY <1>1, <1>4, CountKeepsQueue, CountRecords DEF IInv
<1>5. ASSUME NEW h \in Run, Commit(h)
      PROVE  IInv'
  BY <1>1, <1>5, CommitKeepsQueue, CommitRecords DEF IInv
<1>6. ASSUME NEW h \in Run, Finish(h)
      PROVE  IInv'
  BY <1>1, <1>6, FinishKeepsQueue, FinishRecords DEF IInv
<1>7. ASSUME NEW h \in Run, Fail(h)
      PROVE  IInv'
  BY <1>1, <1>7, FailTypes, FailQueue, FailRecords DEF IInv
<1>8. CASE Restart
  BY <1>1, <1>8, RestartKeepsQueue, RestartRecords DEF IInv
<1>9. CASE Desk
  <2>1. TablesTypeOK' /\ SameExistence /\ events' \in 0..MaxEvents
    BY <1>1, <1>9, DeskTypes
  <2>2. UNCHANGED <<of, http, job, run, reported>>
    BY <1>9 DEF Desk
  <2>3. QueueTypeOK' /\ QueueInv'
    BY <1>1, <2>1, <2>2
    DEF QueueTypeOK, QueueInv, TriesLeft, WorkerOnActive, OneActive, NoJobYet
  <2> QED
    BY <2>1, <2>2, <2>3, StillRecords DEF IInv
<1>10. CASE UNCHANGED vars
  <2>1. UNCHANGED <<of, http, job, run, reported, events, rows, order, shown, desk, touched>>
    BY <1>10 DEF vars, world, dbVars
  <2>2. SameExistence
    BY <2>1 DEF SameExistence
  <2>3. QueueTypeOK' /\ TablesTypeOK' /\ QueueInv'
    BY <1>1, <2>1
    DEF QueueTypeOK, TablesTypeOK, QueueInv, TriesLeft, WorkerOnActive, OneActive, NoJobYet
  <2> QED
    BY <2>1, <2>2, <2>3, StillRecords DEF IInv
<1> QED
  BY <1>2, <1>3, <1>4, <1>5, <1>6, <1>7, <1>8, <1>9, <1>10 DEF Next, Step, Endpoint

LEMMA Invariance == Spec => []IInv
BY InitIInv, NextKeeps, PTL DEF Spec

LEMMA IInvImplies == IInv => TypeOK /\ NothingLost /\ QueueSerialises
<1> SUFFICES ASSUME IInv
             PROVE  TypeOK /\ NothingLost /\ QueueSerialises
  OBVIOUS
<1>1. TypeOK /\ NothingLost
  BY TypeParts DEF IInv, RecordInv
<1>2. ASSUME NEW x \in Transfer
      PROVE  Cardinality({h \in RowsOf(x) : h[2] = "worker"}) <= 1
  <2> DEFINE S == {h \in RowsOf(x) : h[2] = "worker"}
  <2>1. \A g, h \in S : g = h
    <3>1. ASSUME NEW g \in S, NEW h \in S
          PROVE  g = h
      <4>1. /\ g = Worker(g[1]) /\ h = Worker(h[1])
            /\ g[1] \in Delivery /\ h[1] \in Delivery
            /\ of[g[1]] = x /\ of[h[1]] = x
            /\ rows[g].exists /\ rows[h].exists
        BY DEF RowsOf, Run, Worker, xfer
      <4> QED
        BY <4>1 DEF IInv, RecordInv, OneByWorker
    <3> QED
      BY <3>1
  <2> HIDE DEF S
  <2>2. S = {} \/ \E a : S = {a}
    BY <2>1
  <2>3. Cardinality(S) <= 1
    BY <2>2, FS_EmptySet, FS_Singleton
  <2> QED
    BY <2>3 DEF S
<1>3. \A h \in reported : rows[h].exists
  BY DEF IInv, QueueTypeOK, RecordInv, FreshRecorded
<1> QED
  BY <1>1, <1>2, <1>3 DEF QueueSerialises

(***************************************************************************)
(* Every reachable state is well typed; in particular a job is never tried *)
(* more often than Attempts, and paid_amount never becomes negative.       *)
(***************************************************************************)
THEOREM TypeCorrect == Spec => []TypeOK
BY Invariance, IInvImplies, PTL

(***************************************************************************)
(* No transfer SePay was told "200" about is lost, whatever fails and      *)
(* restarts, for any number of deliveries: Redis keeps the job until a run *)
(* of it found or made the row.                                            *)
(***************************************************************************)
THEOREM AcceptedIsKept == Spec => []NothingLost
BY Invariance, IInvImplies, PTL

(***************************************************************************)
(* The single worker never records a transfer twice, though the SELECT and *)
(* the INSERT of transaction_create_from_sepay are two statements with no  *)
(* unique index behind them, and never reports one it did not record.      *)
(***************************************************************************)
THEOREM WorkerIsIdempotent == Spec => []QueueSerialises
BY Invariance, IInvImplies, PTL

-----------------------------------------------------------------------------
(* The money of the orders.                                                *)

(***************************************************************************)
(* The coins of a set of rows: there are finitely many, and one more row   *)
(* adds the amount of its transfer.                                        *)
(***************************************************************************)
LEMMA FiniteRuns == IsFiniteSet(Run)
<1>1. IsFiniteSet({"worker", "sync"})
  <2>1. {"worker", "sync"} = {"worker"} \cup {"sync"}
    OBVIOUS
  <2>2. IsFiniteSet({"worker"}) /\ IsFiniteSet({"sync"})
    BY FS_Singleton
  <2>3. IsFiniteSet({"worker"} \cup {"sync"})
    BY <2>2, FS_Union
  <2> QED
    BY <2>1, <2>3
<1> QED
  BY <1>1, IncomingAssumption, FS_Product DEF Run

LEMMA Purse ==
  ASSUME NEW h, NEW n \in Nat
  PROVE  IsFiniteSet({h} \X (1..n)) /\ Cardinality({h} \X (1..n)) = n
<1>1. IsFiniteSet(1..n) /\ Cardinality(1..n) = n
  BY FS_Interval
<1>2. IsFiniteSet({h}) /\ Cardinality({h}) = 1
  BY FS_Singleton
<1> QED
  BY <1>1, <1>2, FS_Product

LEMMA AmountType ==
  ASSUME QueueTypeOK, NEW h \in Run
  PROVE  Amount[xfer(h)] \in Nat
BY XferType, IncomingAssumption

LEMMA CoinsFinite ==
  ASSUME QueueTypeOK, NEW H \in SUBSET Run
  PROVE  IsFiniteSet(Coins(H)) /\ Cardinality(Coins(H)) \in Nat
<1> DEFINE purse == [h \in H |-> {h} \X (1..Amount[xfer(h)])]
           purses == {{h} \X (1..Amount[xfer(h)]) : h \in H}
<1>1. IsFiniteSet(H)
  BY FiniteRuns, FS_Subset
<1>2. purse \in Surjection(H, purses)
  BY DEF Surjection
<1>3. IsFiniteSet(purses)
  BY <1>1, <1>2, FS_Surjection
<1>4. \A T \in purses : IsFiniteSet(T)
  <2>1. ASSUME NEW h \in H
        PROVE  IsFiniteSet({h} \X (1..Amount[xfer(h)]))
    <3>1. Amount[xfer(h)] \in Nat
      BY AmountType
    <3> QED
      BY <3>1, Purse
  <2> QED
    BY <2>1
<1>5. Coins(H) = UNION purses
  BY Zenon DEF Coins
<1> HIDE DEF purses
<1> QED
  BY <1>3, <1>4, <1>5, FS_UNION, FS_CardinalityType

LEMMA CoinsAdded ==
  ASSUME QueueTypeOK, NEW H \in SUBSET Run, NEW h \in Run \ H
  PROVE  Cardinality(Coins(H \cup {h})) = Cardinality(Coins(H)) + Amount[xfer(h)]
<1> DEFINE n == Amount[xfer(h)]
           purse == {h} \X (1..n)
<1>1. IsFiniteSet(Coins(H)) /\ Cardinality(Coins(H)) \in Nat
  BY CoinsFinite
<1>2. n \in Nat
  BY AmountType
<1>3. IsFiniteSet(purse) /\ Cardinality(purse) = n
  BY <1>2, Purse
<1>4. Coins(H \cup {h}) = Coins(H) \cup purse
  BY DEF Coins
<1>5. Coins(H) \cap purse = {}
  BY DEF Coins
<1> HIDE DEF n, purse
<1>6. Cardinality(Coins(H) \cap purse) = 0
  BY <1>5, FS_EmptySet
<1>7. Cardinality(Coins(H) \cup purse) = Cardinality(Coins(H)) + Cardinality(purse) - 0
  BY <1>1, <1>3, <1>6, FS_Union
<1>8. Cardinality(Coins(H \cup {h})) = Cardinality(Coins(H)) + n - 0
  BY <1>3, <1>4, <1>7, Zenon
<1>9. Cardinality(Coins(H \cup {h})) = Cardinality(Coins(H)) + n
  BY <1>1, <1>2, <1>8
<1> QED
  BY <1>9 DEF n

(***************************************************************************)
(* What a row says of an order.                                            *)
(***************************************************************************)
Pays(h, o) == rows[h].exists /\ rows[h].order = o /\ xfer(h) \in Incoming
Claims(h, o) == rows[h].by = "amount" /\ rows[h].order = o

LEMMA CreditsAre == \A o : Credits(o) = {h \in Run : Pays(h, o)}
BY DEF Credits, Pays

LEMMA ReceivedKept ==
  ASSUME of' = of, NEW o, \A h \in Run : Pays(h, o)' <=> Pays(h, o)
  PROVE  Received(o)' = Received(o)
<1>1. Credits(o)' = Credits(o)
  BY DEF Credits, Pays
<1>2. \A h \in Run : xfer(h)' = xfer(h)
  BY DEF xfer
<1>3. \A h \in Credits(o) : h \in Run
  BY DEF Credits
<1>4. Coins(Credits(o))' = Coins(Credits(o))
  BY <1>1, <1>2, <1>3 DEF Coins
<1> QED
  BY <1>4 DEF Received

LEMMA ReceivedAdded ==
  ASSUME QueueTypeOK, of' = of, NEW o, NEW h \in Run, ~Pays(h, o), Pays(h, o)',
         \A g \in Run \ {h} : Pays(g, o)' <=> Pays(g, o)
  PROVE  Received(o)' = Received(o) + Amount[xfer(h)]
<1> DEFINE H == Credits(o)
<1>1. Credits(o)' = H \cup {h}
  BY DEF Credits, Pays
<1>2. H \in SUBSET Run /\ h \in Run \ H
  BY DEF Credits, Pays
<1>3. \A g \in Run : xfer(g)' = xfer(g)
  BY DEF xfer
<1>4. Coins(Credits(o))' = Coins(H \cup {h})
  BY <1>1, <1>2, <1>3 DEF Coins
<1>5. Cardinality(Coins(H \cup {h})) = Cardinality(Coins(H)) + Amount[xfer(h)]
  BY <1>2, CoinsAdded
<1> QED
  BY <1>4, <1>5 DEF Received

(***************************************************************************)
(* The strengthening.  A run between its SELECT and its INSERT has no row, *)
(* a run that counted has a transfer without an order in its text, the     *)
(* dialog shows rows of money in, and an order matched by its amount       *)
(* carries a sepay_id, which is what closes it to a second match.          *)
(***************************************************************************)
Unwritten == \A h \in Run : run[h].pc \in {"absent", "counted"} => ~rows[h].exists
CountedByAmount == \A h \in Run : run[h].pc = "counted" => ByAmount(h)
ClaimExists == \A h \in Run : rows[h].by = "amount" => rows[h].exists
ShownPays == \A p \in shown : rows[p[1]].exists /\ xfer(p[1]) \in Incoming
Sealed ==
  \A h \in Run, o \in Order \ touched : Claims(h, o) => order[o].sepay # NoTransfer

Books == CreditsAddUp /\ Sealed /\ ClaimedOnce
MoneyInv == Unwritten /\ CountedByAmount /\ ClaimExists /\ ShownPays /\ Books

\* No order that is still untouched gains or loses a row, money or a claim.
NothingMoves ==
  /\ of' = of /\ touched \subseteq touched'
  /\ \A o \in Order \ touched' :
       /\ order'[o].paid = order[o].paid
       /\ order[o].sepay # NoTransfer => order'[o].sepay # NoTransfer
       /\ \A h \in Run : (Pays(h, o)' <=> Pays(h, o)) /\ (Claims(h, o)' => Claims(h, o))

LEMMA BooksKept ==
  ASSUME Books, NothingMoves
  PROVE  Books'
<1>1. CreditsAddUp'
  <2> SUFFICES ASSUME NEW o \in Order \ touched'
               PROVE  order'[o].paid = Received(o)'
    BY DEF CreditsAddUp
  <2>1. Received(o)' = Received(o)
    BY ReceivedKept DEF NothingMoves
  <2> QED
    BY <2>1 DEF NothingMoves, Books, CreditsAddUp
<1>2. Sealed'
  BY DEF NothingMoves, Books, Sealed
<1>3. ClaimedOnce'
  <2> SUFFICES ASSUME NEW g \in Run, NEW h \in Run, g # h, NEW o \in Order \ touched',
                      Claims(g, o)', Claims(h, o)'
               PROVE  FALSE
    BY DEF ClaimedOnce, Claims
  <2>1. Claims(g, o) /\ Claims(h, o) /\ o \in Order \ touched
    BY DEF NothingMoves
  <2> QED
    BY <2>1 DEF Books, ClaimedOnce, Claims
<1> QED
  BY <1>1, <1>2, <1>3 DEF Books

(***************************************************************************)
(* An order is credited with the amount of a row that named no order, or   *)
(* did not exist; a claim by amount finds the order unsealed.              *)
(***************************************************************************)
LEMMA BooksCredited ==
  ASSUME QueueTypeOK, TablesTypeOK, Books, NEW h \in Run, NEW o \in Order, NEW row \in Rows,
         \A q \in Order : ~Pays(h, q), \A q \in Order : ~Claims(h, q),
         rows' = [rows EXCEPT ![h] = row], row.exists, row.order = o, xfer(h) \in Incoming,
         row.by = "amount" => order[o].sepay = NoTransfer,
         order' = Credited(o, xfer(h)), of' = of, touched' = touched
  PROVE  Books'
<1> DEFINE x == xfer(h)
<1>1. x \in Transfer /\ x # NoTransfer /\ Amount[x] \in Nat
  BY XferType, IncomingAssumption
<1>2. /\ order'[o].paid = order[o].paid + Amount[x] /\ order'[o].sepay = x
      /\ \A q \in Order \ {o} : order'[q] = order[q]
  BY DEF Credited, TablesTypeOK
<1>3. /\ rows'[h] = row /\ \A g \in Run \ {h} : rows'[g] = rows[g]
      /\ \A g \in Run : xfer(g)' = xfer(g)
  BY DEF TablesTypeOK, xfer
<1>4. /\ Pays(h, o)' /\ \A q \in Order \ {o} : ~Pays(h, q)' /\ ~Claims(h, q)'
      /\ \A g \in Run \ {h} : \A q \in Order :
           (Pays(g, q)' <=> Pays(g, q)) /\ (Claims(g, q)' <=> Claims(g, q))
  BY <1>3 DEF Pays, Claims
<1>5. Claims(h, o)' => order[o].sepay = NoTransfer
  BY <1>3 DEF Claims
<1> HIDE DEF x
<1>6. CreditsAddUp'
  <2>1. ASSUME o \notin touched
        PROVE  order'[o].paid = Received(o)'
    <3>1. Received(o)' = Received(o) + Amount[x]
      BY <1>4, ReceivedAdded DEF x
    <3>2. order[o].paid = Received(o)
      BY <2>1 DEF Books, CreditsAddUp
    <3> QED
      BY <1>2, <3>1, <3>2
  <2>2. ASSUME NEW q \in Order \ touched, q # o
        PROVE  order'[q].paid = Received(q)'
    <3>1. \A g \in Run : Pays(g, q)' <=> Pays(g, q)
      BY <1>4, <2>2
    <3>2. Received(q)' = Received(q)
      BY <3>1, ReceivedKept
    <3> QED
      BY <1>2, <2>2, <3>2 DEF Books, CreditsAddUp
  <2> QED
    BY <2>1, <2>2 DEF CreditsAddUp
<1>7. Sealed'
  BY <1>1, <1>2, <1>4 DEF Books, Sealed
<1>8. ClaimedOnce'
  <2> SUFFICES ASSUME NEW g \in Run, NEW k \in Run, g # k, NEW q \in Order \ touched,
                      Claims(g, q)', Claims(k, q)'
               PROVE  FALSE
    BY DEF ClaimedOnce, Claims
  <2>1. CASE g # h /\ k # h
    BY <1>4, <2>1 DEF Books, ClaimedOnce, Claims
  <2>2. CASE g = h \/ k = h
    <3>1. q = o /\ order[o].sepay = NoTransfer
      BY <1>4, <1>5, <2>2
    <3>2. \E l \in {g, k} : l # h /\ Claims(l, o)
      BY <1>4, <2>2, <3>1
    <3> QED
      BY <3>1, <3>2 DEF Books, Sealed
  <2> QED
    BY <2>1, <2>2
<1> QED
  BY <1>6, <1>7, <1>8 DEF Books

(***************************************************************************)
(* The steps.                                                              *)
(***************************************************************************)
\* What a step leaves that writes neither rows nor orders.
LEMMA StillBooks ==
  ASSUME Books, of' = of, rows' = rows, order' = order, touched' = touched
  PROVE  Books'
<1>1. NothingMoves
  BY DEF NothingMoves, Pays, Claims, xfer
<1> QED
  BY <1>1, BooksKept

LEMMA RunsMoney ==
  ASSUME IInv, MoneyInv, NEW h \in Run,
         \/ Lookup(h) \/ CountCandidates(h) \/ Finish(h) \/ Fail(h)
  PROVE  MoneyInv'
<1>1. UNCHANGED <<of, rows, order, shown, touched>>
  BY DEF Lookup, CountCandidates, Finish, Fail, world, dbVars, Event
<1>2. Books'
  BY <1>1, StillBooks DEF MoneyInv
<1>3. ShownPays' /\ ClaimExists'
  BY <1>1 DEF MoneyInv, ShownPays, ClaimExists, xfer
<1>4. /\ \A g \in Run \ {h} : run'[g] = run[g]
      /\ \A g \in Run : ByAmount(g)' = ByAmount(g)
      /\ run'[h].pc \in {"absent", "counted"} => ~rows[h].exists
      /\ run'[h].pc = "counted" => ByAmount(h)
  <2>1. run \in [Run -> Runs]
    BY DEF IInv, QueueTypeOK
  <2>2. \A g \in Run : ByAmount(g)' = ByAmount(g)
    BY <1>1 DEF ByAmount, xfer
  <2>3. CASE Lookup(h)
    <3>1. ~Known(h) => ~rows[h].exists
      BY DEF Known, RowsOf
    <3>2. run' = [run EXCEPT ![h].pc =
                   IF Known(h) \/ xfer(h) \notin Tracked THEN "done" ELSE "absent"]
      BY <2>3 DEF Lookup
    <3> QED
      BY <2>1, <2>2, <3>1, <3>2 DEF Runs
  <2>4. CASE CountCandidates(h)
    BY <2>1, <2>2, <2>4 DEF CountCandidates, Runs, MoneyInv, Unwritten
  <2>5. CASE Finish(h) \/ Fail(h)
    BY <2>1, <2>2, <2>5 DEF Finish, Fail, NotRunning
  <2> QED
    BY <2>3, <2>4, <2>5
<1>5. Unwritten' /\ CountedByAmount'
  BY <1>1, <1>4 DEF MoneyInv, Unwritten, CountedByAmount
<1> QED
  BY <1>2, <1>3, <1>5 DEF MoneyInv

LEMMA EndpointMoney ==
  ASSUME IInv, MoneyInv, NEW d \in Delivery, Endpoint(d)
  PROVE  MoneyInv'
<1>1. UNCHANGED <<of, rows, order, shown, touched>>
  BY DEF Endpoint, Receive, Enqueue, EnqueueThrows, TakeJob, world, dbVars
<1>2. \A g \in Run : run'[g].pc \in {"start", run[g].pc}
  <2>1. run \in [Run -> Runs]
    BY DEF IInv, QueueTypeOK
  <2>2. ASSUME NEW k \in Run, run' = [run EXCEPT ![k].pc = "start"]
        PROVE  \A g \in Run : run'[g].pc \in {"start", run[g].pc}
    BY <2>1, <2>2 DEF Runs
  <2> QED
    BY <2>2, RunOfDelivery DEF Endpoint, Receive, Enqueue, EnqueueThrows, TakeJob
<1>3. Books'
  BY <1>1, StillBooks DEF MoneyInv
<1>4. ShownPays' /\ ClaimExists' /\ Unwritten' /\ CountedByAmount'
  BY <1>1, <1>2 DEF MoneyInv, ShownPays, ClaimExists, Unwritten, CountedByAmount, ByAmount, xfer
<1> QED
  BY <1>3, <1>4 DEF MoneyInv

LEMMA RestartMoney ==
  ASSUME MoneyInv, Restart
  PROVE  MoneyInv'
<1>1. UNCHANGED <<of, rows, order, touched>> /\ shown' = {}
  BY DEF Restart
<1>2. \A g \in Run : run'[g].pc = "idle"
  BY DEF Restart, NotRunning
<1>3. Books'
  BY <1>1, StillBooks DEF MoneyInv
<1> QED
  BY <1>1, <1>2, <1>3 DEF MoneyInv, ShownPays, ClaimExists, Unwritten, CountedByAmount

LEMMA CommitMoney ==
  ASSUME IInv, MoneyInv, NEW h \in Run, Commit(h)
  PROVE  MoneyInv'
<1>1. /\ QueueTypeOK /\ TablesTypeOK /\ Books /\ of' = of /\ touched' = touched
      /\ shown' = shown /\ xfer(h) \in Transfer
  BY XferType DEF IInv, MoneyInv, Commit, world
<1>2. /\ \A g \in Run \ {h} : run'[g] = run[g]
      /\ run'[h].pc = "done" /\ ~rows[h].exists
  BY DEF IInv, QueueTypeOK, MoneyInv, Unwritten, Commit, CommitContent, CommitOutgoing, CommitAmount
<1>3. \A q \in Order : ~Pays(h, q) /\ ~Claims(h, q)
  BY <1>2 DEF Pays, Claims, MoneyInv, ClaimExists
<1>4. Books' /\ \E row \in Rows : row.exists /\ rows' = [rows EXCEPT ![h] = row]
  <2>1. ASSUME NEW o \in Order, NEW row \in Rows, row.exists, row.order = o,
               xfer(h) \in Incoming, row.by = "amount" => Claimable(o),
               Insert(h, row), order' = Credited(o, xfer(h))
        PROVE  Books' /\ \E r \in Rows : r.exists /\ rows' = [rows EXCEPT ![h] = r]
    <3>1. rows' = [rows EXCEPT ![h] = row] /\ (row.by = "amount" => order[o].sepay = NoTransfer)
      BY <2>1 DEF Insert, Claimable
    <3>2. Books'
      BY <1>1, <1>3, <2>1, <3>1, BooksCredited
    <3> QED
      BY <2>1, <3>1, <3>2
  <2>2. ASSUME NEW row \in Rows, row.exists, row.by = "none", Insert(h, row), order' = order,
               xfer(h) \notin Incoming \/ row.order = NoOrder
        PROVE  Books' /\ \E r \in Rows : r.exists /\ rows' = [rows EXCEPT ![h] = r]
    <3>1. rows' = [rows EXCEPT ![h] = row]
      BY <2>2 DEF Insert
    <3>2. /\ rows'[h] = row /\ \A g \in Run \ {h} : rows'[g] = rows[g]
          /\ \A g \in Run : xfer(g)' = xfer(g)
      BY <1>1, <3>1 DEF TablesTypeOK, xfer
    <3>3. \A q \in Order : ~Pays(h, q)' /\ ~Claims(h, q)'
      BY <2>2, <3>2, IncomingAssumption DEF Pays, Claims
    <3>4. \A g \in Run \ {h}, q \in Order : (Pays(g, q)' <=> Pays(g, q)) /\ (Claims(g, q)' <=> Claims(g, q))
      BY <3>2 DEF Pays, Claims
    <3>5. NothingMoves
      BY <1>1, <1>3, <2>2, <3>3, <3>4 DEF NothingMoves
    <3> QED
      BY <1>1, <2>2, <3>1, <3>5, BooksKept
  <2> DEFINE x == xfer(h)
             new == NewRow(h)
  <2>3. Mentions[x] \in Order \cup {NoOrder}
    BY <1>1, IncomingAssumption
  <2>4. new \in Rows /\ new.exists /\ new.order = Mentions[x] /\ new.by = "none"
    BY <2>3 DEF NewRow, NoRow, Rows
  <2>5. CASE CommitContent(h)
    <3> DEFINE row == [new EXCEPT !.by = "content"]
    <3>1. /\ Mentions[x] \in Order /\ x \in Incoming /\ order' = Credited(Mentions[x], x)
          /\ Insert(h, row)
      BY <2>3, <2>5 DEF CommitContent, ByContent
    <3> HIDE DEF new
    <3>2. row \in Rows /\ row.exists /\ row.order = Mentions[x] /\ row.by = "content"
      BY <2>4 DEF Rows
    <3> HIDE DEF row, x
    <3> QED
      BY <2>1, <3>1, <3>2 DEF x
  <2>6. CASE CommitOutgoing(h)
    BY <2>2, <2>4, <2>6 DEF CommitOutgoing
  <2>7. CASE CommitAmount(h)
    <3>1. x \in Incoming /\ Mentions[x] = NoOrder
      BY <2>7 DEF CommitAmount, MoneyInv, CountedByAmount, ByAmount
    <3>2. CASE \E o \in Order :
                 /\ Claimable(o) /\ order' = Credited(o, x)
                 /\ Insert(h, [new EXCEPT !.order = o, !.by = "amount"])
      <4>1. PICK o \in Order :
                 /\ Claimable(o) /\ order' = Credited(o, x)
                 /\ Insert(h, [new EXCEPT !.order = o, !.by = "amount"])
        BY <3>2
      <4> DEFINE row == [new EXCEPT !.order = o, !.by = "amount"]
      <4> HIDE DEF new
      <4>2. row \in Rows /\ row.exists /\ row.order = o
        BY <2>4 DEF Rows
      <4>3. Insert(h, row)
        BY <4>1
      <4> HIDE DEF row, x
      <4> QED
        BY <2>1, <3>1, <4>1, <4>2, <4>3 DEF x
    <3>3. CASE /\ Insert(h, [new EXCEPT !.review = Cardinality(run[h].cands) >= 2])
               /\ UNCHANGED order
      <4> DEFINE many == Cardinality(run[h].cands) >= 2
                 row == [new EXCEPT !.review = many]
      <4>1. many \in BOOLEAN
        OBVIOUS
      <4> HIDE DEF many, new
      <4>2. row \in Rows /\ row.exists /\ row.order = NoOrder /\ row.by = "none"
        BY <2>4, <3>1, <4>1 DEF Rows
      <4>3. Insert(h, row)
        BY <3>3 DEF many
      <4> HIDE DEF row
      <4> QED
        BY <2>2, <3>3, <4>2, <4>3
    <3> QED
      BY <2>7, <3>2, <3>3 DEF CommitAmount
  <2> QED
    BY <2>5, <2>6, <2>7 DEF Commit
<1>5. rows'[h].exists /\ \A g \in Run \ {h} : rows'[g] = rows[g]
  BY <1>1, <1>4 DEF TablesTypeOK
<1>6. Unwritten' /\ CountedByAmount' /\ ClaimExists'
  BY <1>1, <1>2, <1>5
  DEF MoneyInv, Unwritten, CountedByAmount, ClaimExists, ByAmount, xfer
<1>7. ShownPays'
  BY <1>1, <1>5 DEF MoneyInv, ShownPays, xfer, TablesTypeOK
<1> QED
  BY <1>4, <1>6, <1>7 DEF MoneyInv

LEMMA DeskMoney ==
  ASSUME IInv, MoneyInv, Desk
  PROVE  MoneyInv'
<1>1. /\ QueueTypeOK /\ TablesTypeOK /\ Books
      /\ UNCHANGED <<of, run>>
      /\ \A g \in Run : xfer(g)' = xfer(g) /\ (ByAmount(g)' <=> ByAmount(g))
  BY DEF IInv, MoneyInv, Desk, ByAmount, xfer
<1>2. SameExistence
  BY <1>1, DeskTypes DEF IInv
<1>3. Unwritten' /\ CountedByAmount'
  BY <1>1, <1>2 DEF MoneyInv, Unwritten, CountedByAmount, SameExistence
\* Moving the row h to the order o, or to none, with both ends marked as touched.
<1>4. ASSUME NEW h \in Run, NEW o \in Order \cup {NoOrder},
             rows' = [rows EXCEPT ![h].order = o, ![h].review = FALSE],
             touched' = touched \cup OrdersOf(h) \cup ({o} \ {NoOrder}),
             \A q \in Order \ touched' : order'[q] = order[q]
      PROVE  Books'
  <2>1. /\ \A g \in Run \ {h} : rows'[g] = rows[g]
        /\ rows'[h].order = o /\ rows'[h].by = rows[h].by /\ rows'[h].exists = rows[h].exists
    BY <1>1, <1>4 DEF TablesTypeOK, Rows
  <2>2. \A q \in Order \ touched' : rows[h].order # q /\ o # q
    BY <1>4, IncomingAssumption DEF OrdersOf
  <2>3. \A q \in Order \ touched' : \A g \in Run :
          (Pays(g, q)' <=> Pays(g, q)) /\ (Claims(g, q)' => Claims(g, q))
    BY <1>1, <2>1, <2>2 DEF Pays, Claims
  <2>4. NothingMoves
    BY <1>1, <1>4, <2>3 DEF NothingMoves
  <2> QED
    BY <1>1, <2>4, BooksKept
<1>5. ASSUME NEW h \in Run, NEW o, rows' = [rows EXCEPT ![h].order = o, ![h].review = FALSE]
      PROVE  ClaimExists'
  <2>1. \A g \in Run : rows'[g].by = rows[g].by /\ rows'[g].exists = rows[g].exists
    BY <1>1, <1>5 DEF TablesTypeOK, Rows
  <2> QED
    BY <2>1 DEF MoneyInv, ClaimExists
<1>6. ASSUME rows' = rows, touched' = touched, \A q \in Order : order'[q].paid = order[q].paid
                                                    /\ order'[q].sepay = order[q].sepay
      PROVE  Books' /\ ClaimExists'
  <2>1. NothingMoves
    BY <1>1, <1>6 DEF NothingMoves, Pays, Claims
  <2> QED
    BY <1>1, <1>6, <2>1, BooksKept DEF MoneyInv, ClaimExists
<1>7. ASSUME shown' \subseteq shown
      PROVE  ShownPays'
  BY <1>1, <1>2, <1>7 DEF MoneyInv, ShownPays, SameExistence, TablesTypeOK
<1>8. CASE \E h \in Run, o \in Order : order_reconcile_read(o, h)
  BY <1>3, <1>6, <1>7, <1>8 DEF order_reconcile_read, MoneyInv
<1>9. CASE order_reconcile_write
  <2>1. CASE UNCHANGED <<order, rows, touched>>
    BY <1>3, <1>6, <1>7, <1>9, <2>1 DEF order_reconcile_write, MoneyInv
  <2>2. CASE desk.linked # desk.order
    <3> DEFINE o == desk.order
               h == desk.row
    <3>1. o \in Order /\ h \in Run
      BY <1>1, <1>9 DEF order_reconcile_write, TablesTypeOK, Desks
    <3>2. /\ rows' = [rows EXCEPT ![h].order = o, ![h].review = FALSE]
          /\ touched' = touched \cup {o} \cup OrdersOf(h)
          /\ shown' = shown
      BY <1>9, <2>2 DEF order_reconcile_write
    <3>3. \A q \in Order \ {o} : order'[q] = order[q]
      BY <1>1, <1>9, <2>2 DEF order_reconcile_write, TablesTypeOK
    <3> HIDE DEF o, h
    <3>4. touched' = touched \cup OrdersOf(h) \cup ({o} \ {NoOrder})
      BY <3>1, <3>2, IncomingAssumption
    <3>5. \A q \in Order \ touched' : order'[q] = order[q]
      BY <3>2, <3>3
    <3> QED
      BY <1>3, <1>4, <1>5, <1>7, <3>1, <3>2, <3>4, <3>5 DEF MoneyInv
  <2> QED
    BY <1>9, <2>1, <2>2 DEF order_reconcile_write
<1>10. CASE \E h \in Run, o \in Order \cup {NoOrder} : transaction_link_order(h, o)
  <2>1. PICK h \in Run, o \in Order \cup {NoOrder} : transaction_link_order(h, o)
    BY <1>10
  <2> QED
    BY <1>3, <1>4, <1>5, <1>7, <2>1 DEF transaction_link_order, MoneyInv
<1>11. CASE \E o \in Order, status \in Statuses : order_patch_fields(o, status)
  <2>1. PICK o \in Order, status \in Statuses : order_patch_fields(o, status)
    BY <1>11
  <2>2. \A q \in Order : order'[q].paid = order[q].paid /\ order'[q].sepay = order[q].sepay
    BY <1>1, <2>1 DEF order_patch_fields, TablesTypeOK, Orders
  <2> QED
    BY <1>3, <1>6, <1>7, <2>1, <2>2 DEF order_patch_fields, MoneyInv
<1>12. CASE \E classified \in SUBSET {h \in Run : rows[h].exists} :
               transaction_reconcile_preview(classified)
  <2>1. /\ UNCHANGED <<rows, order, touched>>
        /\ \A p \in shown' : p[1] \in Run /\ rows[p[1]].exists /\ xfer(p[1]) \in Incoming
    BY <1>12 DEF transaction_reconcile_preview, ReconcilePairs
  <2>2. ShownPays'
    BY <1>1, <2>1 DEF ShownPays
  <2> QED
    BY <1>3, <1>6, <2>1, <2>2 DEF MoneyInv
<1>13. CASE \E p \in shown : transaction_reconcile_apply(p)
  <2>1. PICK p \in shown : transaction_reconcile_apply(p)
    BY <1>13
  <2>2. shown' \subseteq shown /\ touched' = touched
    BY <2>1 DEF transaction_reconcile_apply
  <2>3. CASE UNCHANGED <<order, rows>>
    BY <1>3, <1>6, <1>7, <2>2, <2>3 DEF MoneyInv
  <2>4. CASE PairHolds(p)
    <3> DEFINE h == p[1]
               o == p[2]
               row == [rows[h] EXCEPT !.order = o, !.review = FALSE]
    <3>1. h \in Run /\ o \in Order /\ rows[h].exists /\ xfer(h) \in Incoming
      BY <1>1 DEF TablesTypeOK, MoneyInv, ShownPays
    <3>2. /\ rows' = [rows EXCEPT ![h].order = o, ![h].review = FALSE]
          /\ order' = Credited(o, xfer(h))
      BY <2>1, <2>4 DEF transaction_reconcile_apply
    <3>3. row \in Rows /\ row.exists /\ row.order = o /\ rows' = [rows EXCEPT ![h] = row]
      BY <1>1, <3>1, <3>2 DEF TablesTypeOK, Rows
    <3>4. /\ \A q \in Order : ~Pays(h, q) /\ ~Claims(h, q)
          /\ order[o].sepay = NoTransfer
      BY <2>4, IncomingAssumption DEF PairHolds, Pays, Claims, Claimable
    <3> HIDE DEF h, o, row
    <3>5. Books'
      BY <1>1, <2>2, <3>1, <3>2, <3>3, <3>4, BooksCredited
    <3> QED
      BY <1>3, <1>5, <1>7, <2>2, <3>1, <3>2, <3>5 DEF MoneyInv
  <2> QED
    BY <2>1, <2>3, <2>4 DEF transaction_reconcile_apply
<1> QED
  BY <1>8, <1>9, <1>10, <1>11, <1>12, <1>13 DEF Desk

LEMMA InitMoney == Init => MoneyInv
<1> SUFFICES ASSUME Init
             PROVE  MoneyInv
  OBVIOUS
<1>1. \A h \in Run : ~rows[h].exists /\ rows[h].by = "none" /\ run[h].pc = "idle"
  BY DEF Init, NoRow, NotRunning
<1>2. CreditsAddUp
  <2> SUFFICES ASSUME NEW o \in Order
               PROVE  order[o].paid = Received(o)
    BY DEF CreditsAddUp
  <2>1. Credits(o) = {}
    BY <1>1 DEF Credits
  <2>2. Coins({}) = {}
    BY DEF Coins
  <2>3. Received(o) = 0
    BY <2>1, <2>2, FS_EmptySet DEF Received
  <2> QED
    BY <2>3 DEF Init
<1>3. shown = {}
  BY DEF Init
<1> QED
  BY <1>1, <1>2, <1>3
  DEF MoneyInv, Unwritten, CountedByAmount, ClaimExists, ShownPays, Books, Sealed, Claims,
      ClaimedOnce

LEMMA NextMoney == IInv /\ MoneyInv /\ [Next]_vars => MoneyInv'
<1> SUFFICES ASSUME IInv, MoneyInv, [Next]_vars
             PROVE  MoneyInv'
  OBVIOUS
<1>1. ASSUME NEW d \in Delivery, Endpoint(d)
      PROVE  MoneyInv'
  BY <1>1, EndpointMoney
<1>2. ASSUME NEW h \in Run, Step(h) \/ Fail(h)
      PROVE  MoneyInv'
  BY <1>2, RunsMoney, CommitMoney DEF Step
<1>3. CASE Restart
  BY <1>3, RestartMoney
<1>4. CASE Desk
  BY <1>4, DeskMoney
<1>5. CASE UNCHANGED vars
  <2>1. UNCHANGED <<of, rows, order, shown, touched, run>>
    BY <1>5 DEF vars, world, dbVars
  <2>2. Books'
    BY <2>1, StillBooks DEF MoneyInv
  <2> QED
    BY <2>1, <2>2
    DEF MoneyInv, Unwritten, CountedByAmount, ClaimExists, ShownPays, ByAmount, xfer
<1> QED
  BY <1>1, <1>2, <1>3, <1>4, <1>5 DEF Next, Endpoint

LEMMA MoneyInvariance == Spec => []MoneyInv
BY Invariance, InitMoney, NextMoney, PTL DEF Spec

(***************************************************************************)
(* The money of every order nobody corrected by hand is the sum of the     *)
(* incoming rows that name it, for any number of deliveries, transfers and *)
(* orders: a row and its credit are written by the same commit, and a run  *)
(* that is retried finds its row before it would credit again.             *)
(***************************************************************************)
THEOREM CreditsAlwaysAddUp == Spec => []CreditsAddUp
<1>1. MoneyInv => CreditsAddUp
  BY DEF MoneyInv, Books
<1> QED
  BY <1>1, MoneyInvariance, PTL

(***************************************************************************)
(* However many runs count an order as their only candidate, at most one   *)
(* claims it: the guard of the UPDATE reads sepay_id again, and nothing    *)
(* ever clears it, neither a changed status nor a removed link.            *)
(***************************************************************************)
THEOREM ClaimsNeverCollide == Spec => []ClaimedOnce
<1>1. MoneyInv => ClaimedOnce
  BY DEF MoneyInv, Books
<1> QED
  BY <1>1, MoneyInvariance, PTL
=============================================================================
