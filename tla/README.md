# CucQuyBE in TLA+

Specifications, model-checking configurations and proofs about the CucQuy
backend (NestJS services over PostgreSQL stored functions, BullMQ queues on
Redis, a Zalo bridge, POS devices on MQTT). Paths below are relative to the root
of the repository.

Contents: [inventory](#inventory), [modules](#modules), [runs](#runs),
[bounds](#bounds), [proofs](#proofs), [disagreements](#where-code-and-text-disagree),
[limits](#what-is-not-modelled), [plan](#plan).

## How the program runs

Three facts about the program decide the shape of every model here.

1. **All data logic is in SQL.** A service method sends one
   `SELECT some_function($1)`; the call is one autocommit transaction under READ
   COMMITTED. A function that raises undoes everything it wrote. No function
   takes an explicit lock (`FOR UPDATE`, advisory), so a value read by one
   statement may be out of date for the next one of the same function.
2. **One backend process**, with up to ten pooled connections: two HTTP requests,
   or a request and a queue worker, do overlap in the database.
3. **Queues retry.** Each BullMQ queue has one worker of concurrency 1 in this
   process; a job has two attempts 20 s apart, and a job that was active when the
   process died is taken up again once (`src/app.module.ts:65-76`).

## Inventory

What each component keeps and does, what is hard about it, and what makes it
correct. The last column is how much of it is modelled (`PROJECT.json` has the
notes and, under `hazards`, the lines).

| Component | State | Operations | Hard behaviour | What makes it correct | Modelled |
| --- | --- | --- | --- | --- | --- |
| Receipt allocations (`receipt_allocations.sql`, `tx_receipt_allocations.sql`) | rows (receipt, transaction, amount); `reconciled`, `reconcile_forced`, legacy `transaction_id` of the receipt | add or edit, remove, force, unreconcile, share out in bulk | derived columns kept by hand; a unique index from before sharing; batches that abort | no transaction shared out twice; flags and pointer follow the rows | all calls, one after the other; adding and removing, overlapping |
| Other links of outgoing money (`expense_reconcile.sql`, `manual_expenses.sql`, `shipping_payments.sql`, refunds in `orders.sql`, flags in `expenses.sql`, `transactions.sql`) | `transaction_id` in four tables, category and flags of a transaction | link, unlink, create, delete, classify, apply rules | four tables claim the same money, each function looks at some of them | money pays for one thing | partly |
| Ledger and automatic reconciliation (`ledger.sql`, `ledger_auto_reconcile.sql`, `stock_receipt_reconcile.sql`) | none; an open dialog holds the pairs it showed | status (not modelled), preview, apply | pairs go stale between preview and apply; ambiguous pairs | what is shown can be applied; what no longer holds is skipped | partly |
| SePay webhook (`src/modules/webhooks`, `webhooks.sql`) | jobs in Redis, rows of `transactions`, `paid_amount`, `payment_status`, `sepay_id` of orders | receive, enqueue or fall back, take, record, match, credit, report | repeated deliveries, retries, restarts, a fallback outside the queue | nothing lost; through the queue nothing recorded or credited twice | all |
| Incoming reconciliation (`transactions.sql`, `orders.sql`) | the same tables | reconcile with an order, relink, confirm proposed pairs, set the status | stale reads against the webhook | credits add up | partly |
| Payment notices (`webhooks.service.ts`, `events.gateway.ts`, `mqtt.service.ts`, `pos.service.ts`) | the QR the broker retains; timers of the process | report to the group, toast, sound, show and clear the QR | told after the commit, not awaited; a timer; a broker that is away | told once, by whoever wrote it; a paid order's QR does not come back | all |
| Zalo delivery (`src/modules/zalo`, `notifications.service.ts`) | queue, journal, switches and groups of a feature | send, deliver, retry, fall back, resend, switch | several targets at once, late answers, a worker that dies | what is accepted ends in the journal; 'sent' is true; few copies | all |
| Customer messages (`customer-notify.service.ts`) | mark on the order, last slot in memory | notify after creation or by hand | checks and mark apart, a slot shared by interleaved requests | not twice, 30 s apart | all |
| Scheduled reports (`notification-schedules`) | `last_run_on` | tick each minute, run, mark, edit | exact minute, a restart around the mark, one of several failing | once a day, none forgotten | all |
| Orders and promotions (`orders.sql`, `promotions.sql`, `orders.service.ts`) | orders, history, applied promotions, `used_count` | create, form, status, single fields, delete; redeem, release, new round | history computed from an earlier read; credits that leave no entry; counters moved under other conditions than the list they count | the history leads to what the order holds; the counter equals the uses | partly |
| Carrier addresses (`orders.service.ts`, `ai/tasks/spx-address*`) | refined columns with their source and hand mark | refine one or both levels, pick by hand; rules, model, lists | an AI call between read and write; lines of several addresses matched by number | stale is marked, hand picks kept, places lie below one another | all |
| Parcels (`refreshTracking`, `order_sync_tracking`) | number, status, times | refresh from the carrier, apply a file, type a number | an HTTP call between read and write | the time of delivery is the own parcel's | all |
| Stock receipt intake (`stock_receipts.sql`, `bill-job.service.ts`, `bill-pipeline.service.ts`) | receipts, hash, counters of the supplier, jobs in memory | read a photo, save, delete | duplicates found by a check; counters recomputed | a bill enters once, or as often as it was being saved at once; the supplier counts its receipts | partly |
| Attendance, payroll (`attendance.sql`, `payroll.sql`, `payroll-closing.*`) | records, adjustments, day locks, faces | check in and out, adjust, fill, lock, close the month by the cron or by hand | an open session past its deadline; fill computed then inserted, over a roster that changes; the last day of a month | hours counted once; one slip each | partly |
| Shifts (`shifts.sql`) | assignments, log, submitted weeks | set a day, remove, register, submit, reopen | four statements of a call each see other commits | the log explains the roster | partly |
| Guard caches (`sso-auth.guard.ts`, `network.service.ts`) | profile in Redis; screens and addresses in memory | read through, drop, save | a read that stores after a save | stale no longer than its time | all |
| Sign-on (`sso-session.controller.ts`, `rice-sso.service.ts`) | a cookie | exchange, refresh, logout | rotating tokens, several tabs, lost answers | who has signed on stays so | all |
| Migration runner (`src/migrate.ts`) | `schema_migrations`, the functions | boot | pods of two releases, a stop between files | each file once; a pod serves its schema | all |
| Commission, catalogue, settings and users, reports, remote services | plain rows or none | reads and writes of one row | none | - | no |

Interactions: the webhook worker and the operator's calls share `orders` and
`transactions` (`IncomingMoney`); receipts, refunds, expenses and shipping share
the outgoing rows of `transactions` (`OutMoney`); what a transfer told, the
reports and the slips go through one queue (`ZaloDelivery`), which only takes
from its callers. The other components share no variable with one another.

## Modules

`OutMoney` extends `ReceiptAllocations`: together they are the outgoing side.
`IncomingMoney` stands alone. `ZaloDelivery` implements `Outbox`. `Announcements`
and `BackOffice` instantiate the smaller parts. `AllocationCalls` is the overlapping side of
`ReceiptAllocations`. The `MC` modules give the
constants values.

### ReceiptAllocations

The table `receipt_tx_allocations` and what is computed from it.

| Variable | In the code |
| --- | --- |
| `alloc[t][r]` | `amount` of the row (receipt r, transaction t), 0 for no row |
| `since[r]` | the rows of r in the order of `created_at`, which an upsert renews |
| `bill[r]` | existence, `reconciled`, `reconcile_forced`, `transaction_id` |

Operators carry the names of the functions: `receipt_alloc_recompute` (with the
index `uniq_receipt_txn` its UPDATE goes through: no successor when it is
violated, since the call then rolls back), `AddAlloc` (the arithmetic of
`receipt_alloc_add`), `receipt_alloc_remove`, `receipt_alloc_set_forced`,
`stock_receipt_unreconcile`. Sums over the table are counted as sets of units of
money, which lets the provers work with cardinalities instead of recursion.

### OutMoney

Adds refunds, manual expenses, shipping payments, the flags of a transaction, the
open dialog (`preview`) and the running batch (`job`). A single call is an action.
A batch (`tx_receipt_alloc_add_bulk`, `stock_receipt_reconcile_apply`,
`ledger_auto_reconcile_apply`) is a loop with one action per iteration: `job.rest`
is what is left, `job.saved` what a raised exception restores. The third batch
catches the exception of each pair (`EXCEPTION WHEN OTHERS`) and goes on, the
other two do not. A preview is taken at one moment and confirmed at another, with
any calls between the two.

Calls run one after the other: a batch is not interleaved with other calls. That
is what the functions see when an operator works alone, and it is enough for all
that depends on the order of calls. What overlapping calls do is `AllocationCalls`.

### AllocationCalls

`receipt_alloc_add` and `receipt_alloc_remove` at the grain of their statements, under READ
COMMITTED: `Check` (what is left of the transaction, what the bill lacks), `Insert` (the
upsert, which waits for a call that has written the same pair), `Sum` (the SELECTs of
`receipt_alloc_recompute`) and `Save` (its UPDATE, through the unique index, and the commit).
`rows` and `pointer` are what is committed; `Seen` adds what the call itself wrote. The flag
of the bill is left out: no step reads it. It shares no definition with `ReceiptAllocations`,
where a call is one step; the property it states is what migration 055 says, and it fails.

### IncomingMoney

| Variable | In the code |
| --- | --- |
| `of[d]` | the transfer (sepay_id) that HTTP request d announces |
| `http[d]` | how far the request is and what SePay was answered |
| `job[d]` | state of the job, attempts used, whether it stalled before |
| `run[h]` | where `handleSepay` is, for h a delivery and who runs it (worker, or the request itself) |
| `rows[h]` | the row of `transactions` that run inserted, its `order_number` and `needs_review` |
| `order[o]` | `paid_amount`, `payment_status`, `sepay_id` |
| `shown`, `desk` | the open dialog; a manual reconciliation between its read and its write |
| `reported`, `touched`, `events` | history for the properties, and the bound on faults |

`webhook_sepay` is three steps, as its statements see the database: the lookup
(duplicate? tracked account?), the count of orders that fit the amount, and the
commit, which inserts the row and credits the order. The guarded UPDATE of the
third re-reads the order; the count of the second does not. Faults: `queue.add`
throws with or without the job having been stored, a statement fails, the process
restarts at any moment (open requests and runs are lost, Redis and Postgres are
not). The operator's calls interleave with all this.

### Outbox, ZaloDelivery

`Outbox` is the promise of `ZaloService` to its callers: a message that is handed
over is held until it is journalled, skipped because its feature is off, or
dropped, and only one a fault touched may be dropped. `ZaloDelivery` is the code:

| Variable | In the code |
| --- | --- |
| `job`, `tries`, `stalls` | the job in the queue, its attempts, the deaths of its worker |
| `call[<<m, via>>]` | a run of `deliver`, by the worker, by the caller when `queue.add` threw, or of a resending |
| `call.wait`, `late` | HTTP calls of `Promise.all` awaited; those in flight when their attempt had failed |
| `got[m][t]` | copies target t received |
| `journal[m]` | the lines of `notifications` about m |
| `enabled`, `assigned`, `configured` | the settings, which change under way |

Each read of the database and each HTTP answer is a step. An answer can be lost
after the message was sent, can say that it was refused, or cannot be read and is
taken for a success (`assertBridgeOk`). `queue.add` can throw although Redis has stored the job: then the caller runs `deliver`
beside the job (`doubled`, history). The journal's own write may fail
(`NotificationsService.log` never throws). A restart cuts every run; the queue
hands the job out again while it may. `Promise` instantiates `Outbox` with
`fate <- Fate(m)`, read off `job` and `journal`.

### Announcements: CustomerNotify, NotificationSchedules, PayrollClosing

`CustomerNotify`: a request (`notifyOrder`) reads the settings, then the order,
makes the public token and takes a slot of 30 s from `lastScheduledAt`, a variable
of the process; the mark comes after, in a query of its own that can fail (`MarkFails`).
`queue.add` can throw with or without the job in the queue. `NotificationSchedules`: the tick reads what
is due in the minute, then composes, sends and marks one schedule after another;
each can throw, the process can restart, the minute can pass first.
`PayrollClosing`: the repeatable job of days 28 to 31 with the processor's test for
the last day, months of 28 to 31 days, the loop over employees, a worker that is
down at the hour; and the same loop run by hand (`CloseByHand`, `HandSlip`: `POST
payroll/close`), beside it or at any other time. `Announcements` puts the three beside each other: `part` says
which one a behaviour follows, since they share nothing.

### BackOffice

`BackOffice` instantiates twelve parts that share no variable; `part` says which
one a behaviour follows, the others rest in an initial state. `Parts` says which of them an
instance follows: the run follows all, and one of them alone can be looked at with larger
bounds. Each is a module of its own, with its own `Spec`:

| Module | Variables and the code | Steps |
| --- | --- | --- |
| `Orders` | `orders` (row, applied promotion, history), `used` (`used_count`), `requests` | the service reads for the history; the database function reads; it writes and commits. Forms, status, single fields, deletion and creation overlap; `promotion_reopen`. `Credit`: money comes in or is matched (`webhook_sepay`; also `order_reconcile_transaction`, `order_sync_cod`, `transaction_reconcile_apply`) and moves the payment status with no entry; so does a form without a payment status, whose status is derived (`Added`) |
| `SpxAddress` | `address`, `refined` (value, `spx_source`, `spx_manual`, for both catalogues), `calls` | `resolveOrderSpx*` reads, asks, writes; the form edits; a hand pick reads and writes |
| `AddressMatch` | `texts` and `found` of a batch, `tier`, the numbered lines of a question | rules; the model from memory; the model with the list of each level; failures and lines left out |
| `BillJobs` | `jobs` (the Map of `BillJobService`), `begun` | read the text, judge, structure; sweep; restart |
| `ReceiptStore` | `receipts`, `count` (`receipt_count`), `lock` on the supplier's row | save: check, add to the supplier, commit; delete: find, delete the row (waiting for who deletes it too), count, wait for the supplier's row, commit |
| `PaymentNotices` | `outcome` (of the row), `runs` of the worker and of a request that handles the report itself, `toasts`, `messages`, `retained`, `timers` | look for the row, write it (the reply may be lost) or fail, tell; timer, show, clear, connection, restart |
| `Roster` | `roster`, `told` (entries added less removed), `submitted` | log what goes, take it off and log what comes, add and commit; submit, reopen |
| `Attendance` | `registered` (the day's rows of `shift_assignments`), `records`, `adjustments`, `dayLocked`, `samples`, `calls` | face, check, match, insert; fill or adjust: read, insert; edit the roster of the day (`SetDay`); lock |
| `GuardCaches` | `value` (of the database), `cache`, `reads`, `saving` | miss, store; the two steps of a save, in the order each cache has them |
| `Tracking` | `parcel` (the carrier's), `number`, `shown`, `delivered`, `refresh` | read, fetch, write; apply a file; type a number |
| `SignOn` | `cookie`, `live` and `session` (the broker's), `tabs` | leave, answer of the broker, arrive or be lost; revoke |
| `Migrations` | `recorded`, `effect`, `functions`, `pods` | boot, run a file, apply functions one by one, serve, exit |

Two statements of one database function are two steps where what the second
writes depends on what the first read. Data is reduced to what the properties tell
apart: a bill is its hash, an order two fields and one promotion, an address the
sequence of names it mentions, a shift an interval of ticks.

Variables marked *history* in the comments record nothing of the program: they say
which exception of a property has happened (`torn`, `muddled`, `drifted`,
`crossed`, `loose`, `late`, `typed`, `upset`, `overtaken`, `strayed`, `unheard`,
`overlapped`, `doubled`, `byHand`, the silent entries of `story`). Each
exception is a behaviour of the code, described under
[known exceptions](#known-exceptions).

## Runs

Deadlock is not checked in any run: the system may stop everywhere. An operator
need not call, SePay need not send, nothing is left to do when a bound is reached.

| Run | Expect | Properties | What it shows |
| --- | --- | --- | --- |
| `out_money` | pass | `TypeOK`, `NoOverAllocation`, `ReconciledIsPaid`, `PointerIsOldest`, `CleanPairsApply`, `NoAllocationOnUsedTx` | the books of outgoing money stay consistent under every sequence of calls and batches; the dialog never offers what would be refused; a stale dialog cannot allocate money that pays something else |
| `out_one_kind` | violation | `OneKindPerTx` | a transaction can pay two kinds of cost |
| `receipt_forced_flag` | violation | `ForcedNeedsAllocation` | the forced flag survives unreconciling |
| `receipt_split` | violation | `SplitAccepted` | a transaction cannot be shared between two bills |
| `incoming_money` | pass | `TypeOK`, `NothingLost`, `QueueSerialises`, `CreditsAddUp`, `ClaimedOnce`, `EventuallyRecorded` | the webhook path loses nothing, the worker records once, credits equal rows |
| `sepay_twice` | violation | `OneRowPerTransfer` | fallback and worker record a transfer twice |
| `reconcile_lost_credit` | violation | `ReconcileAdds` | a credit is overwritten by a manual reconciliation |
| `zalo_delivery` | pass | `TypeOK`, `SentMeansDelivered`, `CopiesBounded`, `OffIsSilent`, `ImplementsOutbox` | a message handed over ends in the journal unless a fault took it; a line that says sent is true; copies are bounded by attempts, deaths and resendings |
| `announcements` | pass | `TypeOK`, `Spaced`, `NotRepeated`, `OncePerDay`, `NotForgotten`, `SlipOncePerMonth`, `NobodyMissed` | the three senders that act on their own neither repeat nor forget, but for what the properties name |
| `back_office` | pass | `TypeOK` and one or two of each part but `BillJobs`: `HistoryTold`, `CountTold`, `StaleIsMarked`, `HandPickKept`, `OnePlace`, `SupplierCounted`, `BillsBounded`, `ToldOnce`, `PaidQrGone`, `RosterTold`, `FilledToItsLength`, `StaleIsBounded`, `DeliveredIsItsOwn`, `StaysSignedOn`, `ServesItsSchema` | what each part promises holds under overlapping calls, restarts and failures |
| `late_check_out` | violation | `LateOutRefused` | a check out past the deadline is accepted and counted |
| `alloc_overdrawn` | violation | `TotalWithinTransaction` | two overlapping allocations give out one transaction twice |

### Bounds

`out_money`: two transactions (2 and 1), two receipts (2 and 1), a refund, an
expense of 2 that is also an opex line of the first receipt, requests without an
amount or for 2. So a transaction can be larger or smaller than a bill, a bill can
have two transactions, a transaction two bills, and an expense and a receipt can
compete for the same transaction. `MaxLinks = 1` (the CONSTRAINT `FewLinks`)
keeps at most one fact other than allocations true of the transactions together:
allocations meet each kind of link, two other links do not meet, except at the
edge of the explored states, where the violation run finds what it needs. While a
dialog is open, states with a flag set or another batch running are not explored.
328,054 distinct states, about a minute with two workers.

`incoming_money`: three deliveries of which two announce the same transfer, in
three arrangements: free text announced twice and another transfer that fits the
same order; a transfer that names the order twice and one that fits it; money out
and two of money in. Two orders, two attempts per job as configured, and
`MaxEvents = 2` faults and operator's calls together: one fault and one call, or
two of a kind (a stall twice, a retry used up, a read with a preview). `MaxPaid`
bounds what manual corrections add. 532,756 distinct states, about two minutes.

`zalo_delivery`: one message of each kind (to a number, to the groups of a
feature, to a chosen group of a feature, to nobody) with `incidents = 2` faults,
switches and resendings together; and two messages competing for the worker with
none. Two groups, so that one can fail while the other is in flight; two attempts
and one stall, as configured; the incidents include a job that is stored although
`queue.add` throws. 339,475 distinct states, two and a half minutes.

`announcements`: two orders, one plain and one of each sort, one press of the
button, three slots of time, one restart, failed mark or stored job whose `queue.add`
threw; two schedules, three minutes, two days, two incidents; three employees of whom one
has no hours and one no phone, two months of every pair of lengths, two incidents
(restarts, delays, closings by hand). 1,793,714 states, under two minutes.

`back_office`: what each part needs for two calls to overlap: two clerks, two orders with
two values to a field, one promotion of one use and two requests;
two addresses, two calls, two edits; a batch of two addresses over catalogues with
places that share a bare name; two photos over a time to live of one tick
(`JobTime = 2`); three receipts of one hash (bills of two hashes never meet), one more than
two clerks may make of it; two
transfers of which one account is not told of, three reports, one QR shown; two shifts an
hour apart with grace, two checks and two
adjustments; two saves and times to live of one and two ticks; two parcels, two
refreshes, three files; two tabs, three tokens, two incidents; one old pod and two
new ones, two numbered files and two of functions, five boots. `SYMMETRY` permutes
the clerks, which only name slots: no definition orders them or names one.
599,465 distinct states, about three minutes. Of the orders alone (`Parts = {"book"}`),
three requests have been checked as well: 566,726 states, no violation.

`late_check_out`: one employee, one day, one caller. `alloc_overdrawn`: two
transactions of 1, two bills of 2, two clerks and three calls. The other violation runs have
the constants of the passing run of their module.

### Fairness

`IncomingMoney`: `Enqueue` and `TakeJob` of each delivery, and the steps of each run, are weakly
fair: the event loop resumes the handler, the worker takes waiting jobs, Postgres
answers. Nothing obliges SePay to send, anything to fail, or an operator to act.
Weak fairness of `TakeJob` is enough because each delivery has one job, so a job
that waits is overtaken finitely often. `EventuallyRecorded` then says that, the
faults being finitely many, what was accepted is recorded or in the failed set.

`ZaloDelivery`: `WF_vars(Progress)`, one condition for the whole process: while the
worker can take or end a job, or a run of `deliver` can take its next step, some
such step is taken. Node resumes a handler whose answer or timeout is there and
the worker takes what waits; an HTTP call always ends, since the client gives up
after a time. It says nothing of which step comes first, nor that a late answer
ever arrives, and nobody has to send, resend or switch. The messages are finitely many
and their attempts bounded, so progress of the whole is enough for
`EventuallySettled` of each.

The other modules state no fairness and no liveness: `NobodyMissed` and
`NotForgotten` say by what point of the clock something must have been done, which
the guard of the clock's step (a worker that is up has done what was due) turns
into safety.

## Proofs

Eight modules hold what TLAPS proves, for every value of the constants that
satisfies the named assumption of the module (finite sets of ids, natural bounds,
NULL is not an id, the ids of two tables differ). The passing runs check forty properties
(`TypeOK` five times, each of its own module); thirty-eight of them are the subject of a
theorem, the two others are liveness. Every theorem is proved from the specification alone.

| Module | Theorem | Says |
| --- | --- | --- |
| `OutMoneyProofs` | `TypeCorrect` | `[]TypeOK` |
| | `AllocationsWithinAmount` | `[]NoOverAllocation` |
| | `ReconciledFlagIsHonest` | `[]ReconciledIsPaid` |
| | `PointerNeverDangles` | `[]PointerIsOldest` |
| | `DialogCanBeApplied` | `[]CleanPairsApply` |
| | `UsedTxNeverAllocated` | the action property `NoAllocationOnUsedTx` |
| `IncomingMoneyProofs` | `TypeCorrect` | `[]TypeOK` |
| | `AcceptedIsKept` | `[]NothingLost` |
| | `WorkerIsIdempotent` | `[]QueueSerialises` |
| | `CreditsAlwaysAddUp` | `[]CreditsAddUp` |
| | `ClaimsNeverCollide` | `[]ClaimedOnce` |
| `ZaloDeliveryProofs` | `DeliveryTyped` | `[]TypeOK` |
| | `SentIsDelivered` | `[]SentMeansDelivered` |
| | `CopiesAccounted` | `[]CopiesBounded` |
| | `OffStaysSilent` | `[]OffIsSilent` |
| | `PromiseSafe` | the safety half of `Outbox`: the first state is one of its first states, each step one of its steps or none |
| `AnnouncementsProofs` | `MessagesSpaced`, `CustomersNotWrittenAgain` | `[]Spaced`, `[]NotRepeated` |
| | `ReportsOncePerDay`, `SchedulesNotForgotten` | `[]OncePerDay`, `[]NotForgotten` |
| | `SlipsOncePerMonth`, `NobodyIsMissed` | `[]SlipOncePerMonth`, `[]NobodyMissed` |
| | `AnnouncementsTyped` | `[]TypeOK` |
| `OrderProofs` | `HistoriesTold`, `PromotionsCounted` | `[]HistoryTold`, `[]CountTold` |
| | `StaleAddressesMarked`, `HandPicksOfOrdersKept` | `[]StaleIsMarked`, the action property `HandPickKept` |
| | `DeliveriesTheirOwn` | `[]DeliveredIsItsOwn` |
| | `OrdersHaveOnePlace` | `[]OnePlace` |
| `BillProofs` | `SuppliersCounted`, `BillsWithinBound` | `[]SupplierCounted`, `[]BillsBounded` |
| | `TransfersToldOnce`, `PaidQrsGone` | `[]ToldOnce`, `[]PaidQrGone` |
| `StaffProofs` | `RostersTold`, `ShiftsFilled` | `[]RosterTold`, `[]FilledToItsLength` |
| `BackOfficeProofs` | `StaleGuardsBounded`, `BrowsersStaySignedOn`, `PodsServeTheirSchema` | `[]StaleIsBounded`, `[]StaysSignedOn`, `[]ServesItsSchema` |
| | `BackOfficeTyped` | `[]TypeOK` of all twelve parts |

The last four modules are about `BackOffice!Spec`. Each part has there its own
inductive invariant, proved of the part's own `Spec`, under a prefix of its own
(`Book` for the orders, `Spx`, `Parcels`, `Places`, `Photos`, `Store`, `Notices`,
`Shop` for the roster, `Day` for the attendance, `Guards`, `Browser`, `Rollout`). The
lemmas `BookRuns`, `SpxRuns` and so on lift it: the parts share no variable, so each
behaviour of `BackOffice` is one of the part, with its rest and the steps of the others
as stuttering. `BackOfficeAssumption` gives what each part assumes of its constants.
`AnnouncementsProofs` does the same for its three parts, in one module.

All proofs go the same way: the invariant holds at first, each action keeps each of its
conjuncts, it implies the property. What follows is why each invariant has to say more
than the property.

### Outgoing money

The tables are *sound* (`Sound`): typed, allocations within amounts, flags
equal to what the rows say, no rows for a bill that does not exist, the order of a
bill lists its rows once each and the pointer is its head (`Ordered`), no two bills
have one pointer (`Unique`). While a batch runs, the tables it would roll back to are
sound as well (`SavedSound`): without this a rollback could land anywhere. "No rows
without a bill" is needed because creating a receipt writes its flags without looking
at the table. The lemmas below it describe sums: what changing one row does to a
transaction's total and to a bill's total (the first half of `OutMoneyProofs`), so that
the check in `receipt_alloc_add` and in each batch bounds the new total.

`CleanPairsApply` needs `Unique` and `Ordered`: the transaction of a pair in the dialog
pays no bill, so its whole amount fits, and where the bill has no other row the
transaction becomes its pointer. The index does not refuse it, because the
pointer of another bill would be one of that bill's rows. That no two pairs share a
transaction comes of `OneToOne` within a kind and of the conflict list (`Conflict`) between
the kinds; without that list the second pair would be refused, or the money counted twice.

`NoAllocationOnUsedTx` holds of each call and each iteration of a batch because they
look at the links first. A *rollback* is the step that looks at nothing: it may give back
the larger amount of a row the batch had lowered. `BatchClean` says that the batch has only
changed rows of transactions that were not linked, and no link is made while it runs.

### Incoming money

`NothingLost` is not inductive: that an accepted delivery is
recorded when its job completes depends on what the run saw. `QueueInv` says how
jobs and the worker move together (a worker's run exists only for the active job,
there is one active job, an unanswered request has no job, a waiting job has tries
left). `RecordInv` adds what a run knows: a run that is done has found or written
the row of its transfer or the account is not tracked (`DoneRecorded`); one that
wrote has a row of its own (`FreshRecorded`); and a worker's run that saw no row
of its transfer is still right about the rows of the *worker* (`Unseen`), because
no other worker's run can have committed since. This last one is the whole reason why a
SELECT followed by an INSERT is safe in the queue, and it fails for a run
inside a request, which is the violation `sepay_twice`.

`MoneyInv` is about orders no manual correction has touched. Its core is `Sealed`: an
order that a transfer was matched to by amount carries a `sepay_id`, which is what the
guarded UPDATE of the next one looks at. `CreditsAddUp` and `ClaimedOnce` (where two
runs may name the same order only after a correction) follow with three facts about
runs and dialogs: a run between its lookup and its commit has no row (`Unwritten`), a
run that counted found no order in the text (`CountedByAmount`), what the dialog shows is
money in that has been recorded (`ShownPays`). Money is counted in coins
(`Coins`), so a credit is a disjoint union and no recursion is needed. Most steps move
no money at all; `NothingMoves` is stated once and covers them.

### Zalo delivery

`CopiesAccounted` is an account: the copies a target *has*, those still
*in flight* after their attempt had failed, and one for each run that has yet to send or
waits for its answer, are together no more than the attempts that have begun (`Ran`),
the deaths of the worker and the resendings, with one more for a message whose caller
runs `deliver` beside the stored job (`doubled`). It rests on `Manned` (a worker's run exists
exactly while the job is active, a direct one while it is with its caller, or beside the job
of a doubled message) and `Tried`
(a job that may go on has attempts left). `SentMeansDelivered` needs
`Arrived`, that a target no longer waited for has the message, for every run whose
outcome is not an error and as long as no answer was misread; `OffIsSilent` needs
`Silent`, that a run begun while the feature is off addresses no group. `PromiseSafe`
goes action by action through `Fate`, with `Written` for the messages that may be
dropped: one whose attempt ends has a line or was hit by a fault.

### Announcements

*Messages to customers.* `SlotsTaken`: `lastScheduledAt` is not before any message that this
process put into its slot, and not further ahead than the cap. `FirstToWrite`: a request
that is not forced and is past its gates began after no request that wrote and ended well,
because that one had marked the order (`WrittenIsMarked`) before this one read it. A request
that threw after it had written has left no mark, so it counts for none.

*Reports.* `SendsLeft`: for a day a schedule may still send (`MaySend`) what was
sent is at most the reruns, else one more; a tick may be of yesterday, which
`DaysOrdered` bounds. `ReadMeansMarked`: what was due before now is on its way or marked.

*Pay slips.* The moments of the repeatable job are ranked (`Rank`), and `Left(m)` counts the
closings of a month still to come without another restart: the one of 20:00 on the last
day and, of a job that is late, one earlier that day. `SlipsLeft` adds them to what was
sent. A closing by hand owes each slip at most once from its beginning (`owed`), so what is
owed and handed over stays within the closings by hand; `AllServed` says who has been served at each point of a closing.

### Orders, addresses, parcels

*Orders.* `BookCompares`: the changes a form brings are those between the copy it read and
its values. So at a commit whose copy is still the row, the history goes on where it
ended; otherwise the order is `torn`. A write without an entry (a credit, a derived status)
is kept in the story as a *silent* step from the old to the new status, and the claim is
about entries and silent steps together: `Leads` follows them from what the order was
created with. A status that is derived does not compare with what the form saw, since the
form says nothing of it. `BookAlone`: nobody else holds an order that is being
created. The counter follows from the cardinality of the carriers.

*Carrier addresses.* `SpxHonest` ties each refined value to the address it was refined
from (unless picked by hand, `of` equals `source`), and `SpxMayWrite` each call that is
to write to what it had read (it was forced, or no hand pick was there).
`StaleIsMarked` follows from the first, and the step of `Write` satisfies
`HandPickKept` because of the second.

*Parcels.* `ParcelsReadIsMine`: the number a refresh has in hand is the order's, or that
parcel was cancelled, because a file replaces only cancelled numbers. `ParcelsSaysTrue`:
an end of a parcel that was told stays true. So a refresh that overlaps a file may
write a stale status but never a time of delivery.

*Places.* `PlacesStands` (what the rules read of an address is never overwritten),
`PlacesLinked` (a place lies below the one before, unless the model strayed) and
`PlacesAsking` (the lines still to be read from an answer are of addresses whose level is open).
The lemmas are about the operators: `Match` and `SnapOne` return a row below the
place they are given, which needs that a finite set of keys has a best one
(`Beats` is a total order by length, position and row), and `resolve` and `snap`
therefore return a chain (`PlacesChained`).

### Bills and notices of payment

*Receipts.* `StoreCounts`: a delete that no commit crossed has counted the receipts that
will remain; two deletes of one receipt do not both count it, since the second waits for the
row. `StoreBounded` keeps the counter below the saves that have committed. `StoreWithin`, for
`BillsBounded`: the receipts read from photos of one bill and the saves of it that have not
committed are together no more than the clerks. A save that begins finds no receipt of the
bill, so there the saves alone count, and each clerk has one; a commit turns a save into a
receipt.

*Notices.* A handler that has written tells what it wrote. The invariant says, for each
transfer, which of four situations it is in: nobody has written it; one handler has, and
is yet to tell, has told, or never heard of it (`unheard`); or both had looked before either
wrote (`overlapped`), and then what was told and what is still to be told come to at most
two. A handler that saw no row while the other has none in hand is alone, because a look
after a commit finds the row.

### Staff

*Roster.* `ShopFound`: for a row that no other call had in hand, what a call logged as gone
and as added is exactly what is there. `ShopCounted` bounds the entries of a row by the
calls that have ended.

*Attendance.* `DayFilled`: a shift that is not `loose` is filled by one call at a time, only
once it is *settled* (`DaySettled`: after some record no session is open, and every
later record or check under way is at or past the end of the shift, so its hours are final), and
hours, adjustments and what the call will insert fit the length. The lemmas show that a
record inserted past a settled point changes neither the pairing before it nor the hours.
An edit of the roster (`SetDay`) can raise the hours of a shift from none to what was worked;
it is the one step that makes a filled shift `loose` afterwards.

### Guards, sessions, releases

*Caches.* `GuardsStaleSince`: an entry whose value was saved over was stored before the
save (unless marked `late`), so its age bounds the time it is served stale; for the
screens the save has not ended. `GuardsRoom` bounds the saves by those begun, since for
an address the write is the second step.

*Sign-on.* As long as nothing was `upset`, at most one request is out
(`BrowserAlone`), what it carries or brings back is accepted by the broker, and the jar holds
an accepted token or one is on its way (`BrowserJarGood`).

*Migrations.* `RolloutFilesRun`: what a pod has gone past of its files is recorded, also
the ones it did not run because they were recorded at its boot. `RolloutFunctionsOwn`:
the functions below `next` are the pod's own unless another release applied one
since it booted. With `RolloutOnce` (the effect of a file and its record agree) they are
inductive, since nothing removes a record and `Apply` of another release puts the
pod among the overtaken.

### What stays with TLC

- `EventuallyRecorded`, and of `ImplementsOutbox` the half that is liveness
  (`EventuallySettled`): they rest on fairness, and the provers do not reason about `ENABLED`.
  The safety half of `ImplementsOutbox` is `PromiseSafe`.
- `BillJobs` has its types proved and no property beyond them.
- The seven violation runs: a counterexample is a behaviour of an instance. `AllocationCalls`
  is checked only, since its property fails.
- That the bounds of the runs are met at all (every action fires) is seen by TLC only.

Some definitions are written for the provers and mean the same as the program's text:
sums are cardinalities of sets of units (`Coins`, `Added`), the history of an order is kept
per field, a check is inserted at the index its time gives, and the few lines of a
question are chosen among the possible ones. `tlapm` of this version has no induction over
data and no `RECURSIVE`.

## Where code and text disagree

Seven have a run that ends in a counterexample, named in brackets.

1. [`out_one_kind`] *One kind per transaction* (`ledger_auto_reconcile.sql:14`): linking an expense
   or a refund does not look at allocations (`expense_reconcile.sql:122`,
   `orders.sql:630`).
2. [`receipt_forced_flag`] *Forced needs an allocation* (`receipt_allocations.sql:29`):
   `stock_receipt_unreconcile` leaves `reconcile_forced` (`stock_receipts.sql:872`).
3. [`receipt_split`] *One transaction, many bills* (migration 055): the unique index of migration 009
   refuses the second bill.
4. [`alloc_overdrawn`] *The amounts given out of a transaction never exceed it* (migration
   055:5): checked at `receipt_allocations.sql:114` and inserted at 118 without a lock.
5. [`sepay_twice`] *Idempotent by sepay_id* (`transactions.sql:109`): not outside the queue.
6. [`reconcile_lost_credit`] *Money in is added* (`orders.sql:1614`): an absolute value computed from an
   earlier read is written.
7. [`late_check_out`] *Past the deadline one can only check in* (`attendance.service.ts:322`,
   `attendance.sql:272-273`): an open session past its deadline is still open for
   `attendance_open_session`, so a late "out" is inserted and paired
   (`attendance.sql:274`).

The others were met without a run of their own. Where a model has the steps, the property
that holds names them as an exception ([known exceptions](#known-exceptions)).

- *Signed out only by the user, by an administrator, or after days without use*
  (`sso-session.controller.ts:14-15`): two tabs that refresh with one rotating token
  end the session, and line 39 clears the cookie. A lost answer does the same (`upset` of
  `SignOn`).
- *Attached to a receipt, shown as reconciled* (`ledger.sql:104`): the status reads
  the legacy pointer (line 106), which names the oldest transaction of a bill only.
- *Reconciled when the amounts reach the total* (migration 055:4): summed at
  `receipt_allocations.sql:36` and written at 42 without a lock; the sum of a call that
  overlaps another may be out of date when it is written.
- *The mark prevents sending twice* (migration 084:5, `customer-notify.service.ts:45`): it is
  read before two awaits and written after the message (line 122 and 141); the hook and the
  button without force overlap.
- *The number of messages a day is capped* (migration 084:6): what is counted is the journal,
  at the start of a request (line 114), while messages wait in the queue.
- *A known hash is refused* (`stock_receipts.sql:335`, migration 012:7): the index is not
  unique, the check comes before the insert (`stock_receipts.sql:441`). `BillsBounded` is
  what remains true.
- *The supplier's figures are recomputed from the receipts there are*
  (`stock_receipts.sql:884`, 924): from those committed when the statement began (`drifted`).
- *It is certain that the QR is not shown after the payment* (`events.gateway.ts:252-254`):
  the clearing is dropped while the broker is away (`mqtt.service.ts:90`), and not tried
  again (`lost`).
- *Fill adds what the shift lacks, so that hours do not exceed* (`payroll.sql:41-45`): nothing
  recomputes it when a session ends later, the roster changes, or another fill is under way
  (`payroll.sql:92`; `loose`).
- *Marked so that the automatic refining does not replace it* (`orders.service.ts:211`,
  `orders.sql:310`): the mark is looked at before the AI call (line 152), the answer is
  written after it (line 165).
- *Logged only for who is really added* (`shifts.sql:114-115`): the log and the insert are two
  statements (`crossed`).
- `createOldMatcher` and `createNewMatcher` snap a name to the first entry of a
  list that has it in full *or* bare (`spx-old-match.ts:159`,
  `spx-new-match.ts:230`). Where a town and a district share the bare name, the
  exact choice of the model from the list ("thành phố Cao Lãnh") is stored as the
  other one when that comes first. `AddressMatch!SnapOne` does the same;
  `OnePlace` holds because the wrong place still lies below the right province.
- `updateUserRole` says "bỏ cache để có hiệu lực ngay" (takes effect at once,
  `users.service.ts:106`), and drops a key made of the user's id; the guard keeps
  its entries by email (`sso-auth.guard.ts:70`). The old role is served for up to
  five minutes. `GuardCaches!DropById` has it, `StaleIsBounded` states what is left.

## Known exceptions

What the code does not promise, and the properties therefore except, each by a
history variable:

| Property | Excepted | Why |
| --- | --- | --- |
| `HistoryTold` | an order saved over a change the saver had not seen (`torn`) | forms carry no version |
| | credits and derived payment statuses, as silent steps | `webhook_sepay` (`webhooks.sql:58-63`, 98-106), `order_reconcile_transaction` (`orders.sql:1643`), `order_sync_cod` (`orders.sql:1855`), `transaction_reconcile_apply` (`transactions.sql:352`) and the form without a status (`orders.sql:1321`) write no entry |
| `CountTold` | two calls over the last use or one order, a form without items that changes the promotion, a new round (`muddled`) | the counter moves under other conditions than the list |
| `OnePlace` | the model names another place than the rules had read (`strayed`) | the levels it fills are looked up below its own place: the result can mix two provinces |
| `ToldOnce` | told twice when worker and fallback both looked first (`overlapped`); untold when the reply was lost or a restart cut the telling (`unheard`) | lookup and insert are apart, outside the queue; the retry finds the row |
| `PaidQrGone` | a clearing dropped without a connection, or lost in a restart (`lost`) | a timer in memory, no second try |
| `HandPickKept` | a call that read before the pick | the mark is looked at before the AI call |
| `BillsBounded` | a bill once for each save that was under way at once | the check comes before the insert, the index is not unique |
| `SupplierCounted` | a delete that counted before another commit (`drifted`) | the next delete repairs it |
| `RosterTold` | two calls that had one row in hand (`crossed`) | the log is computed before the write |
| `FilledToItsLength` | a shift filled while it could still change, adjusted by hand, or given hours by an edit of the roster after it was filled (`loose`) | read, then insert; nothing recomputes a fill |
| `StaleIsBounded` | a read that stores after a save (`late`) | then the whole time to live counts from the store |
| `DeliveredIsItsOwn` | a number typed over (`typed`) | the form keeps the times |
| `StaysSignedOn` | overlapping tabs, a lost answer (`upset`) | tokens rotate, a token used twice ends the session |
| `ServesItsSchema` | another release applied its functions since (`overtaken`) | functions are not versioned |
| `SentMeansDelivered` | an answer that cannot be read | taken for a success on purpose |
| `CopiesBounded` | one copy more when `queue.add` throws although the job is stored (`doubled`) | the caller then delivers it itself (`zalo.service.ts:139`) |
| `NotRepeated` | a request that threw after it had written; requests that overlap: only one that begins after another has written is covered | the mark comes after the message, in a query of its own |
| `SlipOncePerMonth` | restarts, closings of the month by hand | the closing has no memory of whom it sent to |
| `OncePerDay`, `NotForgotten`, `NobodyMissed` | restarts, late ticks, edits, failed marks | the mark comes after the send |

## What is not modelled

- Overlapping calls on outgoing money other than `receipt_alloc_add` and
  `receipt_alloc_remove` (the row locks at `tx_receipt_allocations.sql:72`, links that are
  made while a batch runs).
- What must hold of a registration that overlaps the submission of its week
  (`shifts.sql:180`): the steps are in `Roster`, no text says more.
- Orders: the number a new order gets, the sum of refunds under overlap, the
  amounts of `promotion_compute`, the amounts of the carrier's cash-on-delivery file, marks
  of printed bills.
- Payroll: the salary arithmetic, the workbooks and their cache on disk (a file
  may be served while it is written, or hours old).
- Receipts: sums and prices of materials, stocktakes.
- Dates, texts and names, but for the names of places: every pair is within the
  date window; the text of a transfer names an existing order or none; test
  transactions are left out.
- In `IncomingMoney` orders neither appear nor disappear.
- Catalogue, settings, users, reports, commission, request logs: single rows read
  or written, or read-only sums.
- BullMQ, Redis, Postgres, SePay, the Zalo bridge, the MQTT broker, the sign-on
  broker, the carrier and the models are external, and modelled by what the code
  can observe of them.

The map covers about 14 % of the lines of TypeScript. The rest of them is thin: controllers
and the `*.proc.ts` wrappers that pass one argument on, types and transfer
objects, module wiring, formatting of messages and workbooks, and read-only
queries. The logic sits in the SQL functions, whose lines the map names too
(`migrations/functions/`).

## Plan

Done: outgoing and incoming money; Zalo delivery with its refinement; the
announcements; the parts of the back office; proofs of every safety property the
passing runs check. Next, in this order:

1. An abstract ledger of credits ("each recorded transfer credits at most one order,
   once") and `IncomingMoney` shown to implement it, with `MoneyInv` as the invariant of
   the proof.
2. The batches of outgoing money next to other calls, in `AllocationCalls`, with the row locks
   of the bulk call.
3. Refunds by quantity and the numbering of orders under overlap; the amounts of
   promotions and the salary against reference definitions over bounded inputs.
