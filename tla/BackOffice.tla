------------------------------ MODULE BackOffice ------------------------------
(***************************************************************************)
(* The parts of the back office that share no state with one another: the  *)
(* orders, their addresses and their parcels, the places of the catalogue, *)
(* the photos of bills, the store of receipts, the notices of payments,    *)
(* the roster, the attendance, the caches of the guards, the session of a  *)
(* browser and the pods that migrate the database.  A behaviour follows    *)
(* one of Parts; the others rest.                                          *)
(***************************************************************************)
EXTENDS Naturals, Sequences

CONSTANTS
  Parts,                                           \* those that are followed
  Clerks, MaxTime, MaxFaults,                      \* of several parts
  Orders, Values, MaxUses, MaxRequests,
  Addresses, Blank, Calls, MaxEdits,
  Tables, BareName, Letters, Hints, Texts, Said, NoPlace, Root,
  Jobs, JobTTL, JobTime,
  Hashes, MaxReceipts,
  Transfers, Untold, MaxReports, MaxShows,
  Employees, ShiftCodes, MaxCalls,
  Shifts, Grace, MaxSamples, MaxChecks, MaxAdjustments,
  CacheTTL, Requests, MaxSaves,
  MaxNumber, Refreshes, MaxFiles,
  Tabs, MaxTokens, MaxIncidents,
  Pods, Image, FilesOf, LastFunction, MaxBoots

VARIABLES
  part, \* the part that is followed
  orders, used, requests, served, torn, muddled,
  address, refined, spxCalls, edits,
  scheme, texts, found, tier, missing, line, strayed,
  jobTime, jobs, begun, restarts,
  receipts, count, lock, storeCalls, saved, drifted,
  outcome, runs, reports, toasts, messages, retained, timers, connected, paid, lost, unheard,
  overlapped, faults, shows,
  roster, told, submitted, arrived, rosterCalls, asked, crossed,
  now, registered, records, adjustments, dayLocked, samples, dayCalls, checks, adjusts, loose,
  kind, time, value, cache, saving, saves, reads, ended, late,
  parcel, number, shown, delivered, refresh, files, typed,
  cookie, handed, session, live, tabs, incidents, upset,
  recorded, effect, functions, pods, boots, overtaken

Book == INSTANCE Orders WITH Ids <- Orders, Slots <- Clerks
Spx == INSTANCE SpxAddress WITH calls <- spxCalls
Places == INSTANCE AddressMatch
Photos == INSTANCE BillJobs WITH TTL <- JobTTL, MaxTime <- JobTime, MaxRestarts <- MaxFaults,
                            time <- jobTime
Store == INSTANCE ReceiptStore WITH calls <- storeCalls, asked <- saved
Notices == INSTANCE PaymentNotices
Shop == INSTANCE Roster WITH Codes <- ShiftCodes, calls <- rosterCalls
Day == INSTANCE Attendance WITH Slots <- Clerks, calls <- dayCalls
Guards == INSTANCE GuardCaches WITH TTL <- CacheTTL, begun <- saves
Parcels == INSTANCE Tracking
Browser == INSTANCE SignOn
Rollout == INSTANCE Migrations WITH Release <- Image

ASSUME BackOfficeAssumption ==
  /\ Parts \subseteq {"book", "spx", "places", "photos", "store", "notices", "shop", "day",
                     "guards", "parcels", "browser", "rollout"}
  /\ Book!OrdersAssumption /\ Spx!SpxAssumption /\ Places!MatchAssumption
  /\ Photos!JobsAssumption /\ Store!StoreAssumption /\ Notices!NoticesAssumption
  /\ Shop!RosterAssumption /\ Day!AttendanceAssumption /\ Guards!CachesAssumption
  /\ Parcels!TrackingAssumption /\ Browser!SignOnAssumption /\ Rollout!MigrationsAssumption

bookVars == <<orders, used, requests, served, torn, muddled>>
spxVars == <<address, refined, spxCalls, edits>>
placeVars == <<scheme, texts, found, tier, missing, line, strayed>>
photoVars == <<jobTime, jobs, begun, restarts>>
storeVars == <<receipts, count, lock, storeCalls, saved, drifted>>
noticeVars ==
  <<outcome, runs, reports, toasts, messages, retained, timers, connected, paid, lost, unheard,
    overlapped, faults, shows>>
shopVars == <<roster, told, submitted, arrived, rosterCalls, asked, crossed>>
dayVars ==
  <<now, registered, records, adjustments, dayLocked, samples, dayCalls, checks, adjusts, loose>>
guardVars == <<kind, time, value, cache, saving, saves, reads, ended, late>>
parcelVars == <<parcel, number, shown, delivered, refresh, files, typed>>
browserVars == <<cookie, handed, session, live, tabs, incidents, upset>>
rolloutVars == <<recorded, effect, functions, pods, boots, overtaken>>

vars ==
  <<part, bookVars, spxVars, placeVars, photoVars, storeVars, noticeVars, shopVars, dayVars, guardVars,
    parcelVars, browserVars, rolloutVars>>

\* Which order there is first, and the values it is created with, make no difference.
OneFirstOrder ==
  LET o == CHOOSE o \in Orders : TRUE
      v == CHOOSE v \in Values : TRUE
  IN Book!Exists(o) /\ \A f \in Book!Fields : orders[o].row[f] = v

Init ==
  /\ part \in Parts
  /\ Book!Init /\ OneFirstOrder /\ (part # "book" => used = 0)
  /\ Spx!Init /\ (part # "spx" => address = Blank)
  /\ Places!Init /\ (part # "places" => scheme = "new" /\ texts = [i \in Places!Batch |-> <<>>])
  /\ Photos!Init /\ Store!Init
  /\ Notices!Init /\ (part # "notices" => connected)
  /\ Shop!Init
  /\ Day!Init /\ registered # {} /\ (part # "day" => registered = Day!Codes)
  /\ Guards!Init /\ (part # "guards" => kind = "ip")
  /\ Parcels!Init /\ Browser!Init
  /\ Rollout!Init /\ (part # "rollout" => recorded = {})

\* All the parts but p rest.
Rest(p) ==
  /\ UNCHANGED part
  /\ IF p = "book" THEN TRUE ELSE UNCHANGED bookVars
  /\ IF p = "spx" THEN TRUE ELSE UNCHANGED spxVars
  /\ IF p = "places" THEN TRUE ELSE UNCHANGED placeVars
  /\ IF p = "photos" THEN TRUE ELSE UNCHANGED photoVars
  /\ IF p = "store" THEN TRUE ELSE UNCHANGED storeVars
  /\ IF p = "notices" THEN TRUE ELSE UNCHANGED noticeVars
  /\ IF p = "shop" THEN TRUE ELSE UNCHANGED shopVars
  /\ IF p = "day" THEN TRUE ELSE UNCHANGED dayVars
  /\ IF p = "guards" THEN TRUE ELSE UNCHANGED guardVars
  /\ IF p = "parcels" THEN TRUE ELSE UNCHANGED parcelVars
  /\ IF p = "browser" THEN TRUE ELSE UNCHANGED browserVars
  /\ IF p = "rollout" THEN TRUE ELSE UNCHANGED rolloutVars

Next ==
  \/ part = "book" /\ Book!Next /\ Rest("book")
  \/ part = "spx" /\ Spx!Next /\ Rest("spx")
  \/ part = "places" /\ Places!Next /\ Rest("places")
  \/ part = "photos" /\ Photos!Next /\ Rest("photos")
  \/ part = "store" /\ Store!Next /\ Rest("store")
  \/ part = "notices" /\ Notices!Next /\ Rest("notices")
  \/ part = "shop" /\ Shop!Next /\ Rest("shop")
  \/ part = "day" /\ Day!Next /\ Rest("day")
  \/ part = "guards" /\ Guards!Next /\ Rest("guards")
  \/ part = "parcels" /\ Parcels!Next /\ Rest("parcels")
  \/ part = "browser" /\ Browser!Next /\ Rest("browser")
  \/ part = "rollout" /\ Rollout!Next /\ Rest("rollout")

Spec == Init /\ [][Next]_vars

-----------------------------------------------------------------------------
\* The state of each part has the types the code gives it.
TypeOK ==
  /\ Book!TypeOK /\ Spx!TypeOK /\ Places!TypeOK /\ Photos!TypeOK /\ Store!TypeOK
  /\ Notices!TypeOK /\ Shop!TypeOK /\ Day!TypeOK /\ Guards!TypeOK
  /\ Parcels!TypeOK /\ Browser!TypeOK /\ Rollout!TypeOK

\* The history of an order tells all that befell it (order_history), unless someone saved
\* over a change he had not seen.
HistoryTold == Book!HistoryTold

\* The counter of a promotion is the number of the orders that carry it (used_count).
CountTold == Book!CountTold

\* What was refined of another address never passes for refined of this one (spx_source).
StaleIsMarked == Spx!StaleIsMarked

\* A hand pick is only lost to a call that asks for it, or that read before it (spx_manual).
HandPickKept == Spx!HandPickKept

\* What the rules read of an address stands, and the model only adds places that lie below
\* it (resolveGrounded, SpxAddressOldService.run).
OnePlace == Places!OnePlace

\* The supplier counts its receipts (receipt_count).
SupplierCounted == Store!SupplierCounted

\* A bill enters at most as often as it could be being saved at once (DUPLICATE_BILL).
BillsBounded == Store!BillsBounded

\* The group and the staff hear of a transfer once (handleSepay).
ToldOnce == Notices!ToldOnce

\* A paid order's QR is not shown again (emitOrderPaid).
PaidQrGone == Notices!PaidQrGone

\* The log tells who is on a shift (shift_assignment_logs).
RosterTold == Shop!RosterTold

\* A shift filled once it is settled is paid its length (attendance_adjustment_add).
FilledToItsLength == Day!FilledToItsLength

\* A cache serves what was saved over no longer than its time (SsoAuthGuard, NetworkService).
StaleIsBounded == Guards!StaleIsBounded

\* The time of delivery is that of the order's own parcel (delivered_at).
DeliveredIsItsOwn == Parcels!DeliveredIsItsOwn

\* Who has signed on stays so, also when the broker fails at times (SsoSessionController).
StaysSignedOn == Browser!StaysSignedOn

\* A pod serves the schema and the functions of its own release (migrate.ts).
ServesItsSchema == Rollout!ServesItsSchema
=============================================================================
