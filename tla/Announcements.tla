---------------------------- MODULE Announcements ----------------------------
(***************************************************************************)
(* The three parts of the program that hand messages to ZaloService on     *)
(* their own: the thank-you messages to customers, the scheduled reports   *)
(* and the pay slips.  They share no state but the queue, which only takes *)
(* from them, so a behaviour follows one of them; the others rest.         *)
(***************************************************************************)
EXTENDS Naturals

CONSTANTS
  Orders, Situations, DailyLimit, Cap, Presses, MaxTime, MaxCrashes,
  Schedules, Minutes, Days, MaxFaults,
  Employees, Worked, Phones, MaxIncidents

VARIABLES
  part, \* the part that is followed
  sort, now, enabled, notified, lastScheduledAt, request, waiting, sent, crashes, lapses,
  day, minute, at, on, lastRun, tick, ticked, sends, reruns, excusedToday, faults,
  length, date, up, due, closing, slips, skipped, excused, repeats, owed, handed, byHand,
  incidents

Customers == INSTANCE CustomerNotify
Reports == INSTANCE NotificationSchedules
Closing == INSTANCE PayrollClosing

ASSUME AnnouncementsAssumption ==
  Customers!CustomerAssumption /\ Reports!ScheduleAssumption /\ Closing!ClosingAssumption

customersVars == <<sort, now, enabled, notified, lastScheduledAt, request, waiting, sent, crashes, lapses>>
reportsVars ==
  <<day, minute, at, on, lastRun, tick, ticked, sends, reruns, excusedToday, faults>>
closingVars ==
  <<length, date, up, due, closing, slips, skipped, excused, repeats, owed, handed, byHand,
    incidents>>
vars == <<part, customersVars, reportsVars, closingVars>>

Init ==
  /\ part \in {"customers", "reports", "closing"}
  /\ Customers!Init /\ Reports!Init /\ Closing!Init
  /\ part # "customers" => enabled /\ \E o \in Orders : \A q \in Orders : sort[q] = sort[o]
  /\ part # "reports" => \A s \in Schedules : at[s] = 1 /\ on[s]
  /\ part # "closing" => \A m \in Closing!Months : length[m] = 30

Next ==
  \/ part = "customers" /\ Customers!Next /\ UNCHANGED <<part, reportsVars, closingVars>>
  \/ part = "reports" /\ Reports!Next /\ UNCHANGED <<part, customersVars, closingVars>>
  \/ part = "closing" /\ Closing!Next /\ UNCHANGED <<part, customersVars, reportsVars>>

Spec == Init /\ [][Next]_vars

-----------------------------------------------------------------------------
\* The state of each part has the types the code gives it.
TypeOK == Customers!TypeOK /\ Reports!TypeOK /\ Closing!TypeOK

\* Messages to customers leave 30 s apart (lastScheduledAt of notifyOrder).
Spaced == Customers!Spaced

\* An order's customer is not written to again by what is not forced, unless the request that
\* wrote has thrown.
NotRepeated == Customers!NotRepeated

\* A schedule sends its report once a day (runDue and last_run_on).
OncePerDay == Reports!OncePerDay

\* A schedule whose minute passed was run, whatever befell the others of that minute.
NotForgotten == Reports!NotForgotten

\* One slip per month and employee, but for restarts and closings by hand (runClosing).
SlipOncePerMonth == Closing!SlipOncePerMonth

\* Everybody who worked is written to, or counted, by the end of the month.
NobodyMissed == Closing!NobodyMissed
=============================================================================
