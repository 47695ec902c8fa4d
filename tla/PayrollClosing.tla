--------------------------- MODULE PayrollClosing ----------------------------
(***************************************************************************)
(* The end of the month: a repeatable job due at 20h of the days 28 to 31, *)
(* whose processor goes on only on the last day of the month, and the loop *)
(* that hands each employee a pay slip.  BullMQ keeps one pending job,     *)
(* hands it out when a worker is there, however late, and plans the next   *)
(* one for the first date of the pattern after that moment.  An            *)
(* administrator may run the same closing by hand at any time.             *)
(***************************************************************************)
EXTENDS Naturals, FiniteSets

CONSTANTS
  Employees,
  Worked, \* those with hours in the month
  Phones, \* those active and with a phone number
  MaxIncidents

ClosingAssumption ==
  Worked \subseteq Employees /\ Phones \subseteq Employees /\ MaxIncidents \in Nat

Months == 1..2
FirstDay == 27
VARIABLES
  length,    \* length[m]: the days of the month
  date,       \* month, day from the 27th on, and whether it is 20h or later
  up,        \* a worker is there
  due,       \* the moment the pending job waits for
  closing,   \* the job being processed
  slips,     \* slips[m][e]: the messages handed over for the month
  skipped,   \* those the closings of the month counted as skipped
  excused,   \* the months in which a fault or a delay fell into the closing
  repeats,   \* history: what may make a closing run once more
  owed,      \* owed[m][e]: the slips that closings run by hand have yet to come to
  handed,    \* handed[m][e]: those they handed over
  byHand,    \* byHand[m]: the closings of the month run by hand
  incidents

handVars == <<owed, handed, byHand>>
vars == <<length, date, up, due, closing, slips, skipped, excused, repeats, handVars,
          incidents>>

Moments == [m : Months, d : FirstDay..31, eve : BOOLEAN]
Before(a, b) ==
  \/ a.m < b.m
  \/ a.m = b.m /\ a.d < b.d
  \/ a.m = b.m /\ a.d = b.d /\ ~a.eve /\ b.eve
Exists(t) == t.d <= length[t.m]

\* Mutant: the pattern of the job leaves the 31st out.
Cron_NotThe31st == {t \in Moments : Exists(t) /\ t.eve /\ t.d \in 28..30}

\* '0 20 28-31 * *'
Cron == {t \in Moments : Exists(t) /\ t.eve /\ t.d \in 28..31}
Never == [m |-> 0, d |-> 0, eve |-> FALSE]
NextDue(t) ==
  LET after == {u \in Cron : Before(t, u)} IN
  IF after = {} THEN Never
  ELSE CHOOSE u \in after : \A v \in after : u = v \/ Before(u, v)

\* Mutant: the processor trusts the pattern.
isLastDayOfMonthVN_Always(t) == t.d >= 28

isLastDayOfMonthVN(t) == t.d = length[t.m]

\* month: the one the pay is computed for; sent: the messages so far, 30 s apart.
NoClosing == [pc |-> "idle", month |-> 0, todo |-> {}, sent |-> 0, tries |-> 0]
Incident == incidents < MaxIncidents /\ incidents' = incidents + 1

Init ==
  /\ length \in [Months -> 28..31]
  /\ date = [m |-> 1, d |-> FirstDay, eve |-> FALSE]
  /\ up = TRUE
  /\ due = [m |-> 1, d |-> 28, eve |-> TRUE]
  /\ closing = NoClosing
  /\ slips = [m \in Months |-> [e \in Employees |-> 0]]
  /\ skipped = [m \in Months |-> {}]
  /\ excused = {} /\ repeats = 0 /\ incidents = 0
  /\ owed = [m \in Months |-> [e \in Employees |-> 0]] /\ handed = owed
  /\ byHand = [m \in Months |-> 0]

IsDue == due # Never /\ ~Before(date, due)

\* The job is handed out: nothing happens unless it is the last day.
Fire ==
  /\ up /\ closing.pc = "idle" /\ IsDue
  /\ due' = NextDue(date)
  /\ closing' = IF isLastDayOfMonthVN(date)
                THEN [NoClosing EXCEPT !.pc = "compute", !.month = date.m] ELSE NoClosing
  /\ UNCHANGED <<length, date, up, slips, skipped, excused, repeats, incidents, handVars>>

\* computePayroll and phoneMap, before the first message.
Compute ==
  /\ up /\ closing.pc = "compute"
  /\ closing' = [closing EXCEPT !.pc = "loop", !.todo = Worked]
  /\ UNCHANGED <<length, date, up, due, slips, skipped, excused, repeats, incidents, handVars>>

\* Mutant: the attempts of the job are not counted to an end.
ComputeThrows_Endless ==
  /\ up /\ closing.pc = "compute"
  /\ Incident
  /\ closing' = [closing EXCEPT !.tries = @ + 1]
  /\ UNCHANGED <<length, date, up, due, slips, skipped, excused, repeats, handVars>>

\* One of them throws: the job is tried a second time, then it has failed.
ComputeThrows ==
  /\ up /\ closing.pc = "compute"
  /\ Incident
  /\ \/ closing.tries = 0 /\ closing' = [closing EXCEPT !.tries = 1] /\ UNCHANGED excused
     \/ closing.tries = 1 /\ closing' = NoClosing /\ excused' = excused \cup {date.m}
  /\ UNCHANGED <<length, date, up, due, slips, skipped, repeats, handVars>>

\* One round of the loop.  A send that throws is counted as skipped.
Slip(e) ==
  /\ up /\ closing.pc = "loop" /\ e \in closing.todo
  /\ \/ /\ e \in Phones
        /\ slips' = [slips EXCEPT ![closing.month][e] = @ + 1]
        /\ closing' = [closing EXCEPT !.todo = @ \ {e}, !.sent = @ + 1]
        /\ UNCHANGED <<skipped, incidents>>
     \/ /\ e \in Phones => Incident
        /\ e \notin Phones => UNCHANGED incidents
        /\ closing' = [closing EXCEPT !.todo = @ \ {e}]
        /\ skipped' = [skipped EXCEPT ![closing.month] = @ \cup {e}]
        /\ UNCHANGED slips
  /\ UNCHANGED <<length, date, up, due, excused, repeats, handVars>>

Finish ==
  /\ up /\ closing.pc = "loop" /\ closing.todo = {}
  /\ closing' = NoClosing
  /\ UNCHANGED <<length, date, up, due, slips, skipped, excused, repeats, incidents, handVars>>

\* POST payroll/close of this month, whose hours may not all be there yet, or of an earlier
\* one: computePayroll and phoneMap went well.  Nothing keeps two from running at once.
CloseByHand(m) ==
  /\ up /\ m <= date.m
  /\ Incident
  /\ \E todo \in SUBSET Worked :
       /\ m < date.m => todo = Worked
       /\ owed' = [owed EXCEPT ![m] = [e \in Employees |-> @[e] + IF e \in todo THEN 1 ELSE 0]]
  /\ byHand' = [byHand EXCEPT ![m] = @ + 1]
  /\ UNCHANGED <<length, date, up, due, closing, slips, skipped, excused, repeats, handed>>

\* A round of its loop: the slip is handed over, or it is skipped (no phone, a send that throws).
HandSlip(m, e) ==
  /\ up /\ owed[m][e] > 0
  /\ owed' = [owed EXCEPT ![m][e] = @ - 1]
  /\ \/ e \in Phones /\ handed' = [handed EXCEPT ![m][e] = @ + 1]
     \/ UNCHANGED handed
  /\ UNCHANGED <<length, date, up, due, closing, slips, skipped, excused, repeats, byHand, incidents>>

\* The process goes down, the closings by hand with it.  A job the worker was processing is
\* handed out again when it is back.
Down ==
  /\ up
  /\ Incident
  /\ up' = FALSE
  /\ repeats' = repeats + 1
  /\ owed' = [m \in Months |-> [e \in Employees |-> 0]]
  /\ IF closing.pc = "idle" THEN UNCHANGED <<due, closing, excused>>
     ELSE /\ due' = date /\ closing' = NoClosing
          /\ excused' = excused \cup {closing.month}
  /\ UNCHANGED <<length, date, slips, skipped, handed, byHand>>

Up ==
  /\ ~up
  /\ up' = TRUE
  /\ UNCHANGED <<length, date, due, closing, slips, skipped, excused, repeats, incidents, handVars>>

\* Half a day passes, and what runs has done by then what was due.
Pass ==
  /\ up => closing.pc = "idle" /\ ~IsDue
  /\ \A m \in Months, e \in Employees : owed[m][e] = 0
  /\ \/ ~date.eve /\ date' = [date EXCEPT !.eve = TRUE]
     \/ date.eve /\ date.d < length[date.m] /\ date' = [date EXCEPT !.d = @ + 1, !.eve = FALSE]
     \/ date.eve /\ date.d = length[date.m] /\ date.m + 1 \in Months
        /\ date' = [m |-> date.m + 1, d |-> FirstDay, eve |-> FALSE]
  /\ excused' = IF up THEN excused ELSE excused \cup {date.m}
  /\ UNCHANGED <<length, up, due, closing, slips, skipped, repeats, incidents, handVars>>

Next ==
  \/ Fire \/ Compute \/ ComputeThrows \/ Finish \/ Down \/ Up \/ Pass
  \/ \E e \in Employees : Slip(e) \/ \E m \in Months : HandSlip(m, e)
  \/ \E m \in Months : CloseByHand(m)

Spec == Init /\ [][Next]_vars

-----------------------------------------------------------------------------
TypeOK ==
  /\ length \in [Months -> 28..31] /\ date \in Moments /\ up \in BOOLEAN
  /\ due \in Moments \cup {Never}
  /\ closing \in [pc : {"idle", "compute", "loop"}, month : Months \cup {0},
                  todo : SUBSET Employees, sent : Nat, tries : 0..1]
  /\ slips \in [Months -> [Employees -> Nat]]
  /\ skipped \in [Months -> SUBSET Employees]
  /\ excused \in SUBSET Months /\ repeats \in Nat /\ incidents \in Nat
  /\ owed \in [Months -> [Employees -> Nat]] /\ handed \in [Months -> [Employees -> Nat]]
  /\ byHand \in [Months -> Nat]

\* An employee gets the slip of a month once, but for the restarts of the worker and the
\* closings of that month run by hand, each of which sends all slips again.
SlipOncePerMonth ==
  \A m \in Months, e \in Employees : slips[m][e] + handed[m][e] <= 1 + repeats + byHand[m]

\* When a month is over, each employee who worked in it got a slip or is counted as
\* skipped, whatever its length; unless the worker was down or the pay not computed.
NobodyMissed ==
  \A m \in Months \ excused : date.m > m =>
    \A e \in Worked : slips[m][e] > 0 \/ e \in skipped[m]
=============================================================================
