------------------------------- MODULE Roster --------------------------------
(***************************************************************************)
(* Who works which shift of one day, and the log that tells who put him    *)
(* there or took him off: AttendanceService and ShiftsService over         *)
(* shifts.sql.  A call is one transaction of several statements, each of   *)
(* which sees what is committed when it begins: it logs what it takes off, *)
(* takes it off, logs what it adds, and adds it.                           *)
(***************************************************************************)
EXTENDS Integers

CONSTANTS
  Employees,
  Codes,     \* the shifts of the day
  Clerks,    \* those who call, one call each at a time
  MaxCalls   \* bound on the calls

RosterAssumption == MaxCalls \in Nat

VARIABLES
  roster,    \* the rows of shift_assignments: their number, 0 when there is none
  told,      \* the entries of shift_assignment_logs: those that add less those that remove
  submitted, \* the employees who submitted the week (shift_week_submissions)
  arrived,   \* the day is no longer in the future
  calls, asked,
  crossed    \* rows that one call changed while another had them in hand (history)

vars == <<roster, told, submitted, arrived, calls, asked, crossed>>

Rows == Employees \X Codes
Free == [pc |-> "free"]
Held == {r \in Rows : roster[r] # 0}

Init ==
  /\ roster = [r \in Rows |-> 0] /\ told = [r \in Rows |-> 0]
  /\ submitted = {} /\ arrived = FALSE
  /\ calls = [c \in Clerks |-> Free] /\ asked = 0
  /\ crossed = {}

\* (A mistake: all the rows in reach are logged, those that stay too.)
Logged_All(reach, wanted) == Held \cap reach

\* The rows that are logged as removed.
Logged(reach, wanted) == (Held \cap reach) \ wanted

\* A call begins: its checks have passed, and it logs what it takes off.
Begins(c, reach, wanted, only) ==
  /\ calls[c] = Free /\ asked < MaxCalls /\ asked' = asked + 1
  /\ calls' = [calls EXCEPT ![c] =
       [pc |-> "logged", number |-> asked', reach |-> reach, wanted |-> wanted, only |-> only,
        removed |-> Logged(reach, wanted), gone |-> {}, added |-> {}]]
  /\ UNCHANGED <<roster, told, submitted, arrived, crossed>>

RowsOf(e) == {e} \X Codes
AnyRow == 0

\* shift_register_self: one's own shifts of a day to come, in a week not submitted yet.
RegisterSelf(c) ==
  \E e \in Employees :
    /\ ~arrived /\ e \notin submitted
    /\ \E wanted \in SUBSET RowsOf(e) : Begins(c, RowsOf(e), wanted, AnyRow)

\* shift_assignment_set_day: all who work a shift, on any day.
SetDay(c) ==
  \E code \in Codes :
    \E wanted \in SUBSET (Employees \X {code}) : Begins(c, Employees \X {code}, wanted, AnyRow)

\* shift_assignment_remove, by the number of the row.
Remove(c) ==
  \E r \in Held : Begins(c, {r}, {}, roster[r])

\* The rows that are deleted, by the same condition, as it holds now.
Deleted(call) ==
  {r \in (Held \cap call.reach) \ call.wanted : call.only \in {AnyRow, roster[r]}}

\* What is taken off, once no other call is taking it off, and what is to be added, as
\* logged.
Swap(c) ==
  LET call == calls[c]
      gone == Deleted(call)
  IN
  /\ call.pc = "logged"
  /\ \A d \in Clerks \ {c} : calls[d].pc = "swapped" => calls[d].gone \cap gone = {}
  /\ calls' = [calls EXCEPT ![c] =
       [call EXCEPT !.pc = "swapped", !.gone = gone, !.added = call.wanted \ Held]]
  /\ UNCHANGED <<roster, told, submitted, arrived, asked, crossed>>

\* The rows that other calls have in hand.
InHand(c) == UNION {calls[d].reach : d \in {d \in Clerks \ {c} : calls[d] # Free}}

\* What is still missing is added, and the call commits.
Commit(c) ==
  LET call == calls[c]
      new == call.wanted \ Held
  IN
  /\ call.pc = "swapped"
  /\ roster' = [r \in Rows |->
       IF r \in new THEN call.number ELSE IF r \in call.gone THEN 0 ELSE roster[r]]
  /\ told' = [r \in Rows |->
       told[r] + (IF r \in call.added THEN 1 ELSE 0) - (IF r \in call.removed THEN 1 ELSE 0)]
  /\ crossed' = crossed \cup ((new \cup call.gone) \cap InHand(c))
  /\ calls' = [calls EXCEPT ![c] = Free]
  /\ UNCHANGED <<submitted, arrived, asked>>

\* The transaction fails: two calls that add one row, or the database.
Fails(c) ==
  /\ calls[c] # Free
  /\ calls' = [calls EXCEPT ![c] = Free]
  /\ UNCHANGED <<roster, told, submitted, arrived, asked, crossed>>

\* shift_week_submit, shift_week_reopen
Submit(e) ==
  /\ e \notin submitted /\ submitted' = submitted \cup {e}
  /\ UNCHANGED <<roster, told, arrived, calls, asked, crossed>>

Reopen(e) ==
  /\ e \in submitted /\ submitted' = submitted \ {e}
  /\ UNCHANGED <<roster, told, arrived, calls, asked, crossed>>

Arrive ==
  /\ ~arrived /\ arrived' = TRUE
  /\ UNCHANGED <<roster, told, submitted, calls, asked, crossed>>

Next ==
  \/ \E c \in Clerks :
       RegisterSelf(c) \/ SetDay(c) \/ Remove(c) \/ Swap(c) \/ Commit(c) \/ Fails(c)
  \/ \E e \in Employees : Submit(e) \/ Reopen(e)
  \/ Arrive

Spec == Init /\ [][Next]_vars

-----------------------------------------------------------------------------
\* The rows, their log and the calls are well formed.
TypeOK ==
  /\ roster \in [Rows -> 0..MaxCalls] /\ told \in [Rows -> -MaxCalls..MaxCalls]
  /\ submitted \subseteq Employees /\ arrived \in BOOLEAN
  /\ \A c \in Clerks : calls[c].pc \in {"free", "logged", "swapped"}
  /\ asked \in 0..MaxCalls /\ crossed \subseteq Rows

\* The log tells who is on a shift, whoever put him there: each row was added once more
\* than it was removed, each row missing as often, unless two calls had it in hand at once
\* (shift_assignment_logs, kept to settle who changed what).
RosterTold == \A r \in Rows \ crossed : told[r] = IF roster[r] # 0 THEN 1 ELSE 0
=============================================================================
