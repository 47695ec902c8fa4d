------------------------ MODULE NotificationSchedules ------------------------
(***************************************************************************)
(* The reports the shop schedules by the clock: a tick each minute asks    *)
(* for the schedules due in that very minute, composes and sends each of   *)
(* them and marks it as run for the day.  One worker runs the ticks; a     *)
(* tick that was cut off by a restart is run again.                        *)
(***************************************************************************)
EXTENDS Naturals, FiniteSets

CONSTANTS
  Schedules,
  Minutes, Days,  \* the day has minutes 1..Minutes, the days are 1..Days
  MaxFaults    \* bound on faults, delays and edits together

ScheduleAssumption ==
  Minutes \in Nat \ {0} /\ Days \in Nat \ {0} /\ MaxFaults \in Nat

VARIABLES
  day, minute,
  at, on,     \* time_hhmm and enabled of each schedule
  lastRun,    \* last_run_on, 0 when it never ran
  tick,       \* the tick being processed
  ticked,     \* the tick of this minute was taken
  sends,      \* sends[s]: the days a message of s was handed over, with repetition
  reruns,    \* history: the faults after which a schedule may run once more
  excusedToday,    \* history: the schedules an incident of today may have kept from running
  faults

vars == <<day, minute, at, on, lastRun, tick, ticked, sends, reruns, excusedToday, faults>>

\* todo: the schedules of due() that are left; today: the day due() saw.
NoTick == [pc |-> "idle", todo |-> {}, cur |-> {}, today |-> 0]
Incident == faults < MaxFaults /\ faults' = faults + 1

Init ==
  /\ day = 1 /\ minute = 1
  /\ at \in [Schedules -> 1..Minutes]
  /\ on \in [Schedules -> BOOLEAN]
  /\ lastRun = [s \in Schedules |-> 0]
  /\ tick = NoTick /\ ticked = FALSE
  /\ sends = [s \in Schedules |-> [d \in 1..Days |-> 0]]
  /\ reruns = 0 /\ excusedToday = {} /\ faults = 0

\* Mutant: last_run_on is not asked for.
Due_Again == {s \in Schedules : on[s] /\ at[s] = minute}

Due == {s \in Schedules : on[s] /\ at[s] = minute /\ lastRun[s] # day}

\* The tick of this minute: runDue reads the schedules that are due.
Tick ==
  /\ tick.pc = "idle" /\ ~ticked
  /\ ticked' = TRUE
  /\ tick' = [pc |-> "loop", todo |-> Due, cur |-> {}, today |-> day]
  /\ UNCHANGED <<day, minute, at, on, lastRun, sends, reruns, excusedToday, faults>>

\* The read throws: logged, nothing is run in this minute.
TickUnread ==
  /\ tick.pc = "idle" /\ ~ticked
  /\ Incident
  /\ ticked' = TRUE
  /\ excusedToday' = excusedToday \cup Due
  /\ UNCHANGED <<day, minute, at, on, lastRun, tick, sends, reruns>>

Pick(s) ==
  /\ tick.pc = "loop" /\ s \in tick.todo
  /\ tick' = [tick EXCEPT !.pc = "compose", !.cur = {s}, !.todo = @ \ {s}]
  /\ UNCHANGED <<day, minute, at, on, lastRun, ticked, sends, reruns, excusedToday, faults>>

\* compose: a text to send, or none when there is nothing to report.
Compose ==
  /\ tick.pc = "compose"
  /\ \E pc \in {"send", "mark"} : tick' = [tick EXCEPT !.pc = pc]
  /\ UNCHANGED <<day, minute, at, on, lastRun, ticked, sends, reruns, excusedToday, faults>>

\* zalo.send hands the message over, or skips it when its feature is off.
Send ==
  /\ tick.pc = "send"
  /\ tick' = [tick EXCEPT !.pc = "mark"]
  /\ \/ \E s \in tick.cur : sends' = [sends EXCEPT ![s][tick.today] = @ + 1]
     \/ UNCHANGED sends
  /\ UNCHANGED <<day, minute, at, on, lastRun, ticked, reruns, excusedToday, faults>>

\* Mutant: the try stands around the loop, an error ends the tick.
StepThrows_EndsLoop ==
  /\ tick.pc \in {"compose", "send"}
  /\ Incident
  /\ tick' = [tick EXCEPT !.pc = "mark", !.todo = {}]
  /\ UNCHANGED <<day, minute, at, on, lastRun, ticked, sends, reruns, excusedToday>>

\* compose or send throws: the catch block marks the schedule all the same.
StepThrows ==
  /\ tick.pc \in {"compose", "send"}
  /\ Incident
  /\ tick' = [tick EXCEPT !.pc = "mark"]
  /\ UNCHANGED <<day, minute, at, on, lastRun, ticked, sends, reruns, excusedToday>>

Mark ==
  /\ tick.pc = "mark"
  /\ lastRun' = [s \in Schedules |-> IF s \in tick.cur THEN tick.today ELSE lastRun[s]]
  /\ tick' = [tick EXCEPT !.pc = "loop", !.cur = {}]
  /\ UNCHANGED <<day, minute, at, on, ticked, sends, reruns, excusedToday, faults>>

\* markRun throws, and so does the second try in the catch block.
MarkFails ==
  /\ tick.pc = "mark"
  /\ Incident
  /\ reruns' = reruns + 1
  /\ excusedToday' = excusedToday \cup tick.cur
  /\ tick' = [tick EXCEPT !.pc = "loop", !.cur = {}]
  /\ UNCHANGED <<day, minute, at, on, lastRun, ticked, sends>>

TickEnds ==
  /\ tick.pc = "loop" /\ tick.todo = {}
  /\ tick' = NoTick
  /\ UNCHANGED <<day, minute, at, on, lastRun, ticked, sends, reruns, excusedToday, faults>>

\* The process restarts within a tick, which BullMQ hands out again.
Crash ==
  /\ tick.pc # "idle"
  /\ Incident
  /\ reruns' = reruns + 1
  /\ excusedToday' = excusedToday \cup tick.todo \cup tick.cur
  /\ tick' = NoTick
  /\ ticked' = FALSE
  /\ UNCHANGED <<day, minute, at, on, lastRun, sends>>

\* An operator edits a schedule (notification_schedule_update keeps last_run_on).
Edit(s) ==
  /\ Incident
  /\ \/ at' = [at EXCEPT ![s] = IF @ = Minutes THEN 1 ELSE @ + 1] /\ UNCHANGED on
     \/ on' = [on EXCEPT ![s] = ~@] /\ UNCHANGED at
  /\ excusedToday' = excusedToday \cup {s}
  /\ UNCHANGED <<day, minute, lastRun, tick, ticked, sends, reruns>>

\* The minute passes; normally its tick is over by then.  Otherwise what was due and
\* not read is not due any more.
Pass ==
  /\ \/ tick.pc = "idle" /\ ticked /\ UNCHANGED faults
     \/ (tick.pc # "idle" \/ ~ticked) /\ Incident
  /\ ticked' = FALSE
  /\ \/ /\ minute < Minutes
        /\ minute' = minute + 1 /\ UNCHANGED day
        /\ excusedToday' = IF ticked THEN excusedToday ELSE excusedToday \cup Due
     \/ /\ minute = Minutes /\ day < Days
        /\ minute' = 1 /\ day' = day + 1
        /\ excusedToday' = tick.todo \cup tick.cur
  /\ UNCHANGED <<at, on, lastRun, tick, sends, reruns>>

Next ==
  \/ Tick \/ TickUnread \/ Compose \/ Send \/ StepThrows \/ Mark \/ MarkFails
  \/ TickEnds \/ Crash \/ Pass
  \/ \E s \in Schedules : Pick(s) \/ Edit(s)

Spec == Init /\ [][Next]_vars

-----------------------------------------------------------------------------
TypeOK ==
  /\ day \in 1..Days /\ minute \in 1..Minutes
  /\ at \in [Schedules -> 1..Minutes] /\ on \in [Schedules -> BOOLEAN]
  /\ lastRun \in [Schedules -> 0..Days]
  /\ tick \in [pc : {"idle", "loop", "compose", "send", "mark"}, todo : SUBSET Schedules,
               cur : SUBSET Schedules, today : 0..Days]
  /\ ticked \in BOOLEAN
  /\ sends \in [Schedules -> [1..Days -> Nat]]
  /\ reruns \in Nat /\ excusedToday \in SUBSET Schedules /\ faults \in Nat

\* A schedule sends once a day, whatever is edited or comes late during the day: only a
\* restart within its tick or a mark that could not be written may make it send again.
OncePerDay == \A s \in Schedules, d \in 1..Days : sends[s][d] <= 1 + reruns

\* When its minute has passed, a schedule is marked as run, even if another one of the
\* same minute failed; unless the tick itself failed or came late, or it was edited.
NotForgotten ==
  \A s \in Schedules \ excusedToday :
    on[s] /\ at[s] < minute /\ s \notin tick.todo \cup tick.cur => lastRun[s] = day
=============================================================================
