----------------------------- MODULE Attendance ------------------------------
(***************************************************************************)
(* One employee and one day: the checks in and out by face, the sessions   *)
(* they make, the hours of each registered shift, and the hours an admin   *)
(* fills in (AttendanceService over attendance.sql and payroll.sql).  A    *)
(* check waits for the face to be recognised; each function of the         *)
(* database reads first and writes last.  The lists of the shifts are      *)
(* Roster's; here the admin moves the employee on and off them.            *)
(***************************************************************************)
EXTENDS Integers, Sequences, FiniteSets

CONSTANTS
  Shifts,     \* work_shifts in order, [from, to] in ticks of the day
  Grace,      \* c_grace of attendance_checkout_deadline
  MaxTime,    \* the end of the day
  Slots,      \* those who call, one call each at a time
  MaxSamples, MaxChecks, MaxAdjustments \* bounds: samples, checks, calls of admins

Codes == DOMAIN Shifts
Length(c) == Shifts[c].to - Shifts[c].from

AttendanceAssumption ==
  /\ Grace \in Nat /\ MaxTime \in Nat
  /\ MaxSamples \in Nat /\ MaxChecks \in Nat /\ MaxAdjustments \in Nat
  /\ Codes # {}
  /\ \A c \in Codes : Shifts[c].from \in Nat /\ Shifts[c].to \in Nat /\ Length(c) > 0
  /\ \A c, d \in Codes : c < d => Shifts[c].to <= Shifts[d].from

VARIABLES
  now,
  registered,  \* the shifts of shift_assignments
  records,     \* attendance_records, in the order of checked_at
  adjustments, \* attendance_adjustments
  dayLocked,   \* attendance_day_locks
  samples,     \* how many rows of employee_face_descriptors there are
  calls, checks, adjusts,
  loose        \* shifts adjusted by hand, filled while they could still change, or whose hours
               \* grew with a later edit of the roster (history)

vars == <<now, registered, records, adjustments, dayLocked, samples, calls, checks, adjusts, loose>>

Free == [pc |-> "free"]
None == -1

Init ==
  /\ now = 0
  /\ registered \in SUBSET Codes
  /\ records = <<>> /\ adjustments = {} /\ dayLocked = FALSE
  /\ samples = 0
  /\ calls = [s \in Slots |-> Free]
  /\ checks = 0 /\ adjusts = 0
  /\ loose = {}

-----------------------------------------------------------------------------
(* What the day amounts to: attendance_day_compute                         *)

Latest(set) == CHOOSE x \in set : \A y \in set : y <= x

\* attendance_shift_at: the shift a check in falls into.
ShiftAt(t) ==
  LET ahead == {c \in Codes : t <= Shifts[c].to}
  IN IF ahead = {} THEN Len(Shifts) ELSE CHOOSE c \in ahead : \A d \in ahead : c <= d

\* attendance_checkout_deadline: some time after the last registered shift that is not over
\* at the check in, or after the shift it falls into.
Deadline(in) ==
  LET ends == {Shifts[c].to : c \in {c \in registered : Shifts[c].to > in}}
  IN Grace + IF ends = {} THEN Shifts[ShiftAt(in)].to ELSE Latest(ends)

\* attendance_open_session: the last record is a check in, at this time.
OpenSince ==
  IF records = <<>> \/ records[Len(records)].kind = "out" THEN None
  ELSE records[Len(records)].at

\* The loop over the records of the day: a check in is kept until its deadline, a check out
\* ends the session it finds open.
Pair(state, r) ==
  IF r.kind = "in" THEN
    IF state.open = None \/ r.at > Deadline(state.open)
    THEN [state EXCEPT !.open = r.at] ELSE state
  ELSE IF state.open = None THEN state
  ELSE [open |-> None, sessions |-> state.sessions \cup {<<state.open, r.at>>}]

Paired ==
  LET upTo[n \in 0..Len(records)] ==
        IF n = 0 THEN [open |-> None, sessions |-> {}] ELSE Pair(upTo[n - 1], records[n])
  IN upTo[Len(records)]

\* A session still open counts up to now, unless it is past its deadline.
Sessions ==
  LET p == Paired
  IN p.sessions \cup
       IF p.open # None /\ now <= Deadline(p.open) THEN {<<p.open, now>>} ELSE {}

\* The hours of a registered shift: the time of it that the sessions cover.
Hours(c) ==
  IF c \notin registered THEN 0
  ELSE Cardinality({t \in Shifts[c].from..Shifts[c].to - 1 :
                      \E s \in Sessions : s[1] <= t /\ t < s[2]})

\* The hours of its rows, one by one, and the sum of what was filled in, or added by hand, for
\* a shift: no two rows have the same number.
Added(c) == UNION {{a} \X (1..a.hours) : a \in {b \in adjustments : b.shift = c}}
Adjusted(c) == Cardinality(Added(c))

-----------------------------------------------------------------------------
(* The face and the checks                                                 *)

UnchangedButCalls ==
  UNCHANGED <<now, registered, records, adjustments, dayLocked, samples, checks, adjusts, loose>>

\* registerFace: with reset the old samples go first, and are lost if the rest fails.
RegisterFace(s) ==
  /\ calls[s] = Free /\ samples < MaxSamples
  /\ \E reset \in BOOLEAN : samples' = IF reset THEN 0 ELSE samples
  /\ calls' = [calls EXCEPT ![s] = [pc |-> "face"]]
  /\ UNCHANGED <<now, registered, records, adjustments, dayLocked, checks, adjusts, loose>>

FaceAdd(s) ==
  /\ calls[s].pc = "face" /\ samples < MaxSamples
  /\ samples' = samples + 1
  /\ calls' = [calls EXCEPT ![s] = Free]
  /\ UNCHANGED <<now, registered, records, adjustments, dayLocked, checks, adjusts, loose>>

ClearFace ==
  /\ samples > 0 /\ samples' = 0
  /\ UNCHANGED <<now, registered, records, adjustments, dayLocked, calls, checks, adjusts, loose>>

\* check: from the network of the shop, with a face to compare with; what is refused here
\* leaves nothing.
Check(s) ==
  /\ calls[s] = Free /\ samples > 0 /\ checks < MaxChecks /\ checks' = checks + 1
  /\ \E kind \in {"in", "out"} : calls' = [calls EXCEPT ![s] = [pc |-> "match", kind |-> kind]]
  /\ UNCHANGED <<now, registered, records, adjustments, dayLocked, samples, adjusts, loose>>

\* NO_OPEN_SESSION, otherwise.
Admits(kind) == kind = "out" => OpenSince # None

\* The face is the right one, and attendance_add begins: its time is taken here.
Match(s) ==
  /\ calls[s].pc = "match" /\ Admits(calls[s].kind)
  /\ calls' = [calls EXCEPT ![s] = [pc |-> "add", kind |-> @.kind, at |-> now]]
  /\ UnchangedButCalls

\* Another face, no open session, or a failure.
Refuse(s) ==
  /\ calls[s] # Free /\ calls' = [calls EXCEPT ![s] = Free]
  /\ UnchangedButCalls

\* The record comes after those of its time and before.
AttendanceAdd(s) ==
  LET r == [kind |-> calls[s].kind, at |-> calls[s].at]
  IN
  /\ calls[s].pc = "add"
  /\ \E n \in 0..Len(records) :
       /\ \A i \in DOMAIN records : i <= n <=> records[i].at <= r.at
       /\ records' = SubSeq(records, 1, n) \o <<r>> \o SubSeq(records, n + 1, Len(records))
  /\ calls' = [calls EXCEPT ![s] = Free]
  /\ UNCHANGED <<now, registered, adjustments, dayLocked, samples, checks, adjusts, loose>>

-----------------------------------------------------------------------------
(* The admin                                                               *)

\* (A mistake: what was filled in before is forgotten.)
Missing_Again(c) == Length(c) - Hours(c)

\* What a shift lacks.
Missing(c) == Length(c) - Hours(c) - Adjusted(c)

\* The hours of the shift may still change: it is not over, a session is open or a call that
\* writes one, or adjusts, is on its way.
Unsettled(s, c) ==
  \/ now < Shifts[c].to \/ OpenSince # None
  \/ \E t \in Slots \ {s} : calls[t].pc \in {"add", "adjust"}

\* attendance_adjustment_add begins: to fill a shift, or with hours given by hand; not on a
\* day that is locked, nor to fill a shift that lacks nothing.
Adjust(s) ==
  /\ calls[s] = Free /\ ~dayLocked
  /\ adjusts < MaxAdjustments /\ adjusts' = adjusts + 1
  /\ \E c \in Codes, fill \in BOOLEAN :
       /\ fill => Missing(c) > 0
       /\ calls' = [calls EXCEPT ![s] =
            [pc |-> "adjust", number |-> adjusts', shift |-> c, fill |-> fill,
             hours |-> IF fill THEN Missing(c) ELSE 1]]
       /\ loose' = IF fill /\ ~Unsettled(s, c) THEN loose ELSE loose \cup {c}
  /\ UNCHANGED <<now, registered, records, adjustments, dayLocked, samples, checks>>

AdjustmentAdd(s) ==
  LET call == calls[s] IN
  /\ call.pc = "adjust"
  /\ adjustments' = adjustments \cup
       {[number |-> call.number, shift |-> call.shift, fill |-> call.fill, hours |-> call.hours]}
  /\ calls' = [calls EXCEPT ![s] = Free]
  /\ UNCHANGED <<now, registered, records, dayLocked, samples, checks, adjusts, loose>>

RemoveAdjustment ==
  /\ \E a \in adjustments : adjustments' = adjustments \ {a}
  /\ UNCHANGED <<now, registered, records, dayLocked, samples, calls, checks, adjusts, loose>>

\* The shift has been filled, or a call is about to fill it.
Filled(c) ==
  Adjusted(c) > 0 \/ \E s \in Slots : calls[s].pc = "adjust" /\ calls[s].shift = c

\* shift_assignment_set_day, shift_assignment_remove: the employee is put on a shift, or taken
\* off it, whatever its hours are and what was filled in.
SetDay(c) ==
  /\ adjusts < MaxAdjustments /\ adjusts' = adjusts + 1
  /\ registered' = IF c \in registered THEN registered \ {c} ELSE registered \cup {c}
  /\ UNCHANGED <<now, records, adjustments, dayLocked, samples, calls, checks>>
  /\ loose' = loose \cup {d \in Codes : Filled(d) /\ Hours(d)' > Hours(d)}

\* lockDay, unlockDay
LockDay ==
  /\ adjusts < MaxAdjustments /\ adjusts' = adjusts + 1
  /\ dayLocked' = ~dayLocked
  /\ UNCHANGED <<now, registered, records, adjustments, samples, calls, checks, loose>>

Tick ==
  /\ now < MaxTime /\ now' = now + 1
  /\ UNCHANGED <<registered, records, adjustments, dayLocked, samples, calls, checks, adjusts,
                 loose>>

Next ==
  \/ \E s \in Slots :
       \/ RegisterFace(s) \/ FaceAdd(s) \/ Check(s) \/ Match(s) \/ Refuse(s) \/ AttendanceAdd(s)
       \/ Adjust(s) \/ AdjustmentAdd(s)
  \/ \E c \in Codes : SetDay(c)
  \/ ClearFace \/ RemoveAdjustment \/ LockDay \/ Tick

Spec == Init /\ [][Next]_vars

-----------------------------------------------------------------------------
\* The rows and the calls are well formed.
TypeOK ==
  /\ now \in 0..MaxTime /\ registered \subseteq Codes
  /\ \A i \in DOMAIN records : records[i] \in [kind : {"in", "out"}, at : 0..MaxTime]
  /\ \A a \in adjustments :
       /\ a.number \in 1..MaxAdjustments /\ a.shift \in Codes
       /\ a.fill \in BOOLEAN /\ a.hours \in Nat \ {0}
  /\ dayLocked \in BOOLEAN /\ samples \in 0..MaxSamples
  /\ \A s \in Slots : calls[s].pc \in {"free", "face", "match", "add", "adjust"}
  /\ checks \in 0..MaxChecks /\ adjusts \in 0..MaxAdjustments /\ loose \subseteq Codes

\* A shift that was filled once it was settled is paid its length and no more, however often
\* it is filled, unless the roster of the day was edited later and gave it more hours (fill of
\* attendance_adjustment_add, made to stop hours from counting twice).
FilledToItsLength ==
  \A c \in Codes \ loose : Adjusted(c) > 0 => Hours(c) + Adjusted(c) <= Length(c)

\* attendance_checkout_deadline says that a check out past the deadline of its check in is
\* left out, and check() that one can only check in then.
LateOutRefused ==
  \A i \in DOMAIN records : records[i].kind = "out" =>
    i > 1 /\ records[i - 1].kind = "in" /\ records[i].at <= Deadline(records[i - 1].at)
=============================================================================
