---------------------------- MODULE MCAttendance -----------------------------
EXTENDS Attendance

\* Two shifts an hour long, an hour apart.
MCShifts == <<[from |-> 0, to |-> 1], [from |-> 2, to |-> 3]>>
=============================================================================
