--------------------------- MODULE MCAnnouncements ---------------------------
EXTENDS Announcements, TLC

CONSTANTS o1, o2, p1

\* An order like any other beside one of each sort.
MCSituations == {(o1 :> "plain") @@ (o2 :> s) : s \in {"plain", "no_phone", "opt_out", "test"}}
MCPresses == {<<o2, p1>>}
=============================================================================
