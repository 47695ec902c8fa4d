--------------------------- MODULE MCZaloDelivery ----------------------------
EXTENDS ZaloDelivery, TLC

CONSTANTS m1, m2, n1, g1, g2, f1

Personal == [numbers |-> {n1}, groups |-> {}, feature |-> NoFeature]
ByFeature == [numbers |-> {}, groups |-> {}, feature |-> f1]
Chosen == [numbers |-> {}, groups |-> {g1}, feature |-> f1]
Nowhere == [numbers |-> {}, groups |-> {}, feature |-> NoFeature]

PayloadKinds == {Personal, ByFeature, Chosen, Nowhere}

One(p, redis, n) ==
  [payload |-> (m1 :> p) @@ (m2 :> p), handed |-> {m1}, redis |-> redis, incidents |-> n]

\* One message of each kind with two incidents; one whose adding to the queue may be
\* answered wrongly, to a number with an incident, to groups with none; and two messages.
MCScenarios ==
  {One(p, "sound", 2) : p \in PayloadKinds}
  \cup {One(Personal, "lossy", 1), One(ByFeature, "lossy", 0)}
  \cup {[payload |-> (m1 :> ByFeature) @@ (m2 :> Personal), handed |-> {m1, m2},
         redis |-> "sound", incidents |-> 0]}
=============================================================================
