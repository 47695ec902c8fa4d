----------------------------- MODULE StaffProofs ----------------------------
(***************************************************************************)
(* What is proved of the roster and of the attendance, each as in          *)
(* OrderProofs.                                                            *)
(***************************************************************************)
EXTENDS OrderProofs, SequenceTheorems

-----------------------------------------------------------------------------
(* The roster of a day.                                                    *)

\* A call under way.
ShopBusy == [pc : {"logged", "swapped"}, number : 1..asked, reach : SUBSET Shop!Rows, wanted : SUBSET Shop!Rows,
             only : 0..MaxCalls, removed : SUBSET Shop!Rows, gone : SUBSET Shop!Rows, added : SUBSET Shop!Rows]

ShopRowsOK == roster \in [Shop!Rows -> 0..MaxCalls] /\ told \in [Shop!Rows -> Int] /\ crossed \subseteq Shop!Rows
ShopWeekOK == submitted \subseteq Employees /\ arrived \in BOOLEAN /\ asked \in 0..MaxCalls
ShopCallsOK == rosterCalls \in [Clerks -> {Shop!Free} \cup ShopBusy]
ShopTyped == ShopRowsOK /\ ShopWeekOK /\ ShopCallsOK

\* Calls have numbers of their own.
ShopNumbered ==
  \A c, d \in Clerks :
    rosterCalls[c].pc # "free" /\ rosterCalls[d].pc # "free" /\ rosterCalls[c].number = rosterCalls[d].number => c = d

\* A call only changes what is in its reach.
ShopReaches(call) ==
  /\ call.wanted \subseteq call.reach /\ call.removed \subseteq call.reach
  /\ call.gone \subseteq call.reach /\ call.added \subseteq call.reach

\* A row that was not crossed is as a call found it.
ShopFound(call, r) ==
  /\ r \in call.removed <=> roster[r] # 0 /\ r \notin call.wanted
  /\ call.only \in {Shop!AnyRow, roster[r]}
  /\ call.pc = "swapped" =>
       /\ r \in call.gone <=> r \in call.removed
       /\ r \in call.added <=> r \in call.wanted /\ roster[r] = 0

ShopCallOK(call) == ShopReaches(call) /\ \A r \in call.reach \ crossed : ShopFound(call, r)

\* The calls that have not ended, by their numbers; each of the others wrote an entry of a row
\* at most once.
ShopOpen == {n \in 1..asked : \E c \in Clerks : rosterCalls[c].pc # "free" /\ rosterCalls[c].number = n}
ShopEntries(n) == \A r \in Shop!Rows : -n <= told[r] /\ told[r] <= n
ShopCounted == ShopEntries(asked - Cardinality(ShopOpen))

ShopIInv ==
  /\ ShopTyped /\ ShopNumbered /\ ShopCounted /\ Shop!RosterTold
  /\ \A c \in Clerks : rosterCalls[c].pc # "free" => ShopCallOK(rosterCalls[c])

LEMMA ShopInitIInv == ASSUME Shop!RosterAssumption, Shop!Init PROVE ShopIInv
  <1>1. ShopOpen = {}
    BY DEF Shop!Init, ShopOpen
  <1>2. Cardinality(ShopOpen) = 0
    BY <1>1, FS_EmptySet
  <1>3. ShopCounted
    BY <1>2 DEF Shop!Init, ShopCounted, ShopEntries
  <1>4. Shop!RosterTold
    BY DEF Shop!Init, Shop!RosterTold
  <1>5. ShopTyped
    <2>1. 0 \in 0..MaxCalls
      BY DEF Shop!RosterAssumption
    <2>2. ShopRowsOK
      BY <2>1 DEF Shop!Init, ShopRowsOK
    <2>3. ShopWeekOK
      BY <2>1 DEF Shop!Init, ShopWeekOK
    <2>4. ShopCallsOK
      BY DEF Shop!Init, ShopCallsOK
    <2> QED BY <2>2, <2>3, <2>4 DEF ShopTyped
  <1>6. \A c \in Clerks : rosterCalls[c].pc = "free"
    BY DEF Shop!Init, Shop!Free
  <1> QED BY <1>3, <1>4, <1>5, <1>6 DEF ShopIInv, ShopNumbered

\* What a call that has not ended holds.
LEMMA ShopAtCall ==
  ASSUME ShopTyped, NEW c \in Clerks
  PROVE  /\ rosterCalls[c].pc # "free" => rosterCalls[c] \in ShopBusy
         /\ rosterCalls[c] = Shop!Free <=> rosterCalls[c].pc = "free"
  BY DEF ShopTyped, ShopCallsOK, Shop!Free, ShopBusy

\* The calls under way are finitely many.
LEMMA ShopOpenIsFinite ==
  ASSUME ShopTyped, Shop!RosterAssumption
  PROVE  IsFiniteSet(ShopOpen) /\ Cardinality(ShopOpen) \in 0..asked
  <1>1. asked \in Nat
    BY DEF ShopTyped, ShopWeekOK, Shop!RosterAssumption
  <1>2. IsFiniteSet(1..asked) /\ Cardinality(1..asked) = asked
    BY <1>1, FS_Interval
  <1>3. ShopOpen \subseteq 1..asked
    BY DEF ShopOpen
  <1>4. IsFiniteSet(ShopOpen) /\ Cardinality(ShopOpen) <= asked
    BY <1>2, <1>3, FS_Subset
  <1>5. Cardinality(ShopOpen) \in Nat
    BY <1>4, FS_CardinalityType
  <1> QED BY <1>1, <1>4, <1>5

\* One call moves: to what it may hold, or to its end.
LEMMA ShopCallMoves ==
  ASSUME Shop!RosterAssumption, ShopTyped, ShopWeekOK', asked <= asked', NEW c \in Clerks,
         NEW new \in {Shop!Free} \cup ShopBusy', rosterCalls' = [rosterCalls EXCEPT ![c] = new]
  PROVE  ShopCallsOK' /\ rosterCalls'[c] = new /\ \A d \in Clerks \ {c} : rosterCalls'[d] = rosterCalls[d]
  <1>1. rosterCalls'[c] = new /\ \A d \in Clerks \ {c} : rosterCalls'[d] = rosterCalls[d]
    BY DEF ShopTyped, ShopCallsOK
  <1>2. 1..asked \subseteq 1..asked'
    BY DEF ShopTyped, ShopWeekOK, Shop!RosterAssumption
  <1>3. ShopBusy \subseteq ShopBusy'
    BY <1>2 DEF ShopBusy
  <1>4. \A d \in Clerks : rosterCalls[d] \in {Shop!Free} \cup ShopBusy
    BY DEF ShopTyped, ShopCallsOK
  <1>5. \A d \in Clerks : rosterCalls'[d] \in {Shop!Free} \cup ShopBusy'
    BY <1>1, <1>3, <1>4
  <1>6. rosterCalls' \in [Clerks -> {Shop!Free} \cup ShopBusy']
    BY <1>5 DEF ShopTyped, ShopCallsOK
  <1> QED BY <1>1, <1>6 DEF ShopCallsOK

\* A call ends: the others have their numbers, and one more has been counted.
LEMMA ShopCallEnds ==
  ASSUME Shop!RosterAssumption, ShopIInv, NEW c \in Clerks, rosterCalls[c].pc # "free",
         rosterCalls' = [rosterCalls EXCEPT ![c] = Shop!Free], asked' = asked
  PROVE  /\ ShopCallsOK' /\ ShopNumbered'
         /\ Cardinality(ShopOpen') = Cardinality(ShopOpen) - 1
         /\ \A d \in Clerks : rosterCalls'[d].pc # "free" => d # c /\ rosterCalls'[d] = rosterCalls[d]
  <1>1. ShopWeekOK /\ asked <= asked'
    BY DEF ShopIInv, ShopTyped, ShopWeekOK, Shop!RosterAssumption
  <1>2. rosterCalls'[c] = Shop!Free /\ \A d \in Clerks \ {c} : rosterCalls'[d] = rosterCalls[d]
    BY DEF ShopIInv, ShopTyped, ShopCallsOK
  <1>3. ShopCallsOK'
    BY <1>2 DEF ShopIInv, ShopTyped, ShopCallsOK, ShopBusy
  <1>4. \A d \in Clerks : rosterCalls'[d].pc # "free" => d # c /\ rosterCalls'[d] = rosterCalls[d]
    BY <1>2 DEF Shop!Free
  <1>5. ShopNumbered'
    BY <1>4 DEF ShopIInv, ShopNumbered
  <1>6. rosterCalls[c].number \in ShopOpen
    BY ShopAtCall DEF ShopIInv, ShopOpen, ShopBusy
  <1>7. ShopOpen' = ShopOpen \ {rosterCalls[c].number}
    <2>1. ASSUME NEW n \in ShopOpen' PROVE n \in ShopOpen /\ n # rosterCalls[c].number
      BY <2>1, <1>4 DEF ShopOpen, ShopIInv, ShopNumbered
    <2>2. ASSUME NEW n \in ShopOpen, n # rosterCalls[c].number PROVE n \in ShopOpen'
      BY <2>2, <1>2 DEF ShopOpen
    <2> QED BY <2>1, <2>2
  <1>8. Cardinality(ShopOpen') = Cardinality(ShopOpen) - 1
    BY <1>6, <1>7, ShopOpenIsFinite, FS_RemoveElement DEF ShopIInv
  <1> QED BY <1>3, <1>4, <1>5, <1>8

LEMMA ShopBeginKeeps ==
  ASSUME Shop!RosterAssumption, ShopIInv, NEW c \in Clerks, NEW reach \in SUBSET Shop!Rows,
         NEW wanted \in SUBSET reach, NEW only \in 0..MaxCalls,
         \A r \in reach : only \in {Shop!AnyRow, roster[r]},
         Shop!Begins(c, reach, wanted, only)
  PROVE  ShopIInv'
  <1> DEFINE new == [pc |-> "logged", number |-> asked', reach |-> reach, wanted |-> wanted,
                     only |-> only, removed |-> Shop!Logged(reach, wanted), gone |-> {}, added |-> {}]
  <1>1. /\ rosterCalls[c] = Shop!Free /\ asked' = asked + 1 /\ asked < MaxCalls
        /\ rosterCalls' = [rosterCalls EXCEPT ![c] = new]
        /\ UNCHANGED <<roster, told, submitted, arrived, crossed>>
    BY DEF Shop!Begins
  <1>2. ShopWeekOK' /\ asked <= asked' /\ asked \in Nat
    BY <1>1 DEF ShopIInv, ShopTyped, ShopWeekOK, Shop!RosterAssumption
  <1>3. Shop!Logged(reach, wanted) \subseteq reach /\ Shop!Logged(reach, wanted) \subseteq Shop!Rows
    BY DEF Shop!Logged
  <1>4. new \in ShopBusy'
    BY <1>1, <1>2, <1>3 DEF ShopBusy, Shop!Rows
  <1>5. /\ ShopCallsOK' /\ rosterCalls'[c] = new
        /\ \A d \in Clerks \ {c} : rosterCalls'[d] = rosterCalls[d]
    BY <1>1, <1>2, <1>4, ShopCallMoves DEF ShopIInv
  <1>6. ShopTyped'
    BY <1>1, <1>2, <1>5 DEF ShopIInv, ShopTyped, ShopRowsOK, Shop!Rows
  <1>7. \A d \in Clerks : rosterCalls[d].pc # "free" => rosterCalls[d].number \in 1..asked
    BY ShopAtCall DEF ShopIInv, ShopBusy
  <1>8. ShopNumbered'
    BY <1>1, <1>2, <1>5, <1>7 DEF ShopIInv, ShopNumbered
  <1>9. ShopOpen' = ShopOpen \cup {asked + 1}
    <2>1. ASSUME NEW n \in ShopOpen' PROVE n \in ShopOpen \cup {asked + 1}
      BY <2>1, <1>1, <1>5, <1>2, <1>7 DEF ShopOpen
    <2>2. ASSUME NEW n \in ShopOpen PROVE n \in ShopOpen'
      <3>1. PICK d \in Clerks : rosterCalls[d].pc # "free" /\ rosterCalls[d].number = n
        BY <2>2 DEF ShopOpen
      <3>2. d # c
        BY <1>1, <3>1 DEF Shop!Free
      <3>3. n \in 1..asked'
        BY <2>2, <1>1, <1>2 DEF ShopOpen
      <3> QED BY <3>1, <3>2, <3>3, <1>5 DEF ShopOpen
    <2>3. asked + 1 \in ShopOpen'
      BY <1>1, <1>2, <1>5 DEF ShopOpen
    <2> QED BY <2>1, <2>2, <2>3
  <1>10. Cardinality(ShopOpen') = Cardinality(ShopOpen) + 1
    <2>1. asked + 1 \notin ShopOpen
      BY <1>2 DEF ShopOpen
    <2> QED BY <1>9, <2>1, ShopOpenIsFinite, FS_AddElement DEF ShopIInv
  <1>11. ShopCounted'
    <2>1. Cardinality(ShopOpen) \in Nat
      BY ShopOpenIsFinite DEF ShopIInv, ShopTyped, ShopWeekOK
    <2>2. asked' - Cardinality(ShopOpen') = asked - Cardinality(ShopOpen)
      BY <1>1, <1>2, <1>10, <2>1
    <2> QED BY <1>1, <2>2 DEF ShopIInv, ShopCounted, ShopEntries, Shop!Rows
  <1>12. Shop!RosterTold'
    BY <1>1 DEF ShopIInv, Shop!RosterTold, Shop!Rows
  <1>13. ShopCallOK(rosterCalls[c])'
    BY <1>1, <1>3, <1>5 DEF ShopCallOK, ShopReaches, ShopFound, Shop!Logged, Shop!Held
  <1>14. ASSUME NEW d \in Clerks, d # c, rosterCalls'[d].pc # "free"
         PROVE  ShopCallOK(rosterCalls[d])'
    BY <1>1, <1>5, <1>14 DEF ShopIInv, ShopCallOK, ShopReaches, ShopFound
  <1> QED BY <1>5, <1>6, <1>8, <1>11, <1>12, <1>13, <1>14 DEF ShopIInv


LEMMA ShopSwapKeeps ==
  ASSUME Shop!RosterAssumption, ShopIInv, NEW c \in Clerks, Shop!Swap(c) PROVE ShopIInv'
  <1> DEFINE gone == Shop!Deleted(rosterCalls[c])
             added == rosterCalls[c].wanted \ Shop!Held
             new == [rosterCalls[c] EXCEPT !.pc = "swapped", !.gone = gone, !.added = added]
  <1>1. /\ rosterCalls[c].pc = "logged" /\ rosterCalls' = [rosterCalls EXCEPT ![c] = new]
        /\ UNCHANGED <<roster, told, submitted, arrived, asked, crossed>>
    BY DEF Shop!Swap
  <1>2. rosterCalls[c] \in ShopBusy /\ rosterCalls[c].pc # "free" /\ ShopCallOK(rosterCalls[c])
    BY <1>1, ShopAtCall DEF ShopIInv
  <1>3. gone \subseteq rosterCalls[c].reach /\ added \subseteq rosterCalls[c].wanted
    BY DEF Shop!Deleted
  <1>4. gone \in SUBSET Shop!Rows /\ added \in SUBSET Shop!Rows
    BY <1>2, <1>3 DEF ShopBusy, ShopCallOK, ShopReaches
  <1>5. \A r \in rosterCalls[c].reach \ crossed : r \in gone <=> r \in rosterCalls[c].removed
    BY <1>2 DEF ShopCallOK, ShopFound, Shop!Deleted, Shop!Held, ShopBusy
  <1>6. \A r \in rosterCalls[c].reach \ crossed :
          r \in added <=> r \in rosterCalls[c].wanted /\ roster[r] = 0
    BY <1>2 DEF Shop!Held, ShopBusy
  <1> HIDE DEF gone, added
  <1>7. /\ new \in ShopBusy /\ new.pc = "swapped" /\ new.gone = gone /\ new.added = added
        /\ new.number = rosterCalls[c].number /\ new.reach = rosterCalls[c].reach
        /\ new.wanted = rosterCalls[c].wanted /\ new.only = rosterCalls[c].only
        /\ new.removed = rosterCalls[c].removed
    BY <1>2, <1>4 DEF ShopBusy
  <1> HIDE DEF new
  <1>8. ShopCallOK(new)
    BY <1>2, <1>3, <1>5, <1>6, <1>7 DEF ShopCallOK, ShopReaches, ShopFound
  <1>9. ShopWeekOK' /\ asked <= asked' /\ ShopBusy' = ShopBusy /\ Shop!Rows = Shop!Rows
    BY <1>1 DEF ShopIInv, ShopTyped, ShopWeekOK, Shop!RosterAssumption, ShopBusy
  <1>10. /\ ShopCallsOK' /\ rosterCalls'[c] = new
         /\ \A d \in Clerks \ {c} : rosterCalls'[d] = rosterCalls[d]
    BY <1>1, <1>7, <1>9, ShopCallMoves DEF ShopIInv
  <1>11. ShopTyped'
    BY <1>1, <1>9, <1>10 DEF ShopIInv, ShopTyped, ShopRowsOK, Shop!Rows
  <1>12. \A d \in Clerks : (rosterCalls'[d].pc # "free" <=> rosterCalls[d].pc # "free")
                           /\ rosterCalls'[d].number = rosterCalls[d].number
    BY <1>2, <1>7, <1>10
  <1>13. ShopNumbered'
    BY <1>12 DEF ShopIInv, ShopNumbered
  <1>14. ShopOpen' = ShopOpen
    BY <1>1, <1>12 DEF ShopOpen
  <1>15. ShopCounted'
    BY <1>1, <1>14 DEF ShopIInv, ShopCounted, ShopEntries, Shop!Rows
  <1>16. Shop!RosterTold'
    BY <1>1 DEF ShopIInv, Shop!RosterTold, Shop!Rows
  <1>17. ASSUME NEW d \in Clerks, rosterCalls'[d].pc # "free" PROVE ShopCallOK(rosterCalls[d])'
    <2>1. ShopCallOK(rosterCalls'[d])
      BY <1>8, <1>10, <1>17 DEF ShopIInv
    <2> QED BY <1>1, <2>1 DEF ShopCallOK, ShopReaches, ShopFound
  <1> QED BY <1>11, <1>13, <1>15, <1>16, <1>17 DEF ShopIInv

\* What a call changes of the rows is what it logged, or they are crossed.
LEMMA ShopCommitKeeps ==
  ASSUME Shop!RosterAssumption, ShopIInv, NEW c \in Clerks, Shop!Commit(c) PROVE ShopIInv'
  <1> DEFINE call == rosterCalls[c]
             new == call.wanted \ Shop!Held
             plus(r) == IF r \in call.added THEN 1 ELSE 0
             minus(r) == IF r \in call.removed THEN 1 ELSE 0
  <1>1. /\ call.pc = "swapped"
        /\ roster' = [r \in Shop!Rows |->
             IF r \in new THEN call.number ELSE IF r \in call.gone THEN 0 ELSE roster[r]]
        /\ told' = [r \in Shop!Rows |-> told[r] + plus(r) - minus(r)]
        /\ crossed' = crossed \cup ((new \cup call.gone) \cap Shop!InHand(c))
        /\ rosterCalls' = [rosterCalls EXCEPT ![c] = Shop!Free]
        /\ UNCHANGED <<submitted, arrived, asked>>
    BY DEF Shop!Commit
  <1>2. call \in ShopBusy /\ ShopCallOK(call)
    BY <1>1, ShopAtCall DEF ShopIInv
  <1>3. /\ ShopCallsOK' /\ ShopNumbered'
        /\ Cardinality(ShopOpen') = Cardinality(ShopOpen) - 1
        /\ \A d \in Clerks : rosterCalls'[d].pc # "free" => d # c /\ rosterCalls'[d] = rosterCalls[d]
    BY <1>1, ShopCallEnds
  <1>4. asked \in Nat /\ call.number \in 1..asked /\ asked <= MaxCalls
    BY <1>2 DEF ShopIInv, ShopTyped, ShopWeekOK, Shop!RosterAssumption, ShopBusy
  <1>5. ShopTyped'
    <2>1. \A r \in Shop!Rows : roster[r] \in 0..MaxCalls /\ told[r] \in Int
      BY DEF ShopIInv, ShopTyped, ShopRowsOK
    <2>2. \A r \in Shop!Rows : roster'[r] \in 0..MaxCalls
      BY <1>1, <1>4, <2>1 DEF Shop!RosterAssumption
    <2>3. \A r \in Shop!Rows : told'[r] \in Int
      BY <1>1, <2>1
    <2>4. roster' \in [Shop!Rows -> 0..MaxCalls] /\ told' \in [Shop!Rows -> Int]
      BY <1>1, <2>2, <2>3
    <2>5. new \cup call.gone \subseteq Shop!Rows
      BY <1>2 DEF ShopBusy
    <2>6. crossed' \subseteq Shop!Rows
      BY <1>1, <2>5 DEF ShopIInv, ShopTyped, ShopRowsOK
    <2> QED BY <1>1, <1>3, <2>4, <2>6 DEF ShopIInv, ShopTyped, ShopRowsOK, ShopWeekOK, Shop!Rows
  <1>6. ShopCounted'
    <2>1. Cardinality(ShopOpen) \in Nat
      BY ShopOpenIsFinite DEF ShopIInv, ShopTyped, ShopWeekOK
    <2> DEFINE n == asked - Cardinality(ShopOpen)
    <2>2. asked' - Cardinality(ShopOpen') = n + 1 /\ n \in Int
      BY <1>1, <1>3, <1>4, <2>1
    <2> HIDE DEF n
    <2>3. ShopEntries(n)
      BY DEF ShopIInv, ShopCounted, n
    <2>4. ASSUME NEW r \in Shop!Rows PROVE -(n + 1) <= told'[r] /\ told'[r] <= n + 1
      <3>1. -n <= told[r] /\ told[r] <= n /\ told[r] \in Int
        BY <2>3 DEF ShopEntries, ShopIInv, ShopTyped, ShopRowsOK
      <3>2. plus(r) \in 0..1 /\ minus(r) \in 0..1
        OBVIOUS
      <3>3. told'[r] = told[r] + plus(r) - minus(r)
        BY <1>1
      <3> HIDE DEF plus, minus
      <3> QED BY <2>2, <3>1, <3>2, <3>3
    <2> QED BY <2>2, <2>4 DEF ShopCounted, ShopEntries, Shop!Rows
  <1>7. ASSUME NEW r \in Shop!Rows \ crossed' PROVE told'[r] = IF roster'[r] # 0 THEN 1 ELSE 0
    <2>1. r \notin crossed /\ told[r] = (IF roster[r] # 0 THEN 1 ELSE 0)
      BY <1>1, <1>7 DEF ShopIInv, Shop!RosterTold
    <2>2. r \in new => r \in call.reach /\ roster[r] = 0
      BY <1>2 DEF ShopCallOK, ShopReaches, Shop!Held, ShopBusy
    <2>3. CASE r \in call.reach
      <3>1. ShopFound(call, r)
        BY <1>2, <2>1, <2>3 DEF ShopCallOK
      <3>2. /\ r \in call.gone <=> roster[r] # 0 /\ r \notin call.wanted
            /\ r \in call.removed <=> roster[r] # 0 /\ r \notin call.wanted
            /\ r \in call.added <=> r \in call.wanted /\ roster[r] = 0
            /\ r \in new <=> r \in call.wanted /\ roster[r] = 0
        BY <1>1, <3>1 DEF ShopFound, Shop!Held
      <3>3. told'[r] = told[r] + plus(r) - minus(r)
        BY <1>1
      <3>4. roster'[r] = IF r \in new THEN call.number ELSE IF r \in call.gone THEN 0 ELSE roster[r]
        BY <1>1
      <3> QED BY <1>4, <2>1, <3>2, <3>3, <3>4
    <2>4. CASE r \notin call.reach
      <3>1. r \notin new /\ r \notin call.gone /\ r \notin call.added /\ r \notin call.removed
        BY <1>2, <2>2, <2>4 DEF ShopCallOK, ShopReaches
      <3> QED BY <1>1, <2>1, <3>1
    <2> QED BY <2>3, <2>4
  <1>8. Shop!RosterTold'
    BY <1>7 DEF Shop!RosterTold, Shop!Rows
  <1>9. ASSUME NEW d \in Clerks, rosterCalls'[d].pc # "free" PROVE ShopCallOK(rosterCalls[d])'
    <2>1. d # c /\ rosterCalls'[d] = rosterCalls[d] /\ rosterCalls[d].pc # "free" /\ ShopCallOK(rosterCalls[d])
      BY <1>3, <1>9 DEF ShopIInv
    <2>2. rosterCalls[d].reach \subseteq Shop!InHand(c)
      BY <2>1 DEF Shop!InHand, Shop!Free
    <2>3. rosterCalls[d].reach \subseteq Shop!Rows
      BY <2>1, ShopAtCall DEF ShopIInv, ShopBusy
    <2>4. \A r \in rosterCalls[d].reach \ crossed' : r \notin crossed /\ roster'[r] = roster[r]
      BY <1>1, <2>2, <2>3
    <2> QED BY <2>1, <2>4 DEF ShopCallOK, ShopReaches, ShopFound
  <1> QED BY <1>3, <1>5, <1>6, <1>8, <1>9 DEF ShopIInv

LEMMA ShopFailKeeps ==
  ASSUME Shop!RosterAssumption, ShopIInv, NEW c \in Clerks, Shop!Fails(c) PROVE ShopIInv'
  <1>1. /\ rosterCalls[c].pc # "free" /\ rosterCalls' = [rosterCalls EXCEPT ![c] = Shop!Free]
        /\ UNCHANGED <<roster, told, submitted, arrived, asked, crossed>>
    BY ShopAtCall DEF Shop!Fails, ShopIInv
  <1>2. /\ ShopCallsOK' /\ ShopNumbered'
        /\ Cardinality(ShopOpen') = Cardinality(ShopOpen) - 1
        /\ \A d \in Clerks : rosterCalls'[d].pc # "free" => d # c /\ rosterCalls'[d] = rosterCalls[d]
    BY <1>1, ShopCallEnds
  <1>3. ShopTyped'
    BY <1>1, <1>2 DEF ShopIInv, ShopTyped, ShopRowsOK, ShopWeekOK, Shop!Rows
  <1>4. ShopCounted'
    <2>1. Cardinality(ShopOpen) \in Nat /\ asked \in Nat
      BY ShopOpenIsFinite DEF ShopIInv, ShopTyped, ShopWeekOK, Shop!RosterAssumption
    <2> DEFINE n == asked - Cardinality(ShopOpen)
    <2>2. asked' - Cardinality(ShopOpen') = n + 1 /\ n \in Int
      BY <1>1, <1>2, <2>1
    <2> HIDE DEF n
    <2>3. \A r \in Shop!Rows : -n <= told[r] /\ told[r] <= n /\ told[r] \in Int
      BY DEF ShopIInv, ShopCounted, ShopEntries, n, ShopTyped, ShopRowsOK
    <2>4. \A r \in Shop!Rows : -(n + 1) <= told[r] /\ told[r] <= n + 1
      BY <2>2, <2>3
    <2> QED BY <1>1, <2>2, <2>4 DEF ShopCounted, ShopEntries, Shop!Rows
  <1>5. Shop!RosterTold'
    BY <1>1 DEF ShopIInv, Shop!RosterTold, Shop!Rows
  <1>6. ASSUME NEW d \in Clerks, rosterCalls'[d].pc # "free" PROVE ShopCallOK(rosterCalls[d])'
    BY <1>1, <1>2, <1>6 DEF ShopIInv, ShopCallOK, ShopReaches, ShopFound
  <1> QED BY <1>2, <1>3, <1>4, <1>5, <1>6 DEF ShopIInv

\* The calls and the rows are not told of the week, nor of the day.
LEMMA ShopRestKeeps ==
  ASSUME Shop!RosterAssumption, ShopIInv, ShopWeekOK',
         UNCHANGED <<roster, told, rosterCalls, asked, crossed>>
  PROVE  ShopIInv'
  <1>1. ShopTyped'
    BY DEF ShopIInv, ShopTyped, ShopRowsOK, ShopCallsOK, ShopBusy, Shop!Rows
  <1>2. ShopOpen' = ShopOpen
    BY DEF ShopOpen
  <1>3. ShopNumbered' /\ Shop!RosterTold'
    BY DEF ShopIInv, ShopNumbered, Shop!RosterTold, Shop!Rows
  <1>4. ShopCounted'
    BY <1>2 DEF ShopIInv, ShopCounted, ShopEntries, Shop!Rows
  <1>5. \A d \in Clerks : rosterCalls[d].pc # "free" => ShopCallOK(rosterCalls[d])'
    BY DEF ShopIInv, ShopCallOK, ShopReaches, ShopFound
  <1> QED BY <1>1, <1>3, <1>4, <1>5 DEF ShopIInv

LEMMA ShopStepKeeps ==
  ASSUME Shop!RosterAssumption, ShopIInv, [Shop!Next]_Shop!vars PROVE ShopIInv'
  <1>1. CASE UNCHANGED Shop!vars
    BY <1>1, ShopRestKeeps DEF Shop!vars, ShopIInv, ShopTyped, ShopWeekOK
  <1>2. ASSUME NEW c \in Clerks, Shop!RegisterSelf(c) PROVE ShopIInv'
    <2>1. PICK e \in Employees : \E wanted \in SUBSET Shop!RowsOf(e) : Shop!Begins(c, Shop!RowsOf(e), wanted, Shop!AnyRow)
      BY <1>2 DEF Shop!RegisterSelf
    <2>2. Shop!RowsOf(e) \in SUBSET Shop!Rows
      BY DEF Shop!RowsOf, Shop!Rows
    <2>3. Shop!AnyRow \in 0..MaxCalls
      BY DEF Shop!AnyRow, Shop!RosterAssumption
    <2> QED BY <2>1, <2>2, <2>3, ShopBeginKeeps
  <1>3. ASSUME NEW c \in Clerks, Shop!SetDay(c) PROVE ShopIInv'
    <2>1. PICK code \in ShiftCodes : \E wanted \in SUBSET (Employees \X {code}) :
            Shop!Begins(c, Employees \X {code}, wanted, Shop!AnyRow)
      BY <1>3 DEF Shop!SetDay
    <2>2. Employees \X {code} \in SUBSET Shop!Rows
      BY DEF Shop!Rows
    <2>3. Shop!AnyRow \in 0..MaxCalls
      BY DEF Shop!AnyRow, Shop!RosterAssumption
    <2> QED BY <2>1, <2>2, <2>3, ShopBeginKeeps
  <1>4. ASSUME NEW c \in Clerks, Shop!Remove(c) PROVE ShopIInv'
    <2>1. PICK r \in Shop!Held : Shop!Begins(c, {r}, {}, roster[r])
      BY <1>4 DEF Shop!Remove
    <2>2. roster[r] \in 0..MaxCalls /\ {r} \in SUBSET Shop!Rows
      BY DEF Shop!Held, ShopIInv, ShopTyped, ShopRowsOK
    <2> QED BY <2>1, <2>2, ShopBeginKeeps
  <1>5. ASSUME NEW e \in Employees, Shop!Submit(e) \/ Shop!Reopen(e) PROVE ShopIInv'
    BY <1>5, ShopRestKeeps DEF Shop!Submit, Shop!Reopen, ShopIInv, ShopTyped, ShopWeekOK
  <1>6. CASE Shop!Arrive
    BY <1>6, ShopRestKeeps DEF Shop!Arrive, ShopIInv, ShopTyped, ShopWeekOK
  <1> QED BY <1>1, <1>2, <1>3, <1>4, <1>5, <1>6, ShopSwapKeeps, ShopCommitKeeps,
               ShopFailKeeps DEF Shop!Next

LEMMA ShopIInvAlways == ASSUME Shop!RosterAssumption PROVE Shop!Spec => []ShopIInv
  <1>1. Shop!Init => ShopIInv
    BY ShopInitIInv
  <1>2. ShopIInv /\ [Shop!Next]_Shop!vars => ShopIInv'
    BY ShopStepKeeps
  <1> QED BY <1>1, <1>2, PTL DEF Shop!Spec

LEMMA ShopTypesFollow == ASSUME Shop!RosterAssumption, ShopIInv PROVE Shop!TypeOK
  <1>1. Cardinality(ShopOpen) \in 0..asked /\ asked \in 0..MaxCalls
    BY ShopOpenIsFinite DEF ShopIInv, ShopTyped, ShopWeekOK
  <1>2. \A r \in Shop!Rows : told[r] \in -MaxCalls..MaxCalls
    <2> DEFINE n == asked - Cardinality(ShopOpen)
    <2>1. n \in 0..MaxCalls
      BY <1>1 DEF Shop!RosterAssumption
    <2>2. \A r \in Shop!Rows : -n <= told[r] /\ told[r] <= n /\ told[r] \in Int
      BY DEF ShopIInv, ShopCounted, ShopEntries, ShopTyped, ShopRowsOK
    <2> HIDE DEF n
    <2> QED BY <2>1, <2>2 DEF Shop!RosterAssumption
  <1>3. \A c \in Clerks : rosterCalls[c].pc \in {"free", "logged", "swapped"}
    <2> TAKE c \in Clerks
    <2>1. rosterCalls[c] = Shop!Free \/ rosterCalls[c] \in ShopBusy
      BY DEF ShopIInv, ShopTyped, ShopCallsOK
    <2>2. ASSUME NEW b \in ShopBusy PROVE b.pc \in {"logged", "swapped"}
      BY DEF ShopBusy
    <2> QED BY <2>1, <2>2 DEF Shop!Free
  <1> QED BY <1>2, <1>3 DEF ShopIInv, ShopTyped, ShopRowsOK, ShopWeekOK, Shop!TypeOK

\* A behaviour of the back office is one of the part.
LEMMA ShopRuns == Spec => Shop!Spec
  <1>1. Init => Shop!Init
    BY DEF Init
  <1>2. [Next]_vars => [Shop!Next]_Shop!vars
    BY DEF Next, Rest, vars, shopVars, Shop!vars
  <1> QED BY <1>1, <1>2, PTL DEF Spec, Shop!Spec

LEMMA ShopAlwaysTyped == Spec => []Shop!TypeOK
  <1>1. Shop!RosterAssumption
    BY BackOfficeAssumption
  <1>2. ShopIInv => Shop!TypeOK
    BY <1>1, ShopTypesFollow
  <1> QED BY <1>1, <1>2, ShopRuns, ShopIInvAlways, PTL

\* However the calls of a day cross and fail, a row of the roster was added once more than it was
\* removed in the log, one that is not there as often, but for the rows two calls had in hand at
\* once (shift_assignment_logs).
THEOREM RostersTold == Spec => []RosterTold
  <1>1. Shop!RosterAssumption
    BY BackOfficeAssumption
  <1>2. ShopIInv => RosterTold
    BY DEF ShopIInv, RosterTold
  <1> QED BY <1>1, <1>2, ShopRuns, ShopIInvAlways, PTL

-----------------------------------------------------------------------------
(* The attendance of an employee.                                          *)

\* The records, and the calls under way.
DayRecord == [kind : {"in", "out"}, at : Nat]
DayHand == [number : 1..MaxAdjustments, shift : Day!Codes, fill : BOOLEAN, hours : Nat \ {0}]
DayAdding == [pc : {"add"}, kind : {"in", "out"}, at : 0..now]
DayAdjusting ==
  [pc : {"adjust"}, number : 1..MaxAdjustments, shift : Day!Codes, fill : BOOLEAN,
   hours : Nat \ {0}]
DayWaiting == [pc : {"face"}] \cup [pc : {"match"}, kind : {"in", "out"}]

DayRecordsOK ==
  /\ records \in Seq(DayRecord)
  /\ \A i \in DOMAIN records : records[i].at \in 0..now
DayHandsOK == adjustments \subseteq DayHand
DayCallsOK == dayCalls \in [Clerks -> {Day!Free} \cup DayWaiting \cup DayAdding \cup DayAdjusting]
DayRestOK ==
  /\ now \in 0..MaxTime /\ registered \subseteq Day!Codes /\ dayLocked \in BOOLEAN
  /\ samples \in 0..MaxSamples /\ checks \in 0..MaxChecks /\ adjusts \in 0..MaxAdjustments
  /\ loose \subseteq Day!Codes
DayAddedOK == \A c \in Day!Codes : IsFiniteSet(Day!Added(c))
DayTyped == DayRecordsOK /\ DayHandsOK /\ DayCallsOK /\ DayRestOK /\ DayAddedOK

\* No session is open after the n-th record, and all that follows is of the time t or later.
DaySince(n, t) ==
  /\ n = 0 \/ records[n].kind = "out"
  /\ \A i \in 1..n : records[i].at <= t
  /\ \A i \in n + 1..Len(records) : records[i].at >= t
  /\ \A s \in Clerks : dayCalls[s].pc = "add" => dayCalls[s].at >= t
DaySettled(c) == \E n \in 0..Len(records) : \E t \in Shifts[c].to..now : DaySince(n, t)

\* A shift that is not loose is filled by one call at a time, once it is settled, and up to its
\* length.
DayFills(s, c) == dayCalls[s].pc = "adjust" /\ dayCalls[s].shift = c
DayFilled ==
  \A c \in Day!Codes \ loose :
    /\ \A s \in Clerks : DayFills(s, c) =>
         /\ DaySettled(c) /\ Day!Hours(c) + Day!Adjusted(c) + dayCalls[s].hours <= Day!Length(c)
         /\ \A t \in Clerks \ {s} : ~DayFills(t, c)
    /\ Day!Adjusted(c) > 0 => DaySettled(c) /\ Day!Hours(c) + Day!Adjusted(c) <= Day!Length(c)

DayIInv == DayTyped /\ DayFilled

\* The library's operator, as the part has it.
LEMMA DayCardinalityIs == \A S : Day!Cardinality(S) = Cardinality(S)
BY Zenon DEF Day!Cardinality, Cardinality

-----------------------------------------------------------------------------
(* The sessions of a list of records                                       *)

\* The states that the steps of a list make, one of another: there is such a run.
DayIsRun(f, N, start, g) == f[0] = start /\ \A n \in 1..N : f[n] = g[n][f[n - 1]]
LEMMA DayRunExists ==
  ASSUME NEW N \in Nat, NEW S, NEW start \in S, NEW g \in [1..N -> [S -> S]]
  PROVE  \E f \in [0..N -> S] : DayIsRun(f, N, start, g)
<1> DEFINE Run(f, m) == /\ f \in [0..m -> S] /\ f[0] = start
                        /\ \A n \in 1..m : f[n] = g[n][f[n - 1]]
           Bad == {m \in 0..N : ~ \E f : Run(f, m)}
<1>1. Bad = {}
  <2> SUFFICES ASSUME Bad # {} PROVE FALSE
    OBVIOUS
  <2>1. PICK m \in Bad : \A k \in Bad : m <= k
    <3>1. Bad \in SUBSET Nat
      OBVIOUS
    <3> HIDE DEF Bad
    <3> QED BY <3>1, LeastNat
  <2>2. m # 0
    <3>1. Run([i \in 0..0 |-> start], 0)
      OBVIOUS
    <3> QED BY <2>1, <3>1
  <2>3. m - 1 \in 0..N /\ m - 1 \notin Bad
    <3>1. m \in 0..N /\ m - 1 \in 0..N /\ ~(m <= m - 1)
      BY <2>1, <2>2
    <3> HIDE DEF Bad
    <3> QED BY <2>1, <3>1
  <2>4. PICK f : Run(f, m - 1)
    BY <2>3
  <2> DEFINE h == [i \in 0..m |-> IF i = m THEN g[m][f[m - 1]] ELSE f[i]]
  <2>5. m \in 1..N /\ m - 1 \in 0..m - 1 /\ f[m - 1] \in S
    BY <2>1, <2>2, <2>4
  <2>6. h \in [0..m -> S] /\ h[0] = start
    <3>1. g[m][f[m - 1]] \in S
      BY <2>5
    <3>2. \A i \in 0..m : i # m => f[i] \in S
      BY <2>4, <2>5
    <3>3. 0 \in 0..m /\ 0 # m
      BY <2>5
    <3> QED BY <2>4, <3>1, <3>2, <3>3
  <2>7. ASSUME NEW n \in 1..m PROVE h[n] = g[n][h[n - 1]]
    <3>1. n \in 0..m /\ n - 1 \in 0..m /\ n - 1 # m
      BY <2>5
    <3>2. h[n - 1] = f[n - 1]
      BY <3>1
    <3>3. CASE n = m
      BY <3>1, <3>2, <3>3
    <3>4. CASE n # m
      <4>1. n \in 1..m - 1
        BY <2>5, <3>4
      <4> QED BY <2>4, <3>1, <3>2, <3>4, <4>1
    <3> QED BY <3>3, <3>4
  <2>8. Run(h, m)
    <3> HIDE DEF h
    <3> QED BY <2>6, <2>7
  <2> HIDE DEF h, Run
  <2> QED BY <2>1, <2>8
<1>2. N \in 0..N
  OBVIOUS
<1> QED
  BY <1>1, <1>2 DEF DayIsRun

\* The loop over a list of records, and what it holds.
DayStart == [open |-> Day!None, sessions |-> {}]
DayRunOf(recs) ==
  CHOOSE f : f = [n \in 0..Len(recs) |-> IF n = 0 THEN DayStart ELSE Day!Pair(f[n - 1], recs[n])]
DayStates == [open : Nat \cup {Day!None}, sessions : SUBSET (Nat \X Nat)]

LEMMA DayPairOK ==
  ASSUME NEW state \in DayStates, NEW r \in DayRecord
  PROVE  /\ Day!Pair(state, r) \in DayStates
         /\ r.kind = "out" => Day!Pair(state, r).open = Day!None
<1>1. CASE r.kind = "in"
  <2>1. [state EXCEPT !.open = r.at] \in DayStates
    BY DEF DayStates, DayRecord
  <2> QED BY <1>1, <2>1 DEF Day!Pair
<1>2. CASE r.kind # "in"
  <2>1. state.open # Day!None =>
          [open |-> Day!None, sessions |-> state.sessions \cup {<<state.open, r.at>>}] \in DayStates
    BY DEF DayStates, DayRecord
  <2> QED BY <1>2, <2>1 DEF Day!Pair
<1> QED
  BY <1>1, <1>2

LEMMA DayRunOfIs ==
  ASSUME NEW recs \in Seq(DayRecord)
  PROVE  /\ DayRunOf(recs) \in [0..Len(recs) -> DayStates] /\ DayRunOf(recs)[0] = DayStart
         /\ \A n \in 1..Len(recs) : DayRunOf(recs)[n] = Day!Pair(DayRunOf(recs)[n - 1], recs[n])
<1> DEFINE N == Len(recs)
           g == [n \in 1..N |-> [state \in DayStates |-> Day!Pair(state, recs[n])]]
           W(f) == [n \in 0..N |-> IF n = 0 THEN DayStart ELSE Day!Pair(f[n - 1], recs[n])]
<1>1. N \in Nat /\ \A n \in 1..N : recs[n] \in DayRecord
  OBVIOUS
<1>2. DayStart \in DayStates
  BY DEF DayStart, DayStates
<1>3. g \in [1..N -> [DayStates -> DayStates]]
  BY <1>1, DayPairOK
<1>4. PICK f \in [0..N -> DayStates] : DayIsRun(f, N, DayStart, g)
  <2> HIDE DEF g, N, W
  <2> QED BY <1>1, <1>2, <1>3, DayRunExists
<1>5. \A n \in 1..N : f[n - 1] \in DayStates /\ f[n] = Day!Pair(f[n - 1], recs[n])
  <2> TAKE n \in 1..N
  <2>1. n - 1 \in 0..N
    BY <1>1
  <2>2. f[n - 1] \in DayStates
    BY <2>1
  <2> QED BY <1>4, <2>2 DEF DayIsRun
<1> HIDE DEF g
<1>6. f = W(f)
  <2>1. \A n \in 0..N : f[n] = IF n = 0 THEN DayStart ELSE Day!Pair(f[n - 1], recs[n])
    BY <1>1, <1>4, <1>5 DEF DayIsRun
  <2> HIDE DEF N
  <2> QED BY <2>1
<1>7. DayRunOf(recs) = CHOOSE h : h = W(h)
  BY DEF DayRunOf
<1>8. DayRunOf(recs) = W(DayRunOf(recs))
  <2> HIDE DEF W, N
  <2> QED BY <1>6, <1>7
<1>9. /\ DayRunOf(recs)[0] = DayStart
      /\ \A n \in 1..N : DayRunOf(recs)[n] = Day!Pair(DayRunOf(recs)[n - 1], recs[n])
  <2>1. 0 \in 0..N /\ \A n \in 1..N : n \in 0..N /\ n # 0
    BY <1>1
  <2> HIDE DEF N
  <2> QED BY <1>8, <2>1
<1> DEFINE Bad == {n \in 0..N : DayRunOf(recs)[n] \notin DayStates}
<1>10. Bad = {}
  <2> SUFFICES ASSUME Bad # {} PROVE FALSE
    OBVIOUS
  <2>1. PICK m \in Bad : \A k \in Bad : m <= k
    <3>1. Bad \in SUBSET Nat
      BY <1>1
    <3> HIDE DEF Bad
    <3> QED BY <3>1, LeastNat
  <2>2. m # 0 /\ m \in 0..N
    BY <1>2, <1>9, <2>1
  <2>3. m \in 1..N /\ m - 1 \in 0..N /\ ~(m <= m - 1)
    BY <1>1, <2>2
  <2>4. DayRunOf(recs)[m - 1] \in DayStates
    BY <2>1, <2>3
  <2> QED BY <1>1, <1>9, <2>1, <2>3, <2>4, DayPairOK
<1>11. DayRunOf(recs) = [n \in 0..N |-> DayRunOf(recs)[n]]
  BY <1>8
<1> QED
  BY <1>9, <1>10, <1>11

\* Lists with the same n records at first have the same sessions after them.
LEMMA DaySamePrefix ==
  ASSUME NEW recs \in Seq(DayRecord), NEW more \in Seq(DayRecord),
         NEW n \in 0..Len(recs), n <= Len(more), \A i \in 1..n : more[i] = recs[i]
  PROVE  DayRunOf(more)[n] = DayRunOf(recs)[n]
<1> DEFINE Bad == {k \in 0..n : DayRunOf(more)[k] # DayRunOf(recs)[k]}
<1>1. Len(recs) \in Nat /\ Len(more) \in Nat
  OBVIOUS
<1>2. Bad = {}
  <2> SUFFICES ASSUME Bad # {} PROVE FALSE
    OBVIOUS
  <2>1. PICK m \in Bad : \A k \in Bad : m <= k
    <3>1. Bad \in SUBSET Nat
      BY <1>1
    <3> HIDE DEF Bad
    <3> QED BY <3>1, LeastNat
  <2>2. m # 0 /\ m \in 0..n
    BY <2>1, DayRunOfIs
  <2>3. m \in 1..n /\ m - 1 \in 0..n /\ ~(m <= m - 1) /\ m \in 1..Len(recs) /\ m \in 1..Len(more)
    BY <1>1, <2>2
  <2>4. DayRunOf(more)[m - 1] = DayRunOf(recs)[m - 1]
    BY <2>1, <2>3
  <2> QED BY <2>1, <2>3, <2>4, DayRunOfIs
<1> QED
  BY <1>1, <1>2

\* What follows a list without an open session, and is of the time t or later, makes sessions
\* that begin at t or later.
LEMMA DayLaterSessions ==
  ASSUME NEW recs \in Seq(DayRecord), NEW n \in 0..Len(recs), NEW t \in Nat,
         n = 0 \/ recs[n].kind = "out", \A i \in n + 1..Len(recs) : recs[i].at >= t
  PROVE  \A k \in n..Len(recs) :
           LET p == DayRunOf(recs)[k]
           IN /\ p.open = Day!None \/ p.open >= t
              /\ DayRunOf(recs)[n].sessions \subseteq p.sessions
              /\ \A s \in p.sessions \ DayRunOf(recs)[n].sessions : s[1] >= t
<1> DEFINE p(k) == DayRunOf(recs)[k]
           Good(k) == /\ p(k).open = Day!None \/ p(k).open >= t
                      /\ p(n).sessions \subseteq p(k).sessions
                      /\ \A s \in p(k).sessions \ p(n).sessions : s[1] >= t
           Bad == {k \in n..Len(recs) : ~Good(k)}
<1>1. Len(recs) \in Nat /\ \A k \in 1..Len(recs) : recs[k] \in DayRecord
  OBVIOUS
<1>2. Good(n)
  <2>1. p(n).open = Day!None
    <3>1. CASE n = 0
      BY <3>1, DayRunOfIs DEF DayStart
    <3>2. CASE n # 0
      <4>1. n \in 1..Len(recs) /\ n - 1 \in 0..Len(recs)
        BY <1>1, <3>2
      <4>2. p(n - 1) \in DayStates /\ p(n) = Day!Pair(p(n - 1), recs[n])
        BY <4>1, DayRunOfIs
      <4> HIDE DEF p
      <4> QED BY <1>1, <3>2, <4>1, <4>2, DayPairOK
    <3> QED BY <3>1, <3>2
  <2> QED BY <2>1
<1>3. Bad = {}
  <2> SUFFICES ASSUME Bad # {} PROVE FALSE
    OBVIOUS
  <2>1. PICK m \in Bad : \A k \in Bad : m <= k
    <3>1. Bad \in SUBSET Nat
      BY <1>1
    <3> HIDE DEF Bad
    <3> QED BY <3>1, LeastNat
  <2>2. m \in n..Len(recs) /\ ~Good(m)
    BY <2>1
  <2>3. m # n
    BY <1>2, <2>2
  <2>4. /\ m \in n + 1..Len(recs) /\ m \in 1..Len(recs) /\ m - 1 \in 0..Len(recs)
        /\ m - 1 \in n..Len(recs) /\ ~(m <= m - 1)
    BY <1>1, <2>2, <2>3
  <2>5. Good(m - 1)
    <3>1. m - 1 \notin Bad
      <4> HIDE DEF Bad
      <4> QED BY <2>1, <2>4
    <3> HIDE DEF Good
    <3> QED BY <2>4, <3>1
  <2>6. p(m) = Day!Pair(p(m - 1), recs[m]) /\ p(m - 1) \in DayStates /\ recs[m] \in DayRecord
    BY <1>1, <2>4, DayRunOfIs
  <2>7. recs[m].at >= t
    BY <2>4
  <2> DEFINE a == p(m - 1)
             r == recs[m]
  <2> HIDE DEF p
  <2>8. CASE r.kind = "in"
    <3>1. p(m) \in {a, [a EXCEPT !.open = r.at]}
      BY <2>6, <2>8 DEF Day!Pair
    <3>2. p(m).sessions = a.sessions /\ p(m).open \in {a.open, r.at}
      BY <2>6, <3>1 DEF DayStates
    <3> QED BY <2>2, <2>5, <2>7, <3>2
  <2>9. CASE r.kind # "in"
    <3>1. CASE a.open = Day!None
      BY <2>2, <2>5, <2>6, <2>9, <3>1 DEF Day!Pair
    <3>2. CASE a.open # Day!None
      <4>1. p(m) = [open |-> Day!None, sessions |-> a.sessions \cup {<<a.open, r.at>>}]
        BY <2>6, <2>9, <3>2 DEF Day!Pair
      <4>2. p(m).open = Day!None /\ p(m).sessions = a.sessions \cup {<<a.open, r.at>>}
        BY <4>1
      <4>3. a.open >= t
        BY <2>5, <3>2
      <4> QED BY <2>2, <2>5, <4>2, <4>3
    <3> QED BY <3>1, <3>2
  <2> QED BY <2>8, <2>9
<1> QED
  BY <1>3

-----------------------------------------------------------------------------
(* The hours of a shift                                                    *)

\* The hours of a list of records, at a time.
DayCovered(c, sessions) ==
  {x \in Shifts[c].from..Shifts[c].to - 1 : \E s \in sessions : s[1] <= x /\ x < s[2]}
DaySessionsOf(recs, moment) ==
  LET p == DayRunOf(recs)[Len(recs)]
  IN p.sessions \cup
       IF p.open # Day!None /\ moment <= Day!Deadline(p.open) THEN {<<p.open, moment>>} ELSE {}
DayHoursOf(recs, moment, c) ==
  IF c \notin registered THEN 0 ELSE Cardinality(DayCovered(c, DaySessionsOf(recs, moment)))

LEMMA DayHoursAre ==
  ASSUME UNCHANGED registered
  PROVE  \A c : Day!Hours(c) = DayHoursOf(records, now, c) /\ Day!Hours(c)' = DayHoursOf(records', now', c)
<1>1. \A in : Day!Deadline(in)' = Day!Deadline(in)
  BY DEF Day!Deadline
<1>2. \A state, r : Day!Pair(state, r)' = Day!Pair(state, r)
  BY <1>1 DEF Day!Pair
<1>3. Day!Paired = DayRunOf(records)[Len(records)]
  BY DEF Day!Paired, DayRunOf, DayStart
<1>4. Day!Paired' = DayRunOf(records')[Len(records')]
  BY <1>2 DEF Day!Paired, DayRunOf, DayStart
<1>5. Day!Sessions = DaySessionsOf(records, now) /\ Day!Sessions' = DaySessionsOf(records', now')
  BY <1>1, <1>3, <1>4 DEF Day!Sessions, DaySessionsOf
<1> TAKE c
<1>6. Day!Hours(c) = IF c \notin registered THEN 0 ELSE Cardinality(DayCovered(c, Day!Sessions))
  BY DayCardinalityIs DEF Day!Hours, DayCovered
<1>7. Day!Hours(c)' = IF c \notin registered THEN 0 ELSE Cardinality(DayCovered(c, Day!Sessions'))
  BY DayCardinalityIs DEF Day!Hours, DayCovered
<1> QED
  BY <1>5, <1>6, <1>7 DEF DayHoursOf

\* Of a shift that is settled, what follows makes no hours.
LEMMA DayHoursSettle ==
  ASSUME Day!AttendanceAssumption, NEW c \in Day!Codes, NEW recs \in Seq(DayRecord),
         NEW n \in 0..Len(recs),
         NEW t \in Nat, Shifts[c].to <= t, NEW moment \in Nat,
         n = 0 \/ recs[n].kind = "out", \A i \in n + 1..Len(recs) : recs[i].at >= t
  PROVE  DayHoursOf(recs, moment, c) =
           IF c \notin registered THEN 0 ELSE Cardinality(DayCovered(c, DayRunOf(recs)[n].sessions))
<1> DEFINE p == DayRunOf(recs)[Len(recs)]
           first == DayRunOf(recs)[n].sessions
           all == DaySessionsOf(recs, moment)
<1>1. Len(recs) \in n..Len(recs) /\ Len(recs) \in 0..Len(recs) /\ n \in Nat
  OBVIOUS
<1>2. /\ p.open = Day!None \/ p.open >= t
      /\ first \subseteq p.sessions
      /\ \A s \in p.sessions \ first : s[1] >= t
  BY <1>1, DayLaterSessions
<1>3. p \in DayStates /\ DayRunOf(recs)[n] \in DayStates
  BY <1>1, DayRunOfIs
<1> HIDE DEF p
<1>4. first \subseteq all
  BY <1>2 DEF DaySessionsOf, p
<1>5. \A s \in all \ first : s[1] >= t /\ s[1] \in Nat
  <2> TAKE s \in all \ first
  <2>1. s \in p.sessions \/ (p.open # Day!None /\ s = <<p.open, moment>>)
    BY DEF DaySessionsOf, p
  <2>2. CASE s \in p.sessions
    BY <1>2, <1>3, <2>2 DEF DayStates
  <2>3. CASE p.open # Day!None /\ s = <<p.open, moment>>
    BY <1>2, <1>3, <2>3 DEF DayStates
  <2> QED BY <2>1, <2>2, <2>3
<1>6. Shifts[c].from \in Nat /\ Shifts[c].to \in Nat
  BY DEF Day!AttendanceAssumption
<1> HIDE DEF first, all
<1>7. DayCovered(c, all) = DayCovered(c, first)
  <2>1. ASSUME NEW x \in Shifts[c].from..Shifts[c].to - 1, NEW s \in all \ first
        PROVE  ~(s[1] <= x)
    BY <1>5, <1>6, <2>1
  <2> QED BY <1>4, <2>1 DEF DayCovered
<1> QED
  BY <1>7 DEF DayHoursOf, all, first

LEMMA DayHoursType ==
  ASSUME Day!AttendanceAssumption, NEW c \in Day!Codes
  PROVE  Day!Hours(c) \in Nat /\ Day!Hours(c)' \in Nat
<1>1. ASSUME NEW sessions PROVE Cardinality(DayCovered(c, sessions)) \in Nat
  <2>1. Shifts[c].from \in Int /\ Shifts[c].to - 1 \in Int
    BY DEF Day!AttendanceAssumption
  <2>2. IsFiniteSet(Shifts[c].from..Shifts[c].to - 1)
    BY <2>1, FS_Interval
  <2>3. DayCovered(c, sessions) \subseteq Shifts[c].from..Shifts[c].to - 1
    BY DEF DayCovered
  <2> QED BY <2>2, <2>3, FS_Subset, FS_CardinalityType
<1>2. Day!Hours(c) = IF c \notin registered THEN 0 ELSE Cardinality(DayCovered(c, Day!Sessions))
  BY DayCardinalityIs DEF Day!Hours, DayCovered
<1>3. Day!Hours(c)' = IF c \notin registered' THEN 0 ELSE Cardinality(DayCovered(c, Day!Sessions'))
  BY DayCardinalityIs DEF Day!Hours, DayCovered
<1> QED
  BY <1>1, <1>2, <1>3

\* A row of an admin adds its hours, at the most.
LEMMA DayRowAdds ==
  ASSUME DayAddedOK, DayHandsOK, NEW a \in DayHand, adjustments' = adjustments \cup {a},
         NEW c \in Day!Codes
  PROVE  /\ IsFiniteSet(Day!Added(c)') /\ Day!Adjusted(c) \in Nat /\ Day!Adjusted(c)' \in Nat
         /\ a.shift = c => Day!Adjusted(c)' <= Day!Adjusted(c) + a.hours
         /\ a.shift # c => Day!Adjusted(c)' = Day!Adjusted(c)
<1> DEFINE new == {a} \X (1..a.hours)
<1>1. Day!Added(c)' = IF a.shift = c THEN Day!Added(c) \cup new ELSE Day!Added(c)
  BY DEF Day!Added
<1>2. IsFiniteSet(new) /\ Cardinality(new) = a.hours
  <2>1. a.hours \in Nat
    BY DEF DayHand
  <2>2. IsFiniteSet(1..a.hours) /\ Cardinality(1..a.hours) = a.hours
    <3>1. /\ IsFiniteSet(1..a.hours)
          /\ Cardinality(1..a.hours) = IF 1 > a.hours THEN 0 ELSE a.hours - 1 + 1
      BY <2>1, FS_Interval
    <3> QED BY <2>1, <3>1
  <2>3. IsFiniteSet({a}) /\ Cardinality({a}) = 1
    BY FS_Singleton
  <2>4. IsFiniteSet({a} \X (1..a.hours))
        /\ Cardinality({a} \X (1..a.hours)) = Cardinality({a}) * Cardinality(1..a.hours)
    BY <2>2, <2>3, FS_Product
  <2>5. 1 * a.hours = a.hours
    BY <2>1
  <2> QED BY <2>2, <2>3, <2>4, <2>5
<1>3. IsFiniteSet(Day!Added(c))
  BY DEF DayAddedOK
<1> HIDE DEF new
<1>4. /\ IsFiniteSet(Day!Added(c) \cup new) /\ Cardinality(Day!Added(c)) \in Nat
      /\ Cardinality(Day!Added(c) \cup new) <= Cardinality(Day!Added(c)) + a.hours
  <2>1. /\ IsFiniteSet(Day!Added(c) \cup new)
        /\ Cardinality(Day!Added(c) \cup new) =
             Cardinality(Day!Added(c)) + Cardinality(new) - Cardinality(Day!Added(c) \cap new)
    BY <1>2, <1>3, FS_Union
  <2>2. IsFiniteSet(Day!Added(c) \cap new)
    BY <1>3, FS_Subset
  <2>3. Cardinality(Day!Added(c) \cap new) \in Nat /\ Cardinality(Day!Added(c)) \in Nat
    BY <1>3, <2>2, FS_CardinalityType
  <2>4. a.hours \in Nat
    BY DEF DayHand
  <2> QED BY <1>2, <2>1, <2>3, <2>4
<1>5. Cardinality(Day!Added(c) \cup new) \in Nat
  BY <1>4, FS_CardinalityType
<1>6. Day!Adjusted(c) = Cardinality(Day!Added(c)) /\ Day!Adjusted(c)' = Cardinality(Day!Added(c)')
  BY DayCardinalityIs DEF Day!Adjusted
<1>7. CASE a.shift = c
  BY <1>1, <1>4, <1>5, <1>6, <1>7
<1>8. CASE a.shift # c
  BY <1>1, <1>3, <1>4, <1>6, <1>8
<1> QED
  BY <1>7, <1>8

\* Without a row there are no more than with it.
LEMMA DayRowLess ==
  ASSUME DayAddedOK, adjustments' \subseteq adjustments, NEW c \in Day!Codes
  PROVE  /\ IsFiniteSet(Day!Added(c)') /\ Day!Adjusted(c) \in Nat /\ Day!Adjusted(c)' \in Nat
         /\ Day!Adjusted(c)' <= Day!Adjusted(c)
<1>1. Day!Added(c)' \subseteq Day!Added(c)
  BY DEF Day!Added
<1>2. IsFiniteSet(Day!Added(c))
  BY DEF DayAddedOK
<1>3. /\ IsFiniteSet(Day!Added(c)') /\ Cardinality(Day!Added(c)') <= Cardinality(Day!Added(c))
  BY <1>1, <1>2, FS_Subset
<1> QED
  BY <1>2, <1>3, FS_CardinalityType, DayCardinalityIs DEF Day!Adjusted

-----------------------------------------------------------------------------
(* Each step keeps the invariant                                           *)

DayAnyCall == {Day!Free} \cup DayWaiting \cup DayAdding \cup DayAdjusting

\* What a call holds.
LEMMA DayAtCall ==
  ASSUME DayTyped, NEW s \in Clerks
  PROVE  /\ dayCalls[s] \in DayAnyCall
         /\ dayCalls[s].pc \in {"free", "face", "match", "add", "adjust"}
         /\ dayCalls[s].pc = "match" => dayCalls[s].kind \in {"in", "out"}
         /\ dayCalls[s].pc = "add" => dayCalls[s] \in DayAdding
         /\ dayCalls[s].pc = "adjust" => dayCalls[s] \in DayAdjusting
<1>1. dayCalls[s] \in DayAnyCall
  BY DEF DayTyped, DayCallsOK, DayAnyCall
<1>2. CASE dayCalls[s] = Day!Free
  BY <1>1, <1>2 DEF Day!Free
<1>3. CASE dayCalls[s] \in DayWaiting
  BY <1>1, <1>3 DEF DayWaiting
<1>4. CASE dayCalls[s] \in DayAdding
  BY <1>1, <1>4 DEF DayAdding
<1>5. CASE dayCalls[s] \in DayAdjusting
  BY <1>1, <1>5 DEF DayAdjusting
<1> QED
  BY <1>1, <1>2, <1>3, <1>4, <1>5 DEF DayAnyCall

\* A step of one call keeps the types of the others.
LEMMA DayCallKeeps ==
  ASSUME DayTyped, NEW s \in Clerks, NEW r \in DayAnyCall, dayCalls' = [dayCalls EXCEPT ![s] = r],
         now' = now
  PROVE  DayCallsOK' /\ dayCalls'[s] = r /\ \A t \in Clerks \ {s} : dayCalls'[t] = dayCalls[t]
<1>1. DayAnyCall' = DayAnyCall
  BY DEF DayAnyCall, DayWaiting, DayAdding, DayAdjusting
<1>2. dayCalls \in [Clerks -> DayAnyCall]
  BY DEF DayTyped, DayCallsOK, DayAnyCall
<1>3. dayCalls' \in [Clerks -> DayAnyCall']
  BY <1>1, <1>2
<1> QED
  BY <1>2, <1>3 DEF DayCallsOK, DayAnyCall

\* Time goes on, and records are added after those that were of the time then.
DayGrows ==
  /\ UNCHANGED registered /\ now' \in Nat /\ now <= now'
  /\ records' \in Seq(DayRecord)
  /\ \A n \in 0..Len(records) : \A t \in 0..now : DaySince(n, t) =>
       /\ DaySince(n, t)' /\ n <= Len(records') /\ \A i \in 1..n : records'[i] = records[i]

LEMMA DaySettledStays ==
  ASSUME Day!AttendanceAssumption, DayTyped, DayGrows, NEW c \in Day!Codes, DaySettled(c)
  PROVE  DaySettled(c)' /\ Day!Hours(c)' = Day!Hours(c)
<1>1. PICK n \in 0..Len(records) : \E t \in Shifts[c].to..now : DaySince(n, t)
  BY DEF DaySettled
<1>2. PICK t \in Shifts[c].to..now : DaySince(n, t)
  BY <1>1
<1>3. /\ now \in Nat /\ Shifts[c].to \in Nat /\ t \in Nat /\ t \in 0..now
      /\ records \in Seq(DayRecord) /\ records' \in Seq(DayRecord)
      /\ Len(records) \in Nat /\ Len(records') \in Nat /\ now' \in Nat /\ t <= now'
      /\ t \in Shifts[c].to..now'
  BY <1>2 DEF DayTyped, DayRestOK, DayRecordsOK, Day!AttendanceAssumption, DayGrows
<1>4. DaySince(n, t)' /\ n <= Len(records') /\ \A i \in 1..n : records'[i] = records[i]
  BY <1>2, <1>3 DEF DayGrows
<1>5. n \in 0..Len(records')
  BY <1>3, <1>4
<1>6. DaySettled(c)'
  BY <1>3, <1>4, <1>5 DEF DaySettled
<1>7. DayHoursOf(records, now, c) =
        IF c \notin registered THEN 0 ELSE Cardinality(DayCovered(c, DayRunOf(records)[n].sessions))
  BY <1>2, <1>3, DayHoursSettle DEF DaySince
<1>8. DayHoursOf(records', now', c) =
        IF c \notin registered THEN 0 ELSE Cardinality(DayCovered(c, DayRunOf(records')[n].sessions))
  <2>1. n = 0 \/ records'[n].kind = "out"
    BY <1>4 DEF DaySince
  <2>2. \A i \in n + 1..Len(records') : records'[i].at >= t
    BY <1>4 DEF DaySince
  <2>3. Shifts[c].to <= t
    BY <1>2, <1>3
  <2>4. records' \in Seq(DayRecord) /\ n \in 0..Len(records') /\ t \in Nat /\ now' \in Nat
    BY <1>3, <1>5
  <2> QED BY <2>1, <2>2, <2>3, <2>4, DayHoursSettle
<1>9. DayRunOf(records')[n] = DayRunOf(records)[n]
  BY <1>3, <1>4, DaySamePrefix
<1>10. UNCHANGED registered
  BY DEF DayGrows
<1> QED
  BY <1>6, <1>7, <1>8, <1>9, <1>10, DayHoursAre

\* Nothing grows but time, and no check is added that is earlier than now.
LEMMA DayQuietGrows ==
  ASSUME DayTyped, UNCHANGED <<registered, records>>, now' \in Nat, now <= now',
         \A s \in Clerks : dayCalls'[s].pc = "add" =>
           \/ dayCalls[s].pc = "add" /\ dayCalls'[s].at = dayCalls[s].at
           \/ dayCalls'[s].at = now
  PROVE  DayGrows
<1>1. records \in Seq(DayRecord) /\ now \in Nat /\ Len(records) \in Nat
  BY DEF DayTyped, DayRecordsOK, DayRestOK
<1>2. ASSUME NEW n \in 0..Len(records), NEW t \in 0..now, DaySince(n, t)
      PROVE  DaySince(n, t)' /\ n <= Len(records)
  <2>1. \A s \in Clerks : dayCalls'[s].pc = "add" => dayCalls'[s].at >= t
    BY <1>1, <1>2 DEF DaySince
  <2> QED BY <1>1, <1>2, <2>1 DEF DaySince
<1> QED
  BY <1>1, <1>2 DEF DayGrows

\* What was filled stays so, when nothing else is.
LEMMA DayFilledStays ==
  ASSUME Day!AttendanceAssumption, DayIInv, DayGrows, UNCHANGED adjustments,
         loose \subseteq loose',
         \A s \in Clerks, c \in Day!Codes \ loose' :
           DayFills(s, c)' => DayFills(s, c) /\ dayCalls'[s].hours = dayCalls[s].hours
  PROVE  DayFilled'
<1> SUFFICES ASSUME NEW c \in Day!Codes \ loose'
             PROVE  /\ \A s \in Clerks : DayFills(s, c)' =>
                         /\ DaySettled(c)' /\ Day!Hours(c)' + Day!Adjusted(c)' + dayCalls'[s].hours <= Day!Length(c)
                         /\ \A t \in Clerks \ {s} : ~DayFills(t, c)'
                    /\ Day!Adjusted(c)' > 0 => DaySettled(c)' /\ Day!Hours(c)' + Day!Adjusted(c)' <= Day!Length(c)
  BY DEF DayFilled
<1>1. c \in Day!Codes \ loose
  OBVIOUS
<1>2. Day!Adjusted(c)' = Day!Adjusted(c)
  BY DEF Day!Adjusted, Day!Added
<1>3. DaySettled(c) => DaySettled(c)' /\ Day!Hours(c)' = Day!Hours(c)
  BY DaySettledStays DEF DayIInv
<1>4. ASSUME NEW s \in Clerks, DayFills(s, c)'
      PROVE  /\ DaySettled(c)' /\ Day!Hours(c)' + Day!Adjusted(c)' + dayCalls'[s].hours <= Day!Length(c)
             /\ \A t \in Clerks \ {s} : ~DayFills(t, c)'
  <2>1. DayFills(s, c) /\ dayCalls'[s].hours = dayCalls[s].hours
    BY <1>4
  <2>2. /\ DaySettled(c) /\ Day!Hours(c) + Day!Adjusted(c) + dayCalls[s].hours <= Day!Length(c)
        /\ \A t \in Clerks \ {s} : ~DayFills(t, c)
    BY <1>1, <2>1 DEF DayIInv, DayFilled
  <2>3. \A t \in Clerks \ {s} : ~DayFills(t, c)'
    BY <2>2
  <2> QED BY <1>2, <1>3, <2>1, <2>2, <2>3
<1>5. ASSUME Day!Adjusted(c)' > 0
      PROVE  DaySettled(c)' /\ Day!Hours(c)' + Day!Adjusted(c)' <= Day!Length(c)
  <2>1. DaySettled(c) /\ Day!Hours(c) + Day!Adjusted(c) <= Day!Length(c)
    BY <1>1, <1>2, <1>5 DEF DayIInv, DayFilled
  <2> QED BY <1>2, <1>3, <2>1
<1> QED
  BY <1>4, <1>5

LEMMA DayInitIInv ==
  ASSUME Day!AttendanceAssumption, Day!Init PROVE DayIInv
<1>1. DayRecordsOK /\ DayHandsOK
  BY DEF Day!Init, DayRecordsOK, DayHandsOK
<1>2. DayCallsOK
  BY DEF Day!Init, DayCallsOK
<1>3. DayRestOK
  <2>1. 0 \in 0..MaxTime /\ 0 \in 0..MaxSamples /\ 0 \in 0..MaxChecks /\ 0 \in 0..MaxAdjustments
    BY DEF Day!AttendanceAssumption
  <2>2. dayLocked \in BOOLEAN
    BY DEF Day!Init
  <2> QED BY <2>1, <2>2 DEF Day!Init, DayRestOK
<1>4. \A c \in Day!Codes : Day!Added(c) = {}
  BY DEF Day!Init, Day!Added
<1>5. DayAddedOK /\ \A c \in Day!Codes : Day!Adjusted(c) = 0
  BY <1>4, FS_EmptySet, DayCardinalityIs DEF DayAddedOK, Day!Adjusted
<1>6. \A s \in Clerks : dayCalls[s].pc = "free"
  BY DEF Day!Init, Day!Free
<1>7. DayFilled
  BY <1>5, <1>6 DEF DayFilled, DayFills
<1> QED
  BY <1>1, <1>2, <1>3, <1>5, <1>7 DEF DayIInv, DayTyped

\* The face and the checks before they are added: no records, and no hours.
LEMMA DayQuietKeeps ==
  ASSUME Day!AttendanceAssumption, DayIInv, NEW s \in Clerks, NEW r \in DayAnyCall,
         dayCalls' = [dayCalls EXCEPT ![s] = r],
         r.pc = "add" => r.at = now, r.pc # "adjust",
         UNCHANGED <<now, registered, records, adjustments, loose>>, DayRestOK'
  PROVE  DayIInv'
<1>1. DayCallsOK' /\ dayCalls'[s] = r /\ \A t \in Clerks \ {s} : dayCalls'[t] = dayCalls[t]
  BY DayCallKeeps DEF DayIInv
<1>2. DayRecordsOK' /\ DayHandsOK' /\ DayAddedOK'
  BY DEF DayIInv, DayTyped, DayRecordsOK, DayHandsOK, DayAddedOK, Day!Added, DayHand
<1>3. DayTyped'
  BY <1>1, <1>2 DEF DayTyped
<1>4. DayGrows
  <2>1. now \in Nat
    BY DEF DayIInv, DayTyped, DayRestOK, Day!AttendanceAssumption
  <2> QED BY <1>1, <2>1, DayQuietGrows DEF DayIInv
<1>5. \A t \in Clerks, c \in Day!Codes : DayFills(t, c)' => DayFills(t, c) /\ dayCalls'[t].hours = dayCalls[t].hours
  BY <1>1 DEF DayFills
<1>6. DayFilled'
  BY <1>4, <1>5, DayFilledStays
<1> QED
  BY <1>3, <1>6 DEF DayIInv

LEMMA DayFaceKeeps ==
  ASSUME Day!AttendanceAssumption, DayIInv, NEW s \in Clerks,
         Day!RegisterFace(s) \/ Day!FaceAdd(s) \/ Day!Check(s) \/ Day!Match(s) \/ Day!Refuse(s)
  PROVE  DayIInv'
<1>1. DayRestOK
  BY DEF DayIInv, DayTyped
<1>2. CASE Day!RegisterFace(s)
  <2>1. [pc |-> "face"] \in DayAnyCall
    BY DEF DayAnyCall, DayWaiting
  <2>2. samples' \in 0..MaxSamples
    BY <1>1, <1>2 DEF Day!RegisterFace, DayRestOK, Day!AttendanceAssumption
  <2>3. DayRestOK'
    BY <1>1, <1>2, <2>2 DEF Day!RegisterFace, DayRestOK
  <2> QED BY <1>2, <2>1, <2>3, DayQuietKeeps DEF Day!RegisterFace
<1>3. CASE Day!FaceAdd(s)
  <2>1. Day!Free \in DayAnyCall /\ Day!Free.pc = "free"
    BY DEF DayAnyCall, Day!Free
  <2>2. DayRestOK'
    BY <1>1, <1>3 DEF Day!FaceAdd, DayRestOK, Day!AttendanceAssumption
  <2> QED BY <1>3, <2>1, <2>2, DayQuietKeeps DEF Day!FaceAdd
<1>4. CASE Day!Check(s)
  <2>1. PICK k \in {"in", "out"} : dayCalls' = [dayCalls EXCEPT ![s] = [pc |-> "match", kind |-> k]]
    BY <1>4 DEF Day!Check
  <2>2. [pc |-> "match", kind |-> k] \in DayAnyCall
    BY DEF DayAnyCall, DayWaiting
  <2>3. DayRestOK'
    BY <1>1, <1>4 DEF Day!Check, DayRestOK, Day!AttendanceAssumption
  <2> QED BY <1>4, <2>1, <2>2, <2>3, DayQuietKeeps DEF Day!Check
<1>5. CASE Day!Match(s)
  <2> DEFINE r == [pc |-> "add", kind |-> dayCalls[s].kind, at |-> now]
  <2>1. dayCalls' = [dayCalls EXCEPT ![s] = r]
    BY <1>5 DEF Day!Match
  <2>2. r \in DayAnyCall
    <3>1. dayCalls[s].kind \in {"in", "out"}
      BY <1>5, DayAtCall DEF DayIInv, Day!Match
    <3>2. now \in 0..now
      BY <1>1 DEF DayRestOK, Day!AttendanceAssumption
    <3> QED BY <3>1, <3>2 DEF DayAnyCall, DayAdding
  <2>3. DayRestOK'
    BY <1>1, <1>5 DEF Day!Match, Day!UnchangedButCalls, DayRestOK
  <2> QED BY <1>5, <2>1, <2>2, <2>3, DayQuietKeeps DEF Day!Match, Day!UnchangedButCalls
<1>6. CASE Day!Refuse(s)
  <2>1. Day!Free \in DayAnyCall /\ Day!Free.pc = "free"
    BY DEF DayAnyCall, Day!Free
  <2>2. DayRestOK'
    BY <1>1, <1>6 DEF Day!Refuse, Day!UnchangedButCalls, DayRestOK
  <2> QED BY <1>6, <2>1, <2>2, DayQuietKeeps DEF Day!Refuse, Day!UnchangedButCalls
<1> QED
  BY <1>2, <1>3, <1>4, <1>5, <1>6

\* A check is added after the records of its time and before.
LEMMA DayAddKeeps ==
  ASSUME Day!AttendanceAssumption, DayIInv, NEW s \in Clerks, Day!AttendanceAdd(s) PROVE DayIInv'
<1> DEFINE r == [kind |-> dayCalls[s].kind, at |-> dayCalls[s].at]
           N == Len(records)
<1>1. /\ dayCalls[s].pc = "add" /\ dayCalls' = [dayCalls EXCEPT ![s] = Day!Free]
      /\ UNCHANGED <<now, registered, adjustments, dayLocked, samples, checks, adjusts, loose>>
  BY DEF Day!AttendanceAdd
<1>2. /\ r \in DayRecord /\ r.at \in 0..now /\ r.at = dayCalls[s].at /\ now \in Nat
  <2>1. dayCalls[s] \in DayAdding
    BY <1>1, DayAtCall DEF DayIInv
  <2>2. now \in Nat
    BY DEF DayIInv, DayTyped, DayRestOK, Day!AttendanceAssumption
  <2> QED BY <2>1, <2>2 DEF DayAdding, DayRecord
<1>3. records \in Seq(DayRecord) /\ N \in Nat /\ DOMAIN records = 1..N
      /\ \A i \in 1..N : records[i] \in DayRecord /\ records[i].at \in 0..now
  BY DEF DayIInv, DayTyped, DayRecordsOK
<1>4. PICK n \in 0..N :
        /\ \A i \in DOMAIN records : i <= n <=> records[i].at <= r.at
        /\ records' = SubSeq(records, 1, n) \o <<r>> \o SubSeq(records, n + 1, N)
  BY DEF Day!AttendanceAdd
<1> HIDE DEF r
<1>5. /\ records' \in Seq(DayRecord) /\ Len(records') = N + 1
      /\ \A i \in 1..n : records'[i] = records[i]
      /\ records'[n + 1] = r
      /\ \A i \in n + 2..N + 1 : records'[i] = records[i - 1]
  <2> DEFINE a == SubSeq(records, 1, n)
             b == SubSeq(records, n + 1, N)
  <2>1. a \in Seq(DayRecord) /\ Len(a) = n /\ \A i \in 1..n : a[i] = records[i]
    BY <1>3, <1>4
  <2>2. b \in Seq(DayRecord) /\ Len(b) = N - n /\ \A i \in 1..N - n : b[i] = records[n + i]
    <3>1. n + 1 \in Int /\ N \in Int /\ N - (n + 1) + 1 = N - n
      BY <1>3, <1>4
    <3>2. \A i \in n + 1..N : records[i] \in DayRecord
      BY <1>3, <1>4
    <3>3. /\ b \in Seq(DayRecord)
          /\ Len(b) = IF n + 1 <= N THEN N - (n + 1) + 1 ELSE 0
          /\ \A i \in 1..N - (n + 1) + 1 : b[i] = records[(n + 1) + i - 1]
      BY <3>1, <3>2, SubSeqProperties
    <3>4. \A i \in 1..N - n : (n + 1) + i - 1 = n + i
      BY <1>3, <1>4
    <3>5. (n + 1 <= N \/ n = N) /\ N - N = 0
      BY <1>3, <1>4
    <3> HIDE DEF b
    <3>6. Len(b) = N - n
      BY <3>1, <3>3, <3>5
    <3> QED BY <3>1, <3>3, <3>4, <3>6
  <2>3. <<r>> \in Seq(DayRecord) /\ Len(<<r>>) = 1 /\ <<r>>[1] = r
    BY <1>2
  <2>4. records' = (a \o <<r>>) \o b
    BY <1>4
  <2> HIDE DEF a, b
  <2>5. /\ a \o <<r>> \in Seq(DayRecord) /\ Len(a \o <<r>>) = n + 1
        /\ \A i \in 1..n : (a \o <<r>>)[i] = a[i]
        /\ (a \o <<r>>)[n + 1] = r
    BY <1>4, <2>1, <2>3
  <2> DEFINE d == a \o <<r>>
  <2> HIDE DEF d
  <2>6. /\ d \o b \in Seq(DayRecord) /\ Len(d \o b) = N + 1
        /\ \A i \in 1..n + 1 : (d \o b)[i] = d[i]
        /\ \A i \in n + 2..N + 1 : (d \o b)[i] = b[i - (n + 1)]
    BY <1>3, <1>4, <2>2, <2>5 DEF d
  <2>7. \A i \in n + 2..N + 1 : b[i - (n + 1)] = records[i - 1]
    <3> TAKE i \in n + 2..N + 1
    <3>1. i - (n + 1) \in 1..N - n /\ n + (i - (n + 1)) = i - 1
      <4>1. N \in Nat /\ n \in 0..N
        BY <1>3
      <4> HIDE DEF N
      <4> QED BY <4>1
    <3> QED BY <2>2, <3>1
  <2>8. n + 1 \in 1..n + 1 /\ \A i \in 1..n : i \in 1..n + 1
    BY <1>4
  <2>9. records' = d \o b
    BY <2>4 DEF d
  <2> QED BY <2>1, <2>5, <2>6, <2>7, <2>8, <2>9 DEF d
<1>6. \A i \in 1..N + 1 : i \in 1..n \/ i = n + 1 \/ (i \in n + 2..N + 1 /\ i - 1 \in n + 1..N)
  BY <1>3, <1>4
<1>7. DayRecordsOK'
  <2>1. \A i \in 1..N + 1 : records'[i].at \in 0..now
    <3> TAKE i \in 1..N + 1
    <3>1. CASE i \in 1..n
      <4>1. i \in 1..N
        BY <1>3, <1>4, <3>1
      <4> QED BY <1>3, <1>5, <3>1, <4>1
    <3>2. CASE i = n + 1
      BY <1>2, <1>5, <3>2
    <3>3. CASE i \in n + 2..N + 1 /\ i - 1 \in n + 1..N
      <4>1. i - 1 \in 1..N
        BY <1>3, <1>4, <3>3
      <4> QED BY <1>3, <1>5, <3>3, <4>1
    <3> QED BY <1>6, <3>1, <3>2, <3>3
  <2>2. DOMAIN records' = 1..N + 1
    BY <1>5
  <2> QED BY <1>1, <1>5, <2>1, <2>2 DEF DayRecordsOK
<1>8. DayCallsOK' /\ dayCalls'[s] = Day!Free /\ \A t \in Clerks \ {s} : dayCalls'[t] = dayCalls[t]
  <2>1. Day!Free \in DayAnyCall
    BY DEF DayAnyCall
  <2> QED BY <1>1, <2>1, DayCallKeeps DEF DayIInv
<1>9. DayTyped'
  <2>1. DayHandsOK' /\ DayAddedOK' /\ DayRestOK'
    BY <1>1 DEF DayIInv, DayTyped, DayHandsOK, DayAddedOK, Day!Added, DayHand, DayRestOK
  <2> QED BY <1>7, <1>8, <2>1 DEF DayTyped
<1>10. DayGrows
  <2>1. ASSUME NEW m \in 0..N, NEW t \in 0..now, DaySince(m, t)
        PROVE  DaySince(m, t)' /\ m <= N + 1 /\ \A i \in 1..m : records'[i] = records[i]
    <3>1. r.at >= t
      BY <1>1, <1>2, <2>1 DEF DaySince
    <3>2. \A i \in 1..m : records[i].at <= r.at
      <4> TAKE i \in 1..m
      <4>1. i \in 1..N /\ records[i].at <= t
        BY <1>3, <2>1 DEF DaySince
      <4> QED BY <1>2, <1>3, <3>1, <4>1
    <3>3. m <= n
      <4>1. CASE m = 0
        BY <1>4, <4>1
      <4>2. CASE m # 0
        <5>1. m \in 1..m /\ m \in DOMAIN records
          BY <1>3, <4>2
        <5> QED BY <1>4, <3>2, <5>1
      <4> QED BY <4>1, <4>2
    <3>4. \A i \in 1..m : i \in 1..n
      BY <1>4, <3>3
    <3>5. \A i \in 1..m : records'[i] = records[i]
      BY <1>5, <3>4
    <3>6. \A i \in m + 1..N + 1 : records'[i].at >= t
      <4> TAKE i \in m + 1..N + 1
      <4>0. i \in 1..N + 1
        BY <1>3
      <4>1. CASE i \in 1..n
        <5>1. i \in m + 1..N
          BY <1>3, <1>4, <4>1
        <5> QED BY <1>5, <2>1, <4>1, <5>1 DEF DaySince
      <4>2. CASE i = n + 1
        BY <1>5, <3>1, <4>2
      <4>3. CASE i \in n + 2..N + 1 /\ i - 1 \in n + 1..N
        <5>1. i - 1 \in m + 1..N
          BY <1>3, <1>4, <3>3, <4>3
        <5> QED BY <1>5, <2>1, <4>3, <5>1 DEF DaySince
      <4> QED BY <1>6, <4>0, <4>1, <4>2, <4>3
    <3>7. m = 0 \/ records'[m].kind = "out"
      <4>1. CASE m # 0
        <5>1. m \in 1..m
          BY <4>1
        <5> QED BY <2>1, <3>5, <5>1 DEF DaySince
      <4> QED BY <4>1
    <3>8. \A i \in 1..m : records'[i].at <= t
      BY <2>1, <3>5 DEF DaySince
    <3>9. \A q \in Clerks : dayCalls'[q].pc = "add" => dayCalls'[q].at >= t
      <4> TAKE q \in Clerks
      <4>1. CASE q = s
        BY <1>8, <4>1 DEF Day!Free
      <4>2. CASE q # s
        BY <1>8, <2>1, <4>2 DEF DaySince
      <4> QED BY <4>1, <4>2
    <3> QED BY <1>3, <1>5, <3>5, <3>6, <3>7, <3>8, <3>9 DEF DaySince
  <2> QED BY <1>1, <1>2, <1>5, <2>1 DEF DayGrows
<1>11. \A t \in Clerks, c \in Day!Codes : DayFills(t, c)' => DayFills(t, c) /\ dayCalls'[t].hours = dayCalls[t].hours
  BY <1>8 DEF DayFills, Day!Free
<1>12. DayFilled'
  BY <1>1, <1>10, <1>11, DayFilledStays
<1> QED
  BY <1>9, <1>12 DEF DayIInv

\* An admin begins to fill a shift: what it lacks, when nothing of it may change; or gives its
\* hours by hand.
LEMMA DayAdjustKeeps ==
  ASSUME Day!AttendanceAssumption, DayIInv, NEW s \in Clerks, Day!Adjust(s) PROVE DayIInv'
<1>1. /\ dayCalls[s] = Day!Free /\ adjusts < MaxAdjustments /\ adjusts' = adjusts + 1
      /\ UNCHANGED <<now, registered, records, adjustments, dayLocked, samples, checks>>
  BY DEF Day!Adjust
<1>2. PICK c \in Day!Codes, fill \in BOOLEAN :
        /\ fill => Day!Missing(c) > 0
        /\ dayCalls' = [dayCalls EXCEPT ![s] =
             [pc |-> "adjust", number |-> adjusts', shift |-> c, fill |-> fill,
              hours |-> IF fill THEN Day!Missing(c) ELSE 1]]
        /\ loose' = IF fill /\ ~Day!Unsettled(s, c) THEN loose ELSE loose \cup {c}
  BY DEF Day!Adjust
<1> DEFINE r == [pc |-> "adjust", number |-> adjusts', shift |-> c, fill |-> fill,
                 hours |-> IF fill THEN Day!Missing(c) ELSE 1]
<1>3. Day!Hours(c) \in Nat /\ Day!Adjusted(c) \in Nat /\ Day!Length(c) \in Int
  <2>1. Day!Adjusted(c) \in Nat
    BY FS_CardinalityType, DayCardinalityIs DEF DayIInv, DayTyped, DayAddedOK, Day!Adjusted
  <2>2. Day!Length(c) \in Int
    BY DEF Day!AttendanceAssumption, Day!Length
  <2> QED BY <2>1, <2>2, DayHoursType
<1>4. r \in DayAdjusting /\ r \in DayAnyCall
  <2>1. adjusts' \in 1..MaxAdjustments
    BY <1>1 DEF DayIInv, DayTyped, DayRestOK, Day!AttendanceAssumption
  <2>2. (IF fill THEN Day!Missing(c) ELSE 1) \in Nat \ {0}
    BY <1>2, <1>3 DEF Day!Missing
  <2> QED BY <2>1, <2>2 DEF DayAdjusting, DayAnyCall
<1>5. /\ r.pc = "adjust" /\ r.shift = c /\ (fill => r.hours = Day!Missing(c))
  OBVIOUS
<1> HIDE DEF r
<1>6. DayCallsOK' /\ dayCalls'[s] = r /\ \A t \in Clerks \ {s} : dayCalls'[t] = dayCalls[t]
  BY <1>1, <1>2, <1>4, DayCallKeeps DEF DayIInv, r
<1>7. DayTyped'
  <2>1. DayRecordsOK' /\ DayHandsOK' /\ DayAddedOK'
    BY <1>1 DEF DayIInv, DayTyped, DayRecordsOK, DayHandsOK, DayAddedOK, Day!Added, DayHand
  <2>2. adjusts' \in 0..MaxAdjustments
    BY <1>1 DEF DayIInv, DayTyped, DayRestOK, Day!AttendanceAssumption
  <2>3. DayRestOK'
    BY <1>1, <1>2, <2>2 DEF DayIInv, DayTyped, DayRestOK
  <2> QED BY <1>6, <2>1, <2>3 DEF DayTyped
<1>8. now \in Nat /\ records \in Seq(DayRecord) /\ Len(records) \in Nat
      /\ \A i \in 1..Len(records) : records[i].at \in 0..now
  BY DEF DayIInv, DayTyped, DayRestOK, DayRecordsOK, Day!AttendanceAssumption
<1>9. DayGrows
  <2>1. \A t \in Clerks : dayCalls'[t].pc = "add" => dayCalls[t].pc = "add" /\ dayCalls'[t].at = dayCalls[t].at
    BY <1>5, <1>6
  <2> QED BY <1>1, <1>8, <2>1, DayQuietGrows DEF DayIInv
<1>10. ASSUME fill, ~Day!Unsettled(s, c)
       PROVE  /\ DaySettled(c)
              /\ \A t \in Clerks \ {s} : dayCalls[t].pc \notin {"add", "adjust"}
  <2>1. /\ ~(now < Shifts[c].to) /\ Day!OpenSince = Day!None
        /\ \A t \in Clerks \ {s} : dayCalls[t].pc \notin {"add", "adjust"}
    BY <1>10 DEF Day!Unsettled
  <2>2. Len(records) = 0 \/ records[Len(records)].kind = "out"
    <3>1. CASE records = <<>>
      BY <3>1
    <3>2. CASE records # <<>> /\ records[Len(records)].kind # "out"
      <4>1. Len(records) \in 1..Len(records)
        BY <1>8, <3>2
      <4>2. records[Len(records)].at \in 0..now
        BY <1>8, <4>1
      <4>3. Day!OpenSince = records[Len(records)].at
        BY <3>2 DEF Day!OpenSince
      <4> QED BY <2>1, <4>2, <4>3 DEF Day!None
    <3> QED BY <3>1, <3>2
  <2>3. \A t \in Clerks : dayCalls[t].pc # "add"
    BY <1>1, <2>1 DEF Day!Free
  <2>4. Shifts[c].to \in Nat
    BY DEF Day!AttendanceAssumption
  <2>5. now \in Shifts[c].to..now /\ Len(records) \in 0..Len(records)
    BY <1>8, <2>1, <2>4
  <2>6. DaySince(Len(records), now)
    <3>1. \A i \in 1..Len(records) : records[i].at <= now
      BY <1>8
    <3>2. Len(records) + 1..Len(records) = {}
      BY <1>8
    <3> QED BY <2>2, <2>3, <3>1, <3>2 DEF DaySince
  <2> QED BY <2>1, <2>5, <2>6 DEF DaySettled
<1>11. DayFilled'
  <2> SUFFICES ASSUME NEW d \in Day!Codes \ loose'
               PROVE  /\ \A t \in Clerks : DayFills(t, d)' =>
                           /\ DaySettled(d)'
                           /\ Day!Hours(d)' + Day!Adjusted(d)' + dayCalls'[t].hours <= Day!Length(d)
                           /\ \A q \in Clerks \ {t} : ~DayFills(q, d)'
                      /\ Day!Adjusted(d)' > 0 => DaySettled(d)' /\ Day!Hours(d)' + Day!Adjusted(d)' <= Day!Length(d)
    BY DEF DayFilled
  <2>1. d \in Day!Codes \ loose /\ Day!Adjusted(d)' = Day!Adjusted(d)
    BY <1>1, <1>2 DEF Day!Adjusted, Day!Added
  <2>2. DaySettled(d) => DaySettled(d)' /\ Day!Hours(d)' = Day!Hours(d)
    BY <1>9, <2>1, DaySettledStays DEF DayIInv
  <2>3. Day!Adjusted(d)' > 0 => DaySettled(d)' /\ Day!Hours(d)' + Day!Adjusted(d)' <= Day!Length(d)
    BY <2>1, <2>2 DEF DayIInv, DayFilled
  <2>4. CASE d # c
    <3>1. \A t \in Clerks : DayFills(t, d)' => DayFills(t, d) /\ dayCalls'[t].hours = dayCalls[t].hours
      BY <1>5, <1>6, <2>4 DEF DayFills
    <3>2. \A t \in Clerks : DayFills(t, d) =>
            /\ DaySettled(d) /\ Day!Hours(d) + Day!Adjusted(d) + dayCalls[t].hours <= Day!Length(d)
            /\ \A q \in Clerks \ {t} : ~DayFills(q, d)
      BY <2>1 DEF DayIInv, DayFilled
    <3> QED BY <2>1, <2>2, <2>3, <3>1, <3>2
  <2>5. CASE d = c
    <3>1. fill /\ ~Day!Unsettled(s, c)
      BY <1>2, <2>5
    <3>2. DaySettled(c) /\ \A t \in Clerks \ {s} : ~DayFills(t, c)'
      BY <1>6, <1>10, <3>1 DEF DayFills
    <3>3. dayCalls'[s].hours = Day!Length(c) - Day!Hours(c) - Day!Adjusted(c)
      BY <1>5, <1>6, <3>1 DEF Day!Missing
    <3>4. Day!Hours(c)' + Day!Adjusted(c)' + dayCalls'[s].hours <= Day!Length(c)
      BY <1>3, <2>1, <2>2, <2>5, <3>2, <3>3
    <3> QED BY <2>2, <2>3, <2>5, <3>2, <3>4
  <2> QED BY <2>4, <2>5
<1> QED
  BY <1>7, <1>11 DEF DayIInv

\* What is filled in.
LEMMA DayHandKeeps ==
  ASSUME Day!AttendanceAssumption, DayIInv, NEW s \in Clerks, Day!AdjustmentAdd(s) PROVE DayIInv'
<1> DEFINE call == dayCalls[s]
           a == [number |-> call.number, shift |-> call.shift, fill |-> call.fill,
                 hours |-> call.hours]
<1>1. /\ call.pc = "adjust" /\ adjustments' = adjustments \cup {a}
      /\ dayCalls' = [dayCalls EXCEPT ![s] = Day!Free]
      /\ UNCHANGED <<now, registered, records, dayLocked, samples, checks, adjusts, loose>>
  BY DEF Day!AdjustmentAdd
<1>2. a \in DayHand /\ a.shift = dayCalls[s].shift /\ a.hours = dayCalls[s].hours
  <2>1. call \in DayAdjusting
    BY <1>1, DayAtCall DEF DayIInv
  <2> QED BY <2>1 DEF DayAdjusting, DayHand
<1> HIDE DEF a
<1>3. DayCallsOK' /\ dayCalls'[s] = Day!Free /\ \A t \in Clerks \ {s} : dayCalls'[t] = dayCalls[t]
  <2>1. Day!Free \in DayAnyCall
    BY DEF DayAnyCall
  <2> QED BY <1>1, <2>1, DayCallKeeps DEF DayIInv
<1>4. \A c \in Day!Codes :
        /\ IsFiniteSet(Day!Added(c)') /\ Day!Adjusted(c) \in Nat /\ Day!Adjusted(c)' \in Nat
        /\ a.shift = c => Day!Adjusted(c)' <= Day!Adjusted(c) + a.hours
        /\ a.shift # c => Day!Adjusted(c)' = Day!Adjusted(c)
  BY <1>1, <1>2, DayRowAdds DEF DayIInv, DayTyped
<1>5. DayTyped'
  <2>1. DayHandsOK'
    BY <1>1, <1>2 DEF DayIInv, DayTyped, DayHandsOK, DayHand
  <2>2. DayRecordsOK' /\ DayRestOK'
    BY <1>1 DEF DayIInv, DayTyped, DayRecordsOK, DayRestOK
  <2>3. DayAddedOK'
    BY <1>4 DEF DayAddedOK
  <2> QED BY <1>3, <2>1, <2>2, <2>3 DEF DayTyped
<1>6. DayGrows
  <2>1. \A t \in Clerks : dayCalls'[t].pc = "add" => dayCalls[t].pc = "add" /\ dayCalls'[t].at = dayCalls[t].at
    BY <1>3 DEF Day!Free
  <2>2. now \in Nat
    BY DEF DayIInv, DayTyped, DayRestOK, Day!AttendanceAssumption
  <2> QED BY <1>1, <2>1, <2>2, DayQuietGrows DEF DayIInv
<1>7. DayFilled'
  <2> SUFFICES ASSUME NEW c \in Day!Codes \ loose
               PROVE  /\ \A t \in Clerks : DayFills(t, c)' =>
                           /\ DaySettled(c)'
                           /\ Day!Hours(c)' + Day!Adjusted(c)' + dayCalls'[t].hours <= Day!Length(c)
                           /\ \A q \in Clerks \ {t} : ~DayFills(q, c)'
                      /\ Day!Adjusted(c)' > 0 => DaySettled(c)' /\ Day!Hours(c)' + Day!Adjusted(c)' <= Day!Length(c)
    BY <1>1 DEF DayFilled
  <2>1. DaySettled(c) => DaySettled(c)' /\ Day!Hours(c)' = Day!Hours(c)
    BY <1>6, DaySettledStays DEF DayIInv
  <2>2. \A t \in Clerks : DayFills(t, c)' => DayFills(t, c) /\ dayCalls'[t].hours = dayCalls[t].hours
    BY <1>3 DEF DayFills, Day!Free
  <2>3. /\ Day!Adjusted(c) > 0 => DaySettled(c) /\ Day!Hours(c) + Day!Adjusted(c) <= Day!Length(c)
        /\ \A t \in Clerks : DayFills(t, c) =>
             /\ DaySettled(c) /\ Day!Hours(c) + Day!Adjusted(c) + dayCalls[t].hours <= Day!Length(c)
             /\ \A q \in Clerks \ {t} : ~DayFills(q, c)
    BY DEF DayIInv, DayFilled
  <2>4. CASE a.shift # c
    BY <1>4, <2>1, <2>2, <2>3, <2>4
  <2>5. CASE a.shift = c
    <3>1. DayFills(s, c)
      BY <1>1, <1>2, <2>5 DEF DayFills
    <3>2. \A t \in Clerks : ~DayFills(t, c)'
      BY <1>3, <2>2, <2>3, <3>1 DEF DayFills, Day!Free
    <3>3. DaySettled(c)' /\ Day!Hours(c)' = Day!Hours(c) /\ Day!Hours(c) + Day!Adjusted(c) + a.hours <= Day!Length(c)
      BY <1>2, <2>1, <2>3, <3>1
    <3>4. Day!Hours(c) \in Nat /\ a.hours \in Nat /\ Day!Length(c) \in Int
      BY <1>2, DayHoursType DEF DayHand, Day!AttendanceAssumption, Day!Length
    <3>5. Day!Hours(c)' + Day!Adjusted(c)' <= Day!Length(c)
      <4>1. Day!Adjusted(c) \in Nat /\ Day!Adjusted(c)' \in Nat /\ Day!Adjusted(c)' <= Day!Adjusted(c) + a.hours
        BY <1>4, <2>5
      <4> QED BY <3>3, <3>4, <4>1
    <3> QED BY <3>2, <3>3, <3>5
  <2> QED BY <2>4, <2>5
<1> QED
  BY <1>5, <1>7 DEF DayIInv

\* A row is removed.
LEMMA DayRemoveKeeps ==
  ASSUME Day!AttendanceAssumption, DayIInv, Day!RemoveAdjustment PROVE DayIInv'
<1>1. /\ adjustments' \subseteq adjustments
      /\ UNCHANGED <<now, registered, records, dayLocked, samples, dayCalls, checks, adjusts, loose>>
  BY DEF Day!RemoveAdjustment
<1>2. \A c \in Day!Codes : /\ IsFiniteSet(Day!Added(c)') /\ Day!Adjusted(c) \in Nat /\ Day!Adjusted(c)' \in Nat
                           /\ Day!Adjusted(c)' <= Day!Adjusted(c)
  BY <1>1, DayRowLess DEF DayIInv, DayTyped
<1>3. DayTyped'
  <2>1. DayHandsOK' /\ DayRecordsOK' /\ DayRestOK' /\ DayCallsOK'
    BY <1>1
       DEF DayIInv, DayTyped, DayHandsOK, DayHand, DayRecordsOK, DayRestOK, DayCallsOK, DayAdding,
           DayAdjusting, DayWaiting
  <2>2. DayAddedOK'
    BY <1>2 DEF DayAddedOK
  <2> QED BY <2>1, <2>2 DEF DayTyped
<1>4. DayGrows
  <2>1. now \in Nat
    BY DEF DayIInv, DayTyped, DayRestOK, Day!AttendanceAssumption
  <2> QED BY <1>1, <2>1, DayQuietGrows DEF DayIInv
<1>5. DayFilled'
  <2> SUFFICES ASSUME NEW c \in Day!Codes \ loose
               PROVE  /\ \A t \in Clerks : DayFills(t, c) =>
                           /\ DaySettled(c)'
                           /\ Day!Hours(c)' + Day!Adjusted(c)' + dayCalls[t].hours <= Day!Length(c)
                           /\ \A q \in Clerks \ {t} : ~DayFills(q, c)
                      /\ Day!Adjusted(c)' > 0 => DaySettled(c)' /\ Day!Hours(c)' + Day!Adjusted(c)' <= Day!Length(c)
    BY <1>1 DEF DayFilled, DayFills
  <2>1. DaySettled(c) => DaySettled(c)' /\ Day!Hours(c)' = Day!Hours(c)
    BY <1>4, DaySettledStays DEF DayIInv
  <2>2. Day!Hours(c) \in Nat /\ Day!Length(c) \in Int
    BY DayHoursType DEF Day!AttendanceAssumption, Day!Length
  <2>3. /\ Day!Adjusted(c) \in Nat /\ Day!Adjusted(c)' \in Nat /\ Day!Adjusted(c)' <= Day!Adjusted(c)
    BY <1>2
  <2>4. ASSUME NEW t \in Clerks, DayFills(t, c)
        PROVE  /\ DaySettled(c)' /\ Day!Hours(c)' + Day!Adjusted(c)' + dayCalls[t].hours <= Day!Length(c)
               /\ \A q \in Clerks \ {t} : ~DayFills(q, c)
    <3>1. /\ DaySettled(c) /\ Day!Hours(c) + Day!Adjusted(c) + dayCalls[t].hours <= Day!Length(c)
          /\ \A q \in Clerks \ {t} : ~DayFills(q, c)
      BY <2>4 DEF DayIInv, DayFilled
    <3>2. dayCalls[t].hours \in Nat
      BY <2>4, DayAtCall DEF DayIInv, DayFills, DayAdjusting
    <3> QED BY <2>1, <2>2, <2>3, <3>1, <3>2
  <2>5. ASSUME Day!Adjusted(c)' > 0
        PROVE  DaySettled(c)' /\ Day!Hours(c)' + Day!Adjusted(c)' <= Day!Length(c)
    <3>1. DaySettled(c) /\ Day!Hours(c) + Day!Adjusted(c) <= Day!Length(c)
      BY <2>3, <2>5 DEF DayIInv, DayFilled
    <3> QED BY <2>1, <2>2, <2>3, <3>1
  <2> QED BY <2>4, <2>5
<1> QED
  BY <1>3, <1>5 DEF DayIInv

\* The roster of the day is edited: a shift that may be filled gains no hours, or is loose.
LEMMA DaySetDayKeeps ==
  ASSUME Day!AttendanceAssumption, DayIInv, NEW c \in Day!Codes, Day!SetDay(c) PROVE DayIInv'
<1>1. /\ UNCHANGED <<now, records, adjustments, dayLocked, samples, dayCalls, checks>>
      /\ adjusts < MaxAdjustments /\ adjusts' = adjusts + 1
      /\ registered' = IF c \in registered THEN registered \ {c} ELSE registered \cup {c}
      /\ loose' = loose \cup {d \in Day!Codes : Day!Filled(d) /\ Day!Hours(d)' > Day!Hours(d)}
  BY DEF Day!SetDay
<1>2. DayTyped'
  <2>1. DayHandsOK' /\ DayRecordsOK' /\ DayCallsOK' /\ DayAddedOK'
    BY <1>1
       DEF DayIInv, DayTyped, DayHandsOK, DayHand, DayRecordsOK, DayCallsOK, DayAdding,
           DayAdjusting, DayWaiting, DayAddedOK, Day!Added
  <2>2. adjusts' \in 0..MaxAdjustments
    BY <1>1 DEF DayIInv, DayTyped, DayRestOK, Day!AttendanceAssumption
  <2>3. DayRestOK'
    BY <1>1, <2>2 DEF DayIInv, DayTyped, DayRestOK
  <2> QED BY <2>1, <2>3 DEF DayTyped
<1>3. DayFilled'
  <2> SUFFICES ASSUME NEW d \in Day!Codes \ loose'
               PROVE  /\ \A t \in Clerks : DayFills(t, d) =>
                           /\ DaySettled(d)'
                           /\ Day!Hours(d)' + Day!Adjusted(d)' + dayCalls[t].hours <= Day!Length(d)
                           /\ \A q \in Clerks \ {t} : ~DayFills(q, d)
                      /\ Day!Adjusted(d)' > 0 => DaySettled(d)' /\ Day!Hours(d)' + Day!Adjusted(d)' <= Day!Length(d)
    BY <1>1 DEF DayFilled, DayFills
  <2>1. Day!Adjusted(d)' = Day!Adjusted(d) /\ Day!Adjusted(d) \in Nat
    BY <1>1, DayRowLess DEF Day!Adjusted, Day!Added, DayIInv, DayTyped
  <2>2. DaySettled(d)' <=> DaySettled(d)
    BY <1>1 DEF DaySettled, DaySince
  <2>3. Day!Hours(d) \in Nat /\ Day!Hours(d)' \in Nat /\ Day!Length(d) \in Int
    BY DayHoursType DEF Day!AttendanceAssumption, Day!Length
  <2>4. Day!Filled(d) => Day!Hours(d)' <= Day!Hours(d)
    BY <1>1, <2>3
  <2>5. ASSUME NEW t \in Clerks, DayFills(t, d)
        PROVE  /\ DaySettled(d)' /\ Day!Hours(d)' + Day!Adjusted(d)' + dayCalls[t].hours <= Day!Length(d)
               /\ \A q \in Clerks \ {t} : ~DayFills(q, d)
    <3>1. /\ DaySettled(d) /\ Day!Hours(d) + Day!Adjusted(d) + dayCalls[t].hours <= Day!Length(d)
          /\ \A q \in Clerks \ {t} : ~DayFills(q, d)
      BY <1>1, <2>5 DEF DayIInv, DayFilled
    <3>2. dayCalls[t].hours \in Nat
      BY <2>5, DayAtCall DEF DayIInv, DayFills, DayAdjusting
    <3>3. Day!Hours(d)' <= Day!Hours(d)
      BY <2>4, <2>5 DEF Day!Filled, DayFills
    <3> QED BY <2>1, <2>2, <2>3, <3>1, <3>2, <3>3
  <2>6. ASSUME Day!Adjusted(d)' > 0
        PROVE  DaySettled(d)' /\ Day!Hours(d)' + Day!Adjusted(d)' <= Day!Length(d)
    <3>1. DaySettled(d) /\ Day!Hours(d) + Day!Adjusted(d) <= Day!Length(d)
      BY <1>1, <2>1, <2>6 DEF DayIInv, DayFilled
    <3>2. Day!Hours(d)' <= Day!Hours(d)
      BY <2>1, <2>4, <2>6 DEF Day!Filled
    <3> QED BY <2>1, <2>2, <2>3, <3>1, <3>2
  <2> QED BY <2>5, <2>6
<1> QED
  BY <1>2, <1>3 DEF DayIInv

\* Time, the lock, and the samples.
LEMMA DayRestKeeps ==
  ASSUME Day!AttendanceAssumption, DayIInv, Day!ClearFace \/ Day!LockDay \/ Day!Tick
  PROVE  DayIInv'
<1>1. /\ UNCHANGED <<registered, records, adjustments, dayCalls, loose>>
      /\ now' \in Nat /\ now <= now' /\ now' \in 0..MaxTime
  BY DEF Day!ClearFace, Day!LockDay, Day!Tick, DayIInv, DayTyped, DayRestOK,
       Day!AttendanceAssumption
<1>2. DayRestOK'
  <2>1. samples' \in 0..MaxSamples /\ adjusts' \in 0..MaxAdjustments /\ dayLocked' \in BOOLEAN
        /\ checks' = checks
    <3>1. DayRestOK
      BY DEF DayIInv, DayTyped
    <3>2. CASE Day!ClearFace
      BY <3>1, <3>2 DEF Day!ClearFace, DayRestOK, Day!AttendanceAssumption
    <3>3. CASE Day!LockDay
      <4>1. adjusts' \in 0..MaxAdjustments
        BY <3>1, <3>3 DEF Day!LockDay, DayRestOK, Day!AttendanceAssumption
      <4>2. dayLocked' \in BOOLEAN
        BY <3>1, <3>3 DEF Day!LockDay, DayRestOK
      <4> QED BY <3>1, <3>3, <4>1, <4>2 DEF Day!LockDay, DayRestOK
    <3>4. CASE Day!Tick
      BY <3>1, <3>4 DEF Day!Tick, DayRestOK
    <3> QED BY <3>2, <3>3, <3>4
  <2> QED BY <1>1, <2>1 DEF DayIInv, DayTyped, DayRestOK
<1>3. DayCallsOK' /\ DayRecordsOK' /\ DayHandsOK' /\ DayAddedOK'
  <2>1. 0..now \subseteq 0..now'
    BY <1>1 DEF DayIInv, DayTyped, DayRestOK
  <2>2. DayCallsOK'
    <3>1. DayAdding \subseteq DayAdding'
      BY <2>1 DEF DayAdding
    <3>2. DayWaiting' = DayWaiting /\ DayAdjusting' = DayAdjusting
      BY DEF DayWaiting, DayAdjusting
    <3> QED BY <1>1, <3>1, <3>2 DEF DayIInv, DayTyped, DayCallsOK
  <2>3. DayRecordsOK'
    BY <1>1, <2>1 DEF DayIInv, DayTyped, DayRecordsOK
  <2>4. DayHandsOK' /\ DayAddedOK'
    BY <1>1 DEF DayIInv, DayTyped, DayHandsOK, DayHand, DayAddedOK, Day!Added
  <2> QED BY <2>2, <2>3, <2>4
<1>4. DayGrows
  BY <1>1, DayQuietGrows DEF DayIInv
<1>5. DayFilled'
  <2>1. \A t \in Clerks, c \in Day!Codes : DayFills(t, c)' => DayFills(t, c) /\ dayCalls'[t].hours = dayCalls[t].hours
    BY <1>1 DEF DayFills
  <2> QED BY <1>1, <1>4, <2>1, DayFilledStays
<1> QED
  BY <1>2, <1>3, <1>5 DEF DayIInv, DayTyped

LEMMA DayStepKeeps ==
  ASSUME Day!AttendanceAssumption, DayIInv, [Day!Next]_Day!vars PROVE DayIInv'
<1>1. CASE UNCHANGED Day!vars
  <2>1. DayGrows
    <3>1. now \in Nat
      BY DEF DayIInv, DayTyped, DayRestOK, Day!AttendanceAssumption
    <3> QED BY <1>1, <3>1, DayQuietGrows DEF Day!vars, DayIInv
  <2>2. DayTyped'
    <3>1. DayRecordsOK' /\ DayHandsOK' /\ DayRestOK'
      BY <1>1 DEF Day!vars, DayIInv, DayTyped, DayRecordsOK, DayHandsOK, DayHand, DayRestOK
    <3>2. DayCallsOK' /\ DayAddedOK'
      BY <1>1
         DEF Day!vars, DayIInv, DayTyped, DayCallsOK, DayAdding, DayAdjusting, DayWaiting,
             DayAddedOK, Day!Added
    <3> QED BY <3>1, <3>2 DEF DayTyped
  <2>3. \A t \in Clerks, c \in Day!Codes : DayFills(t, c)' => DayFills(t, c) /\ dayCalls'[t].hours = dayCalls[t].hours
    BY <1>1 DEF Day!vars, DayFills
  <2>4. DayFilled'
    BY <1>1, <2>1, <2>3, DayFilledStays DEF Day!vars
  <2> QED BY <2>2, <2>4 DEF DayIInv
<1>2. CASE Day!Next
  BY <1>2, DayFaceKeeps, DayAddKeeps, DayAdjustKeeps, DayHandKeeps, DayRemoveKeeps, DaySetDayKeeps,
       DayRestKeeps DEF Day!Next
<1> QED
  BY <1>1, <1>2

LEMMA DayIInvAlways ==
  ASSUME Day!AttendanceAssumption PROVE Day!Spec => []DayIInv
<1>1. Day!Init => DayIInv
  BY DayInitIInv
<1>2. DayIInv /\ [Day!Next]_Day!vars => DayIInv'
  BY DayStepKeeps
<1> QED
  BY <1>1, <1>2, PTL DEF Day!Spec

LEMMA DayTypesFollow ==
  ASSUME Day!AttendanceAssumption, DayIInv PROVE Day!TypeOK
<1>1. \A s \in Clerks : dayCalls[s].pc \in {"free", "face", "match", "add", "adjust"}
  BY DayAtCall DEF DayIInv
<1>2. \A i \in DOMAIN records : records[i] \in [kind : {"in", "out"}, at : 0..MaxTime]
  <2> TAKE i \in DOMAIN records
  <2>1. records[i] \in DayRecord /\ records[i].at \in 0..now /\ now \in 0..MaxTime
    BY DEF DayIInv, DayTyped, DayRecordsOK, DayRestOK
  <2>2. records[i].at \in 0..MaxTime
    BY <2>1 DEF Day!AttendanceAssumption
  <2> QED BY <2>1, <2>2 DEF DayRecord
<1>3. \A a \in adjustments :
        /\ a.number \in 1..MaxAdjustments /\ a.shift \in Day!Codes
        /\ a.fill \in BOOLEAN /\ a.hours \in Nat \ {0}
  BY DEF DayIInv, DayTyped, DayHandsOK, DayHand
<1> QED
  BY <1>1, <1>2, <1>3 DEF DayIInv, DayTyped, DayRestOK, Day!TypeOK

LEMMA DayHoursFollow ==
  ASSUME DayIInv PROVE Day!FilledToItsLength
  BY DEF DayIInv, DayFilled, Day!FilledToItsLength

\* A behaviour of the back office is one of the part.
LEMMA DayRuns == Spec => Day!Spec
  <1>1. Init => Day!Init
    BY DEF Init
  <1>2. [Next]_vars => [Day!Next]_Day!vars
    BY DEF Next, Rest, vars, dayVars, Day!vars
  <1> QED BY <1>1, <1>2, PTL DEF Spec, Day!Spec

LEMMA DayAlwaysTyped == Spec => []Day!TypeOK
  <1>1. Day!AttendanceAssumption
    BY BackOfficeAssumption
  <1>2. DayIInv => Day!TypeOK
    BY <1>1, DayTypesFollow
  <1> QED BY <1>1, <1>2, DayRuns, DayIInvAlways, PTL

\* A shift that was filled once it was settled is paid its length and no more, however often it
\* is filled and whatever records come and go before (fill of attendance_adjustment_add).
THEOREM ShiftsFilled == Spec => []FilledToItsLength
  <1>1. Day!AttendanceAssumption
    BY BackOfficeAssumption
  <1>2. DayIInv => FilledToItsLength
    BY DayHoursFollow DEF FilledToItsLength
  <1> QED BY <1>1, <1>2, DayRuns, DayIInvAlways, PTL
=============================================================================
