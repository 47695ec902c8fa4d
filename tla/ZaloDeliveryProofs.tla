-------------------------- MODULE ZaloDeliveryProofs --------------------------
(***************************************************************************)
(* Proofs about ZaloDelivery.  Each invariant that TLC checks on a few     *)
(* messages follows from IInv, which every step keeps; and every step is   *)
(* a step of the promise of Outbox, or none.                               *)
(***************************************************************************)
EXTENDS ZaloDelivery, TLAPS

-----------------------------------------------------------------------------
(* The inductive invariant                                                 *)

SettingsOK ==
  /\ scenario \in Scenarios
  /\ enabled \in [Features -> BOOLEAN]
  /\ assigned \in [Features -> SUBSET Groups]
  /\ configured \in BOOLEAN
JobsOK ==
  /\ job \in [Messages -> JobStates]
  /\ tries \in [Messages -> Nat] /\ stalls \in [Messages -> Nat]
CallsOK == call \in [Calls -> CallRecords]
CountsOK == late \in [Messages -> [Targets -> Nat]] /\ got \in [Messages -> [Targets -> Nat]]
LinesOK == journal \in [Messages -> Seq(Lines)]
HistoryOK ==
  /\ hit \in SUBSET Messages /\ doubled \in SUBSET Messages
  /\ spent \in [Kinds -> Nat]
Typed == SettingsOK /\ JobsOK /\ CallsOK /\ CountsOK /\ LinesOK /\ HistoryOK

\* The worker and the direct caller of a message run while its job is with them; a direct
\* caller also runs beside the queue, when that had the message after all.
WorkerOn(m) == call[<<m, "worker">>].pc # "idle"
DirectOn(m) == call[<<m, "direct">>].pc # "idle"
Manned ==
  \A m \in Messages :
    /\ WorkerOn(m) <=> job[m] = "active"
    /\ job[m] = "direct" => DirectOn(m)
    /\ DirectOn(m) => job[m] = "direct" \/ m \in doubled
    /\ m \in doubled => job[m] \notin {"none", "skipped", "direct"}

\* What a call waits for it has asked; and it has asked someone when it ends well.
CallSound(k) ==
  /\ k.wait \subseteq k.aim
  /\ k.pc \in {"idle", "start", "groups"} => k.aim = {}
  /\ k.pc \in {"start", "groups", "post"} => k.err = "none"
  /\ k.pc \in {"post", "journal"} /\ k.err = "none" => k.aim # {}
  /\ k.pc = "journal" /\ k.err = "none" => k.wait = {}
Sound == \A m \in Messages, v \in Vias : CallSound(call[<<m, v>>])

\* A resending is about a line that is there.
RowThere ==
  \A m \in Messages : call[<<m, "resend">>].pc # "idle" =>
    call[<<m, "resend">>].pc # "ack" /\ call[<<m, "resend">>].row \in DOMAIN journal[m]

\* The targets that answered a call have the message.
Has(m, k) == k.pc \in {"post", "journal"} /\ k.err = "none" =>
  \A t \in k.aim \ k.wait : got[m][t] > 0
Arrived == spent["misread"] = 0 => \A m \in Messages, v \in Vias : Has(m, call[<<m, v>>])

\* A call whose feature has been off since it began asks nobody of a group; one that looks
\* for the groups of a feature has one.
Mute(m, k) ==
  /\ k.off => Off(m) /\ k.pc # "groups" /\ (payload[m].numbers = {} => k.aim = {})
  /\ k.pc = "groups" => payload[m].feature # NoFeature
Silent == \A m \in Messages, v \in Vias : Mute(m, call[<<m, v>>])

\* A job that may go on has attempts left, all of them before it is in the queue.
Tried ==
  \A m \in Messages :
    /\ job[m] \in {"none", "waiting", "active"} => tries[m] < MaxAttempts
    /\ job[m] = "none" => tries[m] = 0

\* The copies of m that t has, or may still get, are at most one for each run of deliver.
Holds(k, t) == IF k.pc \in {"start", "groups"} \/ (k.pc = "post" /\ t \in k.wait) THEN 1 ELSE 0
Held(m, t) ==
  Holds(call[<<m, "worker">>], t) + Holds(call[<<m, "direct">>], t)
    + Holds(call[<<m, "resend">>], t)
Runs(m) ==
  IF job[m] \in {"none", "skipped"} THEN 0
  ELSE IF job[m] = "waiting" THEN tries[m]
  ELSE IF job[m] = "active" THEN tries[m] + 1
  ELSE IF job[m] = "direct" THEN 1
  ELSE MaxAttempts
Ran(m) == Runs(m) + Extra(m)
Accounted ==
  \A m \in Messages, t \in Targets :
    got[m][t] + late[m][t] + Held(m, t) <= Ran(m) + stalls[m] + spent["resend"]

\* Only a message that was handed over has lines; one whose attempt ends has a line or
\* was hit.
Written ==
  \A m \in Messages :
    /\ job[m] \in {"none", "skipped"} => journal[m] = <<>>
    /\ \A v \in {"worker", "direct"} :
         call[<<m, v>>].pc = "ack" => journal[m] # <<>> \/ m \in hit

IInv ==
  /\ Typed /\ Manned /\ Sound /\ RowThere /\ Arrived /\ Silent /\ Tried /\ Accounted /\ Written
  /\ SentMeansDelivered

-----------------------------------------------------------------------------
(* The records of the calls                                                *)

\* The fields of a call have their types.
LEMMA FieldTypes ==
  ASSUME NEW k \in CallRecords
  PROVE  /\ k.pc \in {"idle", "start", "groups", "post", "journal", "ack"}
         /\ k.aim \in SUBSET Targets /\ k.wait \in SUBSET Targets /\ k.err \in Errors
         /\ k.row \in Nat /\ k.off \in BOOLEAN
BY DEF CallRecords

\* A call that is not on.
LEMMA IdleFields ==
  /\ Idle \in CallRecords /\ Idle.pc = "idle" /\ Idle.aim = {} /\ Idle.wait = {}
  /\ Idle.err = "none" /\ Idle.off = FALSE
BY DEF Idle, CallRecords, Errors

\* A call that begins.
LEMMA StartedFields ==
  ASSUME NEW m, NEW r \in Nat
  PROVE  /\ Started(m, r) \in CallRecords
         /\ Started(m, r).pc = "start" /\ Started(m, r).aim = {} /\ Started(m, r).wait = {}
         /\ Started(m, r).err = "none" /\ Started(m, r).row = r
         /\ Started(m, r).off => Off(m)
<1>1. Off(m) \in BOOLEAN
  BY DEF Off
<1> DEFINE s == Started(m, r)
<1>2. s \in [pc : {"start"}, aim : {{}}, wait : {{}}, err : {"none"}, row : {r}, off : {Off(m)}]
  BY DEF Started, Idle
<1>3. /\ s \in [pc : {"start"}, aim : {{}}, wait : {{}}, err : {"none"}, row : {r}, off : BOOLEAN]
      /\ s.off = Off(m)
  BY <1>1, <1>2, Zenon
<1> HIDE DEF s
<1>4. s \in CallRecords
  BY <1>3 DEF CallRecords, Errors
<1>5. s.pc = "start" /\ s.aim = {} /\ s.wait = {} /\ s.err = "none" /\ s.row = r /\ (s.off => Off(m))
  BY <1>3
<1> QED
  BY <1>4, <1>5 DEF s

\* Only the call c changes, and what does not change of it.
Only(c) == DOMAIN call' = Calls /\ \A d \in Calls \ {c} : call'[d] = call[d]
Same(c) == call'[c].row = call[c].row /\ call'[c].off = call[c].off

\* A call ends before it asked anyone.
LEMMA RefuseFields ==
  ASSUME CallsOK, NEW c \in Calls, NEW e \in Errors, Refuse(c, e)
  PROVE  /\ CallsOK' /\ Only(c) /\ Same(c) /\ call'[c].pc = "journal" /\ call'[c].err = e
         /\ call'[c].aim = call[c].aim /\ call'[c].wait = call[c].wait
<1> DEFINE k == call[c]
<1> DEFINE n == [k EXCEPT !.pc = "journal", !.err = e]
<1>1. k \in CallRecords
  BY DEF CallsOK
<1>2. call' = [call EXCEPT ![c] = n]
  BY DEF Refuse
<1>3. n \in [pc : {"journal"}, aim : {k.aim}, wait : {k.wait}, err : {e}, row : {k.row}, off : {k.off}]
  <2> HIDE DEF k
  <2> QED BY <1>1 DEF CallRecords
<1> HIDE DEF n, k
<1>4. n \in CallRecords
  BY <1>1, <1>3 DEF CallRecords
<1>5. call' \in [Calls -> CallRecords] /\ call'[c] = n /\ Only(c)
  BY <1>2, <1>4 DEF CallsOK, Only
<1>6. n.pc = "journal" /\ n.err = e /\ n.aim = k.aim /\ n.wait = k.wait /\ n.row = k.row /\ n.off = k.off
  BY <1>3
<1> QED
  BY <1>5, <1>6 DEF k, CallsOK, Same

\* A call asks the targets ts.
LEMMA PostFields ==
  ASSUME CallsOK, NEW c \in Calls, NEW ts \in SUBSET Targets, Post(c, ts)
  PROVE  /\ CallsOK' /\ Only(c) /\ Same(c) /\ call'[c].pc = "post" /\ call'[c].err = call[c].err
         /\ call'[c].aim = ts /\ call'[c].wait = ts
<1> DEFINE k == call[c]
<1> DEFINE n == [k EXCEPT !.pc = "post", !.aim = ts, !.wait = ts]
<1>1. k \in CallRecords
  BY DEF CallsOK
<1>2. call' = [call EXCEPT ![c] = n]
  BY DEF Post
<1>3. n \in [pc : {"post"}, aim : {ts}, wait : {ts}, err : {k.err}, row : {k.row}, off : {k.off}]
  <2> HIDE DEF k
  <2> QED BY <1>1 DEF CallRecords
<1> HIDE DEF n, k
<1>4. n \in CallRecords
  BY <1>1, <1>3 DEF CallRecords
<1>5. call' \in [Calls -> CallRecords] /\ call'[c] = n /\ Only(c)
  BY <1>2, <1>4 DEF CallsOK, Only
<1>6. n.pc = "post" /\ n.err = k.err /\ n.aim = ts /\ n.wait = ts /\ n.row = k.row /\ n.off = k.off
  BY <1>3
<1> QED
  BY <1>5, <1>6 DEF k, CallsOK, Same

\* A call goes on to another place of the code.
LEMMA GoFields ==
  ASSUME CallsOK, NEW c \in Calls, NEW p \in {"groups", "ack"}, call' = [call EXCEPT ![c].pc = p]
  PROVE  /\ CallsOK' /\ Only(c) /\ Same(c) /\ call'[c].pc = p /\ call'[c].err = call[c].err
         /\ call'[c].aim = call[c].aim /\ call'[c].wait = call[c].wait
<1> DEFINE k == call[c]
<1> DEFINE n == [k EXCEPT !.pc = p]
<1>1. k \in CallRecords
  BY DEF CallsOK
<1>2. call' = [call EXCEPT ![c] = n]
  OBVIOUS
<1>3. n \in [pc : {p}, aim : {k.aim}, wait : {k.wait}, err : {k.err}, row : {k.row}, off : {k.off}]
  <2> HIDE DEF k
  <2> QED BY <1>1 DEF CallRecords
<1> HIDE DEF n, k
<1>4. n \in CallRecords
  BY <1>1, <1>3 DEF CallRecords
<1>5. call' \in [Calls -> CallRecords] /\ call'[c] = n /\ Only(c)
  BY <1>2, <1>4 DEF CallsOK, Only
<1>6. n.pc = p /\ n.err = k.err /\ n.aim = k.aim /\ n.wait = k.wait /\ n.row = k.row /\ n.off = k.off
  BY <1>3
<1> QED
  BY <1>5, <1>6 DEF k, CallsOK, Same

\* A call becomes another record, as when it begins or ends.
LEMMA BecomeFields ==
  ASSUME CallsOK, NEW c \in Calls, NEW n \in CallRecords, call' = [call EXCEPT ![c] = n]
  PROVE  CallsOK' /\ Only(c) /\ call'[c] = n
BY DEF CallsOK, Only

\* An answer has come in: with an error the call ends, otherwise it waits for the others.
LEMMA AnswerFields ==
  ASSUME CallsOK, NEW c \in Calls, NEW t, NEW delivered, NEW e \in Errors,
         Answer(c, t, delivered, e)
  PROVE  /\ CallsOK' /\ Only(c) /\ Same(c) /\ call'[c].err = e /\ call'[c].aim = call[c].aim
         /\ call'[c].wait = IF e = "none" THEN call[c].wait \ {t} ELSE {}
         /\ call'[c].pc = IF e = "none" /\ call[c].wait \ {t} # {} THEN "post" ELSE "journal"
<1> DEFINE k == call[c]
<1> DEFINE w == IF e = "none" THEN k.wait \ {t} ELSE {}
<1> DEFINE p == IF e = "none" /\ k.wait \ {t} # {} THEN "post" ELSE "journal"
<1> DEFINE n == [k EXCEPT !.wait = w, !.err = e, !.pc = p]
<1>1. k \in CallRecords
  BY DEF CallsOK
<1>2. call' = [call EXCEPT ![c] = n]
  BY DEF Answer
<1>a. w \in SUBSET Targets /\ p \in {"post", "journal"}
  <2> HIDE DEF k
  <2> QED BY <1>1 DEF CallRecords
<1>3. n \in [pc : {p}, aim : {k.aim}, wait : {w}, err : {e}, row : {k.row}, off : {k.off}]
  <2> HIDE DEF k, w, p
  <2> QED BY <1>1, <1>a DEF CallRecords
<1> HIDE DEF n, k, w, p
<1>4. n \in CallRecords
  BY <1>1, <1>3, <1>a DEF CallRecords
<1>5. call' \in [Calls -> CallRecords] /\ call'[c] = n /\ Only(c)
  BY <1>2, <1>4 DEF CallsOK, Only
<1>6. n.pc = p /\ n.err = e /\ n.aim = k.aim /\ n.wait = w /\ n.row = k.row /\ n.off = k.off
  BY <1>3
<1>7. CallsOK' /\ Only(c) /\ call'[c].err = e /\ call'[c].aim = k.aim /\ call'[c].wait = w
      /\ call'[c].pc = p /\ call'[c].row = k.row /\ call'[c].off = k.off
  BY <1>5, <1>6 DEF CallsOK
<1> QED
  BY <1>7 DEF k, w, p, Same

-----------------------------------------------------------------------------
(* What a step of one call leaves of the invariant                         *)

\* Copies only ever arrive.
GotGrows == \A m \in Messages, t \in Targets : got[m][t] > 0 => got'[m][t] > 0
\* Nothing is forgotten of what was misread.
StillMisread == spent'["misread"] = 0 => spent["misread"] = 0

LEMMA MannedFrame ==
  ASSUME Manned, NEW m \in Messages, NEW v \in Vias, Only(<<m, v>>),
         UNCHANGED <<job, doubled>>,
         call'[<<m, v>>].pc = "idle" <=> call[<<m, v>>].pc = "idle"
  PROVE  Manned'
BY DEF Manned, WorkerOn, DirectOn, Only, Calls, Vias

LEMMA SoundFrame ==
  ASSUME Sound, NEW m \in Messages, NEW v \in Vias, Only(<<m, v>>), CallSound(call'[<<m, v>>])
  PROVE  Sound'
<1> SUFFICES ASSUME NEW n \in Messages, NEW u \in Vias PROVE CallSound(call'[<<n, u>>])
  BY DEF Sound, CallSound
<1>1. CASE <<n, u>> = <<m, v>>
  BY <1>1
<1>2. CASE <<n, u>> # <<m, v>>
  <2>1. call'[<<n, u>>] = call[<<n, u>>]
    BY <1>2 DEF Only, Calls
  <2> QED BY <2>1 DEF Sound
<1> QED
  BY <1>1, <1>2

LEMMA RowFrame ==
  ASSUME RowThere, NEW m \in Messages, NEW v \in Vias, Only(<<m, v>>),
         \A n \in Messages : DOMAIN journal[n] \subseteq DOMAIN journal'[n],
         v = "resend" => call[<<m, v>>].pc # "idle" /\ call'[<<m, v>>].pc # "ack"
                         /\ call'[<<m, v>>].row = call[<<m, v>>].row
  PROVE  RowThere'
BY DEF RowThere, Only, Calls, Vias

LEMMA ArrivedFrame ==
  ASSUME Arrived, NEW m \in Messages, NEW v \in Vias, Only(<<m, v>>), CallsOK, CallsOK',
         GotGrows, StillMisread,
         spent'["misread"] = 0 => Has(m, call[<<m, v>>])'
  PROVE  Arrived'
<1> SUFFICES ASSUME spent'["misread"] = 0, NEW n \in Messages, NEW u \in Vias
             PROVE  Has(n, call[<<n, u>>])'
  BY DEF Arrived, Has
<1>1. CASE <<n, u>> = <<m, v>>
  BY <1>1
<1>2. CASE <<n, u>> # <<m, v>>
  <2>1. call'[<<n, u>>] = call[<<n, u>>] /\ call[<<n, u>>] \in CallRecords
    BY <1>2 DEF Only, Calls, CallsOK
  <2>2. Has(n, call[<<n, u>>])
    BY DEF Arrived, StillMisread
  <2>3. call[<<n, u>>].aim \subseteq Targets
    BY <2>1, FieldTypes
  <2> QED BY <2>1, <2>2, <2>3 DEF Has, GotGrows
<1> QED
  BY <1>1, <1>2

LEMMA SilentFrame ==
  ASSUME Silent, NEW m \in Messages, NEW v \in Vias, Only(<<m, v>>),
         UNCHANGED <<scenario, enabled>>, Mute(m, call'[<<m, v>>])
  PROVE  Silent'
<1> SUFFICES ASSUME NEW n \in Messages, NEW u \in Vias PROVE Mute(n, call[<<n, u>>])'
  BY DEF Silent, Mute, Off, Feature, payload
<1>1. CASE <<n, u>> = <<m, v>>
  BY <1>1 DEF Mute, Off, Feature, payload
<1>2. CASE <<n, u>> # <<m, v>>
  <2>1. call'[<<n, u>>] = call[<<n, u>>]
    BY <1>2 DEF Only, Calls
  <2> QED BY <2>1 DEF Silent, Mute, Off, Feature, payload
<1> QED
  BY <1>1, <1>2

LEMMA HoldsTypes ==
  \A k, t : Holds(k, t) \in {0, 1}
BY DEF Holds

LEMMA HeldFrame ==
  ASSUME NEW m \in Messages, NEW v \in Vias, Only(<<m, v>>), NEW t
  PROVE  /\ Held(m, t)' = Held(m, t) + Holds(call'[<<m, v>>], t) - Holds(call[<<m, v>>], t)
         /\ \A n \in Messages \ {m} : Held(n, t)' = Held(n, t)
<1>1. \A n \in Messages, u \in Vias : <<n, u>> # <<m, v>> => call'[<<n, u>>] = call[<<n, u>>]
  BY DEF Only, Calls
<1>2. \A n \in Messages, u \in Vias : Holds(call[<<n, u>>], t) \in {0, 1} /\ Holds(call'[<<n, u>>], t) \in {0, 1}
  BY HoldsTypes
<1> QED
  BY <1>1, <1>2 DEF Held, Vias

LEMMA RanTypes ==
  ASSUME JobsOK, NEW m \in Messages
  PROVE  Ran(m) \in Nat /\ stalls[m] \in Nat /\ tries[m] \in Nat
BY DeliveryAssumption DEF JobsOK, Ran, Runs, Extra

\* The count of the copies, when a call gives up what one of them may still be.
LEMMA AccountedFrame ==
  ASSUME Accounted, Typed, Typed', NEW m \in Messages, NEW v \in Vias, Only(<<m, v>>),
         UNCHANGED <<job, tries, stalls, doubled>>, spent'["resend"] >= spent["resend"],
         \A n \in Messages, t \in Targets : n # m =>
           got'[n][t] = got[n][t] /\ late'[n][t] = late[n][t],
         \A t \in Targets :
           got'[m][t] + late'[m][t] + Holds(call'[<<m, v>>], t)
             <= got[m][t] + late[m][t] + Holds(call[<<m, v>>], t)
  PROVE  Accounted'
<1> SUFFICES ASSUME NEW n \in Messages, NEW t \in Targets
             PROVE  (got[n][t] + late[n][t] + Held(n, t) <= Ran(n) + stalls[n] + spent["resend"])'
  BY DEF Accounted
<1>1. Ran(n)' = Ran(n) /\ stalls'[n] = stalls[n]
  BY DEF Ran, Runs, Extra
<1>2. got[n][t] + late[n][t] + Held(n, t) <= Ran(n) + stalls[n] + spent["resend"]
  BY DEF Accounted
<1>3. Ran(n) \in Nat /\ stalls[n] \in Nat
  BY RanTypes DEF Typed
<1>4. got[n][t] \in Nat /\ late[n][t] \in Nat /\ got'[n][t] \in Nat /\ late'[n][t] \in Nat
  BY DEF Typed, CountsOK
<1>5. spent["resend"] \in Nat /\ spent'["resend"] \in Nat
  BY DEF Typed, HistoryOK, Kinds
<1>6. Holds(call[<<m, v>>], t) \in {0, 1} /\ Holds(call'[<<m, v>>], t) \in {0, 1}
  BY HoldsTypes
<1>7. Held(n, t) \in Nat
  BY HoldsTypes DEF Held
<1>8. CASE n = m
  <2>1. Held(n, t)' = Held(n, t) + Holds(call'[<<m, v>>], t) - Holds(call[<<m, v>>], t)
    BY <1>8, HeldFrame
  <2>2. got'[n][t] + late'[n][t] + Holds(call'[<<m, v>>], t)
          <= got[n][t] + late[n][t] + Holds(call[<<m, v>>], t)
    BY <1>8
  <2> QED BY <2>1, <2>2, <1>1, <1>2, <1>3, <1>4, <1>5, <1>6, <1>7
<1>9. CASE n # m
  <2>1. Held(n, t)' = Held(n, t)
    BY <1>9, HeldFrame
  <2> QED BY <2>1, <1>9, <1>1, <1>2, <1>3, <1>4, <1>5, <1>7
<1> QED
  BY <1>8, <1>9

LEMMA WrittenFrame ==
  ASSUME Written, NEW m \in Messages, NEW v \in Vias, Only(<<m, v>>),
         UNCHANGED job, hit \subseteq hit',
         \A n \in Messages : journal[n] # <<>> => journal'[n] # <<>>,
         \A n \in Messages : job[n] \in {"none", "skipped"} => journal'[n] = journal[n],
         v # "resend" /\ call'[<<m, v>>].pc = "ack" =>
           journal'[m] # <<>> \/ m \in hit'
  PROVE  Written'
<1> SUFFICES ASSUME NEW n \in Messages
             PROVE  /\ job[n] \in {"none", "skipped"} => journal'[n] = <<>>
                    /\ \A u \in {"worker", "direct"} :
                         call'[<<n, u>>].pc = "ack" => journal'[n] # <<>> \/ n \in hit'
  BY DEF Written
<1>1. job[n] \in {"none", "skipped"} => journal'[n] = <<>>
  BY DEF Written
<1>2. ASSUME NEW u \in {"worker", "direct"}, call'[<<n, u>>].pc = "ack"
      PROVE  journal'[n] # <<>> \/ n \in hit'
  <2>1. CASE <<n, u>> = <<m, v>>
    BY <2>1, <1>2
  <2>2. CASE <<n, u>> # <<m, v>>
    <3>1. call'[<<n, u>>] = call[<<n, u>>]
      BY <2>2 DEF Only, Calls, Vias
    <3> QED BY <3>1, <1>2 DEF Written
  <2> QED
    BY <2>1, <2>2
<1> QED
  BY <1>1, <1>2

LEMMA SentFrame ==
  ASSUME SentMeansDelivered, LinesOK, UNCHANGED journal, GotGrows, StillMisread
  PROVE  SentMeansDelivered'
<1> SUFFICES ASSUME spent'["misread"] = 0, NEW m \in Messages, NEW i \in DOMAIN journal[m],
                    journal[m][i].status = "sent"
             PROVE  journal[m][i].aim # {} /\ \A t \in journal[m][i].aim : got'[m][t] > 0
  BY DEF SentMeansDelivered
<1>1. journal[m][i].aim # {} /\ \A t \in journal[m][i].aim : got[m][t] > 0
  BY DEF SentMeansDelivered, StillMisread
<1>2. journal[m][i] \in Lines
  BY DEF LinesOK
<1>3. journal[m][i].aim \subseteq Targets
  BY <1>2 DEF Lines
<1> QED
  BY <1>1, <1>3 DEF GotGrows

-----------------------------------------------------------------------------
(* The initial states                                                      *)

LEMMA InitIInv ==
  ASSUME Init PROVE IInv
<1>1. Typed
  <2>1. SettingsOK
    BY DEF Init, SettingsOK, Targets
  <2>2. JobsOK
    BY DEF Init, JobsOK, JobStates
  <2>3. CallsOK
    BY IdleFields DEF Init, CallsOK
  <2>4. CountsOK
    BY DEF Init, CountsOK
  <2>5. LinesOK
    BY DEF Init, LinesOK
  <2>6. HistoryOK
    BY DEF Init, HistoryOK
  <2> QED BY <2>1, <2>2, <2>3, <2>4, <2>5, <2>6 DEF Typed
<1>2. \A m \in Messages, v \in Vias : call[<<m, v>>] = Idle
  BY DEF Init, Calls
<1>3. Manned
  BY <1>2, IdleFields DEF Init, Manned, WorkerOn, DirectOn, Vias
<1>4. Sound
  BY <1>2, IdleFields DEF Sound, CallSound
<1>5. RowThere
  BY <1>2, IdleFields DEF RowThere, Vias
<1>6. Arrived
  BY <1>2, IdleFields DEF Arrived, Has
<1>7. Silent
  BY <1>2, IdleFields DEF Silent, Mute
<1>8. Tried
  BY DeliveryAssumption DEF Init, Tried
<1>9. Accounted
  <2> SUFFICES ASSUME NEW m \in Messages, NEW t \in Targets
               PROVE  got[m][t] + late[m][t] + Held(m, t) <= Ran(m) + stalls[m] + spent["resend"]
    BY DEF Accounted
  <2>1. Held(m, t) = 0
    BY <1>2, IdleFields DEF Held, Holds, Vias
  <2>2. got[m][t] = 0 /\ late[m][t] = 0 /\ stalls[m] = 0 /\ spent["resend"] = 0 /\ Ran(m) = 0
    BY DEF Init, Ran, Runs, Extra, Kinds
  <2> QED BY <2>1, <2>2
<1>10. Written
  BY <1>2, IdleFields DEF Init, Written, Vias
<1>11. SentMeansDelivered
  BY DEF Init, SentMeansDelivered
<1> QED
  BY <1>1, <1>3, <1>4, <1>5, <1>6, <1>7, <1>8, <1>9, <1>10, <1>11 DEF IInv

-----------------------------------------------------------------------------
(* The steps that begin                                                    *)

\* A message is skipped, or enters the queue.
LEMMA HandedKeeps ==
  ASSUME IInv, NEW m \in Messages, job[m] = "none", NEW j \in {"skipped", "waiting"},
         job' = [job EXCEPT ![m] = j],
         UNCHANGED <<settings, tries, stalls, doubled, call, late, got, journal, hit, spent>>
  PROVE  IInv'
<1>1. Typed'
  BY DEF IInv, Typed, SettingsOK, JobsOK, CallsOK, CountsOK, LinesOK, HistoryOK, JobStates, settings
<1>2. \A n \in Messages : job'[n] = IF n = m THEN j ELSE job[n]
  BY DEF IInv, Typed, JobsOK
<1>3. Manned'
  BY <1>2 DEF IInv, Manned, WorkerOn, DirectOn
<1>4. Sound' /\ RowThere' /\ Arrived' /\ Silent' /\ SentMeansDelivered'
  BY DEF IInv, Sound, CallSound, RowThere, Arrived, Has, Silent, Mute, Off, payload, Feature,
         SentMeansDelivered, settings
<1>5. Tried'
  BY <1>2 DEF IInv, Tried
<1>6. Accounted'
  <2> SUFFICES ASSUME NEW n \in Messages, NEW t \in Targets
               PROVE  (got[n][t] + late[n][t] + Held(n, t) <= Ran(n) + stalls[n] + spent["resend"])'
    BY DEF Accounted
  <2>0. Held(n, t)' = Held(n, t)
    BY DEF Held, Holds
  <2>1. Ran(n) <= Ran(n)' /\ Ran(n)' \in Nat
    <3>1. Ran(n) \in Nat /\ tries[n] \in Nat
      BY RanTypes DEF IInv, Typed
    <3>2. CASE n = m
      <4>1. Runs(n) = 0 /\ Runs(n)' \in {0, tries[n]} /\ Extra(n)' = Extra(n) /\ Extra(n) \in Nat
        BY <1>2, <3>2 DEF Runs, Extra
      <4> QED BY <3>1, <4>1 DEF Ran
    <3>3. CASE n # m
      <4>1. Ran(n)' = Ran(n)
        BY <1>2, <3>3 DEF Ran, Runs, Extra
      <4> QED BY <3>1, <4>1
    <3> QED BY <3>2, <3>3
  <2>2. got[n][t] + late[n][t] + Held(n, t) <= Ran(n) + stalls[n] + spent["resend"]
    BY DEF IInv, Accounted
  <2>3. got[n][t] \in Nat /\ late[n][t] \in Nat /\ spent["resend"] \in Nat
    BY DEF IInv, Typed, CountsOK, HistoryOK, Kinds
  <2>4. Held(n, t) \in Nat
    BY HoldsTypes DEF Held
  <2>5. stalls[n] \in Nat
    BY RanTypes DEF IInv, Typed
  <2> QED BY <2>0, <2>1, <2>2, <2>3, <2>4, <2>5, RanTypes DEF IInv, Typed
<1>7. Written'
  BY <1>2 DEF IInv, Written
<1> QED
  BY <1>1, <1>3, <1>4, <1>5, <1>6, <1>7 DEF IInv

\* A run of deliver begins: a direct one, one of the worker or one by hand.
LEMMA BeginKeeps ==
  ASSUME IInv, NEW m \in Messages, NEW v \in Vias, NEW r \in Nat,
         call[<<m, v>>].pc = "idle",
         call' = [call EXCEPT ![<<m, v>>] = Started(m, r)],
         UNCHANGED <<settings, tries, stalls, late, got, journal, hit>>,
         \/ v = "direct" /\ job[m] = "none" /\ job' = [job EXCEPT ![m] = "direct"]
         \/ v = "direct" /\ job[m] = "none" /\ job' = [job EXCEPT ![m] = "waiting"]
         \/ v = "worker" /\ job[m] = "waiting" /\ job' = [job EXCEPT ![m] = "active"]
         \/ v = "resend" /\ UNCHANGED job /\ r \in DOMAIN journal[m],
         doubled' = IF job[m] = "none" /\ job'[m] = "waiting" THEN doubled \cup {m} ELSE doubled,
         IF v = "resend" THEN Spend("resend") ELSE UNCHANGED spent
  PROVE  IInv'
<1> DEFINE c == <<m, v>>
<1>0. c \in Calls
  BY DEF Calls
<1>a. /\ spent' \in [Kinds -> Nat] /\ StillMisread
      /\ spent'["resend"] = IF v = "resend" THEN spent["resend"] + 1 ELSE spent["resend"]
  BY DEF IInv, Typed, HistoryOK, Spend, Kinds, StillMisread
<1>b. Started(m, r) \in CallRecords
  BY StartedFields
<1>c. CallsOK' /\ Only(c) /\ call'[c] = Started(m, r)
  BY <1>0, <1>b, BecomeFields DEF IInv, Typed
<1>d. /\ call'[c].pc = "start" /\ call'[c].aim = {} /\ call'[c].wait = {} /\ call'[c].err = "none"
      /\ call'[c].row = r /\ (call'[c].off => Off(m))
  BY <1>c, StartedFields
<1>e. GotGrows
  BY DEF GotGrows
<1>1. Typed'
  BY <1>a, <1>c
  DEF IInv, Typed, SettingsOK, JobsOK, CountsOK, LinesOK, HistoryOK, JobStates, settings
<1>2. /\ \A n \in Messages : n # m \/ v = "resend" => job'[n] = job[n]
      /\ \A n \in Messages \ {m} : n \in doubled' <=> n \in doubled
      /\ v = "resend" => doubled' = doubled
      /\ v = "worker" => job[m] = "waiting" /\ job'[m] = "active" /\ doubled' = doubled
      /\ v = "direct" => /\ job[m] = "none"
                         /\ \/ job'[m] = "direct" /\ doubled' = doubled
                            \/ job'[m] = "waiting" /\ m \in doubled'
  BY DEF IInv, Typed, JobsOK, Vias, Manned
<1>3. Manned'
  <2>1. \A n \in Messages, u \in Vias : <<n, u>> # <<m, v>> => call'[<<n, u>>] = call[<<n, u>>]
    BY <1>c DEF Only, Calls
  <2> SUFFICES ASSUME NEW n \in Messages
               PROVE  /\ call'[<<n, "worker">>].pc # "idle" <=> job'[n] = "active"
                      /\ job'[n] = "direct" => call'[<<n, "direct">>].pc # "idle"
                      /\ call'[<<n, "direct">>].pc # "idle" => job'[n] = "direct" \/ n \in doubled'
                      /\ n \in doubled' => job'[n] \notin {"none", "skipped", "direct"}
    BY DEF Manned, WorkerOn, DirectOn
  <2>2. /\ call[<<n, "worker">>].pc # "idle" <=> job[n] = "active"
        /\ job[n] = "direct" => call[<<n, "direct">>].pc # "idle"
        /\ call[<<n, "direct">>].pc # "idle" => job[n] = "direct" \/ n \in doubled
        /\ n \in doubled => job[n] \notin {"none", "skipped", "direct"}
    BY DEF IInv, Manned, WorkerOn, DirectOn
  <2>3. CASE n # m \/ v = "resend"
    <3>1. /\ call'[<<n, "worker">>] = call[<<n, "worker">>]
          /\ call'[<<n, "direct">>] = call[<<n, "direct">>]
      BY <2>1, <2>3 DEF Vias
    <3>2. job'[n] = job[n] /\ (n \in doubled' <=> n \in doubled)
      BY <1>2, <2>3
    <3> QED BY <2>2, <3>1, <3>2
  <2>4. CASE n = m /\ v = "direct"
    <3>1. call'[<<n, "worker">>] = call[<<n, "worker">>] /\ call'[<<n, "direct">>].pc = "start"
      BY <2>1, <2>4, <1>d DEF Vias
    <3>2. /\ job[n] = "none" /\ (n \in doubled' => n \in doubled \/ job'[n] = "waiting")
          /\ job'[n] = "direct" \/ (job'[n] = "waiting" /\ n \in doubled')
      BY <1>2, <2>4
    <3> QED BY <2>2, <3>1, <3>2
  <2>5. CASE n = m /\ v = "worker"
    <3>1. call'[<<n, "direct">>] = call[<<n, "direct">>] /\ call'[<<n, "worker">>].pc = "start"
      BY <2>1, <2>5, <1>d DEF Vias
    <3>2. job[n] = "waiting" /\ job'[n] = "active" /\ doubled' = doubled
      BY <1>2, <2>5
    <3> QED BY <2>2, <3>1, <3>2
  <2> QED BY <2>3, <2>4, <2>5 DEF Vias
<1>4. Sound'
  <2>1. CallSound(call'[c])
    BY <1>d DEF CallSound
  <2> QED BY <1>c, <2>1, SoundFrame DEF IInv
<1>5. RowThere'
  <2>1. \A n \in Messages : n # m \/ v # "resend" => call'[<<n, "resend">>] = call[<<n, "resend">>]
    BY <1>c DEF Only, Calls, Vias
  <2>2. v = "resend" => r \in DOMAIN journal[m]
    OBVIOUS
  <2> QED BY <2>1, <2>2, <1>d DEF IInv, RowThere
<1>6. Arrived'
  <2>1. Has(m, call[c])'
    BY <1>d DEF Has
  <2> QED BY <1>1, <1>a, <1>c, <1>e, <2>1, ArrivedFrame DEF IInv, Typed
<1>7. Silent'
  <2>1. Mute(m, call'[c])
    BY <1>d DEF Mute
  <2> QED BY <1>c, <2>1, SilentFrame DEF IInv, settings
<1>8. Tried'
  BY <1>2 DEF IInv, Tried, Vias
<1>9. Accounted'
  <2> SUFFICES ASSUME NEW n \in Messages, NEW t \in Targets
               PROVE  got[n][t] + late[n][t] + Held(n, t)' <= Ran(n)' + stalls[n] + spent'["resend"]
    BY DEF Accounted
  <2>1. got[n][t] + late[n][t] + Held(n, t) <= Ran(n) + stalls[n] + spent["resend"]
    BY DEF IInv, Accounted
  <2>2. got[n][t] \in Nat /\ late[n][t] \in Nat /\ spent["resend"] \in Nat
    BY DEF IInv, Typed, CountsOK, HistoryOK, Kinds
  <2>3. Held(n, t) \in Nat
    BY HoldsTypes DEF Held
  <2>4. Ran(n) \in Nat /\ stalls[n] \in Nat /\ tries[n] \in Nat
    BY RanTypes DEF IInv, Typed
  <2>5. CASE n = m
    <3>1. Held(m, t)' = Held(m, t) + Holds(call'[c], t) - Holds(call[c], t)
      BY <1>c, HeldFrame
    <3>2. Holds(call'[c], t) = 1 /\ Holds(call[c], t) = 0
      BY <1>d DEF Holds
    <3>3. Ran(m)' = IF v = "resend" THEN Ran(m) ELSE Ran(m) + 1
      <4>1. CASE v = "resend"
        BY <1>2, <4>1 DEF Ran, Runs, Extra
      <4>2. CASE v = "worker"
        BY <1>2, <2>4, <2>5, <4>2 DEF Ran, Runs, Extra
      <4>3. CASE v = "direct"
        <5>1. m \notin doubled /\ Runs(m) = 0 /\ Extra(m) = 0
          BY <1>2, <4>3 DEF IInv, Manned, Runs, Extra
        <5>2. tries[m] = 0
          BY <1>2, <4>3 DEF IInv, Tried
        <5>3. CASE job'[m] = "direct"
          <6>1. Runs(m)' = 1 /\ Extra(m)' = 0
            BY <1>2, <4>3, <5>1, <5>3 DEF Runs, Extra
          <6> QED BY <4>3, <5>1, <6>1 DEF Ran
        <5>4. CASE job'[m] = "waiting"
          <6>1. Runs(m)' = 0 /\ Extra(m)' = 1
            BY <1>2, <4>3, <5>2, <5>4 DEF Runs, Extra
          <6> QED BY <4>3, <5>1, <6>1 DEF Ran
        <5> QED BY <1>2, <4>3, <5>3, <5>4
      <4> QED BY <4>1, <4>2, <4>3 DEF Vias
    <3>4. Held(n, t)' = Held(n, t) + 1
      BY <3>1, <3>2, <2>3, <2>5
    <3>5. CASE v = "resend"
      <4>1. Ran(n)' = Ran(n) /\ spent'["resend"] = spent["resend"] + 1
        BY <3>3, <3>5, <1>a, <2>5
      <4> QED BY <3>4, <4>1, <2>1, <2>2, <2>3, <2>4
    <3>6. CASE v # "resend"
      <4>1. Ran(n)' = Ran(n) + 1 /\ spent'["resend"] = spent["resend"]
        BY <3>3, <3>6, <1>a, <2>5
      <4> QED BY <3>4, <4>1, <2>1, <2>2, <2>3, <2>4
    <3> QED BY <3>5, <3>6
  <2>6. CASE n # m
    <3>1. Held(n, t)' = Held(n, t)
      BY <1>c, HeldFrame, <2>6
    <3>2. Ran(n)' = Ran(n)
      BY <1>2, <2>6 DEF Ran, Runs, Extra
    <3> QED BY <3>1, <3>2, <1>a, <2>1, <2>2, <2>3, <2>4
  <2> QED BY <2>5, <2>6
<1>10. Written'
  <2>1. \A n \in Messages, u \in {"worker", "direct"} :
          call'[<<n, u>>].pc = "ack" => call[<<n, u>>].pc = "ack"
    BY <1>c, <1>d DEF Only, Calls, Vias
  <2> QED BY <2>1, <1>2 DEF IInv, Written, Vias
<1>11. SentMeansDelivered'
  BY <1>a, <1>e, SentFrame DEF IInv, Typed
<1> QED
  BY <1>1, <1>3, <1>4, <1>5, <1>6, <1>7, <1>8, <1>9, <1>10, <1>11 DEF IInv

-----------------------------------------------------------------------------
(* The steps of a call                                                     *)

\* A step that only asks, refuses or looks for the groups.
LEMMA AskKeeps ==
  ASSUME IInv, NEW m \in Messages, NEW v \in Vias, CallsOK', Only(<<m, v>>), Same(<<m, v>>),
         UNCHANGED <<settings, job, tries, stalls, doubled, late, got, journal, hit, spent>>,
         call[<<m, v>>].pc \in {"start", "groups"},
         call'[<<m, v>>].pc \in {"groups", "post", "journal"},
         CallSound(call'[<<m, v>>]), Mute(m, call'[<<m, v>>]), Has(m, call[<<m, v>>])'
  PROVE  IInv'
<1> DEFINE c == <<m, v>>
<1>a. GotGrows /\ StillMisread
  BY DEF GotGrows, StillMisread
<1>1. Typed'
  BY DEF IInv, Typed, SettingsOK, JobsOK, CountsOK, LinesOK, HistoryOK, settings
<1>2. Manned'
  BY MannedFrame DEF IInv
<1>3. Sound'
  BY SoundFrame DEF IInv
<1>4. RowThere'
  BY RowFrame DEF IInv, Same
<1>5. Arrived'
  BY <1>a, ArrivedFrame DEF IInv, Typed
<1>6. Silent'
  BY SilentFrame DEF IInv, settings
<1>7. Tried'
  BY DEF IInv, Tried
<1>8. Accounted'
  <2>1. \A t \in Targets : Holds(call[c], t) = 1 /\ Holds(call'[c], t) \in {0, 1}
    BY HoldsTypes DEF Holds
  <2>2. \A t \in Targets : got[m][t] \in Nat /\ late[m][t] \in Nat
    BY DEF IInv, Typed, CountsOK
  <2>3. \A t \in Targets : got'[m][t] + late'[m][t] + Holds(call'[c], t)
                             <= got[m][t] + late[m][t] + Holds(call[c], t)
    BY <2>1, <2>2
  <2>4. spent'["resend"] >= spent["resend"]
    BY DEF IInv, Typed, HistoryOK, Kinds
  <2> QED BY <1>1, <2>3, <2>4, AccountedFrame DEF IInv
<1>9. Written'
  BY WrittenFrame DEF IInv
<1>10. SentMeansDelivered'
  BY <1>a, SentFrame DEF IInv, Typed
<1> QED
  BY <1>1, <1>2, <1>3, <1>4, <1>5, <1>6, <1>7, <1>8, <1>9, <1>10 DEF IInv

\* What is known of a call of the invariant.
LEMMA CallKnown ==
  ASSUME IInv, NEW m \in Messages, NEW v \in Vias
  PROVE  /\ <<m, v>> \in Calls /\ <<m, v>>[1] = m /\ <<m, v>>[2] = v
         /\ call[<<m, v>>] \in CallRecords
         /\ CallSound(call[<<m, v>>]) /\ Mute(m, call[<<m, v>>])
         /\ (spent["misread"] = 0 => Has(m, call[<<m, v>>]))
BY DEF IInv, Typed, CallsOK, Calls, Sound, Silent, Arrived

\* The payload of a message.
LEMMA Payloads ==
  ASSUME Typed, NEW m \in Messages
  PROVE  /\ payload[m].numbers \in SUBSET Targets /\ payload[m].groups \in SUBSET Targets
         /\ payload[m].feature \in Features \cup {NoFeature}
<1>1. payload \in [Messages -> [numbers : SUBSET Numbers, groups : SUBSET Groups,
                                feature : Features \cup {NoFeature}]]
  BY DeliveryAssumption DEF Typed, SettingsOK, payload
<1> QED
  BY <1>1 DEF Targets

LEMMA AddressKeeps ==
  ASSUME IInv, NEW m \in Messages, NEW v \in Vias, Address(<<m, v>>)
  PROVE  IInv'
<1> DEFINE c == <<m, v>>
<1> DEFINE p == payload[m]
<1>1. /\ c \in Calls /\ c[1] = m /\ call[c] \in CallRecords
      /\ CallSound(call[c]) /\ Mute(m, call[c]) /\ call[c].pc = "start"
      /\ UNCHANGED <<settings, job, tries, stalls, doubled, late, got, journal, hit, spent>>
      /\ CallsOK
  BY CallKnown DEF Address, IInv, Typed
<1>2. call[c].aim = {} /\ call[c].wait = {} /\ call[c].err = "none"
  BY <1>1, FieldTypes DEF CallSound
<1>3. p.numbers \in SUBSET Targets /\ p.groups \in SUBSET Targets
  BY Payloads DEF IInv
<1>4. Mute(m, call'[c]) <=>
        /\ call'[c].off => /\ Off(m) /\ call'[c].pc # "groups"
                           /\ (p.numbers = {} => call'[c].aim = {})
        /\ call'[c].pc = "groups" => p.feature # NoFeature
  BY DEF Mute
<1>5. \/ \E e \in {"unconfigured", "off", "nogroup"} : Refuse(c, e)
      \/ p.numbers # {} /\ Post(c, p.numbers)
      \/ ~Off(m) /\ p.groups # {} /\ Post(c, p.groups)
      \/ ~Off(m) /\ p.feature # NoFeature /\ call' = [call EXCEPT ![c].pc = "groups"]
  BY <1>1 DEF Address
<1>6. ASSUME NEW e \in {"unconfigured", "off", "nogroup"}, Refuse(c, e) PROVE IInv'
  <2>1. e \in Errors /\ e # "none"
    BY DEF Errors, Retryable
  <2>2. /\ CallsOK' /\ Only(c) /\ Same(c) /\ call'[c].pc = "journal" /\ call'[c].err = e
        /\ call'[c].aim = {} /\ call'[c].wait = {}
    BY <1>1, <1>2, <1>6, <2>1, RefuseFields
  <2>3. CallSound(call'[c]) /\ Has(m, call[c])'
    BY <2>1, <2>2 DEF CallSound, Has
  <2>4. Mute(m, call'[c])
    BY <1>1, <1>4, <2>2 DEF Mute, Same
  <2> QED BY <1>1, <2>2, <2>3, <2>4, AskKeeps
<1>7. ASSUME NEW ts \in SUBSET Targets, ts # {}, Post(c, ts), ~Off(m) \/ p.numbers # {} PROVE IInv'
  <2>2. /\ CallsOK' /\ Only(c) /\ Same(c) /\ call'[c].pc = "post" /\ call'[c].err = "none"
        /\ call'[c].aim = ts /\ call'[c].wait = ts
    BY <1>1, <1>2, <1>7, PostFields
  <2>3. CallSound(call'[c]) /\ Has(m, call[c])'
    BY <1>7, <2>2 DEF CallSound, Has
  <2>4. Mute(m, call'[c])
    BY <1>1, <1>4, <1>7, <2>2 DEF Mute, Same
  <2> QED BY <1>1, <2>2, <2>3, <2>4, AskKeeps
<1>8. ASSUME ~Off(m), p.feature # NoFeature, call' = [call EXCEPT ![c].pc = "groups"] PROVE IInv'
  <2>2. /\ CallsOK' /\ Only(c) /\ Same(c) /\ call'[c].pc = "groups" /\ call'[c].err = "none"
        /\ call'[c].aim = {} /\ call'[c].wait = {}
    BY <1>1, <1>2, <1>8, GoFields
  <2>3. CallSound(call'[c]) /\ Has(m, call[c])'
    BY <2>2 DEF CallSound, Has
  <2>4. Mute(m, call'[c])
    BY <1>1, <1>4, <1>8, <2>2 DEF Mute, Same
  <2> QED BY <1>1, <2>2, <2>3, <2>4, AskKeeps
<1> QED
  BY <1>3, <1>5, <1>6, <1>7, <1>8

LEMMA FindGroupsKeeps ==
  ASSUME IInv, NEW m \in Messages, NEW v \in Vias, FindGroups(<<m, v>>)
  PROVE  IInv'
<1> DEFINE c == <<m, v>>
<1> DEFINE gs == assigned[Feature(m)]
<1>1. /\ c \in Calls /\ c[1] = m /\ call[c] \in CallRecords
      /\ CallSound(call[c]) /\ Mute(m, call[c]) /\ call[c].pc = "groups"
      /\ UNCHANGED <<settings, job, tries, stalls, doubled, late, got, journal, hit, spent>>
      /\ CallsOK
  BY CallKnown DEF FindGroups, IInv, Typed
<1>2. call[c].aim = {} /\ call[c].wait = {} /\ call[c].err = "none" /\ ~call[c].off
  BY <1>1, FieldTypes DEF CallSound, Mute
<1>3. gs \in SUBSET Targets
  <2>1. Feature(m) \in Features
    BY <1>1, Payloads DEF IInv, Mute, Feature
  <2> QED BY <2>1 DEF IInv, Typed, SettingsOK, Targets
<1>5. \/ Refuse(c, "nogroup")
      \/ gs # {} /\ Post(c, gs)
  BY <1>1 DEF FindGroups
<1>6. ASSUME Refuse(c, "nogroup") PROVE IInv'
  <2>1. "nogroup" \in Errors
    BY DEF Errors, Retryable
  <2>2. /\ CallsOK' /\ Only(c) /\ Same(c) /\ call'[c].pc = "journal" /\ call'[c].err = "nogroup"
        /\ call'[c].aim = {} /\ call'[c].wait = {}
    BY <1>1, <1>2, <1>6, <2>1, RefuseFields
  <2>3. CallSound(call'[c]) /\ Has(m, call[c])'
    BY <2>1, <2>2 DEF CallSound, Has
  <2>4. Mute(m, call'[c])
    BY <1>2, <2>2 DEF Mute, Same
  <2> QED BY <1>1, <2>2, <2>3, <2>4, AskKeeps
<1>7. ASSUME gs # {}, Post(c, gs) PROVE IInv'
  <2>2. /\ CallsOK' /\ Only(c) /\ Same(c) /\ call'[c].pc = "post" /\ call'[c].err = "none"
        /\ call'[c].aim = gs /\ call'[c].wait = gs
    BY <1>1, <1>2, <1>3, <1>7, PostFields
  <2>3. CallSound(call'[c]) /\ Has(m, call[c])'
    BY <1>7, <2>2 DEF CallSound, Has
  <2>4. Mute(m, call'[c])
    BY <1>2, <2>2 DEF Mute, Same
  <2> QED BY <1>1, <2>2, <2>3, <2>4, AskKeeps
<1> QED
  BY <1>5, <1>6, <1>7

\* What has come in grows, and the lines of the journal stay true.
LEMMA AnswerKeeps ==
  ASSUME IInv, NEW m \in Messages, NEW v \in Vias, NEW t \in call[<<m, v>>].wait,
         NEW delivered \in BOOLEAN, NEW e \in Errors, Answer(<<m, v>>, t, delivered, e),
         \/ UNCHANGED spent /\ (e = "none" => delivered)
         \/ ~delivered /\ Spend("misread")
  PROVE  IInv'
<1> DEFINE c == <<m, v>>
<1> DEFINE left == call[c].wait \ {t}
<1>1. /\ c \in Calls /\ c[1] = m /\ call[c] \in CallRecords
      /\ CallSound(call[c]) /\ Mute(m, call[c]) /\ call[c].pc = "post"
      /\ UNCHANGED <<settings, job, tries, stalls, doubled, journal, hit>>
      /\ CallsOK
      /\ (spent["misread"] = 0 => Has(m, call[c]))
  BY CallKnown DEF Answer, IInv, Typed
<1>2. call[c].aim # {} /\ call[c].err = "none" /\ call[c].wait \subseteq call[c].aim /\ t \in Targets
      /\ call[c].aim \subseteq Targets
  BY <1>1, FieldTypes DEF CallSound
<1>3. /\ CallsOK' /\ Only(c) /\ Same(c) /\ call'[c].err = e /\ call'[c].aim = call[c].aim
      /\ call'[c].wait = IF e = "none" THEN left ELSE {}
      /\ call'[c].pc = IF e = "none" /\ left # {} THEN "post" ELSE "journal"
  BY <1>1, AnswerFields
<1>4. \A n \in Messages, u \in Targets :
        got'[n][u] = IF n = m /\ u = t /\ delivered THEN got[n][u] + 1 ELSE got[n][u]
  BY <1>1, <1>2 DEF Answer, Received, IInv, Typed, CountsOK
<1>5. \A n \in Messages, u \in Targets :
        late'[n][u] = IF n = m /\ u \in left /\ e # "none" THEN late[n][u] + 1 ELSE late[n][u]
  BY <1>1, <1>2 DEF Answer, IInv, Typed, CountsOK
<1>6. CountsOK'
  <2>1. got' \in [Messages -> [Targets -> Nat]]
    <3>1. got \in [Messages -> [Targets -> Nat]]
      BY DEF IInv, Typed, CountsOK
    <3>2. CASE delivered
      <4>1. got' = [got EXCEPT ![m][t] = @ + 1]
        BY <1>1, <3>2 DEF Answer, Received
      <4> QED BY <3>1, <4>1, <1>2
    <3>3. CASE ~delivered
      BY <3>1, <3>3 DEF Answer
    <3> QED BY <3>2, <3>3
  <2>2. late' \in [Messages -> [Targets -> Nat]]
    <3>1. \A n \in Messages : late[n] \in [Targets -> Nat]
      BY DEF IInv, Typed, CountsOK
    <3>2. [u \in Targets |-> late[m][u] + IF u \in left THEN 1 ELSE 0] \in [Targets -> Nat]
      BY <3>1
    <3>3. CASE e = "none"
      BY <3>3 DEF Answer, IInv, Typed, CountsOK
    <3>4. CASE e # "none"
      <4>1. late' = [late EXCEPT ![m] = [u \in Targets |-> late[m][u] + IF u \in left THEN 1 ELSE 0]]
        BY <1>1, <3>4 DEF Answer
      <4> QED BY <4>1, <3>2 DEF IInv, Typed, CountsOK
    <3> QED BY <3>3, <3>4
  <2> QED BY <2>1, <2>2 DEF CountsOK
<1>7. /\ spent' \in [Kinds -> Nat] /\ spent'["resend"] = spent["resend"] /\ StillMisread
      /\ (spent'["misread"] = 0 => UNCHANGED spent)
  BY DEF IInv, Typed, HistoryOK, Spend, Kinds, StillMisread
<1>8. GotGrows
  BY <1>4 DEF GotGrows, IInv, Typed, CountsOK
<1>9. Typed'
  BY <1>1, <1>3, <1>6, <1>7
  DEF IInv, Typed, SettingsOK, JobsOK, LinesOK, HistoryOK, settings
<1>10. Manned'
  BY <1>1, <1>3, MannedFrame DEF IInv
<1>11. Sound'
  <2>1. CallSound(call'[c])
    BY <1>1, <1>2, <1>3 DEF CallSound
  <2> QED BY <1>3, <2>1, SoundFrame DEF IInv
<1>12. RowThere'
  BY <1>1, <1>3, RowFrame DEF IInv, Same
<1>13. Arrived'
  <2>1. ASSUME spent'["misread"] = 0 PROVE Has(m, call[c])'
    <3> SUFFICES ASSUME e = "none", NEW u \in call[c].aim \ left PROVE got'[m][u] > 0
      BY <1>3 DEF Has
    <3>1. delivered /\ Has(m, call[c]) /\ u \in Targets
      BY <1>1, <1>2, <1>7, <2>1 DEF Spend, Kinds, IInv, Typed, HistoryOK
    <3>2. CASE u = t
      BY <3>1, <3>2, <1>4 DEF IInv, Typed, CountsOK
    <3>3. CASE u # t
      BY <3>1, <3>3, <1>1, <1>2, <1>4 DEF Has
    <3> QED BY <3>2, <3>3
  <2> QED BY <1>3, <1>7, <1>8, <1>9, <2>1, ArrivedFrame DEF IInv, Typed
<1>14. Silent'
  <2>1. Mute(m, call'[c])
    BY <1>1, <1>3 DEF Mute, Same
  <2> QED BY <1>1, <1>3, <2>1, SilentFrame DEF IInv, settings
<1>15. Tried'
  BY <1>1 DEF IInv, Tried
<1>16. Accounted'
  <2>1. ASSUME NEW u \in Targets
        PROVE  got'[m][u] + late'[m][u] + Holds(call'[c], u)
                 <= got[m][u] + late[m][u] + Holds(call[c], u)
    <3>1. got[m][u] \in Nat /\ late[m][u] \in Nat
      BY DEF IInv, Typed, CountsOK
    <3>2. CASE u = t
      <4>1. Holds(call[c], u) = 1 /\ Holds(call'[c], u) = 0
        BY <1>1, <1>3, <3>2 DEF Holds
      <4>2. got'[m][u] <= got[m][u] + 1 /\ late'[m][u] = late[m][u] /\ got'[m][u] \in Nat
        BY <1>4, <1>5, <3>1, <3>2
      <4> QED BY <3>1, <4>1, <4>2
    <3>3. CASE u # t /\ e = "none"
      <4>1. Holds(call[c], u) = Holds(call'[c], u)
        BY <1>1, <1>3, <3>3 DEF Holds
      <4>2. got'[m][u] = got[m][u] /\ late'[m][u] = late[m][u]
        BY <1>4, <1>5, <3>3
      <4> QED BY <3>1, <4>1, <4>2, HoldsTypes
    <3>4. CASE u # t /\ e # "none"
      <4>1. Holds(call'[c], u) = 0 /\ Holds(call[c], u) = IF u \in left THEN 1 ELSE 0
        BY <1>1, <1>3, <3>4 DEF Holds
      <4>2. got'[m][u] = got[m][u] /\ late'[m][u] = IF u \in left THEN late[m][u] + 1 ELSE late[m][u]
        BY <1>4, <1>5, <3>4
      <4> QED BY <3>1, <4>1, <4>2
    <3> QED BY <3>2, <3>3, <3>4
  <2>2. \A n \in Messages, u \in Targets : n # m =>
          got'[n][u] = got[n][u] /\ late'[n][u] = late[n][u]
    BY <1>4, <1>5
  <2>3. spent'["resend"] >= spent["resend"]
    BY <1>7 DEF IInv, Typed, HistoryOK, Kinds
  <2> QED BY <1>1, <1>3, <1>9, <2>1, <2>2, <2>3, AccountedFrame DEF IInv
<1>17. Written'
  BY <1>1, <1>3, WrittenFrame DEF IInv
<1>18. SentMeansDelivered'
  BY <1>1, <1>7, <1>8, SentFrame DEF IInv, Typed
<1> QED
  BY <1>9, <1>10, <1>11, <1>12, <1>13, <1>14, <1>15, <1>16, <1>17, <1>18 DEF IInv

\* A call whose attempt failed reaches its target after all.
LEMMA LateAnswerKeeps ==
  ASSUME IInv, NEW m \in Messages, NEW t \in Targets, LateAnswer(m, t)
  PROVE  IInv'
<1>1. /\ \A n \in Messages, u \in Targets :
           /\ got'[n][u] = IF n = m /\ u = t THEN got[n][u] + 1 ELSE got[n][u]
           /\ late'[n][u] = IF n = m /\ u = t THEN late[n][u] - 1 ELSE late[n][u]
      /\ late[m][t] > 0 /\ UNCHANGED <<settings, job, tries, stalls, doubled, call, journal, hit, spent>>
      /\ CountsOK'
  BY DEF LateAnswer, Received, IInv, Typed, CountsOK
<1>2. GotGrows /\ StillMisread
  BY <1>1 DEF GotGrows, StillMisread, IInv, Typed, CountsOK
<1>3. Typed'
  BY <1>1 DEF IInv, Typed, SettingsOK, JobsOK, CallsOK, LinesOK, HistoryOK, settings
<1>4. Manned' /\ RowThere' /\ Tried' /\ Written'
  BY <1>1 DEF IInv, Manned, WorkerOn, DirectOn, RowThere, Tried, Written
<1>5. Sound' /\ Silent'
  BY <1>1 DEF IInv, Sound, CallSound, Silent, Mute, Off, payload, Feature, settings
<1>6. Arrived'
  <2> SUFFICES ASSUME spent["misread"] = 0, NEW n \in Messages, NEW u \in Vias
               PROVE  Has(n, call[<<n, u>>])'
    BY <1>1 DEF Arrived
  <2>1. Has(n, call[<<n, u>>]) /\ call[<<n, u>>] \in CallRecords
    BY CallKnown
  <2>2. call[<<n, u>>].aim \subseteq Targets
    BY <2>1, FieldTypes
  <2> QED BY <2>1, <2>2, <1>1, <1>2 DEF Has, GotGrows
<1>7. Accounted'
  <2> SUFFICES ASSUME NEW n \in Messages, NEW u \in Targets
               PROVE  (got[n][u] + late[n][u] + Held(n, u) <= Ran(n) + stalls[n] + spent["resend"])'
    BY DEF Accounted
  <2>1. got[n][u] + late[n][u] + Held(n, u) <= Ran(n) + stalls[n] + spent["resend"]
    BY DEF IInv, Accounted
  <2>2. Held(n, u)' = Held(n, u) /\ Ran(n)' = Ran(n) /\ Held(n, u) \in Nat
    BY <1>1, HoldsTypes DEF Held, Ran, Runs, Extra, Holds
  <2>3. got[n][u] \in Nat /\ late[n][u] \in Nat
    BY DEF IInv, Typed, CountsOK
  <2>4. got'[n][u] + late'[n][u] = got[n][u] + late[n][u]
    BY <1>1, <2>3
  <2> QED BY <1>1, <2>1, <2>2, <2>4
<1>8. SentMeansDelivered'
  BY <1>1, <1>2, SentFrame DEF IInv, Typed
<1> QED
  BY <1>3, <1>4, <1>5, <1>6, <1>7, <1>8 DEF IInv

-----------------------------------------------------------------------------
(* The steps that write a line, and end a call                             *)

\* A line more.
LEMMA Appended ==
  ASSUME NEW S, NEW q \in Seq(S), NEW x \in S
  PROVE  /\ Append(q, x) \in Seq(S) /\ Append(q, x) # <<>>
         /\ DOMAIN q \subseteq DOMAIN Append(q, x)
         /\ \A i \in DOMAIN Append(q, x) :
              (i \in DOMAIN q /\ Append(q, x)[i] = q[i]) \/ Append(q, x)[i] = x
OBVIOUS

\* deliver ends: with its line, or without it when the write failed.
LEMMA LogKeeps ==
  ASSUME IInv, NEW m \in Messages, NEW v \in Vias, Log(<<m, v>>) \/ LogFails(<<m, v>>)
  PROVE  IInv'
<1> DEFINE c == <<m, v>>
<1>1. /\ c \in Calls /\ c[1] = m /\ c[2] = v /\ v # "resend"
      /\ call[c] \in CallRecords /\ CallsOK
      /\ CallSound(call[c]) /\ Mute(m, call[c]) /\ call[c].pc = "journal"
      /\ UNCHANGED <<settings, job, tries, stalls, doubled, late, got>>
      /\ (spent["misread"] = 0 => Has(m, call[c]))
      /\ call' = [call EXCEPT ![c].pc = "ack"]
  BY CallKnown DEF Log, LogFails, IInv, Typed
<1>2. /\ CallsOK' /\ Only(c) /\ Same(c) /\ call'[c].pc = "ack" /\ call'[c].err = call[c].err
      /\ call'[c].aim = call[c].aim /\ call'[c].wait = call[c].wait
  BY <1>1, GoFields
<1>3. /\ spent' \in [Kinds -> Nat] /\ spent'["resend"] = spent["resend"]
      /\ spent'["misread"] = spent["misread"] /\ StillMisread /\ GotGrows
      /\ hit' \in SUBSET Messages /\ hit \subseteq hit'
  BY <1>1 DEF Log, LogFails, IInv, Typed, HistoryOK, Spend, Kinds, StillMisread, GotGrows
<1>4. /\ Line(c) \in Lines /\ Line(c).aim = call[c].aim
      /\ (Line(c).status = "sent" => call[c].err = "none")
  BY <1>1, FieldTypes DEF Line, Lines, Status
<1>5. \/ journal' = [journal EXCEPT ![m] = Append(@, Line(c))]
      \/ journal' = journal /\ m \in hit'
  BY <1>1 DEF Log, LogFails
<1>6. \A n \in Messages : journal[n] \in Seq(Lines) /\ Len(journal[n]) \in Nat
  BY DEF IInv, Typed, LinesOK
<1>a. /\ Append(journal[m], Line(c)) \in Seq(Lines) /\ Append(journal[m], Line(c)) # <<>>
      /\ DOMAIN journal[m] \subseteq DOMAIN Append(journal[m], Line(c))
      /\ \A i \in DOMAIN Append(journal[m], Line(c)) :
           \/ i \in DOMAIN journal[m] /\ Append(journal[m], Line(c))[i] = journal[m][i]
           \/ Append(journal[m], Line(c))[i] = Line(c)
  BY <1>4, <1>6, Appended
<1>7. /\ \A n \in Messages : n # m => journal'[n] = journal[n]
      /\ journal'[m] = Append(journal[m], Line(c)) \/ (journal'[m] = journal[m] /\ m \in hit')
  BY <1>5 DEF IInv, Typed, LinesOK
<1>b. LinesOK'
  BY <1>5, <1>a DEF IInv, Typed, LinesOK
<1>8. /\ \A n \in Messages : DOMAIN journal[n] \subseteq DOMAIN journal'[n]
      /\ \A n \in Messages : journal[n] # <<>> => journal'[n] # <<>>
      /\ journal'[m] # <<>> \/ m \in hit'
  BY <1>7, <1>a
<1>9. Typed'
  BY <1>1, <1>2, <1>3, <1>b DEF IInv, Typed, SettingsOK, JobsOK, CountsOK, HistoryOK, settings
<1>10. Manned'
  BY <1>1, <1>2, MannedFrame DEF IInv
<1>11. Sound'
  <2>1. CallSound(call'[c])
    BY <1>1, <1>2 DEF CallSound
  <2> QED BY <1>2, <2>1, SoundFrame DEF IInv
<1>12. RowThere'
  BY <1>1, <1>2, <1>8, RowFrame DEF IInv, Same
<1>13. Arrived'
  <2>1. Has(m, call[c])'
    BY <1>2 DEF Has
  <2> QED BY <1>2, <1>3, <1>9, <2>1, ArrivedFrame DEF IInv, Typed
<1>14. Silent'
  <2>1. Mute(m, call'[c])
    BY <1>1, <1>2 DEF Mute, Same
  <2> QED BY <1>1, <1>2, <2>1, SilentFrame DEF IInv, settings
<1>15. Tried'
  BY <1>1 DEF IInv, Tried
<1>16. Accounted'
  <2>1. \A u \in Targets : Holds(call[c], u) = 0 /\ Holds(call'[c], u) = 0
    BY <1>1, <1>2 DEF Holds
  <2>2. \A u \in Targets : got[m][u] \in Nat /\ late[m][u] \in Nat
    BY DEF IInv, Typed, CountsOK
  <2>3. spent'["resend"] >= spent["resend"]
    BY <1>3 DEF IInv, Typed, HistoryOK, Kinds
  <2>4. \A u \in Targets : got'[m][u] + late'[m][u] + Holds(call'[c], u)
                             <= got[m][u] + late[m][u] + Holds(call[c], u)
    BY <1>1, <2>1, <2>2
  <2> QED BY <1>1, <1>2, <1>9, <2>3, <2>4, AccountedFrame DEF IInv
<1>17. Written'
  <2>1. job[m] \notin {"none", "skipped"}
    BY <1>1 DEF IInv, Manned, WorkerOn, DirectOn, Vias
  <2>2. \A n \in Messages : job[n] \in {"none", "skipped"} => journal'[n] = journal[n]
    BY <1>7, <2>1
  <2> QED BY <1>1, <1>2, <1>3, <1>8, <2>2, WrittenFrame DEF IInv
<1>18. SentMeansDelivered'
  <2> SUFFICES ASSUME spent'["misread"] = 0, NEW n \in Messages, NEW i \in DOMAIN journal'[n],
                      journal'[n][i].status = "sent"
               PROVE  journal'[n][i].aim # {} /\ \A t \in journal'[n][i].aim : got'[n][t] > 0
    BY DEF SentMeansDelivered
  <2>1. CASE i \in DOMAIN journal[n] /\ journal'[n][i] = journal[n][i]
    BY <1>1, <1>3, <2>1 DEF IInv, SentMeansDelivered
  <2>2. CASE n = m /\ journal'[n][i] = Line(c)
    <3>1. Has(m, call[c]) /\ call[c].err = "none"
      BY <1>1, <1>3, <1>4, <2>2
    <3> QED BY <1>1, <1>4, <2>2, <3>1 DEF Has, CallSound
  <2>3. \/ i \in DOMAIN journal[n] /\ journal'[n][i] = journal[n][i]
        \/ n = m /\ journal'[n][i] = Line(c)
    BY <1>7, <1>a
  <2> QED BY <2>1, <2>2, <2>3
<1> QED
  BY <1>9, <1>10, <1>11, <1>12, <1>13, <1>14, <1>15, <1>16, <1>17, <1>18 DEF IInv

\* A resending ends: with the line it was about, rewritten or left.
LEMMA SetStatusKeeps ==
  ASSUME IInv, NEW m \in Messages, NEW v \in Vias, SetStatus(<<m, v>>)
  PROVE  IInv'
<1> DEFINE c == <<m, v>>
<1> DEFINE r == call[c].row
<1>1. /\ c \in Calls /\ c[1] = m /\ c[2] = v /\ v = "resend"
      /\ call[c] \in CallRecords /\ CallsOK
      /\ CallSound(call[c]) /\ call[c].pc = "journal"
      /\ UNCHANGED <<settings, job, tries, stalls, doubled, late, got, hit>>
      /\ (spent["misread"] = 0 => Has(m, call[c]))
      /\ call' = [call EXCEPT ![c] = Idle]
  BY CallKnown DEF SetStatus, IInv, Typed
<1>2. CallsOK' /\ Only(c) /\ call'[c] = Idle
  BY <1>1, IdleFields, BecomeFields
<1>3. /\ spent' \in [Kinds -> Nat] /\ spent'["resend"] = spent["resend"]
      /\ spent'["misread"] = spent["misread"] /\ StillMisread /\ GotGrows
  BY <1>1 DEF SetStatus, IInv, Typed, HistoryOK, Spend, Kinds, StillMisread, GotGrows
<1>4. /\ Line(c) \in Lines /\ Line(c).aim = call[c].aim
      /\ (Line(c).status = "sent" => call[c].err = "none")
  BY <1>1, FieldTypes DEF Line, Lines, Status
<1>5. journal[m] \in Seq(Lines) /\ r \in DOMAIN journal[m]
  BY <1>1 DEF IInv, Typed, LinesOK, RowThere
<1> DEFINE old == journal[m][r]
<1> DEFINE failed == [old EXCEPT !.status = "failed"]
<1>6. failed \in Lines /\ failed.status = "failed"
  <2>1. old \in Lines
    BY <1>5
  <2> HIDE DEF old
  <2> QED BY <2>1 DEF Lines
<1>7. \/ journal' = [journal EXCEPT ![m] = [journal[m] EXCEPT ![r] = Line(c)]]
      \/ journal' = [journal EXCEPT ![m] = [journal[m] EXCEPT ![r] = failed]]
      \/ journal' = journal
  BY <1>1 DEF SetStatus
<1> HIDE DEF failed, old
<1>8. \E x \in Lines : /\ x = Line(c) \/ x.status = "failed"
                       /\ \/ journal' = [journal EXCEPT ![m] = [journal[m] EXCEPT ![r] = x]]
                          \/ journal' = journal
  BY <1>4, <1>6, <1>7
<1>9. PICK x \in Lines : /\ x = Line(c) \/ x.status = "failed"
                         /\ \/ journal' = [journal EXCEPT ![m] = [journal[m] EXCEPT ![r] = x]]
                            \/ journal' = journal
  BY <1>8
<1>10. /\ LinesOK
       /\ \A n \in Messages : n # m => journal'[n] = journal[n]
       /\ journal'[m] = [journal[m] EXCEPT ![r] = x] \/ journal'[m] = journal[m]
  BY <1>9 DEF IInv, Typed, LinesOK
<1>11. /\ [journal[m] EXCEPT ![r] = x] \in Seq(Lines)
       /\ DOMAIN [journal[m] EXCEPT ![r] = x] = DOMAIN journal[m]
       /\ \A i \in DOMAIN journal[m] :
            [journal[m] EXCEPT ![r] = x][i] = IF i = r THEN x ELSE journal[m][i]
       /\ [journal[m] EXCEPT ![r] = x] # <<>> /\ journal[m] # <<>>
  BY <1>5
<1>12. LinesOK'
  BY <1>9, <1>11 DEF IInv, Typed, LinesOK
<1>13. /\ \A n \in Messages : DOMAIN journal[n] \subseteq DOMAIN journal'[n]
       /\ \A n \in Messages : journal[n] # <<>> => journal'[n] # <<>>
       /\ \A n \in Messages : \A i \in DOMAIN journal'[n] :
            \/ i \in DOMAIN journal[n] /\ journal'[n][i] = journal[n][i]
            \/ n = m /\ journal'[n][i] = x
  BY <1>10, <1>11
<1>14. Typed'
  BY <1>1, <1>2, <1>3, <1>12 DEF IInv, Typed, SettingsOK, JobsOK, CountsOK, HistoryOK, settings
<1>15. Manned'
  <2>1. \A n \in Messages : /\ call'[<<n, "worker">>] = call[<<n, "worker">>]
                            /\ call'[<<n, "direct">>] = call[<<n, "direct">>]
    BY <1>1, <1>2 DEF Only, Calls, Vias
  <2> QED BY <2>1, <1>1 DEF IInv, Manned, WorkerOn, DirectOn
<1>16. Sound'
  <2>1. CallSound(call'[c])
    BY <1>2, IdleFields DEF CallSound
  <2> QED BY <1>2, <2>1, SoundFrame DEF IInv
<1>17. RowThere'
  <2>1. \A n \in Messages : n # m => call'[<<n, "resend">>] = call[<<n, "resend">>]
    BY <1>2 DEF Only, Calls, Vias
  <2>2. call'[<<m, "resend">>].pc = "idle"
    BY <1>1, <1>2, IdleFields
  <2> QED BY <2>1, <2>2, <1>13 DEF IInv, RowThere
<1>18. Arrived'
  <2>1. Has(m, call[c])'
    BY <1>2, IdleFields DEF Has
  <2> QED BY <1>2, <1>3, <1>14, <2>1, ArrivedFrame DEF IInv, Typed
<1>19. Silent'
  <2>1. Mute(m, call'[c])
    BY <1>2, IdleFields DEF Mute
  <2> QED BY <1>1, <1>2, <2>1, SilentFrame DEF IInv, settings
<1>20. Tried'
  BY <1>1 DEF IInv, Tried
<1>21. Accounted'
  <2>1. \A u \in Targets : Holds(call[c], u) = 0 /\ Holds(call'[c], u) = 0
    BY <1>1, <1>2, IdleFields DEF Holds
  <2>2. \A u \in Targets : got[m][u] \in Nat /\ late[m][u] \in Nat
    BY DEF IInv, Typed, CountsOK
  <2>3. spent'["resend"] >= spent["resend"]
    BY <1>3 DEF IInv, Typed, HistoryOK, Kinds
  <2>4. \A u \in Targets : got'[m][u] + late'[m][u] + Holds(call'[c], u)
                             <= got[m][u] + late[m][u] + Holds(call[c], u)
    BY <1>1, <2>1, <2>2
  <2> QED BY <1>1, <1>2, <1>14, <2>3, <2>4, AccountedFrame DEF IInv
<1>22. Written'
  <2>1. job[m] \notin {"none", "skipped"}
    BY <1>11 DEF IInv, Written
  <2>2. \A n \in Messages : job[n] \in {"none", "skipped"} => journal'[n] = journal[n]
    BY <1>10, <2>1
  <2>3. hit \subseteq hit'
    BY <1>1
  <2> QED BY <1>1, <1>2, <1>13, <2>2, <2>3, IdleFields, WrittenFrame DEF IInv
<1>23. SentMeansDelivered'
  <2> SUFFICES ASSUME spent'["misread"] = 0, NEW n \in Messages, NEW i \in DOMAIN journal'[n],
                      journal'[n][i].status = "sent"
               PROVE  journal'[n][i].aim # {} /\ \A t \in journal'[n][i].aim : got'[n][t] > 0
    BY DEF SentMeansDelivered
  <2>1. CASE i \in DOMAIN journal[n] /\ journal'[n][i] = journal[n][i]
    BY <1>1, <1>3, <2>1 DEF IInv, SentMeansDelivered
  <2>2. CASE n = m /\ journal'[n][i] = x
    <3>1. x = Line(c)
      BY <1>9, <2>2
    <3>2. Has(m, call[c]) /\ call[c].err = "none"
      BY <1>1, <1>3, <1>4, <2>2, <3>1
    <3> QED BY <1>1, <1>4, <2>2, <3>1, <3>2 DEF Has, CallSound
  <2> QED BY <2>1, <2>2, <1>13
<1> QED
  BY <1>14, <1>15, <1>16, <1>17, <1>18, <1>19, <1>20, <1>21, <1>22, <1>23 DEF IInv

\* The job of a message ends, or waits for its next attempt.
LEMMA EndKeeps ==
  ASSUME IInv, NEW m \in Messages, EndJob(m) \/ EndDirect(m)
  PROVE  IInv'
<1>0. PICK v \in {"worker", "direct"}, j \in JobStates :
        /\ call[<<m, v>>].pc = "ack"
        /\ call' = [call EXCEPT ![<<m, v>>] = Idle]
        /\ job' = [job EXCEPT ![m] = j]
        /\ tries' = [tries EXCEPT ![m] = IF v = "worker" THEN @ + 1 ELSE @]
        /\ v = "worker" => /\ j \in {"waiting", "completed", "failed"}
                           /\ j = "waiting" => tries[m] + 1 < MaxAttempts
        /\ v = "direct" => IF job[m] = "direct" THEN j \in {"completed", "failed"} ELSE j = job[m]
        /\ UNCHANGED <<settings, stalls, doubled, late, got, journal, hit, spent>>
  <2>1. CASE EndJob(m)
    <3>1. \E j \in {"waiting", "completed", "failed"} :
            /\ job' = [job EXCEPT ![m] = j]
            /\ j = "waiting" => tries[m] + 1 < MaxAttempts
      BY <2>1 DEF EndJob, Outcome
    <3> QED BY <2>1, <3>1 DEF EndJob, JobStates
  <2>2. CASE EndDirect(m)
    <3>1. tries' = [tries EXCEPT ![m] = tries[m]]
      BY <2>2 DEF EndDirect, IInv, Typed, JobsOK
    <3>a. job[m] \in JobStates
      BY DEF IInv, Typed, JobsOK
    <3>2. \E j \in JobStates : /\ job' = [job EXCEPT ![m] = j]
                              /\ IF job[m] = "direct" THEN j \in {"completed", "failed"}
                                 ELSE j = job[m]
      BY <2>2, <3>a DEF EndDirect, JobStates
    <3> QED BY <2>2, <3>1, <3>2 DEF EndDirect
  <2> QED BY <2>1, <2>2
<1> DEFINE c == <<m, v>>
<1>1. c \in Calls /\ v \in Vias /\ CallsOK /\ call[c] \in CallRecords
  BY CallKnown DEF Vias, IInv, Typed
<1>2. CallsOK' /\ Only(c) /\ call'[c] = Idle
  BY <1>0, <1>1, IdleFields, BecomeFields
<1>3. /\ \A n \in Messages : job'[n] = IF n = m THEN j ELSE job[n]
      /\ \A n \in Messages : tries'[n] = IF n = m /\ v = "worker" THEN tries[n] + 1 ELSE tries[n]
      /\ JobsOK'
  BY <1>0 DEF IInv, Typed, JobsOK, JobStates
<1>4. /\ v = "worker" => job[m] = "active"
      /\ v = "direct" => job[m] = "direct" \/ m \in doubled
      /\ job[m] = "direct" => m \notin doubled
      /\ m \in doubled => job[m] \notin {"none", "skipped"}
  BY <1>0 DEF IInv, Manned, WorkerOn, DirectOn
<1>5. GotGrows /\ StillMisread
  BY <1>0 DEF GotGrows, StillMisread
<1>6. Typed'
  BY <1>0, <1>2, <1>3 DEF IInv, Typed, SettingsOK, CountsOK, LinesOK, HistoryOK, settings
<1>7. Manned'
  <2> SUFFICES ASSUME NEW n \in Messages
               PROVE  /\ call'[<<n, "worker">>].pc # "idle" <=> job'[n] = "active"
                      /\ job'[n] = "direct" => call'[<<n, "direct">>].pc # "idle"
                      /\ call'[<<n, "direct">>].pc # "idle" => job'[n] = "direct" \/ n \in doubled'
                      /\ n \in doubled' => job'[n] \notin {"none", "skipped", "direct"}
    BY DEF Manned, WorkerOn, DirectOn
  <2>1. /\ call[<<n, "worker">>].pc # "idle" <=> job[n] = "active"
        /\ job[n] = "direct" => call[<<n, "direct">>].pc # "idle"
        /\ call[<<n, "direct">>].pc # "idle" => job[n] = "direct" \/ n \in doubled
        /\ n \in doubled => job[n] \notin {"none", "skipped", "direct"}
    BY DEF IInv, Manned, WorkerOn, DirectOn
  <2>2. \A u \in {"worker", "direct"} :
          call'[<<n, u>>] = IF n = m /\ u = v THEN Idle ELSE call[<<n, u>>]
    BY <1>2 DEF Only, Calls, Vias
  <2>3. doubled' = doubled
    BY <1>0
  <2>4. CASE n # m
    BY <2>1, <2>2, <2>3, <2>4, <1>3
  <2>5. CASE n = m /\ v = "worker"
    BY <2>1, <2>2, <2>3, <2>5, <1>0, <1>3, <1>4, IdleFields
  <2>6. CASE n = m /\ v = "direct"
    BY <2>1, <2>2, <2>3, <2>6, <1>0, <1>3, <1>4, IdleFields
  <2> QED BY <2>4, <2>5, <2>6
<1>8. Sound'
  <2>1. CallSound(call'[c])
    BY <1>2, IdleFields DEF CallSound
  <2> QED BY <1>1, <1>2, <2>1, SoundFrame DEF IInv
<1>9. RowThere'
  BY <1>0, <1>1, <1>2, RowFrame DEF IInv
<1>10. Arrived'
  <2>1. Has(m, call[c])'
    BY <1>2, IdleFields DEF Has
  <2> QED BY <1>1, <1>2, <1>5, <1>6, <2>1, ArrivedFrame DEF IInv, Typed
<1>11. Silent'
  <2>1. Mute(m, call'[c])
    BY <1>2, IdleFields DEF Mute
  <2> QED BY <1>0, <1>1, <1>2, <2>1, SilentFrame DEF IInv, settings
<1>12. Tried'
  <2>1. m \in Messages => tries[m] \in Nat
    BY RanTypes DEF IInv, Typed
  <2> QED BY <1>0, <1>3, <2>1 DEF IInv, Tried
<1>13. Accounted'
  <2> SUFFICES ASSUME NEW n \in Messages, NEW t \in Targets
               PROVE  (got[n][t] + late[n][t] + Held(n, t) <= Ran(n) + stalls[n] + spent["resend"])'
    BY DEF Accounted
  <2>1. got[n][t] + late[n][t] + Held(n, t) <= Ran(n) + stalls[n] + spent["resend"]
    BY DEF IInv, Accounted
  <2>2. got[n][t] \in Nat /\ late[n][t] \in Nat /\ spent["resend"] \in Nat
    BY DEF IInv, Typed, CountsOK, HistoryOK, Kinds
  <2>3. Held(n, t) \in Nat
    BY HoldsTypes DEF Held
  <2>4. Ran(n) \in Nat /\ stalls[n] \in Nat /\ tries[n] \in Nat
    BY RanTypes DEF IInv, Typed
  <2>5. Held(n, t)' = Held(n, t)
    <3>1. Holds(call[c], t) = 0 /\ Holds(call'[c], t) = 0
      BY <1>0, <1>2, IdleFields DEF Holds
    <3>2. CASE n = m
      <4>1. Held(m, t)' = Held(m, t) + Holds(call'[c], t) - Holds(call[c], t)
        BY <1>1, <1>2, HeldFrame
      <4> QED BY <3>1, <3>2, <4>1, <2>3
    <3>3. CASE n # m
      BY <1>1, <1>2, <3>3, HeldFrame
    <3> QED BY <3>2, <3>3
  <2>6. Ran(n)' \in Nat /\ Ran(n) <= Ran(n)'
    <3>1. CASE n = m /\ v = "worker"
      <4>1. Runs(n) = tries[n] + 1 /\ tries[n] < MaxAttempts
        BY <1>4, <3>1 DEF Runs, IInv, Tried
      <4>2. Runs(n)' = IF j = "waiting" THEN tries[n] + 1 ELSE MaxAttempts
        BY <1>0, <1>3, <3>1 DEF Runs
      <4>3. Extra(n)' = Extra(n) /\ Extra(n) \in Nat
        BY <1>0 DEF Extra
      <4> QED BY <4>1, <4>2, <4>3, <2>4, DeliveryAssumption DEF Ran
    <3>2. CASE n = m /\ v = "direct"
      <4>1. Extra(n)' = Extra(n) /\ Extra(n) \in Nat
        BY <1>0 DEF Extra
      <4>2. CASE job[m] = "direct"
        <5>1. Runs(n) = 1 /\ Runs(n)' = MaxAttempts
          BY <1>0, <1>3, <3>2, <4>2 DEF Runs
        <5> QED BY <4>1, <5>1, DeliveryAssumption DEF Ran
      <4>3. CASE job[m] # "direct"
        <5>1. Ran(n)' = Ran(n)
          BY <1>0, <1>3, <3>2, <4>1, <4>3 DEF Ran, Runs
        <5> QED BY <5>1, <2>4
      <4> QED BY <4>2, <4>3
    <3>3. CASE n # m
      <4>1. Ran(n)' = Ran(n)
        BY <1>0, <1>3, <3>3 DEF Ran, Runs, Extra
      <4> QED BY <4>1, <2>4
    <3> QED BY <3>1, <3>2, <3>3
  <2> QED BY <1>0, <2>1, <2>2, <2>3, <2>4, <2>5, <2>6
<1>14. Written'
  <2>1. \A n \in Messages, u \in {"worker", "direct"} :
          call'[<<n, u>>].pc = "ack" => call[<<n, u>>].pc = "ack"
    BY <1>2, IdleFields DEF Only, Calls, Vias
  <2> QED BY <1>0, <1>3, <2>1 DEF IInv, Written
<1>15. SentMeansDelivered'
  BY <1>0, <1>5, SentFrame DEF IInv, Typed
<1> QED
  BY <1>6, <1>7, <1>8, <1>9, <1>10, <1>11, <1>12, <1>13, <1>14, <1>15 DEF IInv

-----------------------------------------------------------------------------
(* The steps from outside                                                  *)

\* The process dies: its calls are gone, and what the worker had waits again, or has failed.
LEMMA CrashKeeps ==
  ASSUME IInv, Crash
  PROVE  IInv'
<1>1. /\ spent' \in [Kinds -> Nat] /\ spent'["resend"] = spent["resend"]
      /\ spent'["misread"] = spent["misread"] /\ StillMisread /\ GotGrows
      /\ hit' \in SUBSET Messages /\ hit \subseteq hit'
      /\ UNCHANGED <<settings, tries, doubled, got, journal>>
  BY DEF Crash, IInv, Typed, HistoryOK, Spend, Kinds, StillMisread, GotGrows
<1>2. /\ CallsOK' /\ \A m \in Messages, v \in Vias : call'[<<m, v>>] = Idle
  BY IdleFields DEF Crash, CallsOK, Calls
<1>3. /\ CountsOK' /\ \A m \in Messages, t \in Targets : late'[m][t] = 0
  BY <1>1 DEF Crash, IInv, Typed, CountsOK
<1>4. \A m \in Messages :
        /\ job'[m] = IF job[m] = "active" THEN IF stalls[m] < MaxStalled THEN "waiting" ELSE "failed"
                     ELSE IF job[m] = "direct" THEN "failed" ELSE job[m]
        /\ stalls'[m] = IF job[m] = "active" THEN stalls[m] + 1 ELSE stalls[m]
  BY DEF Crash
<1>5. JobsOK'
  <2>1. \A m \in Messages : job[m] \in JobStates /\ stalls[m] \in Nat
    BY DEF IInv, Typed, JobsOK
  <2>2. \A m \in Messages : job'[m] \in JobStates /\ stalls'[m] \in Nat
    BY <1>4, <2>1 DEF JobStates
  <2>3. job' = [m \in Messages |-> job'[m]] /\ stalls' = [m \in Messages |-> stalls'[m]]
    BY DEF Crash
  <2> QED BY <1>1, <2>2, <2>3 DEF IInv, Typed, JobsOK
<1>6. Typed'
  BY <1>1, <1>2, <1>3, <1>5 DEF IInv, Typed, SettingsOK, LinesOK, HistoryOK, settings
<1>7. Manned'
  <2>1. \A m \in Messages : /\ job'[m] \notin {"active", "direct"}
                            /\ job[m] \notin {"none", "skipped"} =>
                                 job'[m] \notin {"none", "skipped"}
    BY <1>4
  <2>2. \A m \in Messages : m \in doubled => job[m] \notin {"none", "skipped"}
    BY DEF IInv, Manned
  <2> QED BY <2>1, <2>2, <1>1, <1>2, IdleFields DEF Manned, WorkerOn, DirectOn, Vias
<1>8. Sound'
  BY <1>2, IdleFields DEF Sound, CallSound
<1>9. RowThere'
  BY <1>2, IdleFields DEF RowThere, Vias
<1>10. Arrived'
  BY <1>2, IdleFields DEF Arrived, Has
<1>11. Silent'
  BY <1>2, IdleFields DEF Silent, Mute
<1>12. Tried'
  BY <1>1, <1>4 DEF IInv, Tried
<1>13. Accounted'
  <2> SUFFICES ASSUME NEW n \in Messages, NEW t \in Targets
               PROVE  (got[n][t] + late[n][t] + Held(n, t) <= Ran(n) + stalls[n] + spent["resend"])'
    BY DEF Accounted
  <2>1. got[n][t] + late[n][t] + Held(n, t) <= Ran(n) + stalls[n] + spent["resend"]
    BY DEF IInv, Accounted
  <2>2. got[n][t] \in Nat /\ late[n][t] \in Nat /\ spent["resend"] \in Nat
    BY DEF IInv, Typed, CountsOK, HistoryOK, Kinds
  <2>3. Held(n, t) \in Nat /\ Held(n, t)' = 0
    BY <1>2, HoldsTypes, IdleFields DEF Held, Holds, Vias
  <2>4. Ran(n) \in Nat /\ stalls[n] \in Nat /\ tries[n] \in Nat
    BY RanTypes DEF IInv, Typed
  <2>6. Extra(n)' = Extra(n) /\ Extra(n) \in Nat
    BY <1>1 DEF Extra
  <2>5. Ran(n)' \in Nat /\ stalls'[n] \in Nat /\ Ran(n) + stalls[n] <= Ran(n)' + stalls'[n]
    <3>1. CASE job[n] = "active"
      <4>1. Runs(n) = tries[n] + 1 /\ tries[n] < MaxAttempts /\ stalls'[n] = stalls[n] + 1
        BY <1>4, <3>1 DEF Runs, IInv, Tried
      <4>2. Runs(n)' \in {tries[n], MaxAttempts}
        BY <1>1, <1>4, <3>1 DEF Runs
      <4> QED BY <4>1, <4>2, <2>4, <2>6, DeliveryAssumption DEF Ran
    <3>2. CASE job[n] = "direct"
      <4>1. Runs(n) = 1 /\ Runs(n)' = MaxAttempts /\ stalls'[n] = stalls[n]
        BY <1>4, <3>2 DEF Runs
      <4> QED BY <4>1, <2>4, <2>6, DeliveryAssumption DEF Ran
    <3>3. CASE job[n] \notin {"active", "direct"}
      <4>1. Ran(n)' = Ran(n) /\ stalls'[n] = stalls[n]
        BY <1>1, <1>4, <3>3 DEF Ran, Runs, Extra
      <4> QED BY <4>1, <2>4
    <3> QED BY <3>1, <3>2, <3>3
  <2> QED BY <1>1, <1>3, <2>1, <2>2, <2>3, <2>4, <2>5
<1>14. Written'
  <2>1. \A n \in Messages, u \in {"worker", "direct"} : call'[<<n, u>>].pc # "ack"
    BY <1>2, IdleFields DEF Vias
  <2>2. \A n \in Messages : job'[n] \in {"none", "skipped"} => job[n] \in {"none", "skipped"}
    BY <1>4
  <2> QED BY <2>1, <2>2, <1>1 DEF IInv, Written
<1>15. SentMeansDelivered'
  BY <1>1, SentFrame DEF IInv, Typed
<1> QED
  BY <1>6, <1>7, <1>8, <1>9, <1>10, <1>11, <1>12, <1>13, <1>14, <1>15 DEF IInv

\* A feature is switched on or off, or given other groups.
LEMMA SettingsKeep ==
  ASSUME IInv, NEW f \in Features, NEW gs \in SUBSET Groups, Switch(f) \/ Assign(f, gs)
  PROVE  IInv'
<1>1. /\ spent' \in [Kinds -> Nat] /\ spent'["resend"] = spent["resend"]
      /\ spent'["misread"] = spent["misread"] /\ StillMisread /\ GotGrows
      /\ UNCHANGED <<scenario, configured, job, tries, stalls, doubled, late, got, journal, hit>>
  BY DEF Switch, Assign, IInv, Typed, HistoryOK, Spend, Kinds, StillMisread, GotGrows
<1>2. SettingsOK'
  <2>1. CASE Switch(f)
    BY <2>1 DEF Switch, IInv, Typed, SettingsOK
  <2>2. CASE Assign(f, gs)
    BY <2>2 DEF Assign, IInv, Typed, SettingsOK
  <2> QED BY <2>1, <2>2
<1>3. /\ CallsOK'
      /\ \A m \in Messages, v \in Vias :
           /\ call'[<<m, v>>].pc = call[<<m, v>>].pc /\ call'[<<m, v>>].aim = call[<<m, v>>].aim
           /\ call'[<<m, v>>].wait = call[<<m, v>>].wait
           /\ call'[<<m, v>>].err = call[<<m, v>>].err
           /\ call'[<<m, v>>].row = call[<<m, v>>].row
           /\ call'[<<m, v>>].off => call[<<m, v>>].off /\ (Off(m) => Off(m)')
  <2>1. \A m \in Messages, v \in Vias : <<m, v>> \in Calls /\ <<m, v>>[1] = m
    BY DEF Calls
  <2>2. CASE Switch(f)
    <3>1. \A k \in CallRecords : /\ [k EXCEPT !.off = FALSE] \in CallRecords
                                 /\ [k EXCEPT !.off = FALSE].pc = k.pc
                                 /\ [k EXCEPT !.off = FALSE].aim = k.aim
                                 /\ [k EXCEPT !.off = FALSE].wait = k.wait
                                 /\ [k EXCEPT !.off = FALSE].err = k.err
                                 /\ [k EXCEPT !.off = FALSE].row = k.row
                                 /\ [k EXCEPT !.off = FALSE].off = FALSE
      BY DEF CallRecords
    <3>2. \A c \in Calls : call[c] \in CallRecords
      BY DEF IInv, Typed, CallsOK
    <3>3. call' = [c \in Calls |-> IF Feature(c[1]) = f THEN [call[c] EXCEPT !.off = FALSE]
                                  ELSE call[c]]
      BY <2>2 DEF Switch
    <3>4. CallsOK'
      BY <3>1, <3>2, <3>3 DEF CallsOK
    <3>5. \A m \in Messages : Feature(m) # f => (Off(m) => Off(m)')
      BY <1>1, <2>2 DEF Switch, Off, Feature, payload, IInv, Typed, SettingsOK
    <3>6. \A m \in Messages, v \in Vias :
            call'[<<m, v>>] = IF Feature(m) = f THEN [call[<<m, v>>] EXCEPT !.off = FALSE]
                              ELSE call[<<m, v>>]
      BY <2>1, <3>3
    <3>7. ASSUME NEW m \in Messages, NEW v \in Vias
          PROVE  /\ call'[<<m, v>>].pc = call[<<m, v>>].pc
                 /\ call'[<<m, v>>].aim = call[<<m, v>>].aim
                 /\ call'[<<m, v>>].wait = call[<<m, v>>].wait
                 /\ call'[<<m, v>>].err = call[<<m, v>>].err
                 /\ call'[<<m, v>>].row = call[<<m, v>>].row
                 /\ call'[<<m, v>>].off => call[<<m, v>>].off /\ (Off(m) => Off(m)')
      <4>1. call[<<m, v>>] \in CallRecords
        BY <2>1, <3>2
      <4>2. CASE Feature(m) = f
        BY <4>1, <4>2, <3>1, <3>6
      <4>3. CASE Feature(m) # f
        BY <4>1, <4>3, <3>5, <3>6
      <4> QED BY <4>2, <4>3
    <3> QED BY <3>4, <3>7
  <2>3. CASE Assign(f, gs)
    <3>1. call' = call /\ enabled' = enabled
      BY <2>3 DEF Assign
    <3>2. \A m \in Messages : Off(m)' = Off(m)
      BY <1>1, <3>1 DEF Off, Feature, payload
    <3> QED BY <3>1, <3>2 DEF IInv, Typed, CallsOK
  <2> QED BY <2>2, <2>3
<1>4. Typed'
  BY <1>1, <1>2, <1>3 DEF IInv, Typed, JobsOK, CountsOK, LinesOK, HistoryOK
<1>5. Manned' /\ RowThere' /\ Tried' /\ Written'
  <2>1. "worker" \in Vias /\ "direct" \in Vias /\ "resend" \in Vias
    BY DEF Vias
  <2>2. \A m \in Messages, v \in Vias :
          call'[<<m, v>>].pc = call[<<m, v>>].pc /\ call'[<<m, v>>].row = call[<<m, v>>].row
    BY <1>3
  <2>3. Manned'
    BY <1>1, <2>1, <2>2 DEF IInv, Manned, WorkerOn, DirectOn
  <2>4. RowThere'
    BY <1>1, <2>1, <2>2 DEF IInv, RowThere
  <2>5. Tried'
    BY <1>1 DEF IInv, Tried
  <2>6. Written'
    <3>1. \A u \in {"worker", "direct"} : u \in Vias
      BY <2>1
    <3> QED BY <1>1, <2>2, <3>1 DEF IInv, Written
  <2> QED BY <2>3, <2>4, <2>5, <2>6
<1>6. Sound'
  <2> SUFFICES ASSUME NEW m \in Messages, NEW v \in Vias PROVE CallSound(call'[<<m, v>>])
    BY DEF Sound, CallSound
  <2>1. CallSound(call[<<m, v>>])
    BY CallKnown
  <2>2. /\ call'[<<m, v>>].pc = call[<<m, v>>].pc /\ call'[<<m, v>>].aim = call[<<m, v>>].aim
        /\ call'[<<m, v>>].wait = call[<<m, v>>].wait /\ call'[<<m, v>>].err = call[<<m, v>>].err
    BY <1>3
  <2> QED BY <2>1, <2>2 DEF CallSound
<1>7. Arrived'
  BY <1>1, <1>3 DEF IInv, Arrived, Has
<1>8. Silent'
  BY <1>1, <1>3 DEF IInv, Silent, Mute, payload
<1>9. Accounted'
  <2> SUFFICES ASSUME NEW n \in Messages, NEW t \in Targets
               PROVE  (got[n][t] + late[n][t] + Held(n, t) <= Ran(n) + stalls[n] + spent["resend"])'
    BY DEF Accounted
  <2>1. Held(n, t)' = Held(n, t) /\ Ran(n)' = Ran(n)
    BY <1>1, <1>3 DEF Held, Holds, Ran, Runs, Extra, Vias
  <2> QED BY <1>1, <2>1 DEF IInv, Accounted
<1>10. SentMeansDelivered'
  BY <1>1, SentFrame DEF IInv, Typed
<1> QED
  BY <1>4, <1>5, <1>6, <1>7, <1>8, <1>9, <1>10 DEF IInv

-----------------------------------------------------------------------------
(* What always holds                                                       *)

LEMMA StepKeeps ==
  ASSUME IInv, [Next]_vars
  PROVE  IInv'
<1>1. ASSUME NEW m \in Messages, SendSkipped(m) PROVE IInv'
  BY <1>1, HandedKeeps DEF SendSkipped, Pending
<1>2. ASSUME NEW m \in Messages, SendQueued(m) PROVE IInv'
  BY <1>2, HandedKeeps DEF SendQueued, Pending
<1>3. ASSUME NEW m \in Messages, SendDirect(m) PROVE IInv'
  <2>1. call[<<m, "direct">>].pc = "idle"
    BY <1>3 DEF SendDirect, Pending, IInv, Manned, DirectOn
  <2>2. \/ job' = [job EXCEPT ![m] = "direct"] /\ doubled' = doubled
        \/ job' = [job EXCEPT ![m] = "waiting"] /\ doubled' = doubled \cup {m}
    BY <1>3 DEF SendDirect
  <2>3. doubled' = IF job[m] = "none" /\ job'[m] = "waiting" THEN doubled \cup {m} ELSE doubled
    BY <1>3, <2>2 DEF SendDirect, Pending, IInv, Typed, JobsOK
  <2> QED BY <1>3, <2>1, <2>2, <2>3, BeginKeeps DEF SendDirect, Pending, Vias
<1>4. ASSUME NEW m \in Messages, Take(m) PROVE IInv'
  <2>1. call[<<m, "worker">>].pc = "idle"
    BY <1>4 DEF Take, IInv, Manned, WorkerOn
  <2> QED BY <1>4, <2>1, BeginKeeps DEF Take, Vias
<1>5. ASSUME NEW m \in Messages, EndJob(m) \/ EndDirect(m) PROVE IInv'
  BY <1>5, EndKeeps
<1>6. ASSUME NEW m \in Messages, NEW v \in Vias, CallStep(<<m, v>>) PROVE IInv'
  <2>1. CASE Address(<<m, v>>) \/ FindGroups(<<m, v>>)
    BY <2>1, AddressKeeps, FindGroupsKeeps
  <2>2. CASE Answered(<<m, v>>)
    <3>1. PICK t \in call[<<m, v>>].wait :
            \/ \E delivered \in BOOLEAN : \E e \in Verdicts(delivered) :
                 Answer(<<m, v>>, t, delivered, e) /\ UNCHANGED spent
            \/ Answer(<<m, v>>, t, FALSE, "none") /\ Spend("misread")
      BY <2>2 DEF Answered
    <3>2. ASSUME NEW delivered \in BOOLEAN, NEW e \in Verdicts(delivered),
                 Answer(<<m, v>>, t, delivered, e), UNCHANGED spent
          PROVE  IInv'
      <4>1. e \in Errors /\ (e = "none" => delivered)
        BY DEF Verdicts, Errors, Retryable
      <4> QED BY <3>2, <4>1, AnswerKeeps
    <3>3. ASSUME Answer(<<m, v>>, t, FALSE, "none"), Spend("misread") PROVE IInv'
      <4>1. "none" \in Errors
        BY DEF Errors
      <4> QED BY <3>3, <4>1, AnswerKeeps
    <3> QED BY <3>1, <3>2, <3>3
  <2>3. CASE Log(<<m, v>>) \/ LogFails(<<m, v>>) \/ SetStatus(<<m, v>>)
    BY <2>3, LogKeeps, SetStatusKeeps
  <2> QED BY <1>6, <2>1, <2>2, <2>3 DEF CallStep
<1>7. ASSUME NEW m \in Messages, NEW r \in DOMAIN journal[m], Resend(m, r) PROVE IInv'
  <2>1. r \in Nat
    BY DEF IInv, Typed, LinesOK
  <2> QED BY <1>7, <2>1, BeginKeeps DEF Resend, Vias
<1>8. ASSUME NEW m \in Messages, NEW t \in Targets, LateAnswer(m, t) PROVE IInv'
  BY <1>8, LateAnswerKeeps
<1>9. CASE Crash
  BY <1>9, CrashKeeps
<1>10. ASSUME NEW f \in Features, Switch(f) \/ \E gs \in SUBSET Groups : Assign(f, gs) PROVE IInv'
  BY <1>10, SettingsKeep
<1>11. CASE UNCHANGED vars
  <2>1. Typed' /\ Manned' /\ RowThere' /\ Tried' /\ Written' /\ SentMeansDelivered'
    BY <1>11 DEF IInv, Typed, SettingsOK, JobsOK, CallsOK, CountsOK, LinesOK, HistoryOK, Manned, WorkerOn, DirectOn,
                 RowThere, Tried, Written, SentMeansDelivered, vars, settings
  <2>2. Sound' /\ Arrived' /\ Silent'
    BY <1>11 DEF IInv, Sound, CallSound, Arrived, Has, Silent, Mute, Off, payload, Feature,
                 vars, settings
  <2>3. \A m \in Messages, t \in Targets : Held(m, t)' = Held(m, t) /\ Ran(m)' = Ran(m)
    BY <1>11 DEF Held, Holds, Ran, Runs, Extra, vars
  <2>4. Accounted'
    BY <1>11, <2>3 DEF IInv, Accounted, vars
  <2> QED BY <2>1, <2>2, <2>4 DEF IInv
<1>12. \A c \in Calls : \E m \in Messages, v \in Vias : c = <<m, v>>
  BY DEF Calls
<1>13. ASSUME NEW c \in Calls, CallStep(c) PROVE IInv'
  <2>1. PICK m \in Messages, v \in Vias : c = <<m, v>>
    BY <1>12
  <2> QED BY <1>6, <1>13, <2>1
<1> QED
  BY <1>1, <1>2, <1>3, <1>4, <1>5, <1>7, <1>8, <1>9, <1>10, <1>11, <1>13
  DEF Next, Progress, Work

LEMMA IInvAlways ==
  Spec => []IInv
<1>1. Init => IInv
  BY InitIInv
<1>2. IInv /\ [Next]_vars => IInv'
  BY StepKeeps
<1> QED
  BY <1>1, <1>2, PTL DEF Spec

\* The variables of the delivery keep the types the code gives them, for any messages, groups
\* and features (ZaloService, NotificationsProcessor, NotificationsService).
THEOREM DeliveryTyped ==
  Spec => []TypeOK
<1>1. IInv => TypeOK
  BY DEF IInv, Typed, TypeOK, SettingsOK, JobsOK, CallsOK, CountsOK, LinesOK, HistoryOK
<1> QED
  BY <1>1, IInvAlways, PTL

\* A line of the journal that says 'sent' is true: every target the message was then
\* addressed to has it, whatever is retried, resent, cut off by a crash or left in flight
\* around it (assertBridgeOk, the Promise.all of deliverRaw and setStatus), unless the answer
\* of the bridge was misread.
THEOREM SentIsDelivered ==
  Spec => []SentMeansDelivered
<1>1. IInv => SentMeansDelivered
  BY DEF IInv
<1> QED
  BY <1>1, IInvAlways, PTL

\* Nobody gets a message more often than the attempts of its job, the deaths of its worker
\* and the resendings by hand account for, and one more when its caller ran deliver although
\* the queue had it, for any number of attempts, targets and faults
\* (defaultJobOptions of the queue, deliverRaw, resend).
THEOREM CopiesAccounted ==
  Spec => []CopiesBounded
<1>1. IInv => CopiesBounded
  <2> SUFFICES ASSUME IInv, NEW m \in Messages, NEW t \in Targets
               PROVE  got[m][t] <= MaxAttempts + stalls[m] + spent["resend"] + Extra(m)
    BY DEF CopiesBounded
  <2>1. got[m][t] + late[m][t] + Held(m, t) <= Ran(m) + stalls[m] + spent["resend"]
    BY DEF IInv, Accounted
  <2>2. got[m][t] \in Nat /\ late[m][t] \in Nat /\ spent["resend"] \in Nat
    BY DEF IInv, Typed, CountsOK, HistoryOK, Kinds
  <2>3. Held(m, t) \in Nat
    BY HoldsTypes DEF Held
  <2>4. Ran(m) \in Nat /\ stalls[m] \in Nat /\ tries[m] \in Nat
    BY RanTypes DEF IInv, Typed
  <2>5. Runs(m) <= MaxAttempts /\ Runs(m) \in Nat /\ Extra(m) \in Nat
    BY <2>4, DeliveryAssumption DEF IInv, Tried, Runs, Extra
  <2> QED BY <2>1, <2>2, <2>3, <2>4, <2>5, DeliveryAssumption DEF Ran
<1> QED
  BY <1>1, IInvAlways, PTL

\* While its feature stays switched off, an attempt to send a message to groups calls nobody:
\* deliverRaw looks at the switch a second time, after send did.
THEOREM OffStaysSilent ==
  Spec => []OffIsSilent
<1>1. IInv => OffIsSilent
  <2> SUFFICES ASSUME IInv, NEW c \in Calls, call[c].off, payload[c[1]].numbers = {}
               PROVE  call[c].aim = {}
    BY DEF OffIsSilent
  <2>1. PICK m \in Messages, v \in Vias : c = <<m, v>>
    BY DEF Calls
  <2>2. Mute(m, call[<<m, v>>]) /\ <<m, v>>[1] = m
    BY CallKnown
  <2> QED BY <2>1, <2>2 DEF Mute
<1> QED
  BY <1>1, IInvAlways, PTL

-----------------------------------------------------------------------------
(* The promise of Outbox                                                   *)

\* Where a message stands, by its job and its lines; before a step, and after it.
FateOf(j, lines, pc) ==
  IF j = "none" THEN "unsent"
  ELSE IF j = "skipped" THEN "skipped"
  ELSE IF lines # <<>> THEN "journalled"
  ELSE IF j \in {"completed", "failed"} /\ pc = "idle" THEN "dropped" ELSE "held"
Pc(m) == call[<<m, "direct">>].pc

LEMMA FateIs ==
  ASSUME Written, Written', NEW m \in Messages
  PROVE  Fate(m) = FateOf(job[m], journal[m], Pc(m)) /\ Fate(m)' = FateOf(job'[m], journal'[m], Pc(m)')
<1>1. job[m] \in {"none", "skipped"} => journal[m] = <<>>
  BY DEF Written
<1>2. job'[m] \in {"none", "skipped"} => journal'[m] = <<>>
  BY DEF Written
<1> QED
  BY <1>1, <1>2 DEF Fate, FateOf, Pc

Fates == [m \in Messages |-> Fate(m)]

\* The fate of one message changes.
LEMMA FateChanges ==
  ASSUME Written, Written', NEW m \in Messages,
         \A n \in Messages : n # m =>
           job'[n] = job[n] /\ journal'[n] = journal[n] /\ Pc(n)' = Pc(n)
  PROVE  Fates' = [Fates EXCEPT ![m] = FateOf(job'[m], journal'[m], Pc(m)')]
<1>1. \A n \in Messages : Fate(n)' = IF n = m THEN FateOf(job'[m], journal'[m], Pc(m)') ELSE Fate(n)
  BY FateIs
<1> QED
  BY <1>1 DEF Fates

\* The promise does not see a step that leaves the faults, and of each message the job and
\* whether it has lines.
LEMMA Unseen ==
  ASSUME Written, Written', UNCHANGED hit,
         \A m \in Messages : FateOf(job'[m], journal'[m], Pc(m)') = FateOf(job[m], journal[m], Pc(m))
  PROVE  UNCHANGED <<Fates, hit>>
<1>1. \A m \in Messages : Fate(m)' = Fate(m)
  BY FateIs
<1> QED
  BY <1>1 DEF Fates

LEMMA StepPromised ==
  ASSUME IInv, IInv', [Next]_vars
  PROVE  Promise!Next \/ UNCHANGED <<Fates, hit>>
<1> USE DEF IInv
<1>a. \A n \in Messages : Fates[n] = FateOf(job[n], journal[n], Pc(n))
  BY FateIs DEF Fates
<1>1. ASSUME NEW m \in Messages, SendSkipped(m) PROVE Promise!Next
  <2>1. job[m] = "none" /\ journal[m] = <<>> /\ UNCHANGED <<journal, call, hit>>
    BY <1>1 DEF SendSkipped, Pending, Written
  <2>2. \A n \in Messages : job'[n] = IF n = m THEN "skipped" ELSE job[n]
    BY <1>1 DEF SendSkipped, Typed, JobsOK
  <2>3. Fates[m] = "unsent" /\ Fates' = [Fates EXCEPT ![m] = "skipped"]
    BY <1>a, <2>1, <2>2, FateChanges DEF FateOf, Pc
  <2> QED BY <2>1, <2>3 DEF Promise!Next, Promise!Skip, Fates
<1>2. ASSUME NEW m \in Messages, SendQueued(m) \/ SendDirect(m) PROVE Promise!Next
  <2>1. job[m] = "none" /\ journal[m] = <<>> /\ UNCHANGED <<journal, hit>>
    BY <1>2 DEF SendQueued, SendDirect, Pending, Written
  <2>2. \E j \in {"waiting", "direct"} : \A n \in Messages : job'[n] = IF n = m THEN j ELSE job[n]
    BY <1>2 DEF SendQueued, SendDirect, Typed, JobsOK
  <2>3. \A n \in Messages : n # m => Pc(n)' = Pc(n)
    BY <1>2 DEF SendQueued, SendDirect, Typed, CallsOK, Calls, Pc, Vias
  <2>4. Fates[m] = "unsent" /\ Fates' = [Fates EXCEPT ![m] = "held"]
    BY <1>a, <2>1, <2>2, <2>3, FateChanges DEF FateOf
  <2> QED BY <2>1, <2>4 DEF Promise!Next, Promise!Accept, Fates
<1>3. ASSUME NEW m \in Messages, Take(m) PROVE UNCHANGED <<Fates, hit>>
  <2>1. job[m] = "waiting" /\ UNCHANGED <<journal, hit>>
    BY <1>3 DEF Take
  <2>2. \A n \in Messages : job'[n] = IF n = m THEN "active" ELSE job[n]
    BY <1>3 DEF Take, Typed, JobsOK
  <2>3. \A n \in Messages : Pc(n)' = Pc(n)
    BY <1>3 DEF Take, Typed, CallsOK, Calls, Pc, Vias
  <2> QED BY <2>1, <2>2, <2>3, Unseen DEF FateOf
<1>4. ASSUME NEW m \in Messages, EndJob(m) \/ EndDirect(m)
      PROVE  Promise!Next \/ UNCHANGED <<Fates, hit>>
  <2>1. UNCHANGED <<journal, hit>> /\ job[m] \notin {"none", "skipped"}
    BY <1>4 DEF EndJob, EndDirect, Manned, WorkerOn, DirectOn
  <2>2. journal[m] # <<>> \/ m \in hit
    BY <1>4 DEF EndJob, EndDirect, Written
  <2>3. PICK j \in JobStates : \A n \in Messages : job'[n] = IF n = m THEN j ELSE job[n]
    BY <1>4 DEF EndJob, EndDirect, Outcome, Typed, JobsOK, JobStates
  <2>4. \A n \in Messages : n # m => Pc(n)' = Pc(n)
    BY <1>4 DEF EndJob, EndDirect, Typed, CallsOK, Calls, Pc, Vias
  <2>5. j \notin {"none", "skipped"}
    BY <1>4, <2>1, <2>3 DEF EndJob, EndDirect, Outcome, Typed, JobsOK
  <2>6. \/ Fates[m] # "dropped"
        \/ journal[m] = <<>> /\ job[m] \in {"completed", "failed"} /\ Pc(m) = "idle"
    BY <1>a DEF FateOf
  <2>7. Fates[m] # "dropped"
    BY <1>4, <2>6 DEF EndJob, EndDirect, Manned, WorkerOn, Pc
  <2>8. CASE journal[m] # <<>>
    BY <2>1, <2>3, <2>4, <2>5, <2>8, Unseen DEF FateOf
  <2>9. CASE journal[m] = <<>>
    <3>1. Fates[m] = "held"
      BY <1>a, <2>1, <2>7, <2>9 DEF FateOf
    <3>2. FateOf(job'[m], journal'[m], Pc(m)') \in {"held", "dropped"}
      BY <2>1, <2>3, <2>5, <2>9 DEF FateOf
    <3>3. CASE FateOf(job'[m], journal'[m], Pc(m)') = "held"
      <4>1. \A n \in Messages :
              FateOf(job'[n], journal'[n], Pc(n)') = FateOf(job[n], journal[n], Pc(n))
        BY <1>a, <2>1, <2>3, <2>4, <3>1, <3>3
      <4> QED BY <2>1, <4>1, Unseen
    <3>4. CASE FateOf(job'[m], journal'[m], Pc(m)') = "dropped"
      <4>1. Fates' = [Fates EXCEPT ![m] = "dropped"]
        BY <2>1, <2>3, <2>4, <3>4, FateChanges
      <4> QED BY <2>1, <2>2, <2>9, <3>1, <4>1 DEF Promise!Next, Promise!Drop, Fates
    <3> QED BY <3>2, <3>3, <3>4
  <2> QED BY <2>8, <2>9
<1>5. ASSUME NEW m \in Messages, NEW v \in Vias, CallStep(<<m, v>>)
      PROVE  Promise!Next \/ UNCHANGED <<Fates, hit>>
  <2>0. <<m, v>>[1] = m /\ <<m, v>>[2] = v /\ <<m, v>> \in Calls /\ call[<<m, v>>] \in CallRecords
    BY CallKnown
  <2>a. ASSUME NEW n \in Messages PROVE Pc(n)' = "idle" <=> Pc(n) = "idle"
    <3>1. <<n, "direct">> \in Calls /\ call[<<n, "direct">>] \in CallRecords
      BY CallKnown DEF Vias
    <3>2. CASE <<n, "direct">> # <<m, v>>
      <4>1. call'[<<n, "direct">>] = call[<<n, "direct">>]
        BY <1>5, <2>0, <3>1, <3>2 DEF CallStep, Address, FindGroups, Answered, Answer, Refuse, Post,
                                     Log, LogFails, SetStatus, Typed, CallsOK
      <4> QED BY <4>1 DEF Pc
    <3>3. CASE <<n, "direct">> = <<m, v>>
      <4>1. CASE Address(<<m, v>>) \/ FindGroups(<<m, v>>)
        <5>1. call[<<m, v>>].pc \in {"start", "groups"} /\ call'[<<m, v>>].pc # "idle"
          BY <2>0, <4>1 DEF Address, FindGroups, Refuse, Post, Typed, CallsOK, CallRecords
        <5> QED BY <3>3, <5>1 DEF Pc
      <4>2. CASE Answered(<<m, v>>)
        <5>1. PICK t \in call[<<m, v>>].wait, d \in BOOLEAN, e \in Errors : Answer(<<m, v>>, t, d, e)
          BY <4>2 DEF Answered, Verdicts, Errors, Retryable
        <5>2. call[<<m, v>>].pc = "post" /\ call'[<<m, v>>].pc \in {"post", "journal"}
          <6>1. call[<<m, v>>].pc = "post"
            BY <5>1 DEF Answer
          <6>2. call'[<<m, v>>].pc \in {"post", "journal"}
            BY <2>0, <5>1, AnswerFields DEF Typed
          <6> QED BY <6>1, <6>2
        <5> QED BY <3>3, <5>2 DEF Pc
      <4>3. CASE Log(<<m, v>>) \/ LogFails(<<m, v>>)
        <5>1. call[<<m, v>>].pc = "journal" /\ call'[<<m, v>>].pc = "ack"
          BY <2>0, <4>3 DEF Log, LogFails, Typed, CallsOK, CallRecords
        <5> QED BY <3>3, <5>1 DEF Pc
      <4>4. ~SetStatus(<<m, v>>)
        BY <2>0, <3>3 DEF SetStatus
      <4> QED BY <1>5, <4>1, <4>2, <4>3, <4>4 DEF CallStep
    <3> QED BY <3>2, <3>3
  <2>1. CASE Address(<<m, v>>) \/ FindGroups(<<m, v>>) \/ Answered(<<m, v>>)
    <3>1. UNCHANGED <<job, journal, hit>>
      BY <2>1 DEF Address, FindGroups, Answered, Answer
    <3> QED BY <2>a, <3>1, Unseen DEF FateOf
  <2>2. CASE Log(<<m, v>>)
    <3>1. job[m] \notin {"none", "skipped"} /\ Fates[m] # "dropped" /\ UNCHANGED <<job, hit>>
      BY <1>a, <2>0, <2>2 DEF Log, Manned, WorkerOn, DirectOn, Vias, FateOf, Pc
    <3>2. Line(<<m, v>>) \in Lines
      BY <2>0, FieldTypes DEF Line, Lines, Status
    <3>3. journal[m] \in Seq(Lines)
      BY DEF Typed, LinesOK
    <3>4. Append(journal[m], Line(<<m, v>>)) # <<>>
      BY <3>2, <3>3, Appended
    <3>5. \A n \in Messages : n # m => journal'[n] = journal[n]
      BY <2>0, <2>2 DEF Log, Typed, LinesOK
    <3>6. journal'[m] # <<>>
      BY <2>0, <2>2, <3>4 DEF Log, Typed, LinesOK
    <3>7. CASE journal[m] = <<>>
      <4>1. Fates[m] = "held"
        BY <1>a, <3>1, <3>7 DEF FateOf
      <4>2. \A n \in Messages : n # m => FateOf(job'[n], journal'[n], Pc(n)') = Fates[n]
        BY <1>a, <2>a, <3>1, <3>5 DEF FateOf
      <4>3. FateOf(job'[m], journal'[m], Pc(m)') = "journalled"
        BY <3>1, <3>6 DEF FateOf
      <4>4. \A n \in Messages : Fate(n)' = IF n = m THEN "journalled" ELSE Fates[n]
        BY <4>2, <4>3, FateIs
      <4>5. Fates' = [Fates EXCEPT ![m] = "journalled"]
        BY <4>4 DEF Fates
      <4> QED BY <3>1, <4>1, <4>5 DEF Promise!Next, Promise!Journal, Fates
    <3>8. CASE journal[m] # <<>>
      BY <2>a, <3>1, <3>5, <3>6, <3>8, Unseen DEF FateOf
    <3> QED BY <3>7, <3>8
  <2>3. CASE LogFails(<<m, v>>)
    <3>1. UNCHANGED <<job, journal>> /\ hit' = hit \cup {m}
      BY <2>0, <2>3 DEF LogFails
    <3>2. Fates' = [n \in Messages |-> IF n \in {} THEN "dropped" ELSE Fates[n]]
      <4>1. \A n \in Messages : Fate(n)' = Fate(n)
        BY <2>a, <3>1, FateIs DEF FateOf
      <4> QED BY <4>1 DEF Fates
    <3>a. {} \in SUBSET {n \in {m} : Fates[n] = "held"}
      OBVIOUS
    <3>b. \E L \in SUBSET {n \in {m} : Fates[n] = "held"} :
            Fates' = [n \in Messages |-> IF n \in L THEN "dropped" ELSE Fates[n]]
      BY <3>a, <3>2
    <3>3. Promise!Fault({m})
      BY <3>1, <3>b DEF Promise!Fault, Fates
    <3> QED BY <3>3 DEF Promise!Next
  <2>4. CASE SetStatus(<<m, v>>)
    <3>1. v = "resend" /\ call[<<m, v>>].row \in DOMAIN journal[m] /\ UNCHANGED <<job, hit>>
      BY <2>0, <2>4 DEF SetStatus, RowThere
    <3>2. \E x : journal' = [journal EXCEPT ![m] = [journal[m] EXCEPT ![call[<<m, v>>].row] = x]]
                 \/ journal' = journal
      BY <2>0, <2>4 DEF SetStatus
    <3>3. \A n \in Messages : journal[n] \in Seq(Lines) /\ journal'[n] \in Seq(Lines)
      BY DEF Typed, LinesOK
    <3>4. \A n \in Messages : DOMAIN journal'[n] = DOMAIN journal[n]
      BY <3>2, <3>3 DEF Typed, LinesOK
    <3>5. \A n \in Messages : journal'[n] = <<>> <=> journal[n] = <<>>
      BY <3>3, <3>4
    <3> QED BY <2>a, <3>1, <3>5, Unseen DEF FateOf
  <2> QED BY <1>5, <2>1, <2>2, <2>3, <2>4 DEF CallStep
<1>6. ASSUME NEW m \in Messages, NEW r, Resend(m, r) PROVE UNCHANGED <<Fates, hit>>
  <2>1. \A n \in Messages : Pc(n)' = Pc(n)
    BY <1>6 DEF Resend, Typed, CallsOK, Calls, Pc, Vias
  <2> QED BY <1>6, <2>1, Unseen DEF Resend
<1>7. ASSUME NEW m \in Messages, NEW t \in Targets, LateAnswer(m, t) PROVE UNCHANGED <<Fates, hit>>
  BY <1>7, Unseen DEF LateAnswer, Pc
<1>8. ASSUME NEW f, NEW gs, Switch(f) \/ Assign(f, gs) PROVE UNCHANGED <<Fates, hit>>
  <2>1. ASSUME NEW n \in Messages PROVE Pc(n)' = Pc(n)
    <3>1. <<n, "direct">> \in Calls /\ call[<<n, "direct">>] \in CallRecords
      BY CallKnown DEF Vias
    <3>2. call'[<<n, "direct">>] \in
            {call[<<n, "direct">>], [call[<<n, "direct">>] EXCEPT !.off = FALSE]}
      BY <1>8, <3>1 DEF Switch, Assign
    <3> QED BY <3>1, <3>2 DEF Pc, CallRecords
  <2> QED BY <1>8, <2>1, Unseen DEF Switch, Assign
<1>9. CASE Crash
  <2> DEFINE cut == {m \in Messages : \E v \in Vias : call[<<m, v>>].pc # "idle"}
  <2> DEFINE lost == {m \in cut : Fates[m] = "held" /\ job'[m] \in {"completed", "failed"}}
  <2>1. hit' = hit \cup cut /\ journal' = journal
    BY <1>9 DEF Crash
  <2>2. \A m \in Messages :
          job'[m] = IF job[m] = "active" THEN IF stalls[m] < MaxStalled THEN "waiting" ELSE "failed"
                    ELSE IF job[m] = "direct" THEN "failed" ELSE job[m]
    BY <1>9 DEF Crash
  <2>3. \A m \in Messages : job[m] \in {"active", "direct"} \/ Pc(m) # "idle" => m \in cut
    BY DEF Manned, WorkerOn, DirectOn, Vias, Pc
  <2>c. \A m \in Messages : Pc(m)' = "idle"
    BY <1>9, IdleFields DEF Crash, Calls, Vias, Pc
  <2>4. \A m \in Messages : Fate(m)' = IF m \in lost THEN "dropped" ELSE Fates[m]
    <3> SUFFICES ASSUME NEW m \in Messages
                 PROVE  Fate(m)' = IF m \in lost THEN "dropped" ELSE Fates[m]
      OBVIOUS
    <3>1. /\ Fate(m)' = FateOf(job'[m], journal[m], "idle")
          /\ Fates[m] = FateOf(job[m], journal[m], Pc(m))
      BY <1>a, <2>1, <2>c, FateIs
    <3>2. CASE job[m] \in {"active", "direct"}
      BY <2>2, <2>3, <3>1, <3>2 DEF FateOf
    <3>3. CASE job[m] \notin {"active", "direct"}
      BY <2>2, <2>3, <3>1, <3>3 DEF FateOf
    <3> QED BY <3>2, <3>3
  <2>5. Fates' = [m \in Messages |-> IF m \in lost THEN "dropped" ELSE Fates[m]]
    BY <2>4 DEF Fates
  <2>6. lost \in SUBSET {m \in cut : Fates[m] = "held"} /\ cut \in SUBSET Messages
    OBVIOUS
  <2> HIDE DEF lost, cut
  <2>7. Promise!Fault(cut)
    BY <2>1, <2>5, <2>6 DEF Promise!Fault, Fates
  <2> QED BY <2>6, <2>7 DEF Promise!Next
<1>10. CASE UNCHANGED vars
  BY <1>10, Unseen DEF vars, Pc
<1>11. \A c \in Calls : \E m \in Messages, v \in Vias : c = <<m, v>>
  BY DEF Calls
<1>12. ASSUME NEW c \in Calls, CallStep(c) PROVE Promise!Next \/ UNCHANGED <<Fates, hit>>
  <2>1. PICK m \in Messages, v \in Vias : c = <<m, v>>
    BY <1>11
  <2> QED BY <1>5, <1>12, <2>1
<1> QED
  BY <1>1, <1>2, <1>3, <1>4, <1>6, <1>7, <1>8, <1>9, <1>10, <1>12
  DEF Next, Progress, Work

\* The safety half of what the sending promises its callers (ImplementsOutbox checks both):
\* a message is accepted or skipped once, then held until it has a line in the journal, and
\* only one that a fault touched is dropped without; a line is never taken back (send,
\* deliver, the worker and a restart against Outbox).
THEOREM PromiseSafe ==
  Spec => Promise!Safety
<1>1. Init => Promise!Init
  <2> SUFFICES ASSUME Init PROVE Promise!Init
    OBVIOUS
  <2>1. \A m \in Messages : Fate(m) = "unsent"
    BY DEF Init, Fate
  <2> QED BY <2>1 DEF Init, Promise!Init
<1>2. IInv /\ IInv' /\ [Next]_vars => [Promise!Next]_<<Fates, hit>>
  BY StepPromised
<1>3. IInv /\ IInv' /\ [Next]_vars => [Promise!Next]_<<[m \in Messages |-> Fate(m)], hit>>
  BY <1>2 DEF Fates
<1> QED
  BY <1>1, <1>3, IInvAlways, PTL DEF Spec, Promise!Safety
=============================================================================
