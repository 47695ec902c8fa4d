------------------------- MODULE AnnouncementsProofs -------------------------
(***************************************************************************)
(* For any orders, schedules, employees and bounds: the messages to        *)
(* customers, the scheduled reports and the pay slips leave as the runs    *)
(* check on a small instance.  Each part has its inductive invariant; the  *)
(* steps of the other parts leave its variables alone.                     *)
(***************************************************************************)
EXTENDS Announcements, FiniteSetTheorems, TLAPS

-----------------------------------------------------------------------------
(* The thank-you messages.                                                 *)

Calls ==
  [pc : {"idle", "config", "info", "token", "mark", "end", "lost"}, force : BOOLEAN,
   room : BOOLEAN, reason : Customers!Reasons, since : SUBSET Customers!Requests]
Written == waiting \cup sent

SettingsOK ==
  /\ sort \in Situations /\ now \in Nat /\ enabled \in BOOLEAN /\ notified \in SUBSET Orders
  /\ lastScheduledAt \in Nat /\ crashes \in Nat /\ lapses \in Nat
CallsOK == request \in [Customers!Requests -> Calls]
MessagesOK == Written \in SUBSET Customers!Messages /\ IsFiniteSet(sent)

\* lastScheduledAt is no further ahead than a message may be put off, and no message this
\* process put in its slot is later.
SlotsTaken ==
  /\ lastScheduledAt <= now + Cap
  /\ \A w \in Written :
       w.boot <= crashes /\ (w.boot = crashes /\ ~w.unspaced => w.at <= lastScheduledAt)

\* A message was written by a request that had its token; when that one has ended, its order
\* is marked, or it has thrown.
Thrown(q) == request[q].reason = "thrown"
WrittenIsMarked ==
  \A w \in Written :
    /\ request[w.req].pc \in {"mark", "end", "lost"}
    /\ request[w.req].pc = "end" => w.req[1] \in notified \/ Thrown(w.req)

\* What a request began after has ended and is of the same order.
SinceHasEnded ==
  \A r \in Customers!Requests : \A q \in request[r].since : request[q].pc = "end" /\ q[1] = r[1]

\* A request that is not forced and has its token, or has written, began after none that wrote
\* and did not throw.
FirstToWrite ==
  \A r \in Customers!Requests :
    ~request[r].force /\ (request[r].pc \in {"token", "mark"} \/ \E v \in Written : v.req = r)
    => \A w \in Written : w.req \in request[r].since => Thrown(w.req)

\* The inductive invariant.
CustomersIInv ==
  /\ SettingsOK /\ CallsOK /\ MessagesOK
  /\ SlotsTaken /\ Customers!Spaced /\ WrittenIsMarked /\ SinceHasEnded /\ FirstToWrite

LEMMA CustomersTyped == CustomersIInv => Customers!TypeOK
  BY DEF CustomersIInv, SettingsOK, CallsOK, MessagesOK, Calls, Written, Customers!TypeOK

LEMMA CustomersStart == ASSUME Customers!CustomerAssumption, Customers!Init PROVE CustomersIInv
  <1> USE DEF Customers!Init, Customers!Unasked
  <1>1. Written = {}
    BY DEF Written
  <1>2. SettingsOK /\ MessagesOK
    BY <1>1, FS_EmptySet DEF SettingsOK, MessagesOK
  <1>3. CallsOK
    BY DEF CallsOK, Calls, Customers!Reasons
  <1>4. SlotsTaken /\ Customers!Spaced /\ WrittenIsMarked
    BY <1>1 DEF SlotsTaken, Customers!Spaced, WrittenIsMarked, Written, Customers!CustomerAssumption
  <1>5. SinceHasEnded /\ FirstToWrite
    BY <1>1 DEF SinceHasEnded, FirstToWrite
  <1> QED BY <1>2, <1>3, <1>4, <1>5 DEF CustomersIInv

\* What a step of one request that writes no message must respect.
MayMove(r, new) ==
  /\ request' = [request EXCEPT ![r] = new] /\ request[r].pc # "end"
  /\ \A q \in new.since : request[q].pc = "end" /\ q[1] = r[1]
  /\ \A w \in Written : w.req = r =>
       /\ new.pc \in {"mark", "end", "lost"}
       /\ new.pc = "end" => r[1] \in notified' \/ new.reason = "thrown"
       /\ new.since = request[r].since /\ new.force = request[r].force
  /\ ~new.force /\ new.pc \in {"token", "mark"} =>
       \A w \in Written : w.req \in new.since => Thrown(w.req)
  /\ notified \subseteq notified' /\ UNCHANGED <<waiting, sent>>

LEMMA CallMoves ==
  ASSUME CustomersIInv, NEW r \in Customers!Requests, NEW new \in Calls, MayMove(r, new)
  PROVE  CallsOK' /\ WrittenIsMarked' /\ SinceHasEnded' /\ FirstToWrite'
  <1> USE DEF MayMove
  <1>1. /\ request'[r] = new
        /\ \A q \in Customers!Requests : q # r => request'[q] = request[q]
    BY DEF CustomersIInv, CallsOK
  <1>2. CallsOK' /\ Written' = Written /\ \A w \in Written : w.req \in Customers!Requests
    BY DEF CustomersIInv, CallsOK, Written, MessagesOK, Customers!Messages
  <1>3. WrittenIsMarked'
    BY <1>1, <1>2 DEF CustomersIInv, WrittenIsMarked, Thrown
  <1>4. \A q \in Customers!Requests : request[q].since \subseteq Customers!Requests
    BY DEF CustomersIInv, CallsOK, Calls
  <1>5. new.since \subseteq Customers!Requests
    BY DEF Calls
  <1>6. SinceHasEnded'
    BY <1>1, <1>4, <1>5 DEF CustomersIInv, SinceHasEnded
  <1>7. \A q \in Customers!Requests : r \notin request[q].since /\ r \notin new.since
    BY DEF CustomersIInv, SinceHasEnded
  <1>8. FirstToWrite'
    BY <1>1, <1>2, <1>7 DEF CustomersIInv, FirstToWrite, Thrown
  <1> QED BY <1>2, <1>3, <1>6, <1>8

\* The parts of the invariant that no request touches but by a message.
LEMMA RestKept ==
  ASSUME CustomersIInv, SettingsOK', UNCHANGED <<now, lastScheduledAt, crashes, waiting, sent>>
  PROVE  MessagesOK' /\ SlotsTaken' /\ Customers!Spaced'
  BY DEF CustomersIInv, MessagesOK, SlotsTaken, Customers!Spaced, Written

\* A request has no message before its mark.
LEMMA NothingWritten ==
  ASSUME CustomersIInv, NEW r \in Customers!Requests, request[r].pc \notin {"mark", "end", "lost"}
  PROVE  \A w \in Written : w.req # r
  BY DEF CustomersIInv, WrittenIsMarked

LEMMA CallIs == ASSUME CustomersIInv, NEW r \in Customers!Requests PROVE request[r] \in Calls
  BY DEF CustomersIInv, CallsOK

LEMMA BeginKeeps ==
  ASSUME CustomersIInv, NEW r \in Customers!Requests, NEW force \in BOOLEAN,
         Customers!Begin(r, force)
  PROVE  CustomersIInv'
  <1> DEFINE new == [Customers!Unasked EXCEPT !.pc = "config", !.force = force,
                                              !.since = Customers!Ended(r[1])]
  <1> USE DEF Customers!Begin
  <1>1. new \in Calls /\ new.pc = "config" /\ new.since = Customers!Ended(r[1])
    BY DEF Calls, Customers!Unasked, Customers!Ended, Customers!Reasons
  <1>2. \A q \in new.since : request[q].pc = "end" /\ q[1] = r[1]
    BY <1>1 DEF Customers!Ended
  <1>3. request' = [request EXCEPT ![r] = new]
    OBVIOUS
  <1>4. CallsOK' /\ WrittenIsMarked' /\ SinceHasEnded' /\ FirstToWrite'
    <2>1. \A w \in Written : w.req # r
      BY NothingWritten
    <2>2. notified \subseteq notified' /\ UNCHANGED <<waiting, sent>> /\ request[r].pc # "end"
      OBVIOUS
    <2> HIDE DEF new, Customers!Begin
    <2>3. MayMove(r, new)
      BY <1>1, <1>2, <1>3, <2>1, <2>2 DEF MayMove
    <2> QED BY <1>1, <2>3, CallMoves
  <1>5. SettingsOK'
    BY DEF CustomersIInv, SettingsOK
  <1> QED BY <1>4, <1>5, RestKept DEF CustomersIInv

\* Leaving, at a point where a request that wrote is to be marked.
LEMMA LeaveKeeps ==
  ASSUME CustomersIInv, NEW r \in Customers!Requests, NEW why \in Customers!Reasons,
         Customers!Leave(r, why), request[r].pc # "end",
         request[r].pc \in {"mark", "lost"} => r[1] \in notified' \/ why = "thrown",
         notified \subseteq notified', SettingsOK', UNCHANGED <<waiting, sent>>
  PROVE  CallsOK' /\ WrittenIsMarked' /\ SinceHasEnded' /\ FirstToWrite'
  <1> DEFINE new == [request[r] EXCEPT !.pc = "end", !.reason = why]
  <1>1. request[r] \in Calls
    BY CallIs
  <1>2. new \in Calls /\ new.pc = "end" /\ new.since = request[r].since
        /\ new.force = request[r].force /\ new.reason = why
    BY <1>1 DEF Calls
  <1>3. request' = [request EXCEPT ![r] = new]
    BY <1>1 DEF Customers!Leave, CustomersIInv, CallsOK
  <1>4. \A q \in new.since : request[q].pc = "end" /\ q[1] = r[1]
    BY <1>2 DEF CustomersIInv, SinceHasEnded
  <1>5. \A w \in Written : w.req = r => r[1] \in notified' \/ why = "thrown"
    BY NothingWritten
  <1>6. \A w \in Written : w.req = r =>
          /\ new.pc \in {"mark", "end", "lost"}
          /\ new.pc = "end" => r[1] \in notified' \/ new.reason = "thrown"
          /\ new.since = request[r].since /\ new.force = request[r].force
    BY <1>2, <1>5
  <1>7. ~(new.pc \in {"token", "mark"})
    BY <1>2
  <1> HIDE DEF new
  <1>8. MayMove(r, new)
    BY <1>3, <1>4, <1>6, <1>7 DEF MayMove
  <1> QED BY <1>2, <1>8, CallMoves

\* The part counts as the library does.
LEMMA CountedAlike == ASSUME NEW S PROVE Customers!Cardinality(S) = Cardinality(S)
  BY Zenon DEF Customers!Cardinality, Cardinality

LEMMA ReadConfigKeeps ==
  ASSUME Customers!CustomerAssumption, CustomersIInv, NEW r \in Customers!Requests,
         Customers!ReadConfig(r)
  PROVE  CustomersIInv'
  <1> USE DEF Customers!ReadConfig
  <1>1. SettingsOK'
    BY DEF CustomersIInv, SettingsOK
  <1>2. CASE Customers!Leave(r, "disabled")
    BY <1>1, <1>2, LeaveKeeps, RestKept DEF CustomersIInv, Customers!Reasons
  <1>3. CASE request' = [request EXCEPT ![r].pc = "info", ![r].room = Customers!Cardinality(sent) < DailyLimit]
    <2> DEFINE room == Customers!Cardinality(sent) < DailyLimit
               new == [request[r] EXCEPT !.pc = "info", !.room = room]
    <2>1. room \in BOOLEAN
      BY FS_CardinalityType, CountedAlike DEF CustomersIInv, MessagesOK, Customers!CustomerAssumption
    <2>2. request[r] \in Calls
      BY CallIs
    <2>3. request' = [request EXCEPT ![r] = new]
      BY <1>3, <2>2 DEF CustomersIInv, CallsOK
    <2> HIDE DEF room
    <2>4. new \in Calls /\ new.pc = "info" /\ new.since = request[r].since
      BY <2>1, <2>2 DEF Calls
    <2>5. \A q \in new.since : request[q].pc = "end" /\ q[1] = r[1]
      BY <2>4 DEF CustomersIInv, SinceHasEnded
    <2>6. CallsOK' /\ WrittenIsMarked' /\ SinceHasEnded' /\ FirstToWrite'
      <3>1. \A w \in Written : w.req # r
        BY NothingWritten
      <3>2. notified \subseteq notified' /\ UNCHANGED <<waiting, sent>> /\ request[r].pc # "end"
        OBVIOUS
      <3> HIDE DEF new, Customers!ReadConfig
      <3>3. MayMove(r, new)
        BY <2>3, <2>4, <2>5, <3>1, <3>2 DEF MayMove
      <3> QED BY <2>4, <3>3, CallMoves
    <2> QED BY <1>1, <2>6, RestKept DEF CustomersIInv
  <1> QED BY <1>2, <1>3

LEMMA ReadInfoKeeps ==
  ASSUME CustomersIInv, NEW r \in Customers!Requests, Customers!ReadInfo(r)
  PROVE  CustomersIInv'
  <1> USE DEF Customers!ReadInfo
  <1>1. SettingsOK'
    BY DEF CustomersIInv, SettingsOK
  <1>2. CASE Customers!Gate(r) # "none" /\ Customers!Leave(r, Customers!Gate(r))
    <2>1. Customers!Gate(r) \in Customers!Reasons
      BY DEF Customers!Gate, Customers!Reasons
    <2> QED BY <1>1, <1>2, <2>1, LeaveKeeps, RestKept DEF CustomersIInv
  <1>3. CASE Customers!Gate(r) = "none" /\ request' = [request EXCEPT ![r].pc = "token"]
    <2> DEFINE new == [request[r] EXCEPT !.pc = "token"]
    <2>1. request[r] \in Calls
      BY CallIs
    <2>2. new \in Calls /\ new.pc = "token" /\ new.since = request[r].since
          /\ new.force = request[r].force
      BY <2>1 DEF Calls
    <2>3. request' = [request EXCEPT ![r] = new]
      BY <1>3, <2>1 DEF CustomersIInv, CallsOK
    <2>4. \A q \in new.since : request[q].pc = "end" /\ q[1] = r[1]
      BY <2>2 DEF CustomersIInv, SinceHasEnded
    <2>5. ~new.force => r[1] \notin notified
      BY <1>3, <2>2 DEF Customers!Gate
    <2>6. ~new.force => \A w \in Written : w.req \in new.since => Thrown(w.req)
      BY <2>4, <2>5 DEF CustomersIInv, WrittenIsMarked
    <2>7. CallsOK' /\ WrittenIsMarked' /\ SinceHasEnded' /\ FirstToWrite'
      <3>1. \A w \in Written : w.req # r
        BY NothingWritten
      <3>2. notified \subseteq notified' /\ UNCHANGED <<waiting, sent>> /\ request[r].pc # "end"
        OBVIOUS
      <3> HIDE DEF new, Customers!ReadInfo
      <3>3. MayMove(r, new)
        BY <2>2, <2>3, <2>4, <2>6, <3>1, <3>2 DEF MayMove
      <3> QED BY <2>2, <3>3, CallMoves
    <2> QED BY <1>1, <2>7, RestKept DEF CustomersIInv
  <1> QED BY <1>2, <1>3

LEMMA MarkNotifiedKeeps ==
  ASSUME Customers!CustomerAssumption, CustomersIInv, NEW r \in Customers!Requests,
         Customers!Mark(r)
  PROVE  CustomersIInv'
  <1> USE DEF Customers!Mark
  <1>1. r[1] \in Orders
    BY DEF Customers!Requests, Customers!CustomerAssumption
  <1>2. SettingsOK'
    BY <1>1 DEF CustomersIInv, SettingsOK
  <1>3. CallsOK' /\ WrittenIsMarked' /\ SinceHasEnded' /\ FirstToWrite'
    BY <1>2, LeaveKeeps DEF Customers!Reasons
  <1> QED BY <1>2, <1>3, RestKept DEF CustomersIInv

LEMMA MarkNotifiedFailsKeeps ==
  ASSUME CustomersIInv, NEW r \in Customers!Requests, Customers!MarkFails(r)
  PROVE  CustomersIInv'
  <1> USE DEF Customers!MarkFails, Customers!Lapse
  <1>1. SettingsOK'
    BY DEF CustomersIInv, SettingsOK
  <1>2. CallsOK' /\ WrittenIsMarked' /\ SinceHasEnded' /\ FirstToWrite'
    BY <1>1, LeaveKeeps DEF Customers!Reasons
  <1> QED BY <1>1, <1>2, RestKept DEF CustomersIInv

\* The slot of a message (delay of notifyOrder): in time, and after the last one unless it was
\* put off for as long as it may.
LEMMA SlotOf ==
  ASSUME Customers!CustomerAssumption, SettingsOK, SlotsTaken
  PROVE  /\ Customers!Delay \in Nat
         /\ now + Customers!Delay <= now + Cap
         /\ lastScheduledAt <= now + Customers!Delay
         /\ lastScheduledAt + 1 - now <= Cap => lastScheduledAt < now + Customers!Delay
  BY DEF Customers!CustomerAssumption, SettingsOK, SlotsTaken, Customers!Delay, Customers!Least,
         Customers!Most

\* A request with its token writes a message, which waits for its slot, or goes past the queue,
\* or both; the request goes on, or throws.
LEMMA WritingKeeps ==
  ASSUME Customers!CustomerAssumption, CustomersIInv, NEW r \in Customers!Requests,
         request[r].pc = "token", lastScheduledAt' = now + Customers!Delay, lapses' \in Nat,
         NEW new \in {[request[r] EXCEPT !.pc = "mark"],
                      [request[r] EXCEPT !.pc = "end", !.reason = "thrown"]},
         request' = [request EXCEPT ![r] = new],
         NEW M \in SUBSET {Customers!Message(r),
                           [Customers!Message(r) EXCEPT !.at = now, !.unspaced = TRUE]},
         Written' = Written \cup M, IsFiniteSet(sent'),
         UNCHANGED <<sort, now, enabled, notified, crashes>>
  PROVE  CustomersIInv'
  <1>1. /\ Customers!Delay \in Nat
        /\ now + Customers!Delay <= now + Cap
        /\ lastScheduledAt <= now + Customers!Delay
        /\ lastScheduledAt + 1 - now <= Cap => lastScheduledAt < now + Customers!Delay
    BY SlotOf DEF CustomersIInv
  <1>2. now \in Nat /\ lastScheduledAt \in Nat /\ Cap \in Nat /\ crashes \in Nat
    BY DEF CustomersIInv, SettingsOK, Customers!CustomerAssumption
  <1>3. \A m \in M :
          /\ m \in Customers!Messages /\ m.req = r /\ m.boot = crashes
          /\ ~m.unspaced => /\ m = Customers!Message(r) /\ m.at = now + Customers!Delay
                            /\ lastScheduledAt + 1 - now <= Cap
    <2> SUFFICES ASSUME NEW m \in M
                 PROVE  /\ m \in Customers!Messages /\ m.req = r /\ m.boot = crashes
                        /\ ~m.unspaced => /\ m = Customers!Message(r)
                                          /\ m.at = now + Customers!Delay
                                          /\ lastScheduledAt + 1 - now <= Cap
      OBVIOUS
    <2> DEFINE slot == now + Customers!Delay
               capped == lastScheduledAt + 1 - now > Cap
               queued == [req |-> r, at |-> slot, boot |-> crashes, unspaced |-> capped]
               direct == [req |-> r, at |-> now, boot |-> crashes, unspaced |-> TRUE]
    <2>1. slot \in Nat /\ capped \in BOOLEAN /\ (~capped => lastScheduledAt + 1 - now <= Cap)
      BY <1>1, <1>2
    <2>2. m \in {queued, direct} /\ Customers!Message(r) = queued
      BY DEF Customers!Message
    <2> HIDE DEF slot, capped
    <2>3. CASE m = queued
      BY <1>2, <2>1, <2>2, <2>3 DEF Customers!Messages, slot
    <2>4. CASE m = direct
      BY <1>2, <2>4 DEF Customers!Messages
    <2> QED BY <2>2, <2>3, <2>4
  <1>4. SettingsOK'
    BY <1>1, <1>2 DEF CustomersIInv, SettingsOK
  <1>5. MessagesOK'
    BY <1>3 DEF CustomersIInv, MessagesOK
  <1>6. \A w \in Written : w \in Customers!Messages /\ w.at \in Nat /\ w.boot \in Nat
    BY DEF CustomersIInv, MessagesOK, Customers!Messages
  <1>7. SlotsTaken'
    <2>1. lastScheduledAt' <= now + Cap /\ lastScheduledAt <= lastScheduledAt'
      BY <1>1
    <2>2. \A m \in M :
            m.boot <= crashes /\ (m.boot = crashes /\ ~m.unspaced => m.at <= lastScheduledAt')
      BY <1>1, <1>2, <1>3
    <2>3. \A w \in Written :
            w.boot <= crashes /\ (w.boot = crashes /\ ~w.unspaced => w.at <= lastScheduledAt')
      BY <1>1, <1>2, <1>6, <2>1 DEF CustomersIInv, SlotsTaken
    <2> QED BY <2>1, <2>2, <2>3 DEF SlotsTaken
  <1>8. Customers!Spaced'
    <2>1. \A m \in M, w \in Written : w.boot = m.boot /\ ~w.unspaced /\ ~m.unspaced => w.at # m.at
      BY <1>1, <1>2, <1>3, <1>6 DEF CustomersIInv, SlotsTaken
    <2>2. \A m, n \in M : m # n => m.unspaced \/ n.unspaced
      BY <1>3
    <2>3. \A w, v \in Written :
            w # v /\ w.boot = v.boot /\ ~w.unspaced /\ ~v.unspaced => w.at # v.at
      BY DEF CustomersIInv, Customers!Spaced, Written
    <2>4. \A w, v \in Written \cup M :
            w # v /\ w.boot = v.boot /\ ~w.unspaced /\ ~v.unspaced => w.at # v.at
      BY <2>1, <2>2, <2>3
    <2>5. waiting' \cup sent' = Written \cup M
      BY DEF Written
    <2> HIDE DEF Written
    <2> QED BY <2>4, <2>5 DEF Customers!Spaced
  <1>9. /\ request[r] \in Calls /\ new \in Calls
        /\ new.since = request[r].since /\ new.force = request[r].force
        /\ new.pc = "mark" \/ (new.pc = "end" /\ new.reason = "thrown")
    BY CallIs DEF Calls, Customers!Reasons
  <1>10. /\ request'[r] = new
         /\ \A q \in Customers!Requests : q # r => request'[q] = request[q]
    BY DEF CustomersIInv, CallsOK
  <1>11. CallsOK'
    BY <1>9, <1>10 DEF CustomersIInv, CallsOK
  <1>a. \A w \in Written : w.req \in Customers!Requests /\ w.req # r
    BY <1>6, NothingWritten DEF Customers!Messages
  <1>12. WrittenIsMarked'
    BY <1>3, <1>a, <1>9, <1>10 DEF CustomersIInv, WrittenIsMarked, Thrown
  <1>13. \A q \in Customers!Requests : r \notin request[q].since
    BY DEF CustomersIInv, SinceHasEnded
  <1>14. \A q \in Customers!Requests : request'[q].since = request[q].since
                                      /\ request'[q].force = request[q].force
                                      /\ request[q].since \subseteq Customers!Requests
    BY <1>9, <1>10, CallIs DEF Calls
  <1>15. SinceHasEnded'
    BY <1>10, <1>13, <1>14 DEF CustomersIInv, SinceHasEnded
  <1>16. FirstToWrite'
    <2> SUFFICES ASSUME NEW q \in Customers!Requests, ~request'[q].force,
                        request'[q].pc \in {"token", "mark"} \/ \E v \in Written' : v.req = q,
                        NEW w \in Written', w.req \in request'[q].since
                 PROVE  request'[w.req].reason = "thrown"
      BY DEF FirstToWrite, Thrown
    <2>1. w.req # r /\ w \in Written
      BY <1>3, <1>13, <1>14
    <2>2. request[q].pc \in {"token", "mark"} \/ \E v \in Written : v.req = q
      BY <1>3, <1>10
    <2>3. request[w.req].reason = "thrown"
      BY <1>14, <2>1, <2>2 DEF CustomersIInv, FirstToWrite, Thrown
    <2> QED BY <1>10, <1>a, <2>1, <2>3
  <1> QED BY <1>4, <1>5, <1>7, <1>8, <1>11, <1>12, <1>15, <1>16 DEF CustomersIInv

LEMMA ScheduleKeeps ==
  ASSUME Customers!CustomerAssumption, CustomersIInv, NEW r \in Customers!Requests,
         Customers!Schedule(r)
  PROVE  CustomersIInv'
  <1>1. Written' = Written \cup {Customers!Message(r)}
    BY DEF Customers!Schedule, Written
  <1>2. IsFiniteSet(sent') /\ lapses' \in Nat
    BY DEF Customers!Schedule, CustomersIInv, MessagesOK, SettingsOK
  <1>3. request' = [request EXCEPT ![r] = [request[r] EXCEPT !.pc = "mark"]]
    BY CallIs DEF Customers!Schedule, CustomersIInv, CallsOK
  <1> QED BY <1>1, <1>2, <1>3, WritingKeeps DEF Customers!Schedule

LEMMA SendDirectKeeps ==
  ASSUME Customers!CustomerAssumption, CustomersIInv, NEW r \in Customers!Requests,
         Customers!SendDirect(r)
  PROVE  CustomersIInv'
  <1> DEFINE d == [Customers!Message(r) EXCEPT !.at = now, !.unspaced = TRUE]
             q == Customers!Message(r)
             goes == [request[r] EXCEPT !.pc = "mark"]
             out == [request[r] EXCEPT !.pc = "end", !.reason = "thrown"]
  <1>1. lapses' \in Nat
    BY DEF Customers!SendDirect, Customers!Lapse, CustomersIInv, SettingsOK
  <1>2. PICK Q \in SUBSET {q} : waiting' = waiting \cup Q
    <2>1. waiting' = waiting \cup {} \/ waiting' = waiting \cup {q}
      BY DEF Customers!SendDirect
    <2> HIDE DEF q
    <2> QED BY <2>1
  <1>3. PICK D \in SUBSET {d}, new \in {goes, out} :
          sent' = sent \cup D /\ request' = [request EXCEPT ![r] = new]
    <2>1. CASE sent' = sent \cup {d} /\ request' = [request EXCEPT ![r].pc = "mark"]
      <3>1. request' = [request EXCEPT ![r] = goes]
        BY <2>1, CallIs DEF CustomersIInv, CallsOK
      <3> HIDE DEF d, goes, out
      <3> QED BY <2>1, <3>1
    <2>2. CASE Customers!Leave(r, "thrown") /\ UNCHANGED sent
      <3>1. request' = [request EXCEPT ![r] = out]
        BY <2>2, CallIs DEF Customers!Leave, CustomersIInv, CallsOK
      <3>2. sent' = sent \cup {}
        BY <2>2
      <3> HIDE DEF d, goes, out
      <3> QED BY <3>1, <3>2
    <2> QED BY <2>1, <2>2 DEF Customers!SendDirect
  <1>4. IsFiniteSet(sent')
    <2>1. IsFiniteSet({d})
      BY FS_Singleton
    <2>2. IsFiniteSet(D) /\ IsFiniteSet(sent)
      BY <2>1, FS_Subset DEF CustomersIInv, MessagesOK
    <2> QED BY <1>3, <2>2, FS_Union
  <1>5. Written' = Written \cup (Q \cup D) /\ Q \cup D \in SUBSET {q, d}
    BY <1>2, <1>3 DEF Written
  <1>6. request[r].pc = "token" /\ lastScheduledAt' = now + Customers!Delay
        /\ UNCHANGED <<sort, now, enabled, notified, crashes>>
    BY DEF Customers!SendDirect
  <1> QED BY <1>1, <1>3, <1>4, <1>5, <1>6, WritingKeeps

LEMMA DeliverKeeps ==
  ASSUME CustomersIInv, NEW w \in waiting, Customers!Deliver(w) PROVE CustomersIInv'
  <1> USE DEF Customers!Deliver
  <1>1. Written' \subseteq Written /\ sent' \subseteq sent \cup {w} /\ sent \subseteq sent'
    BY DEF Written
  <1>2. IsFiniteSet(sent')
    BY FS_AddElement DEF CustomersIInv, MessagesOK
  <1>3. SettingsOK' /\ CallsOK' /\ MessagesOK'
    BY <1>1, <1>2 DEF CustomersIInv, SettingsOK, CallsOK, MessagesOK
  <1>4. SlotsTaken' /\ WrittenIsMarked'
    BY <1>1 DEF CustomersIInv, SlotsTaken, WrittenIsMarked, Thrown
  <1>5. Customers!Spaced'
    BY <1>1 DEF CustomersIInv, Customers!Spaced, Written
  <1>6. SinceHasEnded' /\ FirstToWrite'
    BY <1>1 DEF CustomersIInv, SinceHasEnded, FirstToWrite, Thrown
  <1> QED BY <1>3, <1>4, <1>5, <1>6 DEF CustomersIInv

LEMMA BoundGrows == \A a, b, c, l \in Nat : l <= a + c /\ a <= b => l <= b + c
  OBVIOUS

\* The clock and the switch touch no request.
LEMMA TickSwitchKeeps ==
  ASSUME Customers!CustomerAssumption, CustomersIInv, SettingsOK', now <= now',
         UNCHANGED <<notified, lastScheduledAt, request, waiting, sent, crashes>>
  PROVE  CustomersIInv'
  <1>1. SlotsTaken'
    <2>1. now \in Nat /\ now' \in Nat /\ lastScheduledAt <= now + Cap
      BY DEF CustomersIInv, SettingsOK, SlotsTaken
    <2>2. Cap \in Nat /\ lastScheduledAt \in Nat
      BY DEF CustomersIInv, SettingsOK, Customers!CustomerAssumption
    <2>3. lastScheduledAt' <= now' + Cap
      BY <2>1, <2>2, BoundGrows
    <2> QED BY <2>3 DEF CustomersIInv, SlotsTaken, Written
  <1>2. CallsOK' /\ MessagesOK' /\ Customers!Spaced' /\ WrittenIsMarked'
    BY DEF CustomersIInv, CallsOK, MessagesOK, Customers!Spaced, WrittenIsMarked, Written,
           Thrown
  <1>3. SinceHasEnded' /\ FirstToWrite'
    BY DEF CustomersIInv, SinceHasEnded, FirstToWrite, Written, Thrown
  <1> QED BY <1>1, <1>2, <1>3 DEF CustomersIInv

\* The process that restarts has put no message in a slot, and carries no request on.
LEMMA RestartKeeps ==
  ASSUME Customers!CustomerAssumption, CustomersIInv, Customers!Crash PROVE CustomersIInv'
  <1> USE DEF Customers!Crash
  <1> DEFINE over(r) == request[r].pc \in {"idle", "end"}
  <1>1. \A r \in Customers!Requests :
          /\ request'[r] \in Calls
          /\ request'[r].pc = (IF over(r) THEN request[r].pc ELSE "lost")
          /\ request'[r].since = request[r].since /\ request'[r].force = request[r].force
          /\ request'[r].reason = request[r].reason
    <2> SUFFICES ASSUME NEW r \in Customers!Requests
                 PROVE  /\ request'[r] \in Calls
                        /\ request'[r].pc = (IF over(r) THEN request[r].pc ELSE "lost")
                        /\ request'[r].since = request[r].since
                        /\ request'[r].force = request[r].force
                        /\ request'[r].reason = request[r].reason
      OBVIOUS
    <2>1. request[r] \in Calls
      BY CallIs
    <2>2. request'[r] = IF over(r) THEN request[r] ELSE [request[r] EXCEPT !.pc = "lost"]
      OBVIOUS
    <2> QED BY <2>1, <2>2 DEF Calls
  <1>2. SettingsOK'
    BY DEF CustomersIInv, SettingsOK
  <1>3. CallsOK'
    <2>1. request' = [r \in Customers!Requests |-> request'[r]]
      OBVIOUS
    <2> QED BY <1>1, <2>1 DEF CallsOK
  <1>4. MessagesOK' /\ Customers!Spaced'
    BY DEF CustomersIInv, MessagesOK, Customers!Spaced, Written
  <1>5. SlotsTaken'
    BY DEF CustomersIInv, SlotsTaken, SettingsOK, Written, MessagesOK, Customers!Messages,
           Customers!CustomerAssumption
  <1>6. WrittenIsMarked'
    BY <1>1 DEF CustomersIInv, WrittenIsMarked, Written, MessagesOK, Customers!Messages, Thrown
  <1>7. SinceHasEnded'
    BY <1>1, CallIs DEF CustomersIInv, SinceHasEnded, Calls
  <1>8. FirstToWrite'
    <2>1. \A w \in Written : w.req \in Customers!Requests
      BY DEF CustomersIInv, MessagesOK, Customers!Messages
    <2> QED BY <1>1, <2>1 DEF CustomersIInv, FirstToWrite, Written, Thrown
  <1> QED BY <1>2, <1>3, <1>4, <1>5, <1>6, <1>7, <1>8 DEF CustomersIInv

LEMMA CustomersStepKeeps ==
  ASSUME Customers!CustomerAssumption, CustomersIInv, [Customers!Next]_customersVars
  PROVE  CustomersIInv'
  <1>1. CASE Customers!Tick
    <2>1. SettingsOK' /\ now <= now'
      BY <1>1 DEF Customers!Tick, CustomersIInv, SettingsOK
    <2> QED BY <1>1, <2>1, TickSwitchKeeps DEF Customers!Tick
  <1>2. CASE Customers!Switch
    <2>1. enabled' \in BOOLEAN
      BY <1>2, Zenon DEF Customers!Switch
    <2>2. SettingsOK' /\ now <= now'
      BY <1>2, <2>1 DEF Customers!Switch, CustomersIInv, SettingsOK
    <2> QED BY <1>2, <2>2, TickSwitchKeeps DEF Customers!Switch
  <1>3. CASE UNCHANGED customersVars
    <2>1. SettingsOK' /\ now <= now'
      BY <1>3 DEF customersVars, CustomersIInv, SettingsOK
    <2> QED BY <1>3, <2>1, TickSwitchKeeps DEF customersVars
  <1> QED BY <1>1, <1>2, <1>3, BeginKeeps, ReadConfigKeeps, ReadInfoKeeps, MarkNotifiedKeeps,
             MarkNotifiedFailsKeeps, ScheduleKeeps, SendDirectKeeps, DeliverKeeps, RestartKeeps
          DEF Customers!Next

LEMMA CustomersAlways == Spec => []CustomersIInv
  <1>1. Init => CustomersIInv
    BY CustomersStart, AnnouncementsAssumption DEF Init
  <1>2. CustomersIInv /\ [Next]_vars => CustomersIInv'
    <2>1. [Next]_vars => [Customers!Next]_customersVars
      BY DEF Next, vars
    <2> QED BY <2>1, CustomersStepKeeps, AnnouncementsAssumption
  <1> QED BY <1>1, <1>2, PTL DEF Spec

\* However the requests interleave and wherever the process restarts, two messages that it put
\* in the queue leave 30 s apart (lastScheduledAt of notifyOrder).
THEOREM MessagesSpaced == Spec => []Spaced
  <1>1. CustomersIInv => Spaced
    BY DEF CustomersIInv, Spaced
  <1> QED BY <1>1, CustomersAlways, PTL

\* What is not forced does not write to the customer of an order again, once the request that
\* wrote has ended and its mark was set (customer_notified_at and the gates of notifyOrder).
THEOREM CustomersNotWrittenAgain == Spec => []NotRepeated
  <1>1. CustomersIInv => NotRepeated
    BY DEF CustomersIInv, FirstToWrite, NotRepeated, Customers!NotRepeated, MessagesOK, Written,
           Customers!Messages, Thrown
  <1> QED BY <1>1, CustomersAlways, PTL

-----------------------------------------------------------------------------
(* The scheduled reports.                                                  *)

ClockOK ==
  /\ day \in 1..Days /\ minute \in 1..Minutes
  /\ at \in [Schedules -> 1..Minutes] /\ on \in [Schedules -> BOOLEAN]
TickOK ==
  tick \in [pc : {"idle", "loop", "compose", "send", "mark"}, todo : SUBSET Schedules,
            cur : SUBSET Schedules, today : 0..Days]
MarksOK == lastRun \in [Schedules -> 0..Days]
SendsOK == sends \in [Schedules -> [1..Days -> Nat]]
CountsOK ==
  ticked \in BOOLEAN /\ reruns \in Nat /\ excusedToday \in SUBSET Schedules /\ faults \in Nat
ReportsTypes == ClockOK /\ TickOK /\ MarksOK /\ SendsOK /\ CountsOK

\* One schedule at a time is between its pick and its mark; the others wait in todo.  A tick
\* that is under way is of a day.
TickShape ==
  /\ tick.pc \in {"idle", "loop"} => tick.cur = {}
  /\ tick.pc = "idle" => tick.todo = {}
  /\ tick.pc # "idle" => tick.today # 0
  /\ tick.todo \cap tick.cur = {}

\* Neither a mark nor a tick is of a day to come.
DaysOrdered ==
  /\ tick.today <= day
  /\ \A s \in Schedules : lastRun[s] <= day
  /\ \A s \in tick.todo \cup tick.cur : lastRun[s] <= tick.today

\* s may send for day d without another incident: its tick is to come to it, or the day is
\* not over and s not marked.
MaySend(s, d) ==
  \/ tick.today = d /\ (s \in tick.todo \/ (s \in tick.cur /\ tick.pc # "mark"))
  \/ d >= day /\ lastRun[s] # d /\ ~(s \in tick.cur /\ tick.today = d)

\* What may still be sent is not sent yet, but for the reruns.
SendsLeft ==
  \A s \in Schedules, d \in 1..Days :
    sends[s][d] <= 1 + reruns /\ (MaySend(s, d) => sends[s][d] <= reruns)

\* A schedule whose minute was read, today, is on its way or marked; a tick of yesterday
\* excuses what it has left.
ReadMeansMarked ==
  /\ \A s \in Schedules \ excusedToday :
       on[s] /\ (at[s] < minute \/ (at[s] = minute /\ ticked)) /\ s \notin tick.todo \cup tick.cur
       => lastRun[s] = day
  /\ tick.today # day => tick.todo \cup tick.cur \subseteq excusedToday

\* The inductive invariant.
ReportsIInv == ReportsTypes /\ TickShape /\ DaysOrdered /\ SendsLeft /\ ReadMeansMarked


LEMMA SendsAreNumbers ==
  ASSUME SendsOK PROVE \A s \in Schedules, d \in 1..Days : sends[s][d] \in Nat
  BY DEF SendsOK

LEMMA ReportsTyped == ReportsTypes => Reports!TypeOK
  BY DEF ReportsTypes, ClockOK, TickOK, MarksOK, SendsOK, CountsOK, Reports!TypeOK

LEMMA ReportsStart == ASSUME Reports!ScheduleAssumption, Reports!Init PROVE ReportsIInv
  <1> USE DEF Reports!ScheduleAssumption, Reports!Init, Reports!NoTick
  <1>1. ClockOK /\ CountsOK
    <2>1. ClockOK
      BY DEF ClockOK
    <2>2. CountsOK
      BY DEF CountsOK
    <2> QED BY <2>1, <2>2
  <1>2. TickOK
    BY DEF TickOK
  <1>3. MarksOK /\ SendsOK
    BY DEF MarksOK, SendsOK
  <1>4. TickShape /\ DaysOrdered /\ ReadMeansMarked
    BY DEF TickShape, DaysOrdered, ReadMeansMarked, ClockOK
  <1>5. SendsLeft
    BY DEF SendsLeft
  <1> QED BY <1>1, <1>2, <1>3, <1>4, <1>5 DEF ReportsIInv, ReportsTypes

\* The schedules are at rest when there is no tick: nothing is left to send but by a new tick.
LEMMA TickKeeps == ASSUME Reports!ScheduleAssumption, ReportsIInv, Reports!Tick PROVE ReportsIInv'
  <1> USE DEF Reports!Tick, ReportsIInv, ReportsTypes
  <1>1. Reports!Due \subseteq Schedules
    BY DEF Reports!Due
  <1>2. ClockOK' /\ MarksOK' /\ SendsOK' /\ CountsOK'
    BY DEF ClockOK, MarksOK, SendsOK, CountsOK
  <1>3. TickOK'
    BY <1>1 DEF TickOK, ClockOK, Reports!ScheduleAssumption
  <1>4. TickShape' /\ DaysOrdered'
    BY <1>1 DEF TickShape, DaysOrdered, ClockOK, Reports!ScheduleAssumption
  <1>5. SendsLeft'
    BY DEF SendsLeft, MaySend, TickShape, Reports!Due, ClockOK, Reports!ScheduleAssumption
  <1>6. ReadMeansMarked'
    BY DEF ReadMeansMarked, TickShape, Reports!Due, ClockOK, Reports!ScheduleAssumption
  <1> QED BY <1>2, <1>3, <1>4, <1>5, <1>6

LEMMA TickUnreadKeeps ==
  ASSUME Reports!ScheduleAssumption, ReportsIInv, Reports!TickUnread PROVE ReportsIInv'
  <1> USE DEF Reports!TickUnread, ReportsIInv, ReportsTypes
  <1>1. Reports!Due \subseteq Schedules
    BY DEF Reports!Due
  <1>2. ClockOK' /\ TickOK' /\ MarksOK' /\ SendsOK'
    BY DEF ClockOK, TickOK, MarksOK, SendsOK
  <1>3. CountsOK'
    BY <1>1 DEF CountsOK, Reports!Incident
  <1>4. TickShape' /\ DaysOrdered'
    BY <1>1 DEF TickShape, DaysOrdered
  <1>5. SendsLeft'
    BY DEF SendsLeft, MaySend
  <1>6. ReadMeansMarked'
    BY DEF ReadMeansMarked, Reports!Due, ClockOK, Reports!ScheduleAssumption
  <1> QED BY <1>2, <1>3, <1>4, <1>5, <1>6

LEMMA PickKeeps ==
  ASSUME Reports!ScheduleAssumption, ReportsIInv, NEW s \in Schedules, Reports!Pick(s)
  PROVE  ReportsIInv'
  <1> USE DEF Reports!Pick, ReportsIInv, ReportsTypes
  <1>1. ClockOK' /\ MarksOK' /\ SendsOK' /\ CountsOK'
    BY DEF ClockOK, MarksOK, SendsOK, CountsOK
  <1>2. TickOK'
    BY DEF TickOK
  <1>3. /\ tick'.pc = "compose" /\ tick'.cur = {s} /\ tick'.todo = tick.todo \ {s}
        /\ tick'.today = tick.today
    BY DEF TickOK
  <1>4. TickShape' /\ DaysOrdered'
    BY <1>3 DEF TickShape, DaysOrdered
  <1>5. SendsLeft'
    BY <1>3 DEF SendsLeft, MaySend, TickShape
  <1>6. ReadMeansMarked'
    BY <1>3 DEF ReadMeansMarked, TickShape
  <1> QED BY <1>1, <1>2, <1>4, <1>5, <1>6

\* A step to the mark, which may have sent: what befalls compose, send and their errors.
LEMMA StepKeeps ==
  ASSUME ReportsIInv, tick.pc \in {"compose", "send"},
         NEW pc \in {"send", "mark"}, tick' = [tick EXCEPT !.pc = pc],
         UNCHANGED <<day, minute, at, on, lastRun, ticked, reruns, excusedToday>>,
         faults' \in Nat,
         \/ UNCHANGED sends
         \/ /\ pc = "mark" /\ tick.today \in 1..Days
            /\ \E s \in tick.cur : sends' = [sends EXCEPT ![s][tick.today] = @ + 1]
  PROVE  ReportsIInv'
  <1> USE DEF ReportsIInv, ReportsTypes
  <1>1. ClockOK' /\ MarksOK' /\ CountsOK'
    BY DEF ClockOK, MarksOK, CountsOK
  <1>2. TickOK' /\ tick'.pc = pc /\ tick'.cur = tick.cur /\ tick'.todo = tick.todo
        /\ tick'.today = tick.today
    BY DEF TickOK
  <1>3. TickShape' /\ DaysOrdered' /\ ReadMeansMarked'
    BY <1>2 DEF TickShape, DaysOrdered, ReadMeansMarked
  <1>4. SendsOK' /\ SendsLeft'
    <2>1. CASE UNCHANGED sends
      BY <1>2, <2>1, SendsAreNumbers DEF SendsOK, SendsLeft, MaySend
    <2>2. CASE pc = "mark" /\ tick.today \in 1..Days /\
               \E s \in tick.cur : sends' = [sends EXCEPT ![s][tick.today] = @ + 1]
      <3>1. PICK s \in tick.cur : sends' = [sends EXCEPT ![s][tick.today] = @ + 1]
        BY <2>2
      <3>2. s \in Schedules /\ s \notin tick.todo
        BY DEF TickOK, TickShape
      <3>3. SendsOK'
        <4> DEFINE row == [sends[s] EXCEPT ![tick.today] = @ + 1]
        <4>1. row \in [1..Days -> Nat]
          <5> DEFINE days == sends[s]
          <5>1. days \in [1..Days -> Nat]
            BY <3>2 DEF SendsOK
          <5>2. row = [days EXCEPT ![tick.today] = @ + 1]
            OBVIOUS
          <5> HIDE DEF days, row
          <5> QED BY <2>2, <5>1, <5>2
        <4>2. sends' = [sends EXCEPT ![s] = row]
          BY <3>1
        <4> HIDE DEF row
        <4> QED BY <3>2, <4>1, <4>2 DEF SendsOK
      <3>4. ~MaySend(s, tick.today)' /\ MaySend(s, tick.today)
        BY <1>2, <2>2, <3>2, <3>1 DEF MaySend
      <3>5. \A t \in Schedules, d \in 1..Days : MaySend(t, d)' => MaySend(t, d)
        BY <1>2 DEF MaySend
      <3>6. \A t \in Schedules, d \in 1..Days :
              sends'[t][d] = IF t = s /\ d = tick.today THEN sends[t][d] + 1 ELSE sends[t][d]
        BY <2>2, <3>1, <3>2 DEF SendsOK
      <3>7. SendsLeft'
        BY <2>2, <3>2, <3>4, <3>5, <3>6, SendsAreNumbers DEF SendsLeft, CountsOK
      <3> QED BY <3>3, <3>7
    <2> QED BY <2>1, <2>2
  <1> QED BY <1>1, <1>2, <1>3, <1>4

LEMMA MarkKeeps == ASSUME Reports!ScheduleAssumption, ReportsIInv, Reports!Mark PROVE ReportsIInv'
  <1> USE DEF Reports!Mark, ReportsIInv, ReportsTypes
  <1>1. ClockOK' /\ SendsOK' /\ CountsOK'
    BY DEF ClockOK, SendsOK, CountsOK
  <1>2. TickOK' /\ tick'.pc = "loop" /\ tick'.cur = {} /\ tick'.todo = tick.todo
        /\ tick'.today = tick.today
    BY DEF TickOK
  <1>3. MarksOK' /\ tick.today \in 0..Days
        /\ \A s \in Schedules : lastRun'[s] = IF s \in tick.cur THEN tick.today ELSE lastRun[s]
    BY DEF TickOK, MarksOK
  <1>4. TickShape' /\ DaysOrdered'
    BY <1>2, <1>3 DEF TickShape, DaysOrdered, TickOK, ClockOK, MarksOK
  <1>5. SendsLeft'
    <2> SUFFICES ASSUME NEW s \in Schedules, NEW d \in 1..Days, MaySend(s, d)' PROVE MaySend(s, d)
      BY DEF SendsLeft
    <2>1. CASE s \in tick.cur
      BY <1>2, <1>3, <2>1 DEF MaySend, DaysOrdered, TickShape, ClockOK, MarksOK
    <2>2. CASE s \notin tick.cur
      BY <1>2, <1>3, <2>2 DEF MaySend
    <2> QED BY <2>1, <2>2
  <1>6. ReadMeansMarked'
    BY <1>2, <1>3 DEF ReadMeansMarked
  <1> QED BY <1>1, <1>2, <1>3, <1>4, <1>5, <1>6

\* An incident that drops the tick, or the mark of its schedule: there is one more rerun for all.
LEMMA RerunKeeps ==
  ASSUME ReportsIInv, reruns' = reruns + 1, faults' \in Nat, ticked' \in BOOLEAN,
         ticked' => ticked,
         TickOK', TickShape', tick'.todo \subseteq tick.todo, tick'.cur = {},
         tick'.today \in {0, tick.today}, tick'.todo = {} \/ tick'.today = tick.today,
         excusedToday' = excusedToday \cup ((tick.todo \cup tick.cur) \ tick'.todo),
         UNCHANGED <<day, minute, at, on, lastRun, sends>>
  PROVE  ReportsIInv'
  <1> USE DEF ReportsIInv, ReportsTypes
  <1>1. ClockOK' /\ SendsOK' /\ MarksOK'
    BY DEF ClockOK, SendsOK, MarksOK
  <1>2. CountsOK'
    BY DEF CountsOK, TickOK
  <1>3. DaysOrdered'
    BY DEF DaysOrdered, TickOK, ClockOK
  <1>4. SendsLeft'
    BY SendsAreNumbers DEF SendsLeft, CountsOK
  <1>5. ReadMeansMarked'
    BY DEF ReadMeansMarked
  <1> QED BY <1>1, <1>2, <1>3, <1>4, <1>5

LEMMA MarkFailsKeeps == ASSUME ReportsIInv, Reports!MarkFails PROVE ReportsIInv'
  <1> USE DEF Reports!MarkFails
  <1>1. TickOK' /\ tick'.pc = "loop" /\ tick'.cur = {} /\ tick'.todo = tick.todo
        /\ tick'.today = tick.today
    BY DEF TickOK, ReportsIInv, ReportsTypes
  <1>2. TickShape' /\ tick.todo \cap tick.cur = {}
    BY <1>1 DEF ReportsIInv, TickShape
  <1>3. faults' \in Nat /\ ticked \in BOOLEAN
    BY DEF ReportsIInv, ReportsTypes, CountsOK, Reports!Incident
  <1>4. excusedToday' = excusedToday \cup ((tick.todo \cup tick.cur) \ tick'.todo)
    BY <1>1, <1>2
  <1> QED BY <1>1, <1>2, <1>3, <1>4, RerunKeeps

LEMMA CrashKeeps ==
  ASSUME Reports!ScheduleAssumption, ReportsIInv, Reports!Crash PROVE ReportsIInv'
  <1> USE DEF Reports!Crash, Reports!NoTick
  <1>1. TickOK' /\ TickShape' /\ tick'.cur = {} /\ tick'.todo = {} /\ tick'.today = 0
    BY DEF TickOK, TickShape, Reports!ScheduleAssumption
  <1>2. faults' \in Nat
    BY DEF ReportsIInv, ReportsTypes, CountsOK, Reports!Incident
  <1>3. excusedToday' = excusedToday \cup ((tick.todo \cup tick.cur) \ tick'.todo)
    BY <1>1
  <1> QED BY <1>1, <1>2, <1>3, RerunKeeps

LEMMA TickEndsKeeps ==
  ASSUME Reports!ScheduleAssumption, ReportsIInv, Reports!TickEnds PROVE ReportsIInv'
  <1> USE DEF Reports!TickEnds, ReportsIInv, ReportsTypes, Reports!NoTick
  <1>1. ClockOK' /\ SendsOK' /\ CountsOK' /\ MarksOK'
    BY DEF ClockOK, SendsOK, CountsOK, MarksOK
  <1>2. TickOK' /\ TickShape' /\ DaysOrdered'
    BY DEF TickOK, TickShape, DaysOrdered, Reports!ScheduleAssumption, ClockOK
  <1>3. SendsLeft' /\ ReadMeansMarked'
    BY DEF SendsLeft, MaySend, ReadMeansMarked, TickShape
  <1> QED BY <1>1, <1>2, <1>3

LEMMA EditKeeps ==
  ASSUME Reports!ScheduleAssumption, ReportsIInv, NEW s \in Schedules, Reports!Edit(s)
  PROVE  ReportsIInv'
  <1> USE DEF Reports!Edit, ReportsIInv, ReportsTypes
  <1>1. CountsOK' /\ TickOK' /\ SendsOK' /\ MarksOK'
    BY DEF CountsOK, TickOK, SendsOK, MarksOK, Reports!Incident
  <1>2. \A t \in Schedules \ {s} : at'[t] = at[t] /\ on'[t] = on[t]
    BY DEF ClockOK
  <1>3. ClockOK'
    <2>1. at' \in [Schedules -> 1..Minutes]
      BY DEF ClockOK, Reports!ScheduleAssumption
    <2>2. on' \in [Schedules -> BOOLEAN]
      BY Zenon DEF ClockOK
    <2> QED BY <2>1, <2>2 DEF ClockOK
  <1>4. TickShape' /\ DaysOrdered' /\ SendsLeft'
    BY DEF TickShape, DaysOrdered, SendsLeft, MaySend
  <1>5. ReadMeansMarked'
    BY <1>2 DEF ReadMeansMarked
  <1> QED BY <1>1, <1>3, <1>4, <1>5

LEMMA MinutePassKeeps == ASSUME Reports!ScheduleAssumption, ReportsIInv, Reports!Pass PROVE ReportsIInv'
  <1> USE DEF Reports!Pass, ReportsIInv, ReportsTypes
  <1>1. Reports!Due \subseteq Schedules
    BY DEF Reports!Due
  <1>2. CountsOK'
    <2>1. faults' \in Nat
      BY DEF CountsOK, Reports!Incident
    <2>2. excusedToday' \in SUBSET Schedules
      BY <1>1 DEF CountsOK, TickOK
    <2> QED BY <2>1, <2>2 DEF CountsOK
  <1>3. ClockOK' /\ day <= day'
    BY DEF ClockOK, Reports!ScheduleAssumption
  <1>4. TickOK' /\ SendsOK' /\ MarksOK' /\ TickShape'
    BY DEF TickOK, SendsOK, MarksOK, TickShape
  <1>5. DaysOrdered'
    BY <1>3, SMTT(30) DEF DaysOrdered, TickOK, MarksOK, ClockOK
  <1>6. SendsLeft'
    <2> SUFFICES ASSUME NEW s \in Schedules, NEW d \in 1..Days, MaySend(s, d)' PROVE MaySend(s, d)
      BY DEF SendsLeft
    <2> QED BY <1>3 DEF MaySend, ClockOK
  <1>7. ReadMeansMarked'
    <2>1. CASE minute < Minutes /\ minute' = minute + 1 /\ UNCHANGED day
      BY <1>1, <2>1 DEF ReadMeansMarked, Reports!Due, ClockOK, Reports!ScheduleAssumption
    <2>2. CASE minute = Minutes /\ minute' = 1 /\ day' = day + 1
               /\ excusedToday' = tick.todo \cup tick.cur
      BY <2>2 DEF ReadMeansMarked, ClockOK
    <2> QED BY <2>1, <2>2 DEF ClockOK
  <1> QED BY <1>2, <1>3, <1>4, <1>5, <1>6, <1>7

LEMMA ReportsStepKeeps ==
  ASSUME Reports!ScheduleAssumption, ReportsIInv, [Reports!Next]_reportsVars PROVE ReportsIInv'
  <1>1. tick.pc \in {"compose", "send"} => tick.today \in 1..Days
    BY DEF ReportsIInv, ReportsTypes, TickOK, TickShape
  <1>3. CASE Reports!Compose
    <2>1. PICK pc \in {"send", "mark"} : tick' = [tick EXCEPT !.pc = pc]
      BY <1>3 DEF Reports!Compose
    <2> QED BY <1>3, <2>1, StepKeeps DEF Reports!Compose, ReportsIInv, ReportsTypes, CountsOK
  <1>4. CASE Reports!Send
    BY <1>1, <1>4, StepKeeps DEF Reports!Send, ReportsIInv, ReportsTypes, CountsOK
  <1>5. CASE Reports!StepThrows
    BY <1>5, StepKeeps DEF Reports!StepThrows, Reports!Incident, ReportsIInv, ReportsTypes, CountsOK
  <1>13. CASE UNCHANGED reportsVars
    BY <1>13 DEF reportsVars, ReportsIInv, ReportsTypes, ClockOK, TickOK, MarksOK, SendsOK, CountsOK,
                 TickShape, DaysOrdered, SendsLeft, MaySend, ReadMeansMarked
  <1> QED BY <1>3, <1>4, <1>5, <1>13, TickKeeps, TickUnreadKeeps, PickKeeps, MarkKeeps,
             MarkFailsKeeps, CrashKeeps, TickEndsKeeps, EditKeeps, MinutePassKeeps DEF Reports!Next

\* A behaviour of the three parts is one of the reports.
LEMMA ReportsAlways == Spec => []ReportsIInv
  <1>1. Init => ReportsIInv
    BY ReportsStart, AnnouncementsAssumption DEF Init
  <1>2. ReportsIInv /\ [Next]_vars => ReportsIInv'
    <2>1. [Next]_vars => [Reports!Next]_reportsVars
      BY DEF Next, vars
    <2> QED BY <2>1, ReportsStepKeeps, AnnouncementsAssumption
  <1> QED BY <1>1, <1>2, PTL DEF Spec

\* Whatever is edited, fails, comes late or is cut off, a schedule sends its report once a day,
\* but for the reruns (runDue and last_run_on).
THEOREM ReportsOncePerDay == Spec => []OncePerDay
  <1>1. ReportsIInv => OncePerDay
    BY DEF ReportsIInv, SendsLeft, OncePerDay, Reports!OncePerDay
  <1> QED BY <1>1, ReportsAlways, PTL

\* A schedule whose minute has passed is marked as run for the day, whatever befell the others
\* of that minute (the try within the loop of runDue).
THEOREM SchedulesNotForgotten == Spec => []NotForgotten
  <1>1. ReportsIInv => NotForgotten
    BY DEF ReportsIInv, ReadMeansMarked, NotForgotten, Reports!NotForgotten
  <1> QED BY <1>1, ReportsAlways, PTL

-----------------------------------------------------------------------------
(* The pay slips.                                                          *)

\* The moments in their order, and the two of the last day of a month.
Rank(t) == 100 * t.m + 2 * t.d + (IF t.eve THEN 1 ELSE 0)
LastNoon(m) == [m |-> m, d |-> length[m], eve |-> FALSE]
LastEve(m) == [m |-> m, d |-> length[m], eve |-> TRUE]

DatesOK ==
  /\ length \in [Closing!Months -> 28..31] /\ date \in Closing!Moments /\ up \in BOOLEAN
  /\ due \in Closing!Moments \cup {Closing!Never}
  /\ date.d <= length[date.m]
JobOK ==
  closing \in [pc : {"idle", "compute", "loop"}, month : Closing!Months \cup {0},
               todo : SUBSET Employees, sent : Nat, tries : 0..1]
SlipsOK ==
  /\ slips \in [Closing!Months -> [Employees -> Nat]]
  /\ skipped \in [Closing!Months -> SUBSET Employees]
  /\ excused \in SUBSET Closing!Months /\ repeats \in Nat /\ incidents \in Nat

\* The job waits for the next moment of its pattern, or is late.
Planned ==
  /\ due \in Closing!Cron \cup {Closing!Never} \/ Rank(due) <= Rank(date)
  /\ \A u \in Closing!Cron : Rank(date) < Rank(u) => due # Closing!Never /\ Rank(due) <= Rank(u)

\* What is processed is the month of the date, on its last day, and the job waits for another.
Processing ==
  closing.pc # "idle" =>
    /\ up /\ closing.month = date.m /\ date.d = length[date.m]
    /\ due \in Closing!Cron \cup {Closing!Never}
    /\ due = Closing!Never \/ Rank(date) < Rank(due)

\* The closings of a month that are to come, without another restart: one on the eve of the last
\* day and, of a job that is late, one before.
Late == ~up \/ Rank(due) < Rank(date) \/ ~due.eve
ToFire(t) == due # Closing!Never /\ Rank(due) <= Rank(t) /\ Rank(date) <= Rank(t)
Left(m) ==
  (IF ToFire(LastEve(m)) THEN 1 ELSE 0) + (IF ToFire(LastNoon(m)) /\ Late THEN 1 ELSE 0)
Now(m, e) ==
  IF closing.month = m /\ (closing.pc = "compute" \/ (closing.pc = "loop" /\ e \in closing.todo))
  THEN 1 ELSE 0
SlipsLeft ==
  \A m \in Closing!Months, e \in Employees : slips[m][e] + Now(m, e) + Left(m) <= 1 + repeats

\* A month that is over, or whose closing is over, has served all who worked.
Served(m, e) == slips[m][e] > 0 \/ e \in skipped[m]
WillNotFire(m) == due = Closing!Never \/ Rank(LastEve(m)) < Rank(due)
AllServed ==
  \A m \in Closing!Months \ excused :
    /\ m < date.m => \A e \in Worked : Served(m, e)
    /\ m = date.m /\ WillNotFire(m) /\ closing.pc = "idle" => \A e \in Worked : Served(m, e)
    /\ m = date.m /\ closing.pc = "loop" => \A e \in Worked \ closing.todo : Served(m, e)

\* The inductive invariant of the scheduled closings.
ClosingIInv ==
  DatesOK /\ JobOK /\ SlipsOK /\ Planned /\ Processing /\ SlipsLeft /\ AllServed

\* And that of those run by hand: each hands over at most one slip of an employee.
HandIInv ==
  /\ owed \in [Closing!Months -> [Employees -> Nat]]
  /\ handed \in [Closing!Months -> [Employees -> Nat]]
  /\ byHand \in [Closing!Months -> Nat]
  /\ \A m \in Closing!Months, e \in Employees : handed[m][e] + owed[m][e] <= byHand[m]

LEMMA RankIs ==
  ASSUME NEW t \in Closing!Moments
  PROVE  /\ t.m \in 1..2 /\ t.d \in 27..31 /\ t.eve \in BOOLEAN
         /\ Rank(t) = IF t.eve THEN 100 * t.m + 2 * t.d + 1 ELSE 100 * t.m + 2 * t.d
  BY DEF Closing!Moments, Closing!Months, Closing!FirstDay, Rank

LEMMA RankOrder ==
  ASSUME NEW a \in Closing!Moments, NEW b \in Closing!Moments
  PROVE  Rank(a) \in Nat /\ (Closing!Before(a, b) <=> Rank(a) < Rank(b))
  BY RankIs DEF Closing!Before

LEMMA SameMoment ==
  ASSUME NEW a \in Closing!Moments, NEW b \in Closing!Moments, Rank(a) = Rank(b)
  PROVE  a = b
  <1>1. a.m = b.m /\ a.d = b.d /\ a.eve = b.eve
    BY RankIs
  <1> QED BY <1>1 DEF Closing!Moments

LEMMA CronIs ==
  ASSUME NEW u \in Closing!Cron
  PROVE  u \in Closing!Moments /\ u.eve /\ u.d \in 28..31 /\ u.d <= length[u.m]
         /\ u # Closing!Never
  BY DEF Closing!Cron, Closing!Exists, Closing!Never, Closing!Moments, Closing!Months

\* The two moments of a last day, and where the date is to them.
LEMMA LastDay ==
  ASSUME DatesOK, NEW m \in Closing!Months
  PROVE  /\ LastEve(m) \in Closing!Moments /\ LastNoon(m) \in Closing!Moments
         /\ LastEve(m) \in Closing!Cron
         /\ Rank(LastEve(m)) = Rank(LastNoon(m)) + 1
         /\ m < date.m => Rank(LastEve(m)) < Rank(date)
         /\ date.m < m => Rank(date) < Rank(LastNoon(m))
         /\ date.m = m => Rank(date) <= Rank(LastEve(m))
         /\ date.m = m /\ date.d = length[m] =>
              date = IF date.eve THEN LastEve(m) ELSE LastNoon(m)
  <1>1. length[m] \in 28..31 /\ m \in 1..2
    BY DEF DatesOK, Closing!Months
  <1>2. LastEve(m) \in Closing!Moments /\ LastNoon(m) \in Closing!Moments
    BY <1>1 DEF LastEve, LastNoon, Closing!Moments, Closing!Months, Closing!FirstDay
  <1>3. LastEve(m) \in Closing!Cron
    BY <1>1, <1>2 DEF LastEve, Closing!Cron, Closing!Exists
  <1>4. /\ Rank(LastEve(m)) = 100 * m + 2 * length[m] + 1
        /\ Rank(LastNoon(m)) = 100 * m + 2 * length[m]
    BY <1>1 DEF Rank, LastEve, LastNoon
  <1>5. /\ date.m \in 1..2 /\ date.d \in 27..31 /\ date.eve \in BOOLEAN
        /\ Rank(date) = IF date.eve THEN 100 * date.m + 2 * date.d + 1 ELSE 100 * date.m + 2 * date.d
        /\ date.d <= length[date.m]
    BY RankIs DEF DatesOK
  <1>6. date.m = m /\ date.d = length[m] => date = IF date.eve THEN LastEve(m) ELSE LastNoon(m)
    BY <1>5 DEF DatesOK, Closing!Moments, LastEve, LastNoon
  <1> QED BY <1>1, <1>2, <1>3, <1>4, <1>5, <1>6

\* The planned moment is the first of the pattern that is after t, if there is one.
LEMMA NextDueIs ==
  ASSUME NEW t \in Closing!Moments, DatesOK, t.d <= length[t.m]
  PROVE  \/ /\ Closing!NextDue(t) = Closing!Never
            /\ \A u \in Closing!Cron : Rank(u) <= Rank(t)
         \/ /\ Closing!NextDue(t) \in Closing!Cron
            /\ Rank(t) < Rank(Closing!NextDue(t))
            /\ \A u \in Closing!Cron : Rank(t) < Rank(u) => Rank(Closing!NextDue(t)) <= Rank(u)
  <1> DEFINE after == {u \in Closing!Cron : Closing!Before(t, u)}
             first == IF t.d < 28 THEN [m |-> t.m, d |-> 28, eve |-> TRUE]
                      ELSE IF ~t.eve THEN [m |-> t.m, d |-> t.d, eve |-> TRUE]
                      ELSE IF t.d < length[t.m] THEN [m |-> t.m, d |-> t.d + 1, eve |-> TRUE]
                      ELSE [m |-> 2, d |-> 28, eve |-> TRUE]
  <1>1. after = {u \in Closing!Cron : Rank(t) < Rank(u)}
    BY RankOrder, CronIs
  <1>2. CASE after = {}
    <2>1. \A u \in Closing!Cron : Rank(u) <= Rank(t)
      BY <1>1, <1>2, RankOrder, CronIs
    <2> QED BY <1>2, <2>1 DEF Closing!NextDue
  <1>3. CASE after # {}
    <2>0. \A m \in 1..2 : length[m] \in 28..31
      BY DEF DatesOK, Closing!Months
    <2>1. /\ t.m \in 1..2 /\ t.d \in 27..31 /\ t.eve \in BOOLEAN
          /\ Rank(t) = IF t.eve THEN 100 * t.m + 2 * t.d + 1 ELSE 100 * t.m + 2 * t.d
      BY RankIs
    <2>2. \A u \in Closing!Cron :
            u.m \in 1..2 /\ u.d \in 28..31 /\ u.d <= length[u.m]
            /\ Rank(u) = 100 * u.m + 2 * u.d + 1
      BY CronIs, RankIs
    <2>3. PICK v \in Closing!Cron : Rank(t) < Rank(v)
      BY <1>1, <1>3
    <2>4. first \in [m : 1..2, d : 28..31, eve : {TRUE}] /\ first.d <= length[first.m]
      BY <2>0, <2>1
    <2>5. first \in Closing!Cron
      BY <2>4 DEF Closing!Cron, Closing!Exists, Closing!Moments, Closing!Months, Closing!FirstDay
    <2>6. Rank(first) = 100 * first.m + 2 * first.d + 1
      BY <2>2, <2>5
    <2>7. Rank(t) < Rank(first)
      BY <2>0, <2>1, <2>2, <2>3, <2>6
    <2>8. \A u \in Closing!Cron : Rank(t) < Rank(u) => Rank(first) <= Rank(u)
      BY <2>0, <2>1, <2>2, <2>6
    <2> HIDE DEF first
    <2>9. \A u \in after : first = u \/ Closing!Before(first, u)
      <3> SUFFICES ASSUME NEW u \in after, first # u PROVE Closing!Before(first, u)
        OBVIOUS
      <3>1. u \in Closing!Cron /\ u \in Closing!Moments /\ first \in Closing!Moments
            /\ Rank(first) <= Rank(u)
        BY <1>1, <2>5, <2>8, CronIs
      <3>2. Rank(first) # Rank(u)
        BY <3>1, SameMoment
      <3> QED BY <3>1, <3>2, RankOrder
    <2>10. first \in after
      BY <1>1, <2>5, <2>7
    <2> DEFINE next == CHOOSE u \in after : \A w \in after : u = w \/ Closing!Before(u, w)
    <2>11. next \in after /\ \A w \in after : next = w \/ Closing!Before(next, w)
      BY <2>9, <2>10
    <2>12. Closing!NextDue(t) = next
      BY <1>3 DEF Closing!NextDue
    <2> HIDE DEF next, after
    <2>13. \A w \in Closing!Cron : Rank(t) < Rank(w) => Rank(next) <= Rank(w)
      BY <1>1, <2>11, RankOrder, CronIs
    <2> QED BY <1>1, <2>11, <2>12, <2>13
  <1> QED BY <1>2, <1>3

LEMMA ClosingTyped == ClosingIInv /\ HandIInv => Closing!TypeOK
  BY DEF ClosingIInv, DatesOK, JobOK, SlipsOK, HandIInv, Closing!TypeOK

LEMMA ClosingStart == ASSUME Closing!ClosingAssumption, Closing!Init PROVE ClosingIInv
  <1> USE DEF Closing!Init
  <1>1. \A m \in Closing!Months : length[m] \in 28..31
    OBVIOUS
  <1>2. 1 \in Closing!Months /\ date.m = 1 /\ date.d = 27 /\ ~date.eve
    BY DEF Closing!Months, Closing!FirstDay
  <1>3. due \in Closing!Moments
    BY DEF Closing!Moments, Closing!Months, Closing!FirstDay
  <1>4. DatesOK
    BY <1>1, <1>2, <1>3 DEF DatesOK, Closing!Moments, Closing!FirstDay
  <1>5. JobOK
    BY DEF JobOK, Closing!NoClosing
  <1>6. SlipsOK
    BY DEF SlipsOK
  <1>7. Rank(due) = 157 /\ Rank(date) = 154 /\ due.eve /\ due # Closing!Never
    BY <1>2 DEF Rank, Closing!Never, Closing!FirstDay
  <1>8. Planned
    <2>1. due \in Closing!Cron
      BY <1>1, <1>2, <1>3 DEF Closing!Cron, Closing!Exists
    <2>2. \A u \in Closing!Cron : Rank(u) >= 157
      BY CronIs, RankIs
    <2> QED BY <1>7, <2>1, <2>2 DEF Planned
  <1>9. Processing /\ closing.pc = "idle"
    BY DEF Processing, Closing!NoClosing
  <1>10. SlipsLeft
    <2> SUFFICES ASSUME NEW m \in Closing!Months, NEW e \in Employees
                 PROVE  slips[m][e] + Now(m, e) + Left(m) <= 1 + repeats
      BY DEF SlipsLeft
    <2>1. slips[m][e] = 0 /\ Now(m, e) = 0 /\ repeats = 0
      BY <1>9 DEF Now
    <2>2. ~Late
      BY <1>7 DEF Late
    <2>3. Left(m) \in {0, 1}
      BY <2>2 DEF Left
    <2> QED BY <2>1, <2>3
  <1>11. AllServed
    <2>1. \A m \in Closing!Months : ~(m < date.m)
      BY <1>2 DEF Closing!Months
    <2>2. ~WillNotFire(1)
      <3>1. Rank(LastEve(1)) \in Nat /\ Rank(LastEve(1)) >= 157
        BY <1>1, <1>2 DEF Rank, LastEve
      <3> QED BY <1>7, <3>1 DEF WillNotFire
    <2> QED BY <1>2, <1>9, <2>1, <2>2 DEF AllServed
  <1> QED BY <1>4, <1>5, <1>6, <1>8, <1>9, <1>10, <1>11 DEF ClosingIInv

\* The numbers that SlipsLeft adds.
LEMMA SlipsAreNumbers ==
  ASSUME SlipsOK, NEW m \in Closing!Months, NEW e \in Employees
  PROVE  slips[m][e] \in Nat /\ Now(m, e) \in {0, 1} /\ Left(m) \in {0, 1, 2} /\ repeats \in Nat
  BY DEF SlipsOK, Now, Left

\* A step that sends nothing keeps SlipsLeft when no month has more closings to come than the
\* step adds to the repeats.
LEMMA NothingSent ==
  ASSUME ClosingIInv, UNCHANGED slips, repeats' \in Nat, SlipsOK',
         \A m \in Closing!Months, e \in Employees :
           Now(m, e)' + Left(m)' + repeats <= Now(m, e) + Left(m) + repeats'
  PROVE  SlipsLeft'
  <1> SUFFICES ASSUME NEW m \in Closing!Months, NEW e \in Employees
               PROVE  (slips[m][e] + Now(m, e) + Left(m) <= 1 + repeats)'
    BY DEF SlipsLeft
  <1>1. slips[m][e] \in Nat /\ Now(m, e) \in {0, 1} /\ Left(m) \in {0, 1, 2} /\ repeats \in Nat
    BY SlipsAreNumbers DEF ClosingIInv
  <1>2. Now(m, e)' \in {0, 1} /\ Left(m)' \in {0, 1, 2}
    BY DEF Now, Left
  <1>3. slips[m][e] + Now(m, e) + Left(m) <= 1 + repeats
    BY DEF ClosingIInv, SlipsLeft
  <1> QED BY <1>1, <1>2, <1>3

LEMMA FireKeeps == ASSUME ClosingIInv, Closing!Fire PROVE ClosingIInv'
  <1> USE DEF Closing!Fire, ClosingIInv
  <1>1. SlipsOK'
    BY DEF SlipsOK
  <1>2. date \in Closing!Moments /\ date.d <= length[date.m] /\ date.m \in Closing!Months
    BY DEF DatesOK, Closing!Moments
  <1>3. due # Closing!Never /\ due \in Closing!Moments /\ Rank(due) <= Rank(date)
    BY <1>2, RankOrder DEF Closing!IsDue, DatesOK
  <1>4. \/ due' = Closing!Never /\ \A u \in Closing!Cron : Rank(u) <= Rank(date)
        \/ /\ due' \in Closing!Cron /\ Rank(date) < Rank(due')
           /\ \A u \in Closing!Cron : Rank(date) < Rank(u) => Rank(due') <= Rank(u)
    BY <1>2, NextDueIs
  <1>5. due' = Closing!Never \/ (due' \in Closing!Cron /\ due' \in Closing!Moments /\ due'.eve
                               /\ due' # Closing!Never)
    BY <1>4, CronIs
  <1>6. DatesOK'
    BY <1>5 DEF DatesOK
  <1>7. \/ date.d = length[date.m] /\ closing'.pc = "compute" /\ closing'.month = date.m
        \/ date.d # length[date.m] /\ closing'.pc = "idle"
    BY DEF Closing!isLastDayOfMonthVN, Closing!NoClosing
  <1>8. JobOK'
    <2>1. CASE closing' = Closing!NoClosing
      BY <2>1 DEF JobOK, Closing!NoClosing
    <2>2. CASE closing' = [Closing!NoClosing EXCEPT !.pc = "compute", !.month = date.m]
      <3>1. closing' = [pc |-> "compute", month |-> date.m, todo |-> {}, sent |-> 0, tries |-> 0]
        BY <2>2 DEF Closing!NoClosing
      <3> HIDE DEF Closing!Fire
      <3> QED BY <1>2, <3>1 DEF JobOK
    <2> QED BY <2>1, <2>2
  <1>9. Closing!Cron' = Closing!Cron /\ \A t : Rank(t)' = Rank(t)
    BY DEF Closing!Cron, Closing!Exists, Rank
  <1>10. Planned'
    <2>1. CASE due' = Closing!Never
      <3>1. \A u \in Closing!Cron : ~(Rank(date) < Rank(u))
        BY <1>2, <1>4, <1>5, <2>1, RankOrder, CronIs
      <3> QED BY <2>1, <3>1 DEF Planned, Rank, Closing!Cron, Closing!Exists
    <2>2. CASE due' \in Closing!Cron
      <3>1. due' \in Closing!Cron'
        BY <1>9, <2>2
      <3>2. \A u \in Closing!Cron' :
              (Rank(date) < Rank(u))' => due' # Closing!Never /\ (Rank(due) <= Rank(u))'
        <4> SUFFICES ASSUME NEW u \in Closing!Cron, Rank(date) < Rank(u)
                     PROVE  due' # Closing!Never /\ Rank(due') <= Rank(u)
          BY <1>9 DEF Rank
        <4>1. due' # Closing!Never
          BY <2>2, CronIs
        <4>2. ~(Rank(u) <= Rank(date))
          BY <1>2, RankOrder, CronIs
        <4> QED BY <1>4, <4>1, <4>2
      <3> QED BY <3>1, <3>2 DEF Planned
    <2> QED BY <1>4, <2>1, <2>2
  <1>11. Processing'
    BY <1>4, <1>7 DEF Processing, Rank, Closing!Cron, Closing!Exists
  <1>12. SlipsLeft'
    <2> SUFFICES ASSUME NEW m \in Closing!Months, NEW e \in Employees
                 PROVE  Now(m, e)' + Left(m)' + repeats <= Now(m, e) + Left(m) + repeats'
      BY <1>1, NothingSent DEF SlipsOK
    <2>1. repeats \in Nat /\ m \in Nat /\ date.m \in Nat
      BY <1>2 DEF SlipsOK, Closing!Months
    <2>2. Now(m, e)' = IF date.d = length[date.m] /\ m = date.m THEN 1 ELSE 0
      BY <1>7 DEF Now
    <2>3. Left(m)' = IF due' # Closing!Never /\ Rank(due') <= Rank(LastEve(m))
                         /\ Rank(date) <= Rank(LastEve(m)) THEN 1 ELSE 0
      <3>1. due' # Closing!Never => ~(Late)'
        BY <1>2, <1>4, <1>5, RankOrder DEF Late, Rank
      <3> QED BY <3>1 DEF Left, ToFire, LastEve, LastNoon, Rank
    <2>4. /\ m < date.m => Rank(LastEve(m)) < Rank(date)
          /\ date.m < m => Rank(date) < Rank(LastNoon(m))
          /\ date.m = m => Rank(date) <= Rank(LastEve(m))
          /\ date.m = m /\ date.d = length[m] => date = IF date.eve THEN LastEve(m) ELSE LastNoon(m)
          /\ Rank(LastEve(m)) = Rank(LastNoon(m)) + 1
          /\ Rank(LastNoon(m)) \in Nat /\ Rank(date) \in Nat /\ Rank(due) \in Nat
      BY <1>2, <1>3, LastDay, RankOrder
    <2>5. Left(m) = (IF Rank(date) <= Rank(LastEve(m)) THEN 1 ELSE 0)
                    + (IF Rank(date) <= Rank(LastNoon(m)) /\ Late THEN 1 ELSE 0)
      BY <1>3, <2>4 DEF Left, ToFire
    <2>6. CASE date.d = length[date.m] /\ m = date.m /\ ~date.eve
      <3>1. date = LastNoon(m)
        BY <2>4, <2>6
      <3>2. Late
        <4>1. due = date \/ Rank(due) < Rank(date)
          BY <1>2, <1>3, <2>4, SameMoment
        <4> QED BY <2>6, <4>1 DEF Late
      <3> QED BY <2>1, <2>2, <2>3, <2>4, <2>5, <2>6, <3>1, <3>2 DEF Now
    <2>7. CASE date.d = length[date.m] /\ m = date.m /\ date.eve
      <3>1. date = LastEve(m)
        BY <2>4, <2>7
      <3>2. due' # Closing!Never => Rank(LastEve(m)) < Rank(due')
        BY <1>4, <3>1
      <3>3. Left(m)' = 0
        BY <1>5, <2>3, <2>4, <3>2, RankOrder
      <3>4. Left(m) \in {1, 2} /\ Now(m, e) \in {0, 1}
        BY <2>4, <2>5, <3>1 DEF Now
      <3> QED BY <2>1, <2>2, <3>3, <3>4
    <2>8. CASE ~(date.d = length[date.m] /\ m = date.m)
      <3>1. Now(m, e)' = 0 /\ Left(m)' \in {0, 1} /\ Left(m) \in {0, 1, 2} /\ Now(m, e) \in {0, 1}
        BY <2>2, <2>3, <2>5, <2>8 DEF Now
      <3>2. Left(m)' = 1 => Left(m) >= 1
        BY <2>3, <2>4, <2>5
      <3> QED BY <2>1, <3>1, <3>2
    <2> QED BY <2>6, <2>7, <2>8, <1>2 DEF DatesOK, Closing!Moments
  <1>13. AllServed'
    <2> SUFFICES ASSUME NEW m \in Closing!Months \ excused
                 PROVE  /\ m < date.m => \A e \in Worked : Served(m, e)
                        /\ m = date.m /\ WillNotFire(m)' /\ closing'.pc = "idle" => FALSE
                        /\ closing'.pc # "loop"
      BY DEF AllServed, Served
    <2>1. m < date.m => \A e \in Worked : Served(m, e)
      BY DEF AllServed
    <2>2. closing'.pc # "loop"
      BY <1>7
    <2>3. ASSUME m = date.m, closing'.pc = "idle" PROVE ~WillNotFire(m)'
      <3>1. date.d # length[m] /\ LastEve(m) \in Closing!Cron
        BY <1>7, <2>3, LastDay
      <3>2. Rank(date) < Rank(LastEve(m))
        <4>1. Rank(date) <= Rank(LastEve(m)) /\ LastEve(m) \in Closing!Moments
          BY <2>3, LastDay
        <4>2. LastEve(m).d = length[m] /\ date # LastEve(m)
          BY <3>1 DEF LastEve
        <4> QED BY <1>2, <4>1, <4>2, RankOrder, SameMoment
      <3>3. due' \in Closing!Cron /\ Rank(due') <= Rank(LastEve(m))
        BY <1>2, <1>4, <3>1, <3>2, RankOrder, CronIs
      <3>4. due' # Closing!Never
        BY <3>3, CronIs
      <3> QED BY <1>5, <3>1, <3>3, <3>4, RankOrder, CronIs DEF WillNotFire, Rank, LastEve
    <2> QED BY <2>1, <2>2, <2>3
  <1> QED BY <1>1, <1>6, <1>8, <1>10, <1>11, <1>12, <1>13

\* A step of the closing that is under way, on the spot: the dates rest.
LEMMA OnTheSpot ==
  ASSUME ClosingIInv, JobOK', closing'.pc # "idle" => closing.pc # "idle" /\ closing'.month = closing.month,
         UNCHANGED <<length, date, up, due>>
  PROVE  /\ DatesOK' /\ Planned' /\ Processing'
         /\ \A m \in Closing!Months : Left(m)' = Left(m) /\ (WillNotFire(m)' <=> WillNotFire(m))
  <1>1. DatesOK'
    BY DEF ClosingIInv, DatesOK
  <1>2. Planned'
    BY DEF ClosingIInv, Planned, Closing!Cron, Closing!Exists, Rank
  <1>3. Processing'
    BY DEF ClosingIInv, Processing, Closing!Cron, Closing!Exists, Rank
  <1>4. ASSUME NEW m \in Closing!Months
        PROVE  Left(m)' = Left(m) /\ (WillNotFire(m)' <=> WillNotFire(m))
    BY DEF Left, ToFire, Late, LastEve, LastNoon, WillNotFire, Rank
  <1> QED BY <1>1, <1>2, <1>3, <1>4

LEMMA ComputeKeeps ==
  ASSUME Closing!ClosingAssumption, ClosingIInv, Closing!Compute PROVE ClosingIInv'
  <1> USE DEF Closing!Compute
  <1>1. closing' = [closing EXCEPT !.pc = "loop", !.todo = Worked]
    OBVIOUS
  <1>2. /\ JobOK' /\ closing'.pc = "loop" /\ closing'.todo = Worked /\ closing'.month = closing.month
    BY <1>1 DEF ClosingIInv, JobOK, Closing!ClosingAssumption
  <1>3. SlipsOK'
    BY DEF ClosingIInv, SlipsOK
  <1>4. /\ DatesOK' /\ Planned' /\ Processing'
        /\ \A m \in Closing!Months : Left(m)' = Left(m) /\ (WillNotFire(m)' <=> WillNotFire(m))
    BY <1>2, OnTheSpot
  <1>5. SlipsLeft'
    <2>1. ASSUME NEW m \in Closing!Months, NEW e \in Employees
          PROVE  Now(m, e)' + Left(m)' + repeats <= Now(m, e) + Left(m) + repeats'
      <3>1. Now(m, e)' <= Now(m, e) /\ Now(m, e)' \in Nat
        BY <1>2 DEF Now
      <3> QED BY <1>4, <3>1, SlipsAreNumbers DEF ClosingIInv
    <2> QED BY <1>3, <2>1, NothingSent DEF SlipsOK
  <1>6. AllServed'
    BY <1>2 DEF ClosingIInv, AllServed, Served
  <1> QED BY <1>2, <1>3, <1>4, <1>5, <1>6 DEF ClosingIInv

LEMMA ComputeThrowsKeeps == ASSUME ClosingIInv, Closing!ComputeThrows PROVE ClosingIInv'
  <1> USE DEF Closing!ComputeThrows
  <1>1. incidents' \in Nat /\ date.m \in Closing!Months
    BY DEF Closing!Incident, ClosingIInv, SlipsOK, DatesOK, Closing!Moments
  <1>2. SlipsOK'
    BY <1>1 DEF ClosingIInv, SlipsOK
  <1>3. CASE closing.tries = 0 /\ closing' = [closing EXCEPT !.tries = 1] /\ UNCHANGED excused
    <2>1. /\ JobOK' /\ closing'.pc = closing.pc /\ closing'.month = closing.month
          /\ closing'.todo = closing.todo
      BY <1>3 DEF ClosingIInv, JobOK
    <2>2. /\ DatesOK' /\ Planned' /\ Processing'
          /\ \A m \in Closing!Months : Left(m)' = Left(m) /\ (WillNotFire(m)' <=> WillNotFire(m))
      BY <2>1, OnTheSpot
    <2>3. SlipsLeft'
      <3>1. ASSUME NEW m \in Closing!Months, NEW e \in Employees
            PROVE  Now(m, e)' + Left(m)' + repeats <= Now(m, e) + Left(m) + repeats'
        <4>1. Now(m, e)' = Now(m, e)
          BY <2>1 DEF Now
        <4> QED BY <2>2, <4>1, SlipsAreNumbers DEF ClosingIInv
      <3> QED BY <1>2, <3>1, NothingSent DEF SlipsOK
    <2>4. AllServed'
      BY <1>3, <2>1, <2>2 DEF ClosingIInv, AllServed, Served
    <2> QED BY <1>2, <2>1, <2>2, <2>3, <2>4 DEF ClosingIInv
  <1>4. CASE closing.tries = 1 /\ closing' = Closing!NoClosing /\ excused' = excused \cup {date.m}
    <2>1. JobOK' /\ closing'.pc = "idle" /\ closing'.month = 0
      BY <1>4 DEF JobOK, Closing!NoClosing
    <2>2. /\ DatesOK' /\ Planned' /\ Processing'
          /\ \A m \in Closing!Months : Left(m)' = Left(m) /\ (WillNotFire(m)' <=> WillNotFire(m))
      BY <2>1, OnTheSpot
    <2>3. SlipsLeft'
      <3>1. ASSUME NEW m \in Closing!Months, NEW e \in Employees
            PROVE  Now(m, e)' + Left(m)' + repeats <= Now(m, e) + Left(m) + repeats'
        <4>1. Now(m, e)' = 0
          BY <2>1 DEF Now
        <4> QED BY <2>2, <4>1, SlipsAreNumbers DEF ClosingIInv
      <3> QED BY <1>2, <3>1, NothingSent DEF SlipsOK
    <2>4. AllServed'
      BY <1>4, <2>1, <2>2 DEF ClosingIInv, AllServed, Served
    <2> QED BY <1>2, <2>1, <2>2, <2>3, <2>4 DEF ClosingIInv
  <1> QED BY <1>3, <1>4

LEMMA SlipKeeps ==
  ASSUME Closing!ClosingAssumption, ClosingIInv, NEW e \in Employees, Closing!Slip(e)
  PROVE  ClosingIInv'
  <1> USE DEF Closing!Slip
  <1>1. date.m \in Closing!Months /\ closing.month = date.m
    BY DEF ClosingIInv, DatesOK, Closing!Moments, Processing
  <1>2. /\ closing' = [closing EXCEPT !.todo = @ \ {e}, !.sent = @ + 1]
           \/ closing' = [closing EXCEPT !.todo = @ \ {e}]
    OBVIOUS
  <1>3. /\ JobOK' /\ closing'.pc = "loop" /\ closing'.month = closing.month
        /\ closing'.todo = closing.todo \ {e}
    <2>1. CASE closing' = [closing EXCEPT !.todo = @ \ {e}, !.sent = @ + 1]
      <3>1. closing.todo \ {e} \in SUBSET Employees /\ closing.sent + 1 \in Nat
        BY DEF ClosingIInv, JobOK
      <3>2. closing' = [closing EXCEPT !.todo = closing.todo \ {e}, !.sent = closing.sent + 1]
        BY <2>1
      <3> QED BY <3>1, <3>2 DEF ClosingIInv, JobOK
    <2>2. CASE closing' = [closing EXCEPT !.todo = @ \ {e}]
      BY <2>2 DEF ClosingIInv, JobOK
    <2> QED BY <1>2, <2>1, <2>2
  <1>4. /\ DatesOK' /\ Planned' /\ Processing'
        /\ \A m \in Closing!Months : Left(m)' = Left(m) /\ (WillNotFire(m)' <=> WillNotFire(m))
    BY <1>3, OnTheSpot
  <1>5. \A m \in Closing!Months, f \in Employees :
          /\ f # e \/ m # closing.month => Now(m, f)' = Now(m, f)
          /\ f = e /\ m = closing.month => Now(m, f)' = 0 /\ Now(m, f) = 1
    BY <1>3 DEF Now
  <1>6. CASE slips' = [slips EXCEPT ![closing.month][e] = @ + 1] /\ UNCHANGED <<skipped, incidents>>
    <2>1. \A m \in Closing!Months, f \in Employees :
            slips'[m][f] = IF m = closing.month /\ f = e THEN slips[m][f] + 1 ELSE slips[m][f]
      BY <1>1, <1>6 DEF ClosingIInv, SlipsOK
    <2>2. SlipsOK'
      <3> DEFINE row == [slips[closing.month] EXCEPT ![e] = @ + 1]
      <3>1. row \in [Employees -> Nat]
        <4> DEFINE old == slips[closing.month]
        <4>1. old \in [Employees -> Nat]
          BY <1>1 DEF ClosingIInv, SlipsOK
        <4>2. row = [old EXCEPT ![e] = @ + 1]
          OBVIOUS
        <4> HIDE DEF old, row
        <4> QED BY <4>1, <4>2
      <3>2. slips' = [slips EXCEPT ![closing.month] = row]
        BY <1>6
      <3> HIDE DEF row
      <3> QED BY <1>1, <1>6, <3>1, <3>2 DEF ClosingIInv, SlipsOK
    <2>3. SlipsLeft'
      <3> SUFFICES ASSUME NEW m \in Closing!Months, NEW f \in Employees
                   PROVE  (slips[m][f] + Now(m, f) + Left(m) <= 1 + repeats)'
        BY DEF SlipsLeft
      <3>1. slips[m][f] + Now(m, f) + Left(m) <= 1 + repeats
        BY DEF ClosingIInv, SlipsLeft
      <3> QED BY <1>4, <1>5, <2>1, <3>1, SlipsAreNumbers DEF ClosingIInv
    <2>4. AllServed'
      <3>1. \A m \in Closing!Months, f \in Employees : Served(m, f) => Served(m, f)'
        BY <1>6, <2>1 DEF Served, ClosingIInv, SlipsOK
      <3>2. Served(closing.month, e)'
        BY <1>1, <1>3, <2>1 DEF Served, ClosingIInv, SlipsOK
      <3> QED BY <1>1, <1>3, <3>1, <3>2, Zenon DEF ClosingIInv, AllServed, Closing!ClosingAssumption
    <2> QED BY <1>3, <1>4, <2>2, <2>3, <2>4 DEF ClosingIInv
  <1>7. CASE /\ skipped' = [skipped EXCEPT ![closing.month] = @ \cup {e}] /\ UNCHANGED slips
             /\ incidents' \in Nat
    <2>1. \A m \in Closing!Months :
            skipped'[m] = IF m = closing.month THEN skipped[m] \cup {e} ELSE skipped[m]
      BY <1>1, <1>7 DEF ClosingIInv, SlipsOK
    <2>2. SlipsOK'
      BY <1>1, <1>7 DEF ClosingIInv, SlipsOK
    <2>3. SlipsLeft'
      <3>1. ASSUME NEW m \in Closing!Months, NEW f \in Employees
            PROVE  Now(m, f)' + Left(m)' + repeats <= Now(m, f) + Left(m) + repeats'
        BY <1>4, <1>5, SlipsAreNumbers DEF ClosingIInv
      <3> QED BY <1>7, <2>2, <3>1, NothingSent DEF SlipsOK
    <2>4. AllServed'
      <3>1. \A m \in Closing!Months, f \in Employees : Served(m, f) => Served(m, f)'
        BY <1>7, <2>1 DEF Served
      <3>2. Served(closing.month, e)'
        BY <1>1, <1>3, <2>1 DEF Served
      <3> QED BY <1>1, <1>3, <3>1, <3>2, Zenon DEF ClosingIInv, AllServed, Closing!ClosingAssumption
    <2> QED BY <1>3, <1>4, <2>2, <2>3, <2>4 DEF ClosingIInv
  <1>8. incidents' \in Nat
    BY DEF Closing!Incident, ClosingIInv, SlipsOK
  <1> QED BY <1>6, <1>7, <1>8

LEMMA FinishKeeps == ASSUME ClosingIInv, Closing!Finish PROVE ClosingIInv'
  <1> USE DEF Closing!Finish
  <1>1. JobOK' /\ closing'.pc = "idle" /\ closing'.month = 0
    BY DEF JobOK, Closing!NoClosing
  <1>2. SlipsOK'
    BY DEF ClosingIInv, SlipsOK
  <1>3. /\ DatesOK' /\ Planned' /\ Processing'
        /\ \A m \in Closing!Months : Left(m)' = Left(m) /\ (WillNotFire(m)' <=> WillNotFire(m))
    BY <1>1, OnTheSpot
  <1>4. SlipsLeft'
    <2>1. ASSUME NEW m \in Closing!Months, NEW e \in Employees
          PROVE  Now(m, e)' + Left(m)' + repeats <= Now(m, e) + Left(m) + repeats'
      <3>1. Now(m, e)' = 0
        BY <1>1 DEF Now, Closing!Months
      <3> QED BY <1>3, <3>1, SlipsAreNumbers DEF ClosingIInv
    <2> QED BY <1>2, <2>1, NothingSent DEF SlipsOK
  <1>5. AllServed'
    BY <1>1 DEF ClosingIInv, AllServed, Served
  <1> QED BY <1>1, <1>2, <1>3, <1>4, <1>5 DEF ClosingIInv

\* Of what is to come after the date: the job does not pass the last eve of a month over.
LEMMA NotSkipped ==
  ASSUME ClosingIInv, NEW m \in Closing!Months, Rank(date) < Rank(LastEve(m))
  PROVE  due # Closing!Never /\ due \in Closing!Moments /\ Rank(due) <= Rank(LastEve(m)) /\ ~WillNotFire(m)
  <1>1. due # Closing!Never /\ Rank(due) <= Rank(LastEve(m)) /\ due \in Closing!Moments
    BY LastDay DEF ClosingIInv, Planned, DatesOK
  <1>2. Rank(due) \in Nat /\ Rank(LastEve(m)) \in Nat
    BY <1>1, RankOrder, LastDay DEF ClosingIInv
  <1> QED BY <1>1, <1>2 DEF WillNotFire

LEMMA DownKeeps == ASSUME ClosingIInv, Closing!Down PROVE ClosingIInv'
  <1> USE DEF Closing!Down
  <1>1. /\ date \in Closing!Moments /\ date.m \in Closing!Months /\ incidents' \in Nat
        /\ repeats \in Nat /\ repeats' = repeats + 1
    BY DEF Closing!Incident, ClosingIInv, SlipsOK, DatesOK, Closing!Moments
  <1>2. SlipsOK'
    BY <1>1 DEF ClosingIInv, SlipsOK, Processing
  <1>3. CASE closing.pc = "idle"
    <2>1. UNCHANGED <<due, closing, excused>>
      BY <1>3
    <2>2. DatesOK' /\ JobOK' /\ Processing'
      BY <1>3, <2>1 DEF ClosingIInv, DatesOK, JobOK, Processing
    <2>3. Planned'
      BY <2>1 DEF ClosingIInv, Planned, Closing!Cron, Closing!Exists, Rank
    <2>4. SlipsLeft'
      <3>1. ASSUME NEW m \in Closing!Months, NEW e \in Employees
            PROVE  Now(m, e)' + Left(m)' + repeats <= Now(m, e) + Left(m) + repeats'
        <4>1. Now(m, e)' = Now(m, e)
          BY <2>1 DEF Now
        <4>2. ToFire(LastEve(m))' = ToFire(LastEve(m))
          BY <2>1 DEF ToFire, LastEve, Rank
        <4>3. Left(m)' <= Left(m) + 1 /\ Left(m)' \in Nat
          BY <4>2, <2>1 DEF Left
        <4> QED BY <1>1, <4>1, <4>3, SlipsAreNumbers DEF ClosingIInv
      <3> QED BY <1>1, <1>2, <3>1, NothingSent
    <2>5. AllServed'
      BY <2>1 DEF ClosingIInv, AllServed, Served, WillNotFire, LastEve, Rank
    <2> QED BY <1>2, <2>2, <2>3, <2>4, <2>5 DEF ClosingIInv
  <1>4. CASE closing.pc # "idle"
    <2>1. due' = date /\ closing' = Closing!NoClosing /\ excused' = excused \cup {date.m}
      BY <1>4 DEF ClosingIInv, Processing
    <2>2. closing.month = date.m /\ date.d = length[date.m] /\ due \in Closing!Cron \cup {Closing!Never}
          /\ (due = Closing!Never \/ Rank(date) < Rank(due)) /\ up
      BY <1>4 DEF ClosingIInv, Processing
    <2>3. DatesOK'
      BY <1>1, <2>1 DEF ClosingIInv, DatesOK
    <2>4. JobOK' /\ Processing' /\ closing'.pc = "idle" /\ closing'.month = 0
      BY <2>1 DEF JobOK, Processing, Closing!NoClosing
    <2>5. date # Closing!Never
      BY <1>1 DEF Closing!Never, Closing!Months
    <2>6. Planned'
      <3>1. Rank(date) <= Rank(date)
        BY <1>1, RankOrder
      <3>2. \A u \in Closing!Cron : Rank(date) < Rank(u) => Rank(date) <= Rank(u)
        BY <1>1, RankOrder, CronIs
      <3> QED BY <2>1, <2>5, <3>1, <3>2 DEF Planned, Closing!Cron, Closing!Exists, Rank
    <2>7. SlipsLeft'
      <3> SUFFICES ASSUME NEW m \in Closing!Months, NEW e \in Employees
                   PROVE  Now(m, e)' + Left(m)' + repeats <= Now(m, e) + Left(m) + repeats'
        BY <1>1, <1>2, NothingSent
      <3>1. Now(m, e)' = 0 /\ Now(m, e) \in {0, 1} /\ Left(m) \in {0, 1, 2}
        BY <2>4, SlipsAreNumbers DEF Now, ClosingIInv, Closing!Months
      <3>2. /\ m < date.m => Rank(LastEve(m)) < Rank(date)
            /\ date.m < m => Rank(date) < Rank(LastNoon(m))
            /\ date.m = m => Rank(date) <= Rank(LastEve(m))
            /\ date.m = m /\ date.d = length[m] => date = IF date.eve THEN LastEve(m) ELSE LastNoon(m)
            /\ Rank(LastEve(m)) = Rank(LastNoon(m)) + 1
            /\ Rank(LastNoon(m)) \in Nat /\ Rank(LastEve(m)) \in Nat /\ Rank(date) \in Nat
        BY <1>1, LastDay, RankOrder DEF ClosingIInv
      <3>3. Left(m)' = (IF Rank(date) <= Rank(LastEve(m)) THEN 1 ELSE 0)
                       + (IF Rank(date) <= Rank(LastNoon(m)) THEN 1 ELSE 0)
        <4>1. ToFire(LastEve(m))' = (Rank(date) <= Rank(LastEve(m)))
          BY <2>1, <2>5 DEF ToFire, LastEve, Rank
        <4>2. ToFire(LastNoon(m))' = (Rank(date) <= Rank(LastNoon(m)))
          BY <2>1, <2>5 DEF ToFire, LastNoon, Rank
        <4> QED BY <4>1, <4>2 DEF Left, Late
      <3>4. CASE Rank(LastEve(m)) <= Rank(date)
        BY <1>1, <3>1, <3>2, <3>3, <3>4
      <3>5. CASE Rank(date) < Rank(LastEve(m))
        <4>1. due # Closing!Never /\ Rank(due) <= Rank(LastEve(m))
          BY <3>5, NotSkipped
        <4>2. Left(m) >= 1
          BY <3>1, <3>2, <3>5, <4>1 DEF Left, ToFire
        <4> QED BY <1>1, <3>1, <3>3, <4>2
      <3> QED BY <3>2, <3>4, <3>5
    <2>8. AllServed'
      <3>1. \A m \in Closing!Months \ excused' : m # date.m
        BY <2>1
      <3> QED BY <2>1, <3>1 DEF ClosingIInv, AllServed, Served
    <2> QED BY <1>2, <2>3, <2>4, <2>6, <2>7, <2>8 DEF ClosingIInv
  <1> QED BY <1>3, <1>4

LEMMA UpKeeps == ASSUME ClosingIInv, Closing!Up PROVE ClosingIInv'
  <1> USE DEF Closing!Up
  <1>1. DatesOK' /\ JobOK' /\ SlipsOK' /\ Processing'
    BY DEF ClosingIInv, DatesOK, JobOK, SlipsOK, Processing
  <1>2. Planned'
    BY DEF ClosingIInv, Planned, Closing!Cron, Closing!Exists, Rank
  <1>3. SlipsLeft'
    <2>1. ASSUME NEW m \in Closing!Months, NEW e \in Employees
          PROVE  Now(m, e)' + Left(m)' + repeats <= Now(m, e) + Left(m) + repeats'
      <3>1. Now(m, e)' = Now(m, e)
        BY DEF Now
      <3>2. ToFire(LastEve(m))' = ToFire(LastEve(m)) /\ ToFire(LastNoon(m))' = ToFire(LastNoon(m))
        BY DEF ToFire, LastEve, LastNoon, Rank
      <3>3. Left(m)' <= Left(m) /\ Left(m)' \in Nat
        BY <3>2 DEF Left, Late
      <3> QED BY <3>1, <3>3, SlipsAreNumbers DEF ClosingIInv
    <2> QED BY <1>1, <2>1, NothingSent DEF SlipsOK
  <1>4. AllServed'
    BY DEF ClosingIInv, AllServed, Served, WillNotFire, LastEve, Rank
  <1> QED BY <1>1, <1>2, <1>3, <1>4 DEF ClosingIInv

\* Half a day is the step from one moment to the next one, or over days without a job to the
\* next month.
LEMMA PassIs ==
  ASSUME ClosingIInv, Closing!Pass
  PROVE  /\ date' \in Closing!Moments /\ date'.d <= length[date'.m] /\ Rank(date) < Rank(date')
         /\ \A u \in Closing!Cron : Rank(date) < Rank(u) => Rank(date') <= Rank(u)
         /\ \/ date'.m = date.m
            \/ date'.m = date.m + 1 /\ date = LastEve(date.m) /\ ~date'.eve /\ date'.d = 27
  <1> USE DEF Closing!Pass
  <1>1. /\ date.m \in 1..2 /\ date.d \in 27..31 /\ date.eve \in BOOLEAN /\ date.d <= length[date.m]
        /\ Rank(date) = IF date.eve THEN 100 * date.m + 2 * date.d + 1 ELSE 100 * date.m + 2 * date.d
        /\ length[date.m] \in 28..31 /\ length[1] \in 28..31 /\ length[2] \in 28..31
    BY RankIs DEF ClosingIInv, DatesOK, Closing!Months
  <1>2. \A u \in Closing!Cron :
          u.m \in 1..2 /\ u.d \in 28..31 /\ u.d <= length[u.m] /\ Rank(u) = 100 * u.m + 2 * u.d + 1
    BY CronIs, RankIs
  <1>3. CASE ~date.eve /\ date' = [date EXCEPT !.eve = TRUE]
    <2>1. date' \in Closing!Moments /\ date'.m = date.m /\ date'.d = date.d /\ date'.eve
      BY <1>3 DEF ClosingIInv, DatesOK, Closing!Moments
    <2>2. Rank(date') = 100 * date.m + 2 * date.d + 1
      BY <2>1, RankIs
    <2>3. \A u \in Closing!Cron : Rank(date) < Rank(u) => Rank(date') <= Rank(u)
      BY <1>1, <1>2, <1>3, <2>2
    <2>4. Rank(date) < Rank(date')
      BY <1>1, <1>3, <2>2
    <2>5. date'.d <= length[date'.m]
      BY <1>1, <2>1
    <2> QED BY <2>1, <2>3, <2>4, <2>5
  <1>4. CASE date.eve /\ date.d < length[date.m] /\ date' = [date EXCEPT !.d = @ + 1, !.eve = FALSE]
    <2>1. date' \in Closing!Moments /\ date'.m = date.m /\ date'.d = date.d + 1 /\ ~date'.eve
      <3>1. date' = [date EXCEPT !.d = date.d + 1, !.eve = FALSE] /\ date.d + 1 \in 27..31
        BY <1>1, <1>4
      <3> QED BY <3>1 DEF ClosingIInv, DatesOK, Closing!Moments, Closing!FirstDay
    <2>2. Rank(date') = 100 * date.m + 2 * (date.d + 1)
      BY <2>1, RankIs
    <2> QED BY <1>1, <1>2, <1>4, <2>1, <2>2
  <1>5. CASE date.eve /\ date.d = length[date.m] /\ date.m + 1 \in Closing!Months
             /\ date' = [m |-> date.m + 1, d |-> Closing!FirstDay, eve |-> FALSE]
    <2>1. /\ date' \in Closing!Moments /\ date'.m = date.m + 1 /\ date'.d = 27 /\ ~date'.eve
          /\ date.m = 1
      BY <1>1, <1>5 DEF Closing!Moments, Closing!FirstDay, Closing!Months
    <2>2. Rank(date') = 100 * (date.m + 1) + 54
      BY <1>1, <2>1, RankIs
    <2>3. date = LastEve(date.m)
      BY <1>1, <1>5, LastDay DEF ClosingIInv, Closing!Months
    <2> QED BY <1>1, <1>2, <1>5, <2>1, <2>2, <2>3
  <1> QED BY <1>3, <1>4, <1>5

LEMMA PassKeeps == ASSUME ClosingIInv, Closing!Pass PROVE ClosingIInv'
  <1> USE DEF Closing!Pass
  <1>1. /\ date' \in Closing!Moments /\ date'.d <= length[date'.m] /\ Rank(date) < Rank(date')
        /\ \A u \in Closing!Cron : Rank(date) < Rank(u) => Rank(date') <= Rank(u)
        /\ \/ date'.m = date.m
           \/ date'.m = date.m + 1 /\ date = LastEve(date.m) /\ ~date'.eve /\ date'.d = 27
    BY PassIs
  <1>2. /\ date \in Closing!Moments /\ date.m \in Closing!Months /\ date'.m \in Closing!Months
        /\ Rank(date) \in Nat /\ Rank(date') \in Nat
    BY <1>1, RankOrder DEF ClosingIInv, DatesOK, Closing!Moments
  <1>3. DatesOK' /\ JobOK' /\ Processing'
    BY <1>1 DEF ClosingIInv, DatesOK, JobOK, Processing
  <1>4. SlipsOK'
    BY <1>2 DEF ClosingIInv, SlipsOK
  <1>5. closing.pc = "idle"
    BY DEF ClosingIInv, Processing
  <1>6. \A u \in Closing!Cron : Rank(u) \in Nat
    BY RankOrder, CronIs
  <1>7. Planned'
    <2>1. due \in Closing!Cron \cup {Closing!Never} \/ Rank(due) <= Rank(date')
      <3>1. due \in Closing!Cron \cup {Closing!Never} \/ due \in Closing!Moments
        BY DEF ClosingIInv, DatesOK
      <3> QED BY <1>1, <1>2, <3>1, RankOrder DEF ClosingIInv, Planned
    <2>2. \A u \in Closing!Cron :
            Rank(date') < Rank(u) => due # Closing!Never /\ Rank(due) <= Rank(u)
      BY <1>1, <1>2, <1>6 DEF ClosingIInv, Planned
    <2> QED BY <2>1, <2>2 DEF Planned, Closing!Cron, Closing!Exists, Rank
  <1>8. up => due = Closing!Never \/ (due \in Closing!Cron /\ Rank(date) < Rank(due)
                                      /\ Rank(date') <= Rank(due))
    <2>1. up /\ due # Closing!Never => due \in Closing!Moments /\ Rank(date) < Rank(due)
      BY <1>2, RankOrder DEF Closing!IsDue, ClosingIInv, DatesOK
    <2>2. up /\ due # Closing!Never => due \in Closing!Cron
      BY <1>2, <2>1, RankOrder DEF ClosingIInv, Planned
    <2> QED BY <1>1, <2>1, <2>2
  <1>9. SlipsLeft'
    <2> SUFFICES ASSUME NEW m \in Closing!Months, NEW e \in Employees
                 PROVE  Now(m, e)' + Left(m)' + repeats <= Now(m, e) + Left(m) + repeats'
      BY <1>4, NothingSent DEF SlipsOK
    <2>1. Now(m, e)' = Now(m, e)
      BY DEF Now
    <2>2. /\ LastEve(m) \in Closing!Moments /\ LastNoon(m) \in Closing!Moments
          /\ Rank(LastEve(m)) \in Nat /\ Rank(LastNoon(m)) \in Nat
      BY LastDay, RankOrder DEF ClosingIInv
    <2>3. ToFire(LastEve(m))' => ToFire(LastEve(m))
      BY <1>1, <1>2, <2>2 DEF ToFire, LastEve, Rank
    <2>4. ToFire(LastNoon(m))' => ToFire(LastNoon(m))
      BY <1>1, <1>2, <2>2 DEF ToFire, LastNoon, Rank
    <2>5. due # Closing!Never /\ Late' => Late
      <3>1. up /\ due # Closing!Never => due.eve /\ ~(Rank(due) < Rank(date'))
        BY <1>2, <1>6, <1>8, CronIs
      <3> QED BY <3>1 DEF Late, Rank
    <2>6. Left(m)' <= Left(m) /\ Left(m)' \in Nat
      BY <2>3, <2>4, <2>5 DEF Left, ToFire
    <2> QED BY <2>1, <2>6, SlipsAreNumbers DEF ClosingIInv
  <1>10. AllServed'
    <2> SUFFICES ASSUME NEW m \in Closing!Months \ excused'
                 PROVE  /\ m < date'.m => \A e \in Worked : Served(m, e)
                        /\ m = date'.m /\ WillNotFire(m)' => \A e \in Worked : Served(m, e)
      BY <1>5 DEF AllServed, Served
    <2>1. m \in Closing!Months \ excused /\ m \in Nat /\ date.m \in Nat /\ (~up => m # date.m)
      BY <1>2 DEF Closing!Months
    <2>2. WillNotFire(m)' = WillNotFire(m)
      BY DEF WillNotFire, LastEve, Rank
    <2>3. CASE date'.m = date.m
      BY <1>5, <2>1, <2>2, <2>3 DEF ClosingIInv, AllServed
    <2>4. CASE date'.m = date.m + 1 /\ date = LastEve(date.m)
      <3>1. CASE m < date.m
        BY <2>1, <2>4, <3>1 DEF ClosingIInv, AllServed
      <3>2. CASE m = date.m
        <4>1. up /\ WillNotFire(m)
          BY <1>8, <2>1, <2>4, <3>2 DEF WillNotFire
        <4> QED BY <1>5, <2>1, <2>4, <3>2, <4>1 DEF ClosingIInv, AllServed
      <3>3. CASE m = date.m + 1
        <4>1. Rank(date) < Rank(LastEve(m))
          BY <1>2, <2>1, <2>4, <3>3, LastDay, RankOrder DEF ClosingIInv
        <4> QED BY <2>1, <2>2, <2>4, <3>3, <4>1, NotSkipped
      <3> QED BY <2>1, <2>4, <3>1, <3>2, <3>3
    <2> QED BY <1>1, <2>3, <2>4
  <1> QED BY <1>3, <1>4, <1>7, <1>9, <1>10 DEF ClosingIInv

\* A closing run by hand leaves the worker, its job and its slips alone.
LEMMA OthersKeep ==
  ASSUME ClosingIInv, incidents' \in Nat,
         UNCHANGED <<length, date, up, due, closing, slips, skipped, excused, repeats>>
  PROVE  ClosingIInv'
  <1>1. DatesOK' /\ JobOK' /\ SlipsOK'
    BY DEF ClosingIInv, DatesOK, JobOK, SlipsOK
  <1>2. Planned' /\ Processing'
    BY DEF ClosingIInv, Planned, Processing, Closing!Cron, Closing!Exists, Rank
  <1>3. SlipsLeft'
    BY DEF ClosingIInv, SlipsLeft, Now, Left, ToFire, Late, LastEve, LastNoon, Rank
  <1>4. AllServed'
    BY DEF ClosingIInv, AllServed, Served, WillNotFire, LastEve, Rank
  <1> QED BY <1>1, <1>2, <1>3, <1>4 DEF ClosingIInv

LEMMA ClosingStepKeeps ==
  ASSUME Closing!ClosingAssumption, ClosingIInv, [Closing!Next]_closingVars PROVE ClosingIInv'
  <1>1. incidents \in Nat
    BY DEF ClosingIInv, SlipsOK
  <1>2. CASE UNCHANGED closingVars
    BY <1>1, <1>2, OthersKeep DEF closingVars
  <1>3. CASE \E m \in Closing!Months : Closing!CloseByHand(m)
    BY <1>1, <1>3, OthersKeep DEF Closing!CloseByHand, Closing!Incident
  <1>4. CASE \E m \in Closing!Months, e \in Employees : Closing!HandSlip(m, e)
    BY <1>1, <1>4, OthersKeep DEF Closing!HandSlip
  <1> QED BY <1>2, <1>3, <1>4, FireKeeps, ComputeKeeps, ComputeThrowsKeeps, SlipKeeps, FinishKeeps,
             DownKeeps, UpKeeps, PassKeeps DEF Closing!Next

LEMMA CloseByHandKeeps ==
  ASSUME HandIInv, NEW m \in Closing!Months, Closing!CloseByHand(m) PROVE HandIInv'
  <1>1. PICK todo \in SUBSET Worked :
          owed' = [owed EXCEPT ![m] = [e \in Employees |-> @[e] + IF e \in todo THEN 1 ELSE 0]]
    BY DEF Closing!CloseByHand
  <1>2. byHand' = [byHand EXCEPT ![m] = @ + 1] /\ handed' = handed
    BY DEF Closing!CloseByHand
  <1>3. \A n \in Closing!Months, e \in Employees :
          /\ owed'[n][e] = IF n = m /\ e \in todo THEN owed[n][e] + 1 ELSE owed[n][e]
          /\ byHand'[n] = IF n = m THEN byHand[n] + 1 ELSE byHand[n]
          /\ owed[n][e] \in Nat /\ handed[n][e] \in Nat /\ byHand[n] \in Nat
    BY <1>1, <1>2 DEF HandIInv
  <1>4. owed' \in [Closing!Months -> [Employees -> Nat]] /\ byHand' \in [Closing!Months -> Nat]
    BY <1>1, <1>2 DEF HandIInv
  <1>5. \A n \in Closing!Months, e \in Employees : handed[n][e] + owed'[n][e] <= byHand'[n]
    BY <1>3 DEF HandIInv
  <1> QED BY <1>2, <1>4, <1>5 DEF HandIInv

LEMMA HandSlipKeeps ==
  ASSUME HandIInv, NEW m \in Closing!Months, NEW e \in Employees, Closing!HandSlip(m, e)
  PROVE  HandIInv'
  <1>1. /\ owed[m][e] > 0 /\ owed' = [owed EXCEPT ![m][e] = @ - 1] /\ byHand' = byHand
        /\ handed' = [handed EXCEPT ![m][e] = @ + 1] \/ handed' = handed
    BY DEF Closing!HandSlip
  <1>2. \A n \in Closing!Months, f \in Employees :
          /\ owed[n][f] \in Nat /\ handed[n][f] \in Nat /\ byHand[n] \in Nat
          /\ owed'[n][f] = IF n = m /\ f = e THEN owed[n][f] - 1 ELSE owed[n][f]
          /\ \/ handed'[n][f] = handed[n][f]
             \/ n = m /\ f = e /\ handed'[n][f] = handed[n][f] + 1
    BY <1>1 DEF HandIInv
  <1>3. owed' \in [Closing!Months -> [Employees -> Nat]]
    <2>1. owed[m][e] - 1 \in Nat
      BY <1>1, <1>2
    <2> QED BY <1>1, <2>1 DEF HandIInv
  <1>4. handed' \in [Closing!Months -> [Employees -> Nat]]
    BY <1>1 DEF HandIInv
  <1>5. \A n \in Closing!Months, f \in Employees : handed'[n][f] + owed'[n][f] <= byHand[n]
    BY <1>2 DEF HandIInv
  <1> QED BY <1>1, <1>3, <1>4, <1>5 DEF HandIInv

LEMMA HandStepKeeps == ASSUME HandIInv, [Closing!Next]_closingVars PROVE HandIInv'
  <1>1. CASE UNCHANGED closingVars
    BY <1>1 DEF closingVars, HandIInv
  <1>2. CASE UNCHANGED Closing!handVars
    BY <1>2 DEF Closing!handVars, HandIInv
  <1>3. CASE Closing!Down
    <2>1. /\ owed' = [m \in Closing!Months |-> [e \in Employees |-> 0]]
          /\ UNCHANGED <<handed, byHand>>
      BY <1>3 DEF Closing!Down
    <2>2. \A m \in Closing!Months, e \in Employees :
            handed[m][e] \in Nat /\ owed[m][e] \in Nat /\ byHand[m] \in Nat /\ owed'[m][e] = 0
      BY <2>1 DEF HandIInv
    <2>3. \A m \in Closing!Months, e \in Employees : handed[m][e] + owed'[m][e] <= byHand[m]
      BY <2>2 DEF HandIInv
    <2> QED BY <2>1, <2>3 DEF HandIInv
  <1>4. UNCHANGED closingVars \/ UNCHANGED Closing!handVars \/ Closing!Down
        \/ (\E m \in Closing!Months : Closing!CloseByHand(m))
        \/ \E m \in Closing!Months, e \in Employees : Closing!HandSlip(m, e)
    BY DEF Closing!Next, Closing!Fire, Closing!Compute, Closing!ComputeThrows, Closing!Slip,
           Closing!Finish, Closing!Up, Closing!Pass, Closing!handVars
  <1> QED BY <1>1, <1>2, <1>3, <1>4, CloseByHandKeeps, HandSlipKeeps

LEMMA ClosingAlways == Spec => [](ClosingIInv /\ HandIInv)
  <1>1. Init => ClosingIInv /\ HandIInv
    <2>1. Closing!Init => HandIInv
      BY DEF Closing!Init, HandIInv
    <2> QED BY <2>1, ClosingStart, AnnouncementsAssumption DEF Init
  <1>2. ClosingIInv /\ HandIInv /\ [Next]_vars => ClosingIInv' /\ HandIInv'
    <2>1. [Next]_vars => [Closing!Next]_closingVars
      BY DEF Next, vars
    <2> QED BY <2>1, ClosingStepKeeps, HandStepKeeps, AnnouncementsAssumption
  <1> QED BY <1>1, <1>2, PTL DEF Spec

\* Whenever the worker goes down and comes back, and whoever runs the closing by hand meanwhile,
\* an employee gets no more slips of a month than the restarts and the closings by hand of that
\* month explain (PayrollClosingProcessor, the pattern of its job, POST payroll/close).
THEOREM SlipsOncePerMonth == Spec => []SlipOncePerMonth
  <1>1. ClosingIInv /\ HandIInv => SlipOncePerMonth
    <2> SUFFICES ASSUME ClosingIInv, HandIInv, NEW m \in Closing!Months, NEW e \in Employees
                 PROVE  slips[m][e] + handed[m][e] <= 1 + repeats + byHand[m]
      BY DEF SlipOncePerMonth, Closing!SlipOncePerMonth
    <2>1. slips[m][e] + Now(m, e) + Left(m) <= 1 + repeats
      BY DEF ClosingIInv, SlipsLeft
    <2>2. slips[m][e] <= 1 + repeats
      BY <2>1, SlipsAreNumbers DEF ClosingIInv
    <2>3. /\ handed[m][e] + owed[m][e] <= byHand[m] /\ handed[m][e] \in Nat
          /\ owed[m][e] \in Nat /\ byHand[m] \in Nat
      BY DEF HandIInv
    <2>4. slips[m][e] \in Nat /\ repeats \in Nat
      BY SlipsAreNumbers DEF ClosingIInv
    <2> QED BY <2>2, <2>3, <2>4
  <1> QED BY <1>1, ClosingAlways, PTL

\* Who worked in a month of any length is written to, or counted as skipped, by its end, unless
\* the worker was down or the pay could not be computed (isLastDayOfMonthVN and the pattern).
THEOREM NobodyIsMissed == Spec => []NobodyMissed
  <1>1. ClosingIInv => NobodyMissed
    <2> SUFFICES ASSUME ClosingIInv, NEW m \in Closing!Months \ excused, date.m > m, NEW e \in Worked
                 PROVE  Served(m, e)
      BY DEF NobodyMissed, Closing!NobodyMissed, Served
    <2>1. m < date.m
      BY DEF Closing!Months, ClosingIInv, DatesOK, Closing!Moments
    <2> QED BY <2>1 DEF ClosingIInv, AllServed
  <1> QED BY <1>1, ClosingAlways, PTL

-----------------------------------------------------------------------------
\* The rows, the queue, the requests, the tick and the closing stay well formed, whatever the
\* parts do (notifyOrder, runDue, PayrollClosingProcessor).
THEOREM AnnouncementsTyped == Spec => []TypeOK
  <1>1. CustomersIInv /\ ReportsIInv /\ ClosingIInv /\ HandIInv => TypeOK
    BY CustomersTyped, ReportsTyped, ClosingTyped DEF TypeOK, ReportsIInv
  <1> QED BY <1>1, CustomersAlways, ReportsAlways, ClosingAlways, PTL
=============================================================================
