----------------------------- MODULE OrderProofs ----------------------------
(***************************************************************************)
(* What is proved of the orders, their addresses and their parcels, and of *)
(* the places of the catalogue.  For each part: its inductive invariant,   *)
(* the proof that its steps keep it, and that each behaviour of the whole  *)
(* is one of the part, which rests or takes its own steps.  The names of a *)
(* part's facts begin with the name of its instance in BackOffice.         *)
(***************************************************************************)
EXTENDS BackOffice, FiniteSetTheorems, WellFoundedInduction, NaturalsInduction, TLAPS

-----------------------------------------------------------------------------
(* Sets of naturals.                                                       *)

\* A set of naturals that is not empty has a least number.
LEMMA LeastNat ==
  ASSUME NEW S \in SUBSET Nat, S # {}
  PROVE  \E x \in S : \A y \in S : x <= y
<1>1. IsWellFoundedOn(OpToRel(<, Nat), Nat)
  BY NatLessThanWellFounded
<1>2. PICK x \in S : \A y \in S : ~(<<y, x>> \in OpToRel(<, Nat))
  BY <1>1, WFMin
<1>3. \A y \in S : ~(y < x)
  BY <1>2 DEF OpToRel
<1> QED
  BY <1>3

\* One with a bound has a greatest number.
LEMMA GreatestNat ==
  ASSUME NEW S \in SUBSET Nat, S # {}, NEW b \in Nat, \A x \in S : x <= b
  PROVE  \E x \in S : \A y \in S : x >= y
<1> DEFINE D == {d \in Nat : b - d \in S}
<1>1. D # {}
  <2>1. PICK x \in S : TRUE
    OBVIOUS
  <2>2. b - x \in Nat /\ b - (b - x) = x
    OBVIOUS
  <2> QED BY <2>1, <2>2
<1>2. PICK d \in D : \A e \in D : d <= e
  <2> D \in SUBSET Nat
    OBVIOUS
  <2> HIDE DEF D
  <2> QED BY <1>1, LeastNat
<1>3. ASSUME NEW y \in S PROVE b - d >= y
  <2>1. b - y \in D
    OBVIOUS
  <2>2. d <= b - y /\ d \in Nat
    BY <1>2, <2>1
  <2> QED BY <2>2
<1> QED
  BY <1>2, <1>3

\* A finite set of naturals has a bound.
LEMMA FiniteBound ==
  ASSUME NEW S \in SUBSET Nat, IsFiniteSet(S)
  PROVE  \E b \in Nat : \A x \in S : x <= b
<1>0. PICK n \in Nat : ExistsSurjection(1..n, S)
  BY FS_NatSurjection
<1>1. PICK f \in Surjection(1..n, S) : TRUE
  BY <1>0 DEF ExistsSurjection
<1>2. \A x \in S : \E i \in 1..n : f[i] = x
  BY <1>1 DEF Surjection
<1>3. \A i \in 1..n : f[i] \in Nat
  BY <1>1 DEF Surjection
<1> DEFINE Bounded(m) == \E b \in Nat : \A i \in 1..m : f[i] <= b
<1> DEFINE Bad == {m \in 0..n : ~Bounded(m)}
<1>4. Bad = {}
  <2> SUFFICES ASSUME Bad # {} PROVE FALSE
    OBVIOUS
  <2>1. PICK m \in Bad : \A k \in Bad : m <= k
    <3> Bad \in SUBSET Nat
      OBVIOUS
    <3> HIDE DEF Bad
    <3> QED BY LeastNat
  <2>2. m # 0
    <3>1. Bounded(0)
      <4>1. 1..0 = {}
        OBVIOUS
      <4> QED BY <4>1
    <3> QED BY <3>1
  <2>a. m \in 0..n
    OBVIOUS
  <2>b. m - 1 \in 0..n /\ ~(m <= m - 1)
    BY <2>2, <2>a
  <2>c. m - 1 \notin Bad
    <3> HIDE DEF Bad
    <3> QED BY <2>1, <2>b
  <2>3. m - 1 \in 0..n /\ m - 1 \notin Bad
    BY <2>b, <2>c
  <2>4. PICK b \in Nat : \A i \in 1..(m - 1) : f[i] <= b
    BY <2>3
  <2>5. m \in 1..n /\ f[m] \in Nat
    BY <1>3, <2>2
  <2>6. \A i \in 1..m : f[i] <= b + f[m]
    <3> HIDE DEF Bad
    <3> TAKE i \in 1..m
    <3>1. f[i] \in Nat
      BY <1>3, <2>5
    <3>2. CASE i = m
      BY <3>2, <2>5
    <3>3. CASE i # m
      <4>1. i \in 1..(m - 1)
        BY <3>3, <2>5
      <4> QED BY <4>1, <2>4, <2>5, <3>1
    <3> QED BY <3>2, <3>3
  <2>7. b + f[m] \in Nat
    <3> HIDE DEF Bad
    <3> QED BY <2>5
  <2>8. \E c \in Nat : \A i \in 1..m : f[i] <= c
    <3> HIDE DEF Bad
    <3> QED BY <2>6, <2>7
  <2> QED BY <2>8
<1>5. n \in 0..n
  OBVIOUS
<1>6. Bounded(n)
  BY <1>4, <1>5
<1> QED
  BY <1>2, <1>6

\* The values of a function on a finite set are finitely many.
LEMMA ImageFinite ==
  ASSUME NEW S, IsFiniteSet(S), NEW f, DOMAIN f = S
  PROVE  IsFiniteSet({f[x] : x \in S})
<1> DEFINE T == {f[x] : x \in S}
<1> DEFINE g == [x \in S |-> f[x]]
<1>1. g \in Surjection(S, T)
  BY DEF Surjection
<1> HIDE DEF g, T
<1>2. IsFiniteSet(T)
  BY <1>1, FS_Surjection
<1> QED
  BY <1>2 DEF T

-----------------------------------------------------------------------------
(* The orders.                                                             *)

\* The rows of the orders, and the calls.
BookStories == [Book!Fields -> Seq(Book!Entries)]
BookRows == [row : Book!Row, born : Book!Row, carries : BOOLEAN, story : BookStories]
BookCreates == [kind : {"create"}, order : Orders, row : Book!Row, wants : BOOLEAN]
BookForms == [kind : {"form"}, order : Orders, row : Book!Row, wants : BOOLEAN, items : BOOLEAN,
              pays : BOOLEAN, copy : Book!Row, changes : BookStories]
BookPatches == [kind : {"status", "patch"}, order : Orders, field : Book!Fields, value : Values]
BookDeletes == [kind : {"delete"}, order : Orders]
BookCalls == BookCreates \cup BookForms \cup BookPatches \cup BookDeletes
BookAsked == [stage : {"asked"}, call : BookCalls]
BookBegun(calls, saw) == [stage : {"begun"}, call : calls, saw : saw]
BookCreating == BookBegun(BookCreates, [carries : BOOLEAN])
BookEditing == BookBegun(BookForms, [carries : BOOLEAN, had : BOOLEAN])
BookPatching == BookBegun(BookPatches, [old : Values])
BookDropping == BookBegun(BookDeletes, [had : BOOLEAN])
BookRequests == {Book!Idle} \cup BookAsked \cup BookCreating \cup BookEditing \cup BookPatching \cup BookDropping

BookOrdersOK == orders \in [Orders -> {Book!Unborn, Book!Gone} \cup BookRows]
BookRequestsOK == requests \in [Clerks -> BookRequests]
BookRestOK ==
  /\ used \in 0..MaxUses /\ served \in 0..MaxRequests
  /\ torn \subseteq Orders /\ muddled \in BOOLEAN
BookTyped == BookOrdersOK /\ BookRequestsOK /\ BookRestOK

\* An order that is being created is no one else's.
BookAsks(s) == requests[s].stage # "idle"
BookCreator(s) == BookAsks(s) /\ requests[s].call.kind = "create"
BookAlone(s) ==
  BookCreator(s) => /\ orders[requests[s].call.order] = Book!Unborn
                    /\ \A t \in Clerks : BookAsks(t) /\ requests[t].call.order = requests[s].call.order => t = s

\* A form tells what it changes of the order it read.
BookTells(call) ==
  call.changes = Book!diffOrders(call.copy, Book!Merged(call.copy, call.row, call.pays))
BookCompares(s) ==
  BookAsks(s) /\ requests[s].call.kind = "form" => BookTells(requests[s].call)

BookIInv ==
  /\ BookTyped /\ Book!HistoryTold /\ Book!CountTold
  /\ \A s \in Clerks : BookAlone(s) /\ BookCompares(s)

\* The library's operators, as the part has them.
LEMMA BookCardinalityIs == \A S : Book!Cardinality(S) = Cardinality(S)
  BY Zenon DEF Book!Cardinality, Cardinality
LEMMA BookFiniteIs == \A S : Book!IsFiniteSet(S) <=> IsFiniteSet(S)
  BY Zenon DEF Book!IsFiniteSet, IsFiniteSet
LEMMA BookCountIs ==
  /\ Book!CountTold <=> (~muddled => used = Cardinality(Book!Carriers))
  /\ Book!CountTold' <=> (~muddled' => used' = Cardinality(Book!Carriers'))
  BY BookCardinalityIs DEF Book!CountTold

LEMMA BookInitIInv == ASSUME Book!OrdersAssumption, Book!Init PROVE BookIInv
  <1>1. PICK o \in Orders, row \in Book!Row, carries \in BOOLEAN :
          /\ carries => MaxUses > 0
          /\ orders = [q \in Orders |-> IF q = o THEN Book!NewOrder(row, carries) ELSE Book!Unborn]
          /\ used = IF carries THEN 1 ELSE 0
          /\ requests = [s \in Clerks |-> Book!Idle]
          /\ served = 0 /\ torn = {} /\ muddled = FALSE
    BY DEF Book!Init
  <1>2. Book!NoStory \in BookStories
    BY DEF Book!NoStory, BookStories
  <1>3. Book!NewOrder(row, carries) \in BookRows
    BY <1>2, Zenon DEF Book!NewOrder, BookRows
  <1>4. BookOrdersOK
    BY <1>1, <1>3 DEF BookOrdersOK
  <1>5. BookRequestsOK
    BY <1>1 DEF BookRequestsOK, BookRequests
  <1>6. BookRestOK
    <2>1. 0 \in 0..MaxRequests /\ 0 \in 0..MaxUses /\ (carries => 1 \in 0..MaxUses)
      BY <1>1 DEF Book!OrdersAssumption
    <2>2. used \in 0..MaxUses
      BY <1>1, <2>1
    <2>3. muddled \in BOOLEAN
      BY <1>1
    <2> QED BY <1>1, <2>1, <2>2, <2>3 DEF BookRestOK
  <1>7. \A s \in Clerks : ~BookAsks(s)
    BY <1>1 DEF BookAsks, Book!Idle
  <1>8. Book!NewOrder(row, carries) \notin {Book!Unborn, Book!Gone}
    BY DEF Book!NewOrder, Book!Unborn, Book!Gone
  <1>9. Book!HistoryTold
    <2>1. ASSUME NEW q \in Orders, Book!Exists(q), NEW f \in Book!Fields
          PROVE  Book!Leads(orders[q].story[f], orders[q].born[f], orders[q].row[f])
      <3>1. orders[q] = Book!NewOrder(row, carries)
        BY <1>1, <2>1 DEF Book!Exists
      <3>2. orders[q].story[f] = <<>> /\ orders[q].born[f] = orders[q].row[f]
        BY <3>1 DEF Book!NewOrder, Book!NoStory
      <3>3. DOMAIN <<>> = {} /\ Len(<<>>) = 0
        OBVIOUS
      <3> QED BY <3>2, <3>3 DEF Book!Leads
    <2> QED BY <2>1 DEF Book!HistoryTold
  <1>10. Book!Carriers = IF carries THEN {o} ELSE {}
    <2>1. \A q \in Orders : Book!Exists(q) <=> q = o
      BY <1>1, <1>8 DEF Book!Exists
    <2>2. orders[o].carries = carries
      BY <1>1 DEF Book!NewOrder
    <2> QED BY <2>1, <2>2 DEF Book!Carriers
  <1>11. Book!CountTold
    BY <1>1, <1>10, FS_EmptySet, FS_Singleton, BookCountIs
  <1> QED BY <1>4, <1>5, <1>6, <1>7, <1>9, <1>11
             DEF BookIInv, BookTyped, BookAlone, BookCreator, BookCompares

\* What a request that has begun holds.
LEMMA BookAtRequest ==
  ASSUME BookTyped, NEW s \in Clerks
  PROVE  /\ requests[s] = Book!Idle <=> ~BookAsks(s)
         /\ requests[s].stage = "asked" <=> requests[s] \in BookAsked
         /\ BookAsks(s) => requests[s].call \in BookCalls
         /\ requests[s].stage = "begun" =>
              /\ requests[s] \in BookCreating \cup BookEditing \cup BookPatching \cup BookDropping
              /\ requests[s].call.kind = "create" => requests[s] \in BookCreating
              /\ requests[s].call.kind = "form" => requests[s] \in BookEditing
              /\ requests[s].call.kind \in {"status", "patch"} => requests[s] \in BookPatching
              /\ requests[s].call.kind = "delete" => requests[s] \in BookDropping
  <1>1. requests[s] \in BookRequests
    BY DEF BookTyped, BookRequestsOK
  <1>2. CASE requests[s] = Book!Idle
    BY <1>2 DEF Book!Idle, BookAsks, BookAsked
  <1>3. CASE requests[s] \in BookAsked
    BY <1>3 DEF Book!Idle, BookAsks, BookAsked
  <1>4. CASE requests[s] \in BookCreating
    BY <1>4 DEF Book!Idle, BookAsks, BookAsked, BookCreating, BookBegun, BookCreates, BookCalls
  <1>5. CASE requests[s] \in BookEditing
    BY <1>5 DEF Book!Idle, BookAsks, BookAsked, BookEditing, BookBegun, BookForms, BookCalls
  <1>6. CASE requests[s] \in BookPatching
    BY <1>6 DEF Book!Idle, BookAsks, BookAsked, BookPatching, BookBegun, BookPatches, BookCalls
  <1>7. CASE requests[s] \in BookDropping
    BY <1>7 DEF Book!Idle, BookAsks, BookAsked, BookDropping, BookBegun, BookDeletes, BookCalls
  <1> QED BY <1>1, <1>2, <1>3, <1>4, <1>5, <1>6, <1>7 DEF BookRequests

\* An order that exists is a row.
LEMMA BookAtOrder ==
  ASSUME BookTyped, NEW o \in Orders, Book!Exists(o) PROVE orders[o] \in BookRows
  BY DEF BookTyped, BookOrdersOK, Book!Exists

\* The orders that carry the promotion are finitely many.
LEMMA BookCarriersFinite ==
  ASSUME Book!OrdersAssumption
  PROVE  IsFiniteSet(Book!Carriers) /\ Cardinality(Book!Carriers) \in Nat
  <1>1. Book!Carriers \subseteq Orders /\ IsFiniteSet(Orders)
    BY BookFiniteIs DEF Book!Carriers, Book!OrdersAssumption
  <1> QED BY <1>1, FS_Subset, FS_CardinalityType

\* The requests of the others keep what they ask.
LEMMA BookOtherRequests ==
  ASSUME BookTyped, NEW s \in Clerks, NEW r \in BookRequests,
         requests' = [requests EXCEPT ![s] = r]
  PROVE  BookRequestsOK' /\ requests'[s] = r /\ \A t \in Clerks \ {s} : requests'[t] = requests[t]
  BY DEF BookTyped, BookRequestsOK, BookRequests, BookAsked, BookCreating, BookEditing,
       BookPatching, BookDropping, BookBegun, BookCalls,
         BookCreates, BookForms, BookPatches, BookDeletes, BookStories, Book!Row

\* A call that is asked, or begins, changes no order and no counter.
LEMMA BookQuietKeeps ==
  ASSUME BookIInv, NEW s \in Clerks, NEW r \in BookRequests,
         requests' = [requests EXCEPT ![s] = r],
         BookRestOK', UNCHANGED <<orders, used, torn, muddled>>,
         r.stage # "idle" /\ r.call.kind = "create" =>
           /\ orders[r.call.order] = Book!Unborn
           /\ \A t \in Clerks \ {s} : BookAsks(t) => requests[t].call.order # r.call.order,
         r.stage # "idle" /\ r.call.kind # "create" =>
           \A t \in Clerks \ {s} : BookCreator(t) => requests[t].call.order # r.call.order,
         r.stage # "idle" /\ r.call.kind = "form" => BookTells(r.call)
  PROVE  BookIInv'
  <1>1. BookRequestsOK' /\ requests'[s] = r /\ \A t \in Clerks \ {s} : requests'[t] = requests[t]
    BY BookOtherRequests DEF BookIInv
  <1>2. BookTyped'
    BY <1>1 DEF BookIInv, BookTyped, BookOrdersOK, BookRows, Book!Row, BookStories
  <1>3. Book!HistoryTold'
    BY DEF BookIInv, Book!HistoryTold, Book!Exists
  <1>4. Book!CountTold'
    <2>1. Book!Carriers' = Book!Carriers
      BY DEF Book!Carriers, Book!Exists
    <2> QED BY <2>1, BookCountIs DEF BookIInv
  <1>5. ASSUME NEW t \in Clerks PROVE BookAlone(t)' /\ BookCompares(t)'
    <2>1. CASE t = s
      BY <1>1, <2>1 DEF BookAlone, BookCompares, BookCreator, BookAsks
    <2>2. CASE t # s
      <3>1. BookAlone(t) /\ BookCompares(t)
        BY DEF BookIInv
      <3>2. BookAlone(t)'
        BY <1>1, <2>2, <3>1 DEF BookAlone, BookCreator, BookAsks
      <3>3. BookCompares(t)'
        BY <1>1, <2>2, <3>1 DEF BookCompares, BookAsks
      <3> QED BY <3>2, <3>3
    <2> QED BY <2>1, <2>2
  <1> QED BY <1>2, <1>3, <1>4, <1>5 DEF BookIInv

LEMMA BookAskKeeps ==
  ASSUME Book!OrdersAssumption, BookIInv, NEW s \in Clerks, NEW call \in BookCalls,
         Book!Ask(s, call),
         call.kind = "create" =>
           /\ orders[call.order] = Book!Unborn
           /\ \A t \in Clerks : requests[t] # Book!Idle => requests[t].call.order # call.order,
         call.kind # "create" => Book!Exists(call.order),
         call.kind = "form" => BookTells(call)
  PROVE  BookIInv'
  <1> DEFINE r == [stage |-> "asked", call |-> call]
  <1>1. r \in BookRequests /\ r.stage = "asked" /\ r.call = call
    BY DEF BookRequests, BookAsked
  <1>2. requests' = [requests EXCEPT ![s] = r] /\ UNCHANGED <<orders, used, torn, muddled>>
    BY DEF Book!Ask
  <1>3. BookRestOK'
    BY DEF Book!Ask, BookIInv, BookTyped, BookRestOK, Book!OrdersAssumption
  <1>4. call.kind = "create" =>
          \A t \in Clerks \ {s} : BookAsks(t) => requests[t].call.order # call.order
    BY BookAtRequest DEF BookIInv
  <1>5. call.kind # "create" =>
          \A t \in Clerks \ {s} : BookCreator(t) => requests[t].call.order # call.order
    BY DEF BookIInv, BookAlone, Book!Exists
  <1> HIDE DEF r
  <1> QED BY <1>1, <1>2, <1>3, <1>4, <1>5, BookQuietKeeps

\* What a form changes is told entry by entry.
LEMMA BookChangeIs ==
  ASSUME NEW a \in Values, NEW b \in Values, NEW silent \in BOOLEAN
  PROVE  Book!Change(a, b, silent) \in Seq(Book!Entries)
  <1>1. [from |-> a, to |-> b, silent |-> silent] \in Book!Entries
    BY DEF Book!Entries
  <1> QED BY <1>1 DEF Book!Change

LEMMA BookDiffIs ==
  ASSUME NEW prev \in Book!Row, NEW next \in Book!Row
  PROVE  Book!diffOrders(prev, next) \in BookStories
  <1>1. \A f \in Book!Fields : Book!Change(prev[f], next[f], FALSE) \in Seq(Book!Entries)
    BY BookChangeIs DEF Book!Row
  <1> QED BY <1>1 DEF Book!diffOrders, BookStories

LEMMA BookAsksKeep ==
  ASSUME Book!OrdersAssumption, BookIInv, NEW s \in Clerks,
         Book!AskCreate(s) \/ Book!AskForm(s) \/ Book!AskStatus(s) \/ Book!AskPatch(s) \/ Book!AskDelete(s)
  PROVE  BookIInv'
  <1>1. CASE Book!AskCreate(s)
    <2>1. PICK o \in Orders, row \in Book!Row, wants \in BOOLEAN :
            /\ orders[o] = Book!Unborn
            /\ \A t \in Clerks : requests[t] # Book!Idle => requests[t].call.order # o
            /\ Book!Ask(s, [kind |-> "create", order |-> o, row |-> row, wants |-> wants])
      BY <1>1 DEF Book!AskCreate
    <2> DEFINE call == [kind |-> "create", order |-> o, row |-> row, wants |-> wants]
    <2>2. call \in BookCreates /\ call.kind = "create" /\ call.order = o
      BY Zenon DEF BookCreates
    <2> HIDE DEF call
    <2>3. Book!Ask(s, call)
      BY <2>1 DEF call
    <2> QED BY <2>1, <2>2, <2>3, BookAskKeeps DEF BookCalls
  <1>2. CASE Book!AskForm(s)
    <2>1. PICK o \in Orders, row \in Book!Row, wants \in BOOLEAN, items \in BOOLEAN,
            pays \in BOOLEAN :
            /\ Book!Exists(o)
            /\ Book!Ask(s, [kind |-> "form", order |-> o, row |-> row, wants |-> wants, items |-> items,
                            pays |-> pays, copy |-> orders[o].row,
                            changes |-> Book!diffOrders(orders[o].row, Book!Merged(orders[o].row, row, pays))])
      BY <1>2 DEF Book!AskForm
    <2> DEFINE changes == Book!diffOrders(orders[o].row, Book!Merged(orders[o].row, row, pays))
               call == [kind |-> "form", order |-> o, row |-> row, wants |-> wants, items |-> items,
                        pays |-> pays, copy |-> orders[o].row, changes |-> changes]
    <2>2. orders[o].row \in Book!Row
      BY <2>1, BookAtOrder DEF BookIInv, BookRows
    <2>3. changes \in BookStories
      <3>1. Book!Merged(orders[o].row, row, pays) \in Book!Row
        BY <2>2 DEF Book!Merged, Book!Row
      <3> QED BY <2>2, <3>1, BookDiffIs
    <2>a. BookTells(call)
      BY DEF BookTells
    <2> HIDE DEF changes
    <2>4. call \in BookForms /\ call.kind = "form" /\ call.order = o
      BY <2>2, <2>3, Zenon DEF BookForms
    <2> USE DEF changes
    <2> HIDE DEF call
    <2>5. Book!Ask(s, call)
      BY <2>1 DEF call
    <2> QED BY <2>1, <2>a, <2>4, <2>5, BookAskKeeps DEF BookCalls
  <1>3. CASE Book!AskStatus(s) \/ Book!AskPatch(s)
    <2>1. PICK o \in Orders, v \in Values, k \in {"status", "patch"}, f \in Book!Fields :
            Book!Exists(o) /\ Book!Ask(s, [kind |-> k, order |-> o, field |-> f, value |-> v])
      BY <1>3 DEF Book!AskStatus, Book!AskPatch, Book!Fields
    <2> DEFINE call == [kind |-> k, order |-> o, field |-> f, value |-> v]
    <2>2. call \in BookPatches /\ call.kind \notin {"create", "form"} /\ call.order = o
      BY DEF BookPatches
    <2> HIDE DEF call
    <2>3. Book!Ask(s, call)
      BY <2>1 DEF call
    <2> QED BY <2>1, <2>2, <2>3, BookAskKeeps DEF BookCalls
  <1>4. CASE Book!AskDelete(s)
    <2>1. PICK o \in Orders : Book!Exists(o) /\ Book!Ask(s, [kind |-> "delete", order |-> o])
      BY <1>4 DEF Book!AskDelete
    <2> DEFINE call == [kind |-> "delete", order |-> o]
    <2>2. call \in BookDeletes /\ call.kind \notin {"create", "form"} /\ call.order = o
      BY DEF BookDeletes
    <2> HIDE DEF call
    <2>3. Book!Ask(s, call)
      BY <2>1 DEF call
    <2> QED BY <2>1, <2>2, <2>3, BookAskKeeps DEF BookCalls
  <1> QED BY <1>1, <1>2, <1>3, <1>4

\* What is read of the promotion is true or false.
LEMMA BookSawCarries == ASSUME NEW b, NEW c PROVE [carries |-> b /\ c] \in [carries : BOOLEAN]
  OBVIOUS
LEMMA BookSawHad == ASSUME NEW c \in BOOLEAN PROVE [had |-> c] \in [had : BOOLEAN]
  OBVIOUS
LEMMA BookSawBoth ==
  ASSUME NEW b, NEW c, NEW d \in BOOLEAN
  PROVE  [carries |-> b /\ c, had |-> d] \in [carries : BOOLEAN, had : BOOLEAN]
  OBVIOUS

LEMMA BookBeginKeeps ==
  ASSUME Book!OrdersAssumption, BookIInv, NEW s \in Clerks, Book!Begin(s) PROVE BookIInv'
  <1> DEFINE call == requests[s].call
             opened == [stage |-> "begun", call |-> call, saw |-> Book!SeenBy(call)]
  <1>1. requests[s].stage = "asked" /\ requests[s] \in BookAsked /\ BookAsks(s) /\ call \in BookCalls
    BY BookAtRequest DEF Book!Begin, BookIInv, BookAsked, BookAsks
  <1>2. UNCHANGED <<orders, used, served, torn, muddled>> /\ BookRestOK'
    BY DEF Book!Begin, BookIInv, BookTyped, BookRestOK
  <1>3. CASE Book!EndsEarly(call)
    <2>1. requests' = [requests EXCEPT ![s] = Book!Idle]
      BY <1>3 DEF Book!Begin
    <2>2. Book!Idle \in BookRequests /\ Book!Idle.stage = "idle"
      BY DEF Book!Idle, BookRequests
    <2> QED BY <1>2, <2>1, <2>2, BookQuietKeeps
  <1>4. CASE ~Book!EndsEarly(call)
    <2>1. requests' = [requests EXCEPT ![s] = opened]
      BY <1>4 DEF Book!Begin
    <2>2. call.kind # "create" => Book!Exists(call.order) /\ orders[call.order] \in BookRows
      BY <1>1, <1>4, BookAtOrder
         DEF Book!EndsEarly, BookIInv, BookCalls, BookCreates, BookForms, BookPatches, BookDeletes
    <2>3. opened \in BookRequests
      <3>1. CASE call \in BookCreates
        <4>1. Book!SeenBy(call) = [carries |-> call.wants /\ Book!Eligible]
          BY <3>1 DEF Book!SeenBy, BookCreates
        <4>2. Book!SeenBy(call) \in [carries : BOOLEAN]
          BY <4>1, BookSawCarries
        <4> QED BY <3>1, <4>2 DEF BookRequests, BookCreating, BookBegun
      <3>2. CASE call \in BookForms
        <4>1. Book!SeenBy(call) = [carries |-> call.wants /\ Book!Eligible, had |-> orders[call.order].carries]
          BY <3>2 DEF Book!SeenBy, BookForms
        <4>2. orders[call.order].carries \in BOOLEAN
          BY <2>2, <3>2 DEF BookForms, BookRows
        <4>3. Book!SeenBy(call) \in [carries : BOOLEAN, had : BOOLEAN]
          BY <4>1, <4>2, BookSawBoth, Zenon
        <4> QED BY <3>2, <4>3 DEF BookRequests, BookEditing, BookBegun
      <3>3. CASE call \in BookPatches
        <4>1. Book!SeenBy(call) = [old |-> orders[call.order].row[call.field]]
          BY <3>3 DEF Book!SeenBy, BookPatches
        <4>2. orders[call.order].row[call.field] \in Values
          BY <2>2, <3>3 DEF BookPatches, BookRows, Book!Row
        <4>3. Book!SeenBy(call) \in [old : Values]
          BY <4>1, <4>2
        <4> QED BY <3>3, <4>3 DEF BookRequests, BookPatching, BookBegun
      <3>4. CASE call \in BookDeletes
        <4>1. Book!SeenBy(call) = [had |-> orders[call.order].carries]
          BY <3>4 DEF Book!SeenBy, BookDeletes
        <4>2. orders[call.order].carries \in BOOLEAN
          BY <2>2, <3>4 DEF BookDeletes, BookRows
        <4>3. Book!SeenBy(call) \in [had : BOOLEAN]
          BY <4>1, <4>2, BookSawHad, Zenon
        <4> QED BY <3>4, <4>3 DEF BookRequests, BookDropping, BookBegun
      <3> QED BY <1>1, <3>1, <3>2, <3>3, <3>4 DEF BookCalls
    <2>4. opened.call = call
      OBVIOUS
    <2>5. BookAlone(s) /\ BookCompares(s) /\ \A t \in Clerks : BookAlone(t)
      BY DEF BookIInv
    <2>6. call.kind = "create" =>
            /\ orders[call.order] = Book!Unborn
            /\ \A t \in Clerks \ {s} : BookAsks(t) => requests[t].call.order # call.order
      BY <1>1, <2>5 DEF BookAlone, BookCreator
    <2>7. \A t \in Clerks \ {s} : BookCreator(t) => requests[t].call.order # call.order
      BY <1>1, <2>5 DEF BookAlone
    <2>8. call.kind = "form" => BookTells(call)
      BY <1>1, <2>5 DEF BookCompares
    <2> HIDE DEF opened
    <2> QED BY <1>2, <2>1, <2>3, <2>4, <2>6, <2>7, <2>8, BookQuietKeeps
  <1> QED BY <1>3, <1>4

\* When a call commits, what it did to its order concerns no order being created.
LEMMA BookCommitRequests ==
  ASSUME BookIInv, NEW s \in Clerks, NEW kinds, Book!Commits(s, kinds),
         \A o \in Orders : o # requests[s].call.order => orders'[o] = orders[o]
  PROVE  BookRequestsOK' /\ \A t \in Clerks : BookAlone(t)' /\ BookCompares(t)'
  <1>1. Book!Idle \in BookRequests /\ Book!Idle.stage = "idle"
    BY DEF BookRequests, Book!Idle
  <1>2. BookRequestsOK' /\ requests'[s] = Book!Idle /\ \A t \in Clerks \ {s} : requests'[t] = requests[t]
    BY <1>1, BookOtherRequests DEF BookIInv, Book!Commits
  <1>3. BookAsks(s)
    BY DEF Book!Commits, BookAsks
  <1>4. \A t \in Clerks : BookAsks(t) => requests[t].call.order \in Orders
    BY BookAtRequest DEF BookIInv, BookCalls, BookCreates, BookForms, BookPatches, BookDeletes
  <1>5. ASSUME NEW t \in Clerks PROVE BookAlone(t)' /\ BookCompares(t)'
    <2>1. CASE t = s
      BY <1>1, <1>2, <2>1 DEF BookAlone, BookCompares, BookCreator, BookAsks
    <2>2. CASE t # s
      <3>1. BookAlone(t) /\ BookCompares(t)
        BY DEF BookIInv
      <3>2. BookCreator(t) => orders'[requests[t].call.order] = orders[requests[t].call.order]
        BY <1>3, <1>4, <2>2, <3>1 DEF BookAlone, BookCreator
      <3>3. BookAlone(t)'
        BY <1>1, <1>2, <2>2, <3>1, <3>2 DEF BookAlone, BookCreator, BookAsks
      <3>4. BookCompares(t)'
        BY <1>2, <2>2, <3>1 DEF BookCompares, BookAsks
      <3> QED BY <3>3, <3>4
    <2> QED BY <2>1, <2>2
  <1> QED BY <1>2, <1>5

\* A row is there.
LEMMA BookRowsExist == ASSUME NEW r \in BookRows PROVE r \notin {Book!Unborn, Book!Gone}
  BY DEF BookRows, Book!Unborn, Book!Gone

\* One order changes: its history tells it, unless it is torn, and it alone joins or leaves
\* the carriers.
LEMMA BookOrderChanges ==
  ASSUME BookIInv, NEW o \in Orders, NEW new \in {Book!Unborn, Book!Gone} \cup BookRows,
         orders' = [orders EXCEPT ![o] = new], torn \subseteq torn', torn' \subseteq Orders,
         o \notin torn' /\ new \notin {Book!Unborn, Book!Gone} =>
           \A f \in Book!Fields : Book!Leads(new.story[f], new.born[f], new.row[f])
  PROVE  /\ BookOrdersOK' /\ Book!HistoryTold'
         /\ Book!Carriers' = IF new \notin {Book!Unborn, Book!Gone} /\ new.carries THEN Book!Carriers \cup {o}
                             ELSE Book!Carriers \ {o}
         /\ \A q \in Orders : q # o => orders'[q] = orders[q]
  <1>1. orders'[o] = new /\ \A q \in Orders : q # o => orders'[q] = orders[q]
    BY DEF BookIInv, BookTyped, BookOrdersOK
  <1>2. BookOrdersOK'
    BY DEF BookIInv, BookTyped, BookOrdersOK, BookRows, Book!Row, BookStories
  <1>3. Book!HistoryTold'
    <2> SUFFICES ASSUME NEW q \in Orders \ torn', Book!Exists(q)', NEW f \in Book!Fields
                 PROVE  Book!Leads(orders'[q].story[f], orders'[q].born[f], orders'[q].row[f])
      BY DEF Book!HistoryTold, Book!Leads
    <2>1. CASE q = o
      BY <1>1, <2>1 DEF Book!Exists
    <2>2. CASE q # o
      BY <1>1, <2>2 DEF Book!Exists, BookIInv, Book!HistoryTold
    <2> QED BY <2>1, <2>2
  <1>4. Book!Carriers' = IF new \notin {Book!Unborn, Book!Gone} /\ new.carries THEN Book!Carriers \cup {o}
                         ELSE Book!Carriers \ {o}
    BY <1>1 DEF Book!Carriers, Book!Exists
  <1> QED BY <1>1, <1>2, <1>3, <1>4

\* A history goes on from where it ended.
LEMMA BookLeadsOn ==
  ASSUME NEW story \in Seq(Book!Entries), NEW born, NEW last, Book!Leads(story, born, last),
         NEW e \in Book!Entries, e.from = last
  PROVE  Book!Leads(Append(story, e), born, e.to)
  <1> DEFINE longer == Append(story, e)
  <1>1. /\ Len(story) \in Nat /\ DOMAIN story = 1..Len(story)
        /\ Len(longer) = Len(story) + 1 /\ DOMAIN longer = 1..Len(story) + 1
        /\ \A i \in 1..Len(story) : longer[i] = story[i]
        /\ longer[Len(story) + 1] = e
    OBVIOUS
  <1> HIDE DEF longer
  <1>2. \A i \in DOMAIN story : story[i].from = IF i = 1 THEN born ELSE story[i - 1].to
    BY DEF Book!Leads
  <1>3. last = IF Len(story) + 1 = 1 THEN born ELSE story[Len(story) + 1 - 1].to
    BY DEF Book!Leads
  <1>4. ASSUME NEW i \in DOMAIN longer
        PROVE  longer[i].from = IF i = 1 THEN born ELSE longer[i - 1].to
    <2>1. CASE i \in 1..Len(story)
      <3>1. i # 1 => i - 1 \in 1..Len(story)
        BY <1>1, <2>1
      <3> QED BY <1>1, <1>2, <2>1, <3>1
    <2>2. CASE i = Len(story) + 1
      <3>1. i # 1 => i - 1 \in 1..Len(story) /\ i - 1 = Len(story)
        BY <1>1, <2>2
      <3> QED BY <1>1, <1>3, <2>2, <3>1
    <2> QED BY <1>1, <2>1, <2>2
  <1>5. e.to = IF Len(longer) + 1 = 1 THEN born ELSE longer[Len(longer) + 1 - 1].to
    BY <1>1
  <1> QED BY <1>4, <1>5 DEF Book!Leads, longer

\* Uses stay within their limit.
LEMMA BookUsesBounded ==
  ASSUME Book!OrdersAssumption, NEW n \in 0..MaxUses, NEW carries
  PROVE  Book!Redeem(n, carries) \in 0..MaxUses /\ Book!Release(n, carries) \in 0..MaxUses
  BY DEF Book!OrdersAssumption, Book!Redeem, Book!Release


LEMMA BookCreateKeeps ==
  ASSUME Book!OrdersAssumption, BookIInv, NEW s \in Clerks, Book!Create(s) PROVE BookIInv'
  <1> DEFINE call == requests[s].call
             o == call.order
             carries == requests[s].saw.carries
             new == Book!NewOrder(call.row, carries)
  <1>1. /\ requests[s].stage = "begun" /\ call.kind = "create" /\ Book!Commits(s, {"create"})
        /\ orders' = [orders EXCEPT ![o] = new]
        /\ used' = Book!Redeem(used, carries)
        /\ muddled' = (muddled \/ (carries /\ used >= MaxUses))
        /\ torn' = torn /\ served' = served
    BY DEF Book!Create, Book!Commits
  <1>2. requests[s] \in BookCreating /\ BookAsks(s)
    BY <1>1, BookAtRequest DEF BookIInv, BookAsks
  <1>3. o \in Orders /\ call.row \in Book!Row /\ carries \in BOOLEAN
    BY <1>2 DEF BookCreating, BookBegun, BookCreates
  <1>4. Book!NoStory \in BookStories
    BY DEF Book!NoStory, BookStories
  <1>5. new \in BookRows
    BY <1>3, <1>4, Zenon DEF Book!NewOrder, BookRows
  <1>6. new \notin {Book!Unborn, Book!Gone} /\ new.carries = carries
    BY DEF Book!NewOrder, Book!Unborn, Book!Gone
  <1>7. \A f \in Book!Fields : Book!Leads(new.story[f], new.born[f], new.row[f])
    <2>1. ASSUME NEW f \in Book!Fields PROVE new.story[f] = <<>> /\ new.born[f] = new.row[f]
      BY DEF Book!NewOrder, Book!NoStory
    <2>2. DOMAIN <<>> = {} /\ Len(<<>>) = 0
      OBVIOUS
    <2> QED BY <2>1, <2>2 DEF Book!Leads
  <1>8. orders[o] = Book!Unborn
    BY <1>1, <1>2 DEF BookIInv, BookAlone, BookCreator
  <1> HIDE DEF new
  <1>9. /\ BookOrdersOK' /\ Book!HistoryTold'
        /\ Book!Carriers' = IF carries THEN Book!Carriers \cup {o} ELSE Book!Carriers \ {o}
        /\ \A q \in Orders : q # o => orders'[q] = orders[q]
    BY <1>1, <1>3, <1>5, <1>6, <1>7, BookOrderChanges DEF BookIInv, BookTyped, BookRestOK
  <1>10. BookRequestsOK' /\ \A t \in Clerks : BookAlone(t)' /\ BookCompares(t)'
    BY <1>1, <1>9, BookCommitRequests
  <1>11. BookRestOK'
    <2>1. muddled' \in BOOLEAN
      BY <1>1, Zenon
    <2> QED BY <1>1, <1>3, <2>1, BookUsesBounded DEF BookIInv, BookTyped, BookRestOK
  <1>12. Book!CountTold'
    <2> SUFFICES ASSUME ~muddled' PROVE used' = Cardinality(Book!Carriers')
      BY BookCountIs
    <2>1. ~muddled /\ (carries => used < MaxUses)
      <3>1. ~muddled /\ (carries => ~(used >= MaxUses))
        BY <1>1
      <3> QED BY <3>1 DEF BookIInv, BookTyped, BookRestOK, Book!OrdersAssumption
    <2>2. used = Cardinality(Book!Carriers) /\ o \notin Book!Carriers
      BY <1>8, <2>1, BookCountIs DEF BookIInv, Book!Carriers, Book!Exists
    <2>3. Book!Carriers \ {o} = Book!Carriers
      BY <2>2
    <2> QED BY <1>1, <1>9, <2>1, <2>2, <2>3, BookCarriersFinite, FS_AddElement DEF Book!Redeem
  <1> QED BY <1>9, <1>10, <1>11, <1>12 DEF BookIInv, BookTyped

\* One entry, or none, is added.
LEMMA BookLeadsMore ==
  ASSUME NEW story \in Seq(Book!Entries), NEW born, NEW a \in Values, NEW b \in Values,
         NEW silent \in BOOLEAN, Book!Leads(story, born, a)
  PROVE  Book!Leads(story \o Book!Change(a, b, silent), born, b)
  <1>1. CASE a = b
    <2>1. Book!Change(a, b, silent) = <<>>
      BY <1>1 DEF Book!Change
    <2>2. story \o <<>> = story
      OBVIOUS
    <2> QED BY <1>1, <2>1, <2>2
  <1>2. CASE a # b
    <2> DEFINE e == [from |-> a, to |-> b, silent |-> silent]
    <2>1. Book!Change(a, b, silent) = <<e>>
      BY <1>2 DEF Book!Change
    <2>2. e \in Book!Entries /\ e.from = a /\ e.to = b
      BY DEF Book!Entries
    <2> HIDE DEF e
    <2>3. story \o <<e>> = Append(story, e)
      BY <2>2
    <2> QED BY <2>1, <2>2, <2>3, BookLeadsOn
  <1> QED BY <1>1, <1>2

LEMMA BookUpdateKeeps ==
  ASSUME Book!OrdersAssumption, BookIInv, NEW s \in Clerks, Book!Update(s) PROVE BookIInv'
  <1> DEFINE call == requests[s].call
             o == call.order
             saw == requests[s].saw
             order == orders[o]
             released == Book!Release(used, saw.had)
             story == [f \in Book!Fields |-> order.story[f] \o Book!Added(call, order.row, f)]
             new == [row |-> call.row, born |-> order.born, carries |-> saw.carries, story |-> story]
  <1>1. /\ requests[s].stage = "begun" /\ call.kind = "form" /\ Book!Commits(s, {"form"}) /\ Book!Exists(o)
        /\ orders' = [orders EXCEPT ![o] = new]
        /\ used' = IF call.items THEN Book!Redeem(released, saw.carries) ELSE used
        /\ muddled' = (\/ muddled
                       \/ saw.had # order.carries
                       \/ call.items /\ saw.carries /\ released >= MaxUses
                       \/ ~call.items /\ saw.carries # saw.had)
        /\ torn' = (IF Book!Unseen(call, order.row) THEN torn \cup {o} ELSE torn)
        /\ served' = served
    BY DEF Book!Update, Book!Commits
  <1>2. requests[s] \in BookEditing /\ BookAsks(s)
    BY <1>1, BookAtRequest DEF BookIInv, BookAsks
  <1>3. /\ o \in Orders /\ call.row \in Book!Row /\ saw.carries \in BOOLEAN /\ saw.had \in BOOLEAN
        /\ call.copy \in Book!Row /\ call.changes \in BookStories
    BY <1>2 DEF BookEditing, BookBegun, BookForms
  <1>4. order \in BookRows
    BY <1>1, <1>3, BookAtOrder DEF BookIInv
  <1>5. order.born \in Book!Row /\ order.story \in BookStories /\ order.row \in Book!Row /\ order.carries \in BOOLEAN
    BY <1>4 DEF BookRows
  <1>6. story \in BookStories
    <2>1. \A f \in Book!Fields : Book!Added(call, order.row, f) \in Seq(Book!Entries)
      BY <1>3, <1>5, BookChangeIs DEF BookStories, Book!Added, Book!Row
    <2>2. \A f \in Book!Fields : order.story[f] \o Book!Added(call, order.row, f) \in Seq(Book!Entries)
      BY <1>5, <2>1 DEF BookStories
    <2> QED BY <2>2 DEF BookStories
  <1>7. BookTells(call)
    BY <1>1, <1>2 DEF BookIInv, BookCompares
  <1>8. o \notin torn' => \A f \in Book!Fields : Book!Leads(story[f], order.born[f], call.row[f])
    <2> SUFFICES ASSUME o \notin torn', NEW f \in Book!Fields
                 PROVE  Book!Leads(story[f], order.born[f], call.row[f])
      OBVIOUS
    <2>1. o \notin torn /\ (~(f = "pay" /\ ~call.pays) => call.copy[f] = order.row[f])
      BY <1>1 DEF Book!Unseen
    <2>2. Book!Leads(order.story[f], order.born[f], order.row[f])
      BY <1>1, <1>3, <2>1 DEF BookIInv, Book!HistoryTold
    <2>3. /\ order.story[f] \in Seq(Book!Entries) /\ order.row[f] \in Values
          /\ call.row[f] \in Values
      BY <1>3, <1>5 DEF BookStories, Book!Row
    <2>4. PICK silent \in BOOLEAN :
            Book!Added(call, order.row, f) = Book!Change(order.row[f], call.row[f], silent)
      <3>1. CASE f = "pay" /\ ~call.pays
        BY <3>1 DEF Book!Added
      <3>2. CASE ~(f = "pay" /\ ~call.pays)
        <4>1. call.changes[f] = Book!Change(call.copy[f], call.row[f], FALSE)
          BY <1>7, <3>2 DEF BookTells, Book!diffOrders, Book!Merged
        <4> QED BY <2>1, <3>2, <4>1 DEF Book!Added
      <3> QED BY <3>1, <3>2
    <2> QED BY <2>2, <2>3, <2>4, BookLeadsMore
  <1> HIDE DEF story
  <1>9. new \in BookRows
    BY <1>3, <1>5, <1>6, Zenon DEF BookRows
  <1>10. new \notin {Book!Unborn, Book!Gone} /\ new.carries = saw.carries /\ new.story = story
         /\ new.born = order.born /\ new.row = call.row
    BY DEF Book!Unborn, Book!Gone
  <1> HIDE DEF new
  <1>11. torn \subseteq torn' /\ torn' \subseteq Orders
    BY <1>1, <1>3 DEF BookIInv, BookTyped, BookRestOK
  <1>12. /\ BookOrdersOK' /\ Book!HistoryTold'
         /\ Book!Carriers' = (IF saw.carries THEN Book!Carriers \cup {o} ELSE Book!Carriers \ {o})
         /\ \A q \in Orders : q # o => orders'[q] = orders[q]
    BY <1>1, <1>3, <1>8, <1>9, <1>10, <1>11, BookOrderChanges
  <1>13. BookRequestsOK' /\ \A t \in Clerks : BookAlone(t)' /\ BookCompares(t)'
    BY <1>1, <1>12, BookCommitRequests
  <1>14. BookRestOK'
    <2>1. muddled' \in BOOLEAN
      BY <1>1, Zenon
    <2>2. released \in 0..MaxUses
      BY BookUsesBounded DEF BookIInv, BookTyped, BookRestOK
    <2>3. used' \in 0..MaxUses
      BY <1>1, <2>2, BookUsesBounded DEF BookIInv, BookTyped, BookRestOK
    <2> QED BY <1>1, <1>11, <2>1, <2>3 DEF BookIInv, BookTyped, BookRestOK
  <1>15. Book!CountTold'
    <2> SUFFICES ASSUME ~muddled' PROVE used' = Cardinality(Book!Carriers')
      BY BookCountIs
    <2>1. /\ ~muddled /\ saw.had = order.carries
          /\ call.items /\ saw.carries => ~(released >= MaxUses)
          /\ ~call.items => saw.carries = saw.had
      BY <1>1
    <2>2. used = Cardinality(Book!Carriers) /\ used \in Nat /\ MaxUses \in Nat /\ used <= MaxUses
      BY <2>1, BookCountIs DEF BookIInv, BookTyped, BookRestOK, Book!OrdersAssumption
    <2>3. o \in Book!Carriers <=> saw.had
      BY <1>1, <1>3, <2>1 DEF Book!Carriers
    <2>4. IsFiniteSet(Book!Carriers)
      BY BookCarriersFinite
    <2>5. /\ Cardinality(Book!Carriers \cup {o}) = IF saw.had THEN used ELSE used + 1
          /\ Cardinality(Book!Carriers \ {o}) = IF saw.had THEN used - 1 ELSE used
      <3>1. Cardinality(Book!Carriers \cup {o})
              = IF o \in Book!Carriers THEN Cardinality(Book!Carriers) ELSE Cardinality(Book!Carriers) + 1
        BY <2>4, FS_AddElement
      <3>2. Cardinality(Book!Carriers \ {o})
              = IF o \in Book!Carriers THEN Cardinality(Book!Carriers) - 1 ELSE Cardinality(Book!Carriers)
        BY <2>4, FS_RemoveElement
      <3> QED BY <2>2, <2>3, <3>1, <3>2
    <2>6. saw.had => used > 0
      BY <2>2, <2>3, <2>4, FS_EmptySet
    <2>7. released = IF saw.had THEN used - 1 ELSE used
      BY <2>2, <2>6 DEF Book!Release
    <2>8. CASE call.items
      <3>1. used' = IF saw.carries THEN released + 1 ELSE released
        BY <1>1, <2>1, <2>2, <2>6, <2>7, <2>8 DEF Book!Redeem
      <3> QED BY <1>12, <2>2, <2>5, <2>7, <3>1
    <2>9. CASE ~call.items
      BY <1>1, <1>12, <2>1, <2>5, <2>9
    <2> QED BY <2>8, <2>9
  <1> QED BY <1>12, <1>13, <1>14, <1>15 DEF BookIInv, BookTyped

LEMMA BookSetFieldKeeps ==
  ASSUME Book!OrdersAssumption, BookIInv, NEW s \in Clerks, Book!SetField(s) PROVE BookIInv'
  <1> DEFINE call == requests[s].call
             o == call.order
             g == call.field
             old == requests[s].saw.old
             order == orders[o]
             e == [from |-> old, to |-> call.value, silent |-> FALSE]
             new == [order EXCEPT !.row[g] = call.value, !.story[g] = Append(@, e)]
  <1>1. /\ requests[s].stage = "begun" /\ call.kind \in {"status", "patch"}
        /\ Book!Commits(s, {"status", "patch"}) /\ Book!Exists(o)
        /\ orders' = [orders EXCEPT ![o] = new]
        /\ torn' = (IF old = order.row[g] THEN torn ELSE torn \cup {o})
        /\ UNCHANGED <<used, muddled, served>>
    BY DEF Book!SetField, Book!Commits
  <1>2. requests[s] \in BookPatching /\ BookAsks(s)
    BY <1>1, BookAtRequest DEF BookIInv, BookAsks
  <1>3. o \in Orders /\ g \in Book!Fields /\ call.value \in Values /\ old \in Values
    BY <1>2 DEF BookPatching, BookBegun, BookPatches
  <1>4. order \in BookRows
    BY <1>1, <1>3, BookAtOrder DEF BookIInv
  <1>5. order.born \in Book!Row /\ order.story \in BookStories /\ order.row \in Book!Row /\ order.carries \in BOOLEAN
    BY <1>4 DEF BookRows
  <1>6. e \in Book!Entries /\ e.from = old /\ e.to = call.value
    BY <1>3 DEF Book!Entries
  <1> HIDE DEF e
  <1>7. /\ new \in BookRows /\ new.carries = order.carries /\ new.born = order.born
        /\ new.row = [order.row EXCEPT ![g] = call.value]
        /\ new.story = [order.story EXCEPT ![g] = Append(@, e)]
    <2> DEFINE row == [order.row EXCEPT ![g] = call.value]
               story == [order.story EXCEPT ![g] = Append(@, e)]
    <2>1. row \in Book!Row
      BY <1>3, <1>5 DEF Book!Row
    <2>2. story \in BookStories
      BY <1>3, <1>5, <1>6 DEF BookStories
    <2>3. new = [order EXCEPT !.row = row, !.story = story]
      BY <1>4 DEF BookRows
    <2> HIDE DEF row, story, new
    <2>4. new \in BookRows /\ new.carries = order.carries /\ new.born = order.born
          /\ new.row = row /\ new.story = story
      BY <1>4, <2>1, <2>2, <2>3 DEF BookRows
    <2> QED BY <2>4 DEF row, story
  <1>8. new \notin {Book!Unborn, Book!Gone}
    BY <1>7, BookRowsExist
  <1> HIDE DEF new
  <1>9. o \notin torn' => \A f \in Book!Fields : Book!Leads(new.story[f], new.born[f], new.row[f])
    <2> SUFFICES ASSUME o \notin torn', NEW f \in Book!Fields
                 PROVE  Book!Leads(new.story[f], new.born[f], new.row[f])
      OBVIOUS
    <2>1. old = order.row[g] /\ o \notin torn
      BY <1>1
    <2>2. Book!Leads(order.story[f], order.born[f], order.row[f])
      BY <1>1, <1>3, <2>1 DEF BookIInv, Book!HistoryTold
    <2>3. order.story[f] \in Seq(Book!Entries)
      BY <1>5 DEF BookStories
    <2>4. CASE f = g
      <3>1. new.story[f] = Append(order.story[f], e) /\ new.row[f] = call.value
        BY <1>5, <1>7, <2>4 DEF BookStories, Book!Row
      <3>2. Book!Leads(Append(order.story[f], e), order.born[f], e.to)
        BY <1>6, <2>1, <2>2, <2>3, <2>4, BookLeadsOn
      <3> QED BY <1>6, <1>7, <2>4, <3>1, <3>2
    <2>5. CASE f # g
      <3>1. new.story[f] = order.story[f] /\ new.row[f] = order.row[f]
        BY <1>5, <1>7, <2>5 DEF BookStories, Book!Row
      <3> QED BY <1>7, <2>2, <3>1
    <2> QED BY <2>4, <2>5
  <1>10. torn \subseteq torn' /\ torn' \subseteq Orders
    BY <1>1, <1>3 DEF BookIInv, BookTyped, BookRestOK
  <1>11. /\ BookOrdersOK' /\ Book!HistoryTold'
         /\ Book!Carriers' = (IF order.carries THEN Book!Carriers \cup {o} ELSE Book!Carriers \ {o})
         /\ \A q \in Orders : q # o => orders'[q] = orders[q]
    BY <1>1, <1>3, <1>7, <1>8, <1>9, <1>10, BookOrderChanges
  <1>12. BookRequestsOK' /\ \A t \in Clerks : BookAlone(t)' /\ BookCompares(t)'
    BY <1>1, <1>11, BookCommitRequests
  <1>13. BookRestOK'
    BY <1>1, <1>10 DEF BookIInv, BookTyped, BookRestOK
  <1>14. Book!Carriers' = Book!Carriers
    BY <1>1, <1>3, <1>11 DEF Book!Carriers
  <1>15. Book!CountTold'
    BY <1>1, <1>14, BookCountIs DEF BookIInv
  <1> QED BY <1>11, <1>12, <1>13, <1>15 DEF BookIInv, BookTyped

LEMMA BookDeleteKeeps ==
  ASSUME Book!OrdersAssumption, BookIInv, NEW s \in Clerks, Book!Delete(s) PROVE BookIInv'
  <1> DEFINE o == requests[s].call.order
             had == requests[s].saw.had
  <1>1. /\ requests[s].stage = "begun" /\ requests[s].call.kind = "delete" /\ Book!Commits(s, {"delete"})
        /\ orders' = [orders EXCEPT ![o] = Book!Gone]
        /\ used' = Book!Release(used, had)
        /\ muddled' = (muddled \/ had # (o \in Book!Carriers))
        /\ torn' = torn /\ served' = served
    BY DEF Book!Delete, Book!Commits
  <1>2. o \in Orders /\ had \in BOOLEAN
    BY <1>1, BookAtRequest DEF BookIInv, BookDropping, BookBegun, BookDeletes
  <1>3. /\ BookOrdersOK' /\ Book!HistoryTold'
        /\ Book!Carriers' = Book!Carriers \ {o}
        /\ \A q \in Orders : q # o => orders'[q] = orders[q]
    BY <1>1, <1>2, BookOrderChanges DEF BookIInv, BookTyped, BookRestOK
  <1>4. BookRequestsOK' /\ \A t \in Clerks : BookAlone(t)' /\ BookCompares(t)'
    BY <1>1, <1>3, BookCommitRequests
  <1>5. BookRestOK'
    <2>1. muddled' \in BOOLEAN
      BY <1>1, Zenon
    <2> QED BY <1>1, <2>1, BookUsesBounded DEF BookIInv, BookTyped, BookRestOK
  <1>6. Book!CountTold'
    <2> SUFFICES ASSUME ~muddled' PROVE used' = Cardinality(Book!Carriers')
      BY BookCountIs
    <2>1. ~muddled /\ (had <=> o \in Book!Carriers)
      BY <1>1, <1>2
    <2>2. used = Cardinality(Book!Carriers) /\ used \in Nat
      BY <2>1, BookCountIs DEF BookIInv, BookTyped, BookRestOK
    <2>3. IsFiniteSet(Book!Carriers)
      BY BookCarriersFinite
    <2>4. Cardinality(Book!Carriers') = IF had THEN used - 1 ELSE used
      <3>1. Cardinality(Book!Carriers \ {o})
              = IF o \in Book!Carriers THEN Cardinality(Book!Carriers) - 1 ELSE Cardinality(Book!Carriers)
        BY <2>3, FS_RemoveElement
      <3> QED BY <1>3, <2>1, <2>2, <3>1
    <2>5. had => used > 0
      BY <2>1, <2>2, <2>3, FS_EmptySet
    <2> QED BY <1>1, <2>2, <2>4, <2>5 DEF Book!Release
  <1> QED BY <1>3, <1>4, <1>5, <1>6 DEF BookIInv, BookTyped

LEMMA BookMissKeeps ==
  ASSUME Book!OrdersAssumption, BookIInv, NEW s \in Clerks, Book!MissesOrder(s) PROVE BookIInv'
  <1>1. BookRequestsOK' /\ \A t \in Clerks : BookAlone(t)' /\ BookCompares(t)'
    BY BookCommitRequests DEF Book!MissesOrder
  <1>2. UNCHANGED <<orders, used, torn, muddled, served>>
    BY DEF Book!MissesOrder, Book!Commits
  <1>3. Book!Carriers' = Book!Carriers
    BY <1>2 DEF Book!Carriers, Book!Exists
  <1> QED BY <1>1, <1>2, <1>3, BookCountIs
             DEF BookIInv, BookTyped, BookOrdersOK, BookRestOK, Book!HistoryTold, Book!Exists

LEMMA BookCreditKeeps ==
  ASSUME Book!OrdersAssumption, BookIInv, NEW o \in Orders, NEW v \in Values, Book!Credit(o, v)
  PROVE  BookIInv'
  <1> DEFINE order == orders[o]
             e == [from |-> order.row["pay"], to |-> v, silent |-> TRUE]
             row == [order.row EXCEPT !["pay"] = v]
             story == [order.story EXCEPT !["pay"] = Append(@, e)]
             new == [order EXCEPT !.row["pay"] = v, !.story["pay"] = Append(@, e)]
  <1>1. /\ Book!Exists(o) /\ served < MaxRequests /\ served' = served + 1
        /\ orders' = [orders EXCEPT ![o] = new]
        /\ UNCHANGED <<used, requests, torn, muddled>>
    BY DEF Book!Credit
  <1>2. order \in BookRows
    BY <1>1, BookAtOrder DEF BookIInv
  <1>3. /\ order.born \in Book!Row /\ order.story \in BookStories /\ order.row \in Book!Row
        /\ order.carries \in BOOLEAN /\ "pay" \in Book!Fields
    BY <1>2 DEF BookRows, Book!Fields
  <1>4. e \in Book!Entries /\ e.from = order.row["pay"] /\ e.to = v
    BY <1>3 DEF Book!Entries, Book!Row
  <1> HIDE DEF e
  <1>5. row \in Book!Row /\ story \in BookStories
    BY <1>3, <1>4 DEF BookStories, Book!Row
  <1>6. new \in BookRows /\ new.row = row /\ new.story = story /\ new.born = order.born
        /\ new.carries = order.carries
    <2>1. new = [order EXCEPT !.row = row, !.story = story]
      BY <1>2, <1>3 DEF BookRows
    <2> HIDE DEF row, story, new
    <2> QED BY <1>2, <1>5, <2>1 DEF BookRows
  <1>7. new \notin {Book!Unborn, Book!Gone}
    BY <1>6, BookRowsExist
  <1> HIDE DEF new
  <1>8. o \notin torn => \A f \in Book!Fields : Book!Leads(new.story[f], new.born[f], new.row[f])
    <2> SUFFICES ASSUME o \notin torn, NEW f \in Book!Fields
                 PROVE  Book!Leads(new.story[f], new.born[f], new.row[f])
      OBVIOUS
    <2>1. Book!Leads(order.story[f], order.born[f], order.row[f])
      BY <1>1 DEF BookIInv, Book!HistoryTold
    <2>2. order.story[f] \in Seq(Book!Entries)
      BY <1>3 DEF BookStories
    <2>3. CASE f = "pay"
      <3>1. new.story[f] = Append(order.story[f], e) /\ new.row[f] = v
        BY <1>3, <1>6, <2>3 DEF BookStories, Book!Row
      <3>2. Book!Leads(Append(order.story[f], e), order.born[f], e.to)
        BY <1>4, <2>1, <2>2, <2>3, BookLeadsOn
      <3> QED BY <1>4, <1>6, <3>1, <3>2
    <2>4. CASE f # "pay"
      <3>1. new.story[f] = order.story[f] /\ new.row[f] = order.row[f]
        BY <1>3, <1>6, <2>4 DEF BookStories, Book!Row
      <3> QED BY <1>6, <2>1, <3>1
    <2> QED BY <2>3, <2>4
  <1>9. /\ BookOrdersOK' /\ Book!HistoryTold'
        /\ Book!Carriers' = (IF order.carries THEN Book!Carriers \cup {o} ELSE Book!Carriers \ {o})
        /\ \A q \in Orders : q # o => orders'[q] = orders[q]
    BY <1>1, <1>6, <1>7, <1>8, BookOrderChanges DEF BookIInv, BookTyped, BookRestOK
  <1>10. Book!Carriers' = Book!Carriers
    BY <1>1, <1>9 DEF Book!Carriers
  <1>11. Book!CountTold'
    BY <1>1, <1>10, BookCountIs DEF BookIInv
  <1>12. BookRestOK'
    BY <1>1 DEF BookIInv, BookTyped, BookRestOK, Book!OrdersAssumption
  <1>13. \A t \in Clerks : BookAlone(t)' /\ BookCompares(t)'
    <2> SUFFICES ASSUME NEW t \in Clerks PROVE BookAlone(t)' /\ BookCompares(t)'
      OBVIOUS
    <2>1. BookCreator(t) => requests[t].call.order # o
      BY <1>1 DEF BookIInv, BookAlone, Book!Exists
    <2>2. BookCreator(t) => requests[t].call.order \in Orders
      BY BookAtRequest DEF BookIInv, BookCreator, BookCalls, BookCreates, BookForms, BookPatches,
                           BookDeletes
    <2> QED BY <1>1, <1>9, <2>1, <2>2
               DEF BookIInv, BookAlone, BookCreator, BookAsks, BookCompares
  <1> QED BY <1>1, <1>9, <1>11, <1>12, <1>13 DEF BookIInv, BookTyped, BookRequestsOK

LEMMA BookReopenKeeps ==
  ASSUME Book!OrdersAssumption, BookIInv, Book!Reopen PROVE BookIInv'
  <1>1. /\ served < MaxRequests /\ served' = served + 1 /\ used' = 0
        /\ muddled' = (muddled \/ Book!Carriers # {})
        /\ UNCHANGED <<orders, requests, torn>>
    BY DEF Book!Reopen
  <1>2. Book!Carriers' = Book!Carriers
    BY <1>1 DEF Book!Carriers, Book!Exists
  <1>3. BookRestOK'
    <2>1. muddled' \in BOOLEAN
      BY <1>1, Zenon
    <2> QED BY <1>1, <2>1 DEF BookIInv, BookTyped, BookRestOK, Book!OrdersAssumption
  <1>4. Book!CountTold'
    BY <1>1, <1>2, FS_EmptySet, BookCountIs
  <1>5. Book!HistoryTold'
    BY <1>1 DEF BookIInv, Book!HistoryTold, Book!Exists
  <1>6. \A t \in Clerks : BookAlone(t)' /\ BookCompares(t)'
    BY <1>1 DEF BookIInv, BookAlone, BookCompares, BookCreator, BookAsks
  <1> QED BY <1>1, <1>3, <1>4, <1>5, <1>6 DEF BookIInv, BookTyped, BookOrdersOK, BookRequestsOK

LEMMA BookStepKeeps ==
  ASSUME Book!OrdersAssumption, BookIInv, [Book!Next]_Book!vars PROVE BookIInv'
  <1>1. CASE UNCHANGED Book!vars
    <2>1. Book!Carriers' = Book!Carriers
      BY <1>1 DEF Book!Carriers, Book!Exists, Book!vars
    <2>2. Book!HistoryTold' /\ Book!CountTold'
      BY <1>1, <2>1, BookCountIs DEF BookIInv, Book!HistoryTold, Book!Exists, Book!vars
    <2>3. \A t \in Clerks : BookAlone(t)' /\ BookCompares(t)'
      BY <1>1 DEF BookIInv, BookAlone, BookCompares, BookCreator, BookAsks, Book!vars
    <2> QED BY <1>1, <2>2, <2>3
               DEF BookIInv, BookTyped, BookOrdersOK, BookRequestsOK, BookRestOK, Book!vars
  <1> QED BY <1>1, BookAsksKeep, BookBeginKeeps, BookCreateKeeps, BookUpdateKeeps,
               BookSetFieldKeeps, BookDeleteKeeps,
             BookMissKeeps, BookCreditKeeps, BookReopenKeeps DEF Book!Next

LEMMA BookIInvAlways == ASSUME Book!OrdersAssumption PROVE Book!Spec => []BookIInv
  <1>1. Book!Init => BookIInv
    BY BookInitIInv
  <1>2. BookIInv /\ [Book!Next]_Book!vars => BookIInv'
    BY BookStepKeeps
  <1> QED BY <1>1, <1>2, PTL DEF Book!Spec

LEMMA BookTypesFollow == ASSUME Book!OrdersAssumption, BookIInv PROVE Book!TypeOK
  <1>1. DOMAIN orders = Orders /\ \A o \in Orders : Book!OrderOk(o)
    BY DEF BookIInv, BookTyped, BookOrdersOK, Book!OrderOk, BookRows, BookStories
  <1>2. \A s \in Clerks : requests[s].stage \in {"idle", "asked", "begun"}
    <2> TAKE s \in Clerks
    <2>1. requests[s] \in BookRequests
      BY DEF BookIInv, BookTyped, BookRequestsOK
    <2>2. \A r \in BookRequests \ {Book!Idle} : r.stage \in {"asked", "begun"}
      BY DEF BookRequests, BookAsked, BookCreating, BookEditing, BookPatching, BookDropping,
             BookBegun
    <2> QED BY <2>1, <2>2 DEF Book!Idle
  <1> QED BY <1>1, <1>2 DEF BookIInv, BookTyped, BookRestOK, Book!TypeOK

\* A behaviour of the back office is one of the part.
LEMMA BookRuns == Spec => Book!Spec
  <1>1. Init => Book!Init
    BY DEF Init
  <1>2. [Next]_vars => [Book!Next]_Book!vars
    BY DEF Next, Rest, vars, bookVars, Book!vars
  <1> QED BY <1>1, <1>2, PTL DEF Spec, Book!Spec

LEMMA BookAlwaysTyped == Spec => []Book!TypeOK
  <1>1. Book!OrdersAssumption
    BY BackOfficeAssumption
  <1>2. BookIInv => Book!TypeOK
    BY <1>1, BookTypesFollow
  <1> QED BY <1>1, <1>2, BookRuns, BookIInvAlways, PTL

\* However many forms, patches and deletes cross, the history of an order leads field by field
\* from the row it was created with to the row it has, over the payment statuses that follow from
\* the money without an entry, unless someone saved over a change he had not seen (order_history).
THEOREM HistoriesTold == Spec => []HistoryTold
  <1>1. Book!OrdersAssumption
    BY BackOfficeAssumption
  <1>2. BookIInv => HistoryTold
    BY DEF BookIInv, HistoryTold
  <1> QED BY <1>1, <1>2, BookRuns, BookIInvAlways, PTL

\* The counter of a promotion is the number of the orders that carry it, unless calls overlapped
\* over one order or over its last use, a form without items changed it, or a round began anew
\* (used_count).
THEOREM PromotionsCounted == Spec => []CountTold
  <1>1. Book!OrdersAssumption
    BY BackOfficeAssumption
  <1>2. BookIInv => CountTold
    BY DEF BookIInv, CountTold
  <1> QED BY <1>1, <1>2, BookRuns, BookIInvAlways, PTL

-----------------------------------------------------------------------------
(* The addresses.                                                          *)

SpxEnded == [pc : {"new", "end"}]
SpxReading ==
  [pc : {"read"}, level : Spx!Levels, force : BOOLEAN, both : BOOLEAN, by : {"service"}]
SpxWriting ==
  [pc : {"write"}, source : Addresses, level : Spx!Levels, force : BOOLEAN, both : BOOLEAN,
   by : {"service"}, picked : BOOLEAN]
SpxPicking == [pc : {"write"}, level : Spx!Levels, source : Addresses, by : {"hand"}]

SpxCallsOK == spxCalls \in [Calls -> SpxEnded \cup SpxReading \cup SpxWriting \cup SpxPicking]
SpxRefinedOK ==
  refined \in [Spx!Levels -> [of : Addresses \cup {Spx!Hand}, source : Addresses, manual : BOOLEAN]]

\* A value not picked by hand was refined of the address next to it.
SpxHonest == \A l \in Spx!Levels : refined[l].manual \/ refined[l].of = refined[l].source

\* A call that is to write has been asked to, or had read that no one picked.
SpxMayWrite == \A c \in Calls : spxCalls[c] \in SpxWriting => spxCalls[c].force \/ ~spxCalls[c].picked

\* The inductive invariant.
SpxIInv == SpxCallsOK /\ SpxRefinedOK /\ address \in Addresses /\ edits \in 0..MaxEdits /\ SpxHonest /\ SpxMayWrite

USE DEF Spx!Levels, Spx!Hand

\* Where a call goes from a record is a record a call can have.
LEMMA SpxAfterOK ==
  ASSUME NEW call \in SpxReading \cup SpxWriting, NEW l \in Spx!Levels
  PROVE  Spx!After(call, l) \in SpxEnded \cup SpxReading
  BY DEF Spx!After, SpxEnded, SpxReading, SpxWriting

LEMMA SpxInitIInv == ASSUME Spx!SpxAssumption, Spx!Init PROVE SpxIInv
  BY DEF Spx!SpxAssumption, Spx!Init, SpxIInv, SpxCallsOK, SpxRefinedOK, SpxHonest, SpxMayWrite,
       SpxEnded, SpxReading, SpxWriting,
         SpxPicking

\* A record that is no longer to write, or one whose right to write is shown, keeps MayWrite.
LEMMA SpxCallSet ==
  ASSUME SpxIInv, NEW c \in Calls,
         NEW new \in SpxEnded \cup SpxReading \cup SpxWriting \cup SpxPicking,
         new \in SpxWriting => new.force \/ ~new.picked,
         spxCalls' = [spxCalls EXCEPT ![c] = new]
  PROVE  SpxCallsOK' /\ SpxMayWrite'
  BY DEF SpxIInv, SpxCallsOK, SpxMayWrite

\* The columns of a level, set together from one call.
LEMMA SpxRefinedSet ==
  ASSUME SpxIInv, NEW l \in Spx!Levels,
         NEW new \in [of : Addresses \cup {Spx!Hand}, source : Addresses, manual : BOOLEAN],
         new.manual \/ new.of = new.source,
         refined' = [refined EXCEPT ![l] = new]
  PROVE  SpxRefinedOK' /\ SpxHonest'
  BY DEF SpxIInv, SpxRefinedOK, SpxHonest

LEMMA SpxReadKeeps == ASSUME SpxIInv, NEW c \in Calls, Spx!Read(c) PROVE SpxIInv'
  <1> DEFINE call == spxCalls[c]
             new == IF Spx!Skips(call, call.level) THEN Spx!After(call, call.level)
                    ELSE [pc |-> "write", source |-> address, level |-> call.level,
                          force |-> call.force, both |-> call.both, by |-> "service",
                          picked |-> refined[call.level].manual]
  <1>1. call \in SpxReading
    BY DEF Spx!Read, SpxIInv, SpxCallsOK, SpxEnded, SpxReading, SpxWriting, SpxPicking
  <1>2. new \in SpxEnded \cup SpxReading \cup SpxWriting
    <2>1. CASE Spx!Skips(call, call.level)
      BY <1>1, <2>1, SpxAfterOK DEF SpxReading
    <2>2. CASE ~Spx!Skips(call, call.level)
      BY <1>1, <2>2 DEF SpxIInv, SpxRefinedOK, SpxReading, SpxWriting
    <2> QED BY <2>1, <2>2
  <1>3. new \in SpxWriting => new.force \/ ~new.picked
    <2>1. CASE Spx!Skips(call, call.level)
      <3>1. new \in SpxEnded \cup SpxReading
        BY <1>1, <2>1, SpxAfterOK DEF SpxReading
      <3> QED BY <3>1 DEF SpxEnded, SpxReading, SpxWriting
    <2>2. CASE ~Spx!Skips(call, call.level)
      BY <2>2 DEF Spx!Skips
    <2> QED BY <2>1, <2>2
  <1>4. spxCalls' = [spxCalls EXCEPT ![c] = new]
    BY DEF Spx!Read
  <1>5. SpxCallsOK' /\ SpxMayWrite'
    <2> HIDE DEF new
    <2> QED BY <1>2, <1>3, <1>4, SpxCallSet
  <1> QED BY <1>5 DEF Spx!Read, SpxIInv, SpxRefinedOK, SpxHonest

LEMMA SpxWriteKeeps == ASSUME SpxIInv, NEW c \in Calls, Spx!Write(c) PROVE SpxIInv'
  <1> DEFINE call == spxCalls[c]
  <1>1. call \in SpxWriting
    BY DEF Spx!Write, SpxIInv, SpxCallsOK, SpxEnded, SpxReading, SpxWriting, SpxPicking
  <1>2. call.level \in Spx!Levels /\ call.source \in Addresses
    BY <1>1 DEF SpxWriting
  <1>3. SpxRefinedOK' /\ SpxHonest'
    BY <1>2, SpxRefinedSet DEF Spx!Write, Spx!Written
  <1>4. Spx!After(call, call.level) \in SpxEnded \cup SpxReading
    BY <1>1, <1>2, SpxAfterOK
  <1>5. Spx!After(call, call.level) \notin SpxWriting
    BY <1>4 DEF SpxEnded, SpxReading, SpxWriting
  <1>6. SpxCallsOK' /\ SpxMayWrite'
    BY <1>4, <1>5, SpxCallSet DEF Spx!Write
  <1> QED BY <1>3, <1>6 DEF SpxIInv, Spx!Write

LEMMA SpxStepKeeps == ASSUME Spx!SpxAssumption, SpxIInv, [Spx!Next]_Spx!vars PROVE SpxIInv'
  <1>1. CASE Spx!Edit
    BY <1>1
       DEF Spx!Edit, Spx!SpxAssumption, SpxIInv, SpxCallsOK, SpxRefinedOK, SpxHonest, SpxMayWrite,
           SpxWriting
  <1>2. ASSUME NEW c \in Calls, Spx!Resolve(c) PROVE SpxIInv'
    <2>1. PICK l \in Spx!Levels, force \in BOOLEAN, both \in BOOLEAN :
            spxCalls' = [spxCalls EXCEPT ![c] =
              [pc |-> "read", level |-> l, force |-> force, both |-> both, by |-> "service"]]
      BY <1>2 DEF Spx!Resolve
    <2>2. SpxCallsOK' /\ SpxMayWrite'
      BY <2>1, SpxCallSet DEF SpxReading, SpxWriting
    <2> QED BY <1>2, <2>2 DEF Spx!Resolve, SpxIInv, SpxRefinedOK, SpxHonest
  <1>3. ASSUME NEW c \in Calls, Spx!Read(c) PROVE SpxIInv'
    BY <1>3, SpxReadKeeps
  <1>4. ASSUME NEW c \in Calls, Spx!Write(c) PROVE SpxIInv'
    BY <1>4, SpxWriteKeeps
  <1>5. ASSUME NEW c \in Calls, Spx!Fails(c) PROVE SpxIInv'
    <2>1. SpxCallsOK' /\ SpxMayWrite'
      BY <1>5, SpxCallSet DEF Spx!Fails, SpxEnded, SpxWriting
    <2> QED BY <1>5, <2>1 DEF Spx!Fails, SpxIInv, SpxRefinedOK, SpxHonest
  <1>6. ASSUME NEW c \in Calls, Spx!Pick(c) PROVE SpxIInv'
    <2>1. PICK l \in Spx!Levels :
            spxCalls' = [spxCalls EXCEPT ![c] =
              [pc |-> "write", level |-> l, source |-> address, by |-> "hand"]]
      BY <1>6 DEF Spx!Pick
    <2>2. SpxCallsOK' /\ SpxMayWrite'
      BY <2>1, SpxCallSet DEF SpxIInv, SpxPicking, SpxWriting
    <2> QED BY <1>6, <2>2 DEF Spx!Pick, SpxIInv, SpxRefinedOK, SpxHonest
  <1>7. ASSUME NEW c \in Calls, Spx!WritePick(c) PROVE SpxIInv'
    <2>1. spxCalls[c] \in SpxPicking
      BY <1>7 DEF Spx!WritePick, SpxIInv, SpxCallsOK, SpxEnded, SpxReading, SpxWriting, SpxPicking
    <2>2. SpxRefinedOK' /\ SpxHonest'
      BY <1>7, <2>1, SpxRefinedSet DEF Spx!WritePick, SpxPicking
    <2>3. SpxCallsOK' /\ SpxMayWrite'
      BY <1>7, SpxCallSet DEF Spx!WritePick, SpxEnded, SpxWriting
    <2> QED BY <1>7, <2>2, <2>3 DEF Spx!WritePick, SpxIInv
  <1>8. CASE UNCHANGED Spx!vars
    BY <1>8 DEF Spx!vars, SpxIInv, SpxCallsOK, SpxRefinedOK, SpxHonest, SpxMayWrite
  <1> QED BY <1>1, <1>2, <1>3, <1>4, <1>5, <1>6, <1>7, <1>8 DEF Spx!Next

LEMMA SpxIInvAlways == ASSUME Spx!SpxAssumption PROVE Spx!Spec => []SpxIInv
  <1>1. Spx!Init => SpxIInv
    BY SpxInitIInv
  <1>2. SpxIInv /\ [Spx!Next]_Spx!vars => SpxIInv'
    BY SpxStepKeeps
  <1> QED BY <1>1, <1>2, PTL DEF Spx!Spec

\* The columns and the calls stay well formed (orders.service.ts, the resolve calls).
LEMMA SpxTypesKept == ASSUME Spx!SpxAssumption PROVE Spx!Spec => []Spx!TypeOK
  <1>1. SpxIInv => Spx!TypeOK
    BY DEF SpxIInv, SpxCallsOK, SpxRefinedOK, Spx!TypeOK, SpxEnded, SpxReading, SpxWriting,
         SpxPicking
  <1> QED BY <1>1, SpxIInvAlways, PTL

\* However calls and edits of the form cross, what was refined of another address never
\* passes for refined of the present one (order_set_spx_address).
LEMMA SpxStaleAlwaysMarked == ASSUME Spx!SpxAssumption PROVE Spx!Spec => []Spx!StaleIsMarked
  <1>1. SpxIInv => Spx!StaleIsMarked
    BY DEF SpxIInv, SpxHonest, Spx!StaleIsMarked
  <1> QED BY <1>1, SpxIInvAlways, PTL

\* A hand pick is only lost to a call that asks for it, or that read before it
\* (resolveOrderSpx, setOrderSpxAddressManual).
LEMMA SpxHandPicksKept == ASSUME Spx!SpxAssumption PROVE Spx!Spec => Spx!HandPickKept
  <1> DEFINE Lost(l) == refined[l].manual /\ ~refined'[l].manual
             Excused(l) == \E c \in Calls :
               /\ spxCalls[c].pc = "write" /\ spxCalls'[c] # spxCalls[c] /\ spxCalls[c].level = l
               /\ spxCalls[c].force \/ ~spxCalls[c].picked
             Kept == \A l \in Spx!Levels : Lost(l) => Excused(l)
  <1>1. ASSUME SpxIInv, Spx!Next PROVE Kept
    <2> SUFFICES ASSUME NEW l \in Spx!Levels, Lost(l) PROVE Excused(l)
      OBVIOUS
    <2>1. refined' # refined
      OBVIOUS
    <2>2. PICK c \in Calls : Spx!Write(c) \/ Spx!WritePick(c)
      BY <1>1, <2>1 DEF Spx!Next, Spx!Edit, Spx!Resolve, Spx!Read, Spx!Fails, Spx!Pick
    <2>3. CASE Spx!WritePick(c)
      <3>1. spxCalls[c] \in SpxPicking
        BY <1>1, <2>3
           DEF Spx!WritePick, SpxIInv, SpxCallsOK, SpxEnded, SpxReading, SpxWriting, SpxPicking
      <3> QED BY <1>1, <2>3, <3>1 DEF Spx!WritePick, SpxIInv, SpxRefinedOK, SpxPicking
    <2>4. CASE Spx!Write(c)
      <3>1. spxCalls[c] \in SpxWriting
        BY <1>1, <2>4
           DEF Spx!Write, SpxIInv, SpxCallsOK, SpxEnded, SpxReading, SpxWriting, SpxPicking
      <3>2. spxCalls[c].level = l
        BY <1>1, <2>4, <3>1 DEF Spx!Write, SpxIInv, SpxRefinedOK, SpxWriting
      <3>3. spxCalls[c].force \/ ~spxCalls[c].picked
        BY <1>1, <3>1 DEF SpxIInv, SpxMayWrite
      <3>4. spxCalls'[c] \in SpxEnded \cup SpxReading
        BY <1>1, <2>4, <3>1, SpxAfterOK DEF Spx!Write, SpxIInv, SpxCallsOK, SpxWriting
      <3>5. spxCalls'[c] # spxCalls[c]
        BY <3>1, <3>4 DEF SpxEnded, SpxReading, SpxWriting
      <3> QED BY <2>4, <3>2, <3>3, <3>5 DEF Spx!Write
    <2> QED BY <2>2, <2>3, <2>4
  <1>2. SpxIInv /\ [Spx!Next]_Spx!vars => [Kept]_Spx!vars
    BY <1>1
  <1> QED BY <1>2, SpxIInvAlways, PTL DEF Spx!Spec, Spx!HandPickKept

\* A behaviour of the back office is one of the part.
LEMMA SpxRuns == Spec => Spx!Spec
  <1>1. Init => Spx!Init
    BY DEF Init
  <1>2. [Next]_vars => [Spx!Next]_Spx!vars
    BY DEF Next, Rest, vars, spxVars, Spx!vars
  <1> QED BY <1>1, <1>2, PTL DEF Spec, Spx!Spec

LEMMA SpxAlwaysTyped == Spec => []Spx!TypeOK
  <1>1. Spx!SpxAssumption
    BY BackOfficeAssumption
  <1> QED BY <1>1, SpxRuns, SpxTypesKept, PTL

\* What was refined of another address of an order never passes for refined of its own,
\* however calls and edits of the form cross (order_set_spx_address).
THEOREM StaleAddressesMarked == Spec => []StaleIsMarked
  <1>1. Spx!SpxAssumption
    BY BackOfficeAssumption
  <1>2. Spx!StaleIsMarked => StaleIsMarked
    BY DEF StaleIsMarked
  <1> QED BY <1>1, <1>2, SpxRuns, SpxStaleAlwaysMarked, PTL

\* A hand pick of a place is only lost to a call that asks for it, or that read before it
\* (setOrderSpxAddressManual).
THEOREM HandPicksOfOrdersKept == Spec => HandPickKept
  <1>1. Spx!SpxAssumption
    BY BackOfficeAssumption
  <1> QED BY <1>1, SpxRuns, SpxHandPicksKept, PTL DEF HandPickKept

HIDE DEF Spx!Levels, Spx!Hand

-----------------------------------------------------------------------------
(* The parcels.                                                            *)

ParcelsAnyNumber == Parcels!Numbers \cup {Parcels!NoNumber}
ParcelsStatuses == {"moving"} \cup Parcels!Final
ParcelsWaiting == [pc : {"idle"}]
ParcelsFetching == [pc : {"fetch"}, number : Parcels!Numbers]
ParcelsWriting == [pc : {"write"}, number : Parcels!Numbers, says : ParcelsStatuses]

ParcelsTypes ==
  /\ parcel \in [Parcels!Numbers -> ParcelsStatuses]
  /\ number \in ParcelsAnyNumber /\ delivered \in ParcelsAnyNumber
  /\ shown \in {"none"} \cup ParcelsStatuses
  /\ refresh \in [Refreshes -> ParcelsWaiting \cup ParcelsFetching \cup ParcelsWriting]
  /\ files \in 0..MaxFiles /\ typed \in BOOLEAN

\* A number a refresh has read is still the order's, or its parcel was cancelled.
ParcelsReadIsMine ==
  \A r \in Refreshes : refresh[r].pc \in {"fetch", "write"} /\ ~typed =>
    refresh[r].number = number \/ parcel[refresh[r].number] = "cancelled"

\* What the carrier says of the end of a parcel stays true.
ParcelsSaysTrue ==
  \A r \in Refreshes : refresh[r].pc = "write" /\ refresh[r].says \in Parcels!Final =>
    parcel[refresh[r].number] = refresh[r].says

\* The inductive invariant.
ParcelsIInv == ParcelsTypes /\ ParcelsReadIsMine /\ ParcelsSaysTrue /\ Parcels!DeliveredIsItsOwn

LEMMA ParcelsNoNumberApart == Parcels!NoNumber \notin Parcels!Numbers
  BY DEF Parcels!NoNumber, Parcels!Numbers

LEMMA ParcelsInitIInv == ASSUME Parcels!TrackingAssumption, Parcels!Init PROVE ParcelsIInv
  <1>1. ParcelsTypes
    <2>1. Parcels!Idle \in ParcelsWaiting
      BY DEF Parcels!Idle, ParcelsWaiting
    <2>2. refresh \in [Refreshes -> ParcelsWaiting \cup ParcelsFetching \cup ParcelsWriting]
      BY <2>1 DEF Parcels!Init
    <2>3. parcel \in [Parcels!Numbers -> ParcelsStatuses]
      BY DEF Parcels!Init, ParcelsStatuses
    <2>4. files \in 0..MaxFiles
      BY DEF Parcels!Init, Parcels!TrackingAssumption
    <2> QED BY <2>2, <2>3, <2>4 DEF Parcels!Init, ParcelsTypes, ParcelsAnyNumber
  <1>2. ParcelsReadIsMine /\ ParcelsSaysTrue
    BY DEF Parcels!Init, ParcelsReadIsMine, ParcelsSaysTrue, Parcels!Idle
  <1> QED BY <1>1, <1>2 DEF Parcels!Init, ParcelsIInv, Parcels!DeliveredIsItsOwn

\* What a refresh that waits or has asked may become.
LEMMA ParcelsRefreshSet ==
  ASSUME ParcelsTypes, NEW r \in Refreshes,
         NEW new \in ParcelsWaiting \cup ParcelsFetching \cup ParcelsWriting,
         refresh' = [refresh EXCEPT ![r] = new]
  PROVE  refresh' \in [Refreshes -> ParcelsWaiting \cup ParcelsFetching \cup ParcelsWriting]
  BY DEF ParcelsTypes

LEMMA ParcelsCarryKeeps ==
  ASSUME ParcelsIInv, NEW n \in Parcels!Numbers, Parcels!Carry(n) PROVE ParcelsIInv'
  <1>1. PICK s \in Parcels!Final : parcel' = [parcel EXCEPT ![n] = s]
    BY DEF Parcels!Carry
  <1>2. parcel' \in [Parcels!Numbers -> ParcelsStatuses]
    BY <1>1 DEF ParcelsIInv, ParcelsTypes, ParcelsStatuses
  <1>3. \A m \in Parcels!Numbers : parcel[m] \in Parcels!Final => parcel'[m] = parcel[m]
    BY <1>1 DEF Parcels!Carry, ParcelsIInv, ParcelsTypes, Parcels!Final
  <1>4. \A r \in Refreshes : refresh[r].pc \in {"fetch", "write"} => refresh[r].number \in Parcels!Numbers
    BY DEF ParcelsIInv, ParcelsTypes, ParcelsWaiting, ParcelsFetching, ParcelsWriting
  <1>5. ParcelsReadIsMine' /\ ParcelsSaysTrue'
    BY <1>3, <1>4
       DEF Parcels!Carry, ParcelsIInv, ParcelsReadIsMine, ParcelsSaysTrue, Parcels!Final
  <1>6. Parcels!DeliveredIsItsOwn'
    <2>1. number \in Parcels!Numbers \/ delivered # number \/ delivered = Parcels!NoNumber
      BY DEF ParcelsIInv, ParcelsTypes, ParcelsAnyNumber
    <2> QED BY <1>3, <2>1 DEF Parcels!Carry, ParcelsIInv, Parcels!DeliveredIsItsOwn, Parcels!Final
  <1> QED BY <1>2, <1>5, <1>6 DEF Parcels!Carry, ParcelsIInv, ParcelsTypes

LEMMA ParcelsReadKeeps ==
  ASSUME ParcelsIInv, NEW r \in Refreshes, Parcels!Read(r) PROVE ParcelsIInv'
  <1> DEFINE new == [pc |-> "fetch", number |-> number]
  <1>1. refresh' = [refresh EXCEPT ![r] = new] /\ new \in ParcelsFetching
    BY DEF Parcels!Read, ParcelsIInv, ParcelsTypes, ParcelsAnyNumber, ParcelsFetching
  <1>2. ParcelsTypes'
    BY <1>1, ParcelsRefreshSet DEF Parcels!Read, ParcelsIInv, ParcelsTypes
  <1>3. ParcelsReadIsMine' /\ ParcelsSaysTrue'
    BY <1>1 DEF Parcels!Read, ParcelsIInv, ParcelsTypes, ParcelsReadIsMine, ParcelsSaysTrue
  <1> QED BY <1>2, <1>3 DEF Parcels!Read, ParcelsIInv, Parcels!DeliveredIsItsOwn

LEMMA ParcelsFetchKeeps ==
  ASSUME ParcelsIInv, NEW r \in Refreshes, Parcels!Fetch(r) PROVE ParcelsIInv'
  <1>1. refresh[r] \in ParcelsFetching
    BY DEF Parcels!Fetch, ParcelsIInv, ParcelsTypes, ParcelsWaiting, ParcelsFetching,
         ParcelsWriting
  <1> DEFINE n == refresh[r].number
             new == [pc |-> "write", number |-> n, says |-> parcel[n]]
  <1>2. n \in Parcels!Numbers /\ new \in ParcelsWriting
    BY <1>1 DEF ParcelsIInv, ParcelsTypes, ParcelsFetching, ParcelsWriting
  <1>3. CASE refresh' = [refresh EXCEPT ![r] = new]
    <2>1. ParcelsTypes'
      BY <1>2, <1>3, ParcelsRefreshSet DEF Parcels!Fetch, ParcelsIInv, ParcelsTypes
    <2>2. ParcelsReadIsMine'
      BY <1>1, <1>3
         DEF Parcels!Fetch, ParcelsIInv, ParcelsTypes, ParcelsFetching, ParcelsReadIsMine
    <2>3. ParcelsSaysTrue'
      BY <1>3 DEF Parcels!Fetch, ParcelsIInv, ParcelsTypes, ParcelsSaysTrue
    <2> QED BY <2>1, <2>2, <2>3 DEF Parcels!Fetch, ParcelsIInv, Parcels!DeliveredIsItsOwn
  <1>4. CASE refresh' = [refresh EXCEPT ![r] = Parcels!Idle]
    <2>1. ParcelsTypes'
      BY <1>4, ParcelsRefreshSet
         DEF Parcels!Fetch, ParcelsIInv, ParcelsTypes, Parcels!Idle, ParcelsWaiting
    <2>2. ParcelsReadIsMine' /\ ParcelsSaysTrue'
      BY <1>4
         DEF Parcels!Fetch, ParcelsIInv, ParcelsTypes, ParcelsReadIsMine, ParcelsSaysTrue,
             Parcels!Idle
    <2> QED BY <2>1, <2>2 DEF Parcels!Fetch, ParcelsIInv, Parcels!DeliveredIsItsOwn
  <1> QED BY <1>3, <1>4 DEF Parcels!Fetch

LEMMA ParcelsWriteKeeps ==
  ASSUME ParcelsIInv, NEW r \in Refreshes, Parcels!Write(r) PROVE ParcelsIInv'
  <1>1. refresh[r] \in ParcelsWriting
    BY DEF Parcels!Write, ParcelsIInv, ParcelsTypes, ParcelsWaiting, ParcelsFetching,
         ParcelsWriting
  <1> DEFINE n == refresh[r].number
  <1>2. n \in Parcels!Numbers /\ refresh[r].says \in ParcelsStatuses
    BY <1>1 DEF ParcelsWriting
  <1>3. delivered' \in {n, delivered}
    BY DEF Parcels!Write, Parcels!DeliveredAt
  <1>4. ParcelsTypes'
    <2>1. refresh' \in [Refreshes -> ParcelsWaiting \cup ParcelsFetching \cup ParcelsWriting]
      BY ParcelsRefreshSet DEF Parcels!Write, ParcelsIInv, Parcels!Idle, ParcelsWaiting
    <2> QED BY <1>2, <1>3, <2>1 DEF Parcels!Write, ParcelsIInv, ParcelsTypes, ParcelsAnyNumber
  <1>5. ParcelsReadIsMine' /\ ParcelsSaysTrue'
    BY DEF Parcels!Write, ParcelsIInv, ParcelsTypes, ParcelsReadIsMine, ParcelsSaysTrue,
         Parcels!Idle
  <1>6. Parcels!DeliveredIsItsOwn'
    <2>1. CASE delivered' = delivered
      BY <2>1 DEF Parcels!Write, ParcelsIInv, Parcels!DeliveredIsItsOwn
    <2>2. CASE delivered' # delivered
      <3>1. delivered' = n /\ refresh[r].says = "delivered"
        BY <2>2 DEF Parcels!Write, Parcels!DeliveredAt
      <3>2. parcel[n] = "delivered"
        BY <1>1, <3>1 DEF ParcelsIInv, ParcelsSaysTrue, Parcels!Final, ParcelsWriting
      <3>3. ~typed => n = number
        BY <1>1, <3>2 DEF ParcelsIInv, ParcelsReadIsMine, ParcelsWriting
      <3> QED BY <3>1, <3>2, <3>3 DEF Parcels!Write, Parcels!DeliveredIsItsOwn
    <2> QED BY <2>1, <2>2
  <1> QED BY <1>4, <1>5, <1>6 DEF ParcelsIInv

LEMMA ParcelsSyncKeeps ==
  ASSUME Parcels!TrackingAssumption, ParcelsIInv, NEW rows \in SUBSET Parcels!Numbers,
         NEW gone \in SUBSET rows,
         NEW best \in ParcelsAnyNumber, Parcels!Sync(rows, gone, best)
  PROVE  ParcelsIInv'
  <1> DEFINE action == Parcels!Decision(best, gone)
  <1>1. action \in {"assign", "replace"} => best \in Parcels!Numbers
    BY DEF Parcels!Decision, ParcelsAnyNumber
  <1>2. number' # number => number = Parcels!NoNumber \/ number \in gone
    BY DEF Parcels!Sync, Parcels!Decision
  <1>3. number \in gone => parcel[number] = "cancelled"
    BY DEF Parcels!Sync
  <1>4. number' \in ParcelsAnyNumber
    BY DEF Parcels!Sync, ParcelsIInv, ParcelsTypes
  <1>5. shown' \in {"none"} \cup ParcelsStatuses
    BY <1>1 DEF Parcels!Sync, ParcelsIInv, ParcelsTypes, ParcelsStatuses, Parcels!Final
  <1>6. ParcelsTypes'
    BY <1>4, <1>5 DEF Parcels!Sync, ParcelsIInv, ParcelsTypes, Parcels!TrackingAssumption
  <1>7. ParcelsReadIsMine'
    <2>1. \A r \in Refreshes :
            refresh[r].pc \in {"fetch", "write"} => refresh[r].number \in Parcels!Numbers
      BY DEF ParcelsIInv, ParcelsTypes, ParcelsWaiting, ParcelsFetching, ParcelsWriting
    <2> QED BY <1>2, <1>3, <2>1, ParcelsNoNumberApart
               DEF Parcels!Sync, ParcelsIInv, ParcelsReadIsMine
  <1>8. ParcelsSaysTrue'
    BY DEF Parcels!Sync, ParcelsIInv, ParcelsSaysTrue
  <1>9. Parcels!DeliveredIsItsOwn'
    BY <1>2, <1>3 DEF Parcels!Sync, ParcelsIInv, Parcels!DeliveredIsItsOwn
  <1> QED BY <1>6, <1>7, <1>8, <1>9 DEF ParcelsIInv

LEMMA ParcelsStepKeeps ==
  ASSUME Parcels!TrackingAssumption, ParcelsIInv, [Parcels!Next]_Parcels!vars PROVE ParcelsIInv'
  <1>1. ASSUME NEW n \in Parcels!Numbers, Parcels!Carry(n) PROVE ParcelsIInv'
    BY <1>1, ParcelsCarryKeeps
  <1>2. ASSUME NEW r \in Refreshes, Parcels!Read(r) PROVE ParcelsIInv'
    BY <1>2, ParcelsReadKeeps
  <1>3. ASSUME NEW r \in Refreshes, Parcels!Fetch(r) PROVE ParcelsIInv'
    BY <1>3, ParcelsFetchKeeps
  <1>4. ASSUME NEW r \in Refreshes, Parcels!Write(r) PROVE ParcelsIInv'
    BY <1>4, ParcelsWriteKeeps
  <1>5. ASSUME NEW rows \in SUBSET Parcels!Numbers, NEW gone \in SUBSET rows, NEW best \in ParcelsAnyNumber,
               Parcels!Sync(rows, gone, best)
        PROVE  ParcelsIInv'
    BY <1>5, ParcelsSyncKeeps
  <1>6. CASE Parcels!Form
    BY <1>6
       DEF Parcels!Form, Parcels!TrackingAssumption, ParcelsIInv, ParcelsTypes, ParcelsAnyNumber,
           ParcelsReadIsMine, ParcelsSaysTrue,
                Parcels!DeliveredIsItsOwn
  <1>7. CASE UNCHANGED Parcels!vars
    BY <1>7
       DEF Parcels!vars, ParcelsIInv, ParcelsTypes, ParcelsReadIsMine, ParcelsSaysTrue,
           Parcels!DeliveredIsItsOwn
  <1> QED BY <1>1, <1>2, <1>3, <1>4, <1>5, <1>6, <1>7 DEF Parcels!Next, ParcelsAnyNumber

LEMMA ParcelsIInvAlways == ASSUME Parcels!TrackingAssumption PROVE Parcels!Spec => []ParcelsIInv
  <1>1. Parcels!Init => ParcelsIInv
    BY ParcelsInitIInv
  <1>2. ParcelsIInv /\ [Parcels!Next]_Parcels!vars => ParcelsIInv'
    BY ParcelsStepKeeps
  <1> QED BY <1>1, <1>2, PTL DEF Parcels!Spec

\* The order and the calls stay well formed (refreshTracking, order_sync_tracking).
LEMMA ParcelsTypesKept == ASSUME Parcels!TrackingAssumption PROVE Parcels!Spec => []Parcels!TypeOK
  <1>1. ParcelsIInv => Parcels!TypeOK
    BY DEF ParcelsIInv, ParcelsTypes, ParcelsAnyNumber, ParcelsStatuses, ParcelsWaiting,
         ParcelsFetching, ParcelsWriting, Parcels!TypeOK
  <1> QED BY <1>1, ParcelsIInvAlways, PTL

\* However refreshes, the carrier and its files cross, delivered_at is the time of the parcel
\* the order has, until someone types another number over it (order_sync_tracking).
LEMMA ParcelsDeliveredAlwaysItsOwn ==
  ASSUME Parcels!TrackingAssumption PROVE Parcels!Spec => []Parcels!DeliveredIsItsOwn
  BY ParcelsIInvAlways, PTL DEF ParcelsIInv

\* A behaviour of the back office is one of the part.
LEMMA ParcelsRuns == Spec => Parcels!Spec
  <1>1. Init => Parcels!Init
    BY DEF Init
  <1>2. [Next]_vars => [Parcels!Next]_Parcels!vars
    BY DEF Next, Rest, vars, parcelVars, Parcels!vars
  <1> QED BY <1>1, <1>2, PTL DEF Spec, Parcels!Spec

LEMMA ParcelsAlwaysTyped == Spec => []Parcels!TypeOK
  <1>1. Parcels!TrackingAssumption
    BY BackOfficeAssumption
  <1> QED BY <1>1, ParcelsRuns, ParcelsTypesKept, PTL

\* However refreshes, the carrier and its files cross, delivered_at is the time of the parcel
\* the order has, until someone types another number over it (order_sync_tracking).
THEOREM DeliveriesTheirOwn == Spec => []DeliveredIsItsOwn
  <1>1. Parcels!TrackingAssumption
    BY BackOfficeAssumption
  <1>2. ParcelsIInv => DeliveredIsItsOwn
    BY DEF ParcelsIInv, DeliveredIsItsOwn
  <1> QED BY <1>1, <1>2, ParcelsRuns, ParcelsIInvAlways, PTL

-----------------------------------------------------------------------------
(* The places of the catalogue.                                            *)

LEMMA PlacesMaxIs ==
  ASSUME NEW S \in SUBSET Nat, S # {}, NEW b \in Nat, \A x \in S : x <= b
  PROVE  Places!Max(S) \in S /\ \A y \in S : Places!Max(S) >= y
BY GreatestNat DEF Places!Max

LEMMA PlacesMinIs ==
  ASSUME NEW S \in SUBSET Nat, S # {}
  PROVE  Places!Min(S) \in S /\ \A y \in S : Places!Min(S) <= y
BY LeastNat DEF Places!Min

-----------------------------------------------------------------------------
\* The keys the texts are searched for.
PlacesKeysOK(keys) == IsFiniteSet(keys) /\ \A k \in keys : k.len \in Nat /\ k.at \in Nat

\* The best key a text holds is one of the keys: there is a longest one, of these one
\* that is mentioned last, and of these a first one.
LEMMA PlacesBestIs ==
  ASSUME NEW text, Places!IsList(text), NEW keys, PlacesKeysOK(keys)
  PROVE  Places!Best(text, keys) = NoPlace \/ \E k \in keys : Places!Best(text, keys) = k.place
<1> DEFINE held == {k \in keys : Places!Mentions(text, k) # {}}
<1> DEFINE winners == {k \in held : \A j \in held : Places!Beats(text, k, j)}
<1> DEFINE last(k) == Places!Max(Places!Mentions(text, k))
<1>1. CASE held = {}
  BY <1>1 DEF Places!Best
<1>2. CASE held # {}
  <2>1. \A k \in held : k.len \in Nat /\ k.at \in Nat
    BY DEF PlacesKeysOK
  <2>2. \A k \in held : last(k) \in Nat
    <3> SUFFICES ASSUME NEW k \in held PROVE last(k) \in Nat
      OBVIOUS
    <3>1. Len(text) \in Nat /\ DOMAIN text = 1..Len(text)
      BY DEF Places!IsList
    <3>2. Places!Mentions(text, k) \in SUBSET Nat /\ \A x \in Places!Mentions(text, k) : x <= Len(text)
      BY <3>1 DEF Places!Mentions
    <3>3. Places!Mentions(text, k) # {}
      OBVIOUS
    <3> QED BY <3>1, <3>2, <3>3, PlacesMaxIs
  <2> DEFINE lens == {k.len : k \in held}
  <2>3. PICK k1 \in held : \A j \in held : k1.len >= j.len
    <3>1. IsFiniteSet(held)
      BY FS_Subset DEF PlacesKeysOK
    <3>2. IsFiniteSet(lens)
      <4> DEFINE g == [k \in held |-> k.len]
      <4>1. {g[k] : k \in held} = lens
        OBVIOUS
      <4> HIDE DEF held, lens
      <4>2. IsFiniteSet({g[k] : k \in held})
        BY <3>1, ImageFinite
      <4> QED BY <4>1, <4>2
    <3>3. lens \in SUBSET Nat /\ lens # {}
      BY <1>2, <2>1
    <3> HIDE DEF lens, held
    <3>4. PICK b \in Nat : \A x \in lens : x <= b
      BY <3>2, <3>3, FiniteBound
    <3>5. \E x \in lens : \A y \in lens : x >= y
      BY <3>3, <3>4, GreatestNat
    <3> QED BY <3>5 DEF lens
  <2> DEFINE longest == {k \in held : k.len = k1.len}
  <2> DEFINE lasts == {last(k) : k \in longest}
  <2>4. PICK k2 \in longest : \A j \in longest : last(k2) >= last(j)
    <3>1. Len(text) \in Nat /\ DOMAIN text = 1..Len(text)
      BY DEF Places!IsList
    <3>2. \A k \in longest : last(k) <= Len(text)
      <4> SUFFICES ASSUME NEW k \in longest PROVE last(k) <= Len(text)
        OBVIOUS
      <4>1. Places!Mentions(text, k) \in SUBSET Nat /\ \A x \in Places!Mentions(text, k) : x <= Len(text)
        BY <3>1 DEF Places!Mentions
      <4> QED BY <3>1, <4>1, PlacesMaxIs
    <3>3. lasts \in SUBSET Nat /\ lasts # {} /\ \A x \in lasts : x <= Len(text)
      BY <2>2, <2>3, <3>2
    <3> HIDE DEF lasts, longest
    <3>4. \E x \in lasts : \A y \in lasts : x >= y
      BY <3>1, <3>3, GreatestNat
    <3> QED BY <3>4 DEF lasts
  <2> DEFINE latest == {k \in longest : last(k) = last(k2)}
  <2> DEFINE ats == {k.at : k \in latest}
  <2>5. PICK k3 \in latest : \A j \in latest : k3.at <= j.at
    <3>1. ats \in SUBSET Nat /\ ats # {}
      BY <2>1, <2>4
    <3> HIDE DEF ats, latest
    <3>2. \E x \in ats : \A y \in ats : x <= y
      BY <3>1, LeastNat
    <3> QED BY <3>2 DEF ats
  <2>6. ASSUME NEW j \in held PROVE Places!Beats(text, k3, j)
    <3>1. k3 \in held /\ k3.len = k1.len /\ last(k3) = last(k2) /\ k2.len = k1.len
      BY <2>4, <2>5
    <3>2. CASE j.len # k1.len
      <4>1. k3.len > j.len
        BY <2>1, <2>3, <3>1, <3>2
      <4> QED BY <4>1 DEF Places!Beats
    <3>3. CASE j.len = k1.len /\ last(j) # last(k2)
      <4>1. last(k3) > last(j) /\ k3.len = j.len
        BY <2>2, <2>4, <3>1, <3>3
      <4> QED BY <4>1 DEF Places!Beats
    <3>4. CASE j.len = k1.len /\ last(j) = last(k2)
      <4>1. k3.at <= j.at /\ last(k3) = last(j) /\ k3.len = j.len
        BY <2>5, <3>1, <3>4
      <4> QED BY <4>1 DEF Places!Beats
    <3> QED BY <3>2, <3>3, <3>4
  <2>7. k3 \in winners
    BY <2>5, <2>6
  <2>8. (CHOOSE k \in winners : TRUE) \in keys
    BY <2>7
  <2>9. Places!Best(text, keys) = (CHOOSE k \in winners : TRUE).place
    BY <1>2 DEF Places!Best
  <2> QED BY <2>8, <2>9
<1> QED
  BY <1>1, <1>2


-----------------------------------------------------------------------------
\* The keys of the places below another.
LEMMA PlacesRowsAre ==
  ASSUME Places!MatchAssumption, scheme \in Places!Schemes, NEW l \in Places!Levels
  PROVE  /\ l \in Nat /\ l \in DOMAIN Tables[scheme]
         /\ Len(Tables[scheme][l]) \in Nat
         /\ DOMAIN Tables[scheme][l] = 1..Len(Tables[scheme][l])
         /\ \A above : Places!Below(l, above) \in SUBSET (1..Len(Tables[scheme][l]))
         /\ \A r \in DOMAIN Tables[scheme][l] :
              /\ Tables[scheme][l][r] = <<Tables[scheme][l][r][1], Places!Place(l, r)>>
              /\ Tables[scheme][l][r][1] # NoPlace /\ Places!Place(l, r) # NoPlace
              /\ Letters[Places!Place(l, r)] \in Nat /\ Letters[Places!Stripped(Places!Place(l, r))] \in Nat
<1>1. l \in Nat /\ l \in DOMAIN Tables[scheme]
  BY DEF Places!Levels, Places!Height, Places!MatchAssumption, Places!Schemes
<1>2. Places!IsList(Tables[scheme][l])
  BY <1>1 DEF Places!MatchAssumption
<1>3. Len(Tables[scheme][l]) \in Nat /\ DOMAIN Tables[scheme][l] = 1..Len(Tables[scheme][l])
  BY <1>2 DEF Places!IsList
<1>4. \A above : Places!Below(l, above) \in SUBSET (1..Len(Tables[scheme][l]))
  BY <1>3 DEF Places!Below
<1>5. \A r \in DOMAIN Tables[scheme][l] :
        /\ Tables[scheme][l][r] = <<Tables[scheme][l][r][1], Places!Place(l, r)>>
        /\ Tables[scheme][l][r][1] # NoPlace /\ Places!Place(l, r) # NoPlace
        /\ Letters[Places!Place(l, r)] \in Nat /\ Letters[Places!Stripped(Places!Place(l, r))] \in Nat
  BY <1>1 DEF Places!MatchAssumption, Places!Place
<1> QED
  BY <1>1, <1>3, <1>4, <1>5

LEMMA PlacesKeysAre ==
  ASSUME Places!MatchAssumption, scheme \in Places!Schemes, NEW l \in Places!Levels, NEW above
  PROVE  /\ PlacesKeysOK(Places!Full(l, above)) /\ PlacesKeysOK(Places!Bare(l, above))
         /\ \A k \in Places!Full(l, above) \cup Places!Bare(l, above) :
              \E r \in Places!Below(l, above) : Places!Place(l, r) = k.place
<1> DEFINE n == Len(Tables[scheme][l])
<1> DEFINE rows == Places!Below(l, above)
<1>1. n \in Nat /\ rows \in SUBSET (1..n) /\ DOMAIN Tables[scheme][l] = 1..n
  BY PlacesRowsAre
<1>2. IsFiniteSet(rows)
  <2> HIDE DEF n, rows
  <2>1. IsFiniteSet(1..n)
    BY <1>1, FS_Interval
  <2> QED BY <1>1, <2>1, FS_Subset
<1>3. \A r \in rows : /\ r \in Nat /\ Letters[Places!Place(l, r)] \in Nat
                      /\ Letters[Places!Stripped(Places!Place(l, r))] \in Nat
  <2> HIDE DEF n, rows
  <2> QED BY <1>1, PlacesRowsAre
<1> DEFINE f == [r \in rows |-> Places!Key(Places!Place(l, r), l, r)]
<1> DEFINE g == [r \in rows |-> Places!Key(Places!Stripped(Places!Place(l, r)), l, r)]
<1>4. {f[r] : r \in rows} = Places!Full(l, above) /\ {g[r] : r \in rows} = Places!Bare(l, above)
  BY DEF Places!Full, Places!Bare
<1>5. IsFiniteSet({f[r] : r \in rows}) /\ IsFiniteSet({g[r] : r \in rows})
  <2>1. DOMAIN f = rows /\ DOMAIN g = rows
    OBVIOUS
  <2> HIDE DEF f, g, rows
  <2> QED BY <1>2, <2>1, ImageFinite
<1>6. \A phrase, r : /\ Places!Key(phrase, l, r).len = Letters[phrase] /\ Places!Key(phrase, l, r).at = r
                     /\ Places!Key(phrase, l, r).place = Places!Place(l, r)
  BY DEF Places!Key
<1>7. \A k \in Places!Full(l, above) : k.len \in Nat /\ k.at \in Nat /\ \E r \in rows : Places!Place(l, r) = k.place
  BY <1>3, <1>6 DEF Places!Full
<1>8. \A k \in Places!Bare(l, above) : k.len \in Nat /\ k.at \in Nat /\ \E r \in rows : Places!Place(l, r) = k.place
  BY <1>3, <1>6 DEF Places!Bare
<1> QED
  BY <1>4, <1>5, <1>7, <1>8 DEF PlacesKeysOK

\* What lies below a place in the catalogue: at the first level any of its places.
PlacesLies(l, above, p) ==
  \E r \in DOMAIN Tables[scheme][l] :
    Places!Place(l, r) = p /\ (l # 1 => Tables[scheme][l][r] = <<above, p>>)

\* The library's operator, as the part has it.
LEMMA PlacesFiniteIs == \A S : Places!IsFiniteSet(S) <=> IsFiniteSet(S)
BY Zenon DEF Places!IsFiniteSet, IsFiniteSet

\* The rules find nothing, or a place of the level below the one above.
LEMMA PlacesMatchIs ==
  ASSUME Places!MatchAssumption, scheme \in Places!Schemes, NEW l \in Places!Levels, NEW above,
         NEW text, Places!IsList(text)
  PROVE  Places!Match(l, above, text) = NoPlace \/ PlacesLies(l, above, Places!Match(l, above, text))
<1>1. \A r \in Places!Below(l, above) : PlacesLies(l, above, Places!Place(l, r))
  BY PlacesRowsAre DEF Places!Below, PlacesLies
<1>2. \A k \in Places!Full(l, above) \cup Places!Bare(l, above) : PlacesLies(l, above, k.place)
  BY <1>1, PlacesKeysAre
<1>3. PlacesKeysOK(Places!Full(l, above)) /\ PlacesKeysOK(Places!Bare(l, above))
  BY PlacesKeysAre
<1>4. CASE scheme = "new" /\ l = 2
  <2>1. \/ Places!Best(text, Places!Full(l, above)) = NoPlace
        \/ PlacesLies(l, above, Places!Best(text, Places!Full(l, above)))
    BY <1>2, <1>3, PlacesBestIs
  <2>2. \/ Places!Best(text, Places!Bare(l, above)) = NoPlace
        \/ PlacesLies(l, above, Places!Best(text, Places!Bare(l, above)))
    BY <1>2, <1>3, PlacesBestIs
  <2>3. Places!Match(l, above, text) \in {Places!Best(text, Places!Full(l, above)), Places!Best(text, Places!Bare(l, above))}
    BY <1>4 DEF Places!Match, Places!Or
  <2> QED BY <2>1, <2>2, <2>3
<1>5. CASE ~(scheme = "new" /\ l = 2)
  <2> DEFINE hints == IF l = 1 THEN Hints[scheme] ELSE {}
  <2> DEFINE keys == Places!Full(l, above) \cup Places!Bare(l, above) \cup hints
  <2>1. PlacesKeysOK(hints) /\ \A k \in hints : PlacesLies(l, above, k.place)
    <3>1. CASE l = 1
      BY <3>1, PlacesFiniteIs DEF PlacesKeysOK, Places!MatchAssumption, PlacesLies, Places!Place
    <3>2. CASE l # 1
      BY <3>2, FS_EmptySet DEF PlacesKeysOK
    <3> QED BY <3>1, <3>2
  <2>2. PlacesKeysOK(keys) /\ \A k \in keys : PlacesLies(l, above, k.place)
    <3> HIDE DEF hints
    <3>1. IsFiniteSet(Places!Full(l, above) \cup Places!Bare(l, above))
      BY <1>3, FS_Union DEF PlacesKeysOK
    <3>2. IsFiniteSet(keys)
      BY <2>1, <3>1, FS_Union DEF PlacesKeysOK
    <3> QED BY <1>2, <1>3, <2>1, <3>2 DEF PlacesKeysOK
  <2>3. Places!Match(l, above, text) = Places!Best(text, keys)
    BY <1>5 DEF Places!Match
  <2> HIDE DEF keys
  <2> QED BY <2>2, <2>3, PlacesBestIs
<1> QED
  BY <1>4, <1>5

\* So does the name the model gives, looked for below the place above.
LEMMA PlacesSnapIs ==
  ASSUME Places!MatchAssumption, scheme \in Places!Schemes, NEW l \in Places!Levels, NEW above,
         NEW name
  PROVE  Places!SnapOne(l, above, name) = NoPlace \/ PlacesLies(l, above, Places!SnapOne(l, above, name))
<1> DEFINE same == {row \in Places!Below(l, above) :
                      name = Places!Place(l, row) \/ Places!Stripped(name) = Places!Stripped(Places!Place(l, row))}
<1>1. CASE name = NoPlace
  BY <1>1 DEF Places!SnapOne
<1>2. CASE name # NoPlace /\ same # {}
  <2>1. same \in SUBSET Nat
    BY PlacesRowsAre
  <2>2. Places!Min(same) \in same
    BY <1>2, <2>1, PlacesMinIs
  <2>3. PlacesLies(l, above, Places!Place(l, Places!Min(same)))
    BY <2>2, PlacesRowsAre DEF Places!Below, PlacesLies
  <2> QED BY <1>2, <2>3 DEF Places!SnapOne
<1>3. CASE name # NoPlace /\ same = {}
  <2>1. Places!IsList(<<name>>)
    BY DEF Places!IsList
  <2>2. Places!SnapOne(l, above, name) = Places!Match(l, above, <<name>>)
    BY <1>3 DEF Places!SnapOne
  <2> QED BY <2>1, <2>2, PlacesMatchIs
<1> QED
  BY <1>1, <1>2, <1>3

-----------------------------------------------------------------------------
\* What the rules find, level by level.
LEMMA PlacesResolveIs ==
  ASSUME scheme \in Places!Schemes, NEW text
  PROVE  /\ DOMAIN Places!resolve(text) = Places!Levels
         /\ \A l \in Places!Levels :
              LET above == IF l = 1 THEN Root ELSE Places!resolve(text)[l - 1]
              IN Places!resolve(text)[l] = IF above = NoPlace THEN NoPlace ELSE Places!Match(l, above, text)
<1> DEFINE W(f) ==
      [l \in Places!Levels |-> LET above == IF l = 1 THEN Root ELSE f[l - 1]
                               IN IF above = NoPlace THEN NoPlace ELSE Places!Match(l, above, text)]
<1>1. Places!resolve(text) = CHOOSE f : f = W(f)
  BY DEF Places!resolve
<1>2. \E f : f = W(f)
  <2> DEFINE a == IF Root = NoPlace THEN NoPlace ELSE Places!Match(1, Root, text)
  <2> DEFINE b == IF a = NoPlace THEN NoPlace ELSE Places!Match(2, a, text)
  <2> DEFINE c == IF b = NoPlace THEN NoPlace ELSE Places!Match(3, b, text)
  <2> DEFINE f == [l \in Places!Levels |-> IF l = 1 THEN a ELSE IF l = 2 THEN b ELSE c]
  <2>1. Places!Levels \in SUBSET {1, 2, 3} /\ 1 \in Places!Levels /\ 2 \in Places!Levels
    BY DEF Places!Levels, Places!Height, Places!Schemes
  <2>2. f[1] = a /\ f[2] = b /\ (3 \in Places!Levels => f[3] = c)
    BY <2>1
  <2>3. ASSUME NEW l \in Places!Levels PROVE f[l] = W(f)[l]
    <3> HIDE DEF f
    <3> QED BY <2>1, <2>2
  <2>4. f = W(f)
    <3>1. DOMAIN f = Places!Levels /\ DOMAIN W(f) = Places!Levels
      OBVIOUS
    <3>2. f = [l \in Places!Levels |-> f[l]]
      OBVIOUS
    <3>3. W(f) = [l \in Places!Levels |-> W(f)[l]]
      OBVIOUS
    <3> HIDE DEF f, W
    <3> QED BY <2>3, <3>2, <3>3
  <2> QED BY <2>4
<1>3. Places!resolve(text) = W(Places!resolve(text))
  <2> HIDE DEF W
  <2> QED BY <1>1, <1>2
<1> QED
  BY <1>3

\* What the model said, level by level.
LEMMA PlacesSnapLevels ==
  ASSUME scheme \in Places!Schemes, NEW said, NEW text
  PROVE  \A l \in Places!Levels :
           LET above == IF l = 1 THEN Root ELSE Places!snap(said, text)[l - 1]
           IN Places!snap(said, text)[l] =
                IF above = NoPlace THEN NoPlace
                ELSE Places!Or(Places!SnapOne(l, above, said[l]), Places!Match(l, above, text))
<1> DEFINE W(f) ==
      [l \in Places!Levels |-> LET above == IF l = 1 THEN Root ELSE f[l - 1]
                               IN IF above = NoPlace THEN NoPlace
                                  ELSE Places!Or(Places!SnapOne(l, above, said[l]), Places!Match(l, above, text))]
<1>1. Places!snap(said, text) = CHOOSE f : f = W(f)
  BY DEF Places!snap
<1>2. \E f : f = W(f)
  <2> DEFINE On(l, above) == IF above = NoPlace THEN NoPlace
                             ELSE Places!Or(Places!SnapOne(l, above, said[l]), Places!Match(l, above, text))
  <2> DEFINE a == On(1, Root)
  <2> DEFINE b == On(2, a)
  <2> DEFINE c == On(3, b)
  <2> DEFINE f == [l \in Places!Levels |-> IF l = 1 THEN a ELSE IF l = 2 THEN b ELSE c]
  <2>1. Places!Levels \in SUBSET {1, 2, 3} /\ 1 \in Places!Levels /\ 2 \in Places!Levels
    BY DEF Places!Levels, Places!Height, Places!Schemes
  <2>2. f[1] = a /\ f[2] = b /\ (3 \in Places!Levels => f[3] = c)
    BY <2>1
  <2>3. ASSUME NEW l \in Places!Levels PROVE f[l] = W(f)[l]
    <3> HIDE DEF f
    <3> QED BY <2>1, <2>2
  <2>4. f = W(f)
    <3>2. f = [l \in Places!Levels |-> f[l]]
      OBVIOUS
    <3>3. W(f) = [l \in Places!Levels |-> W(f)[l]]
      OBVIOUS
    <3> HIDE DEF f, W
    <3> QED BY <2>3, <3>2, <3>3
  <2> QED BY <2>4
<1>3. Places!snap(said, text) = W(Places!snap(said, text))
  <2> HIDE DEF W
  <2> QED BY <1>1, <1>2
<1> QED
  BY <1>3

\* Each place that is found is one of its level, and lies below the one before.
PlacesChained(f) ==
  \A l \in Places!Levels : f[l] # NoPlace =>
    /\ l # 1 => f[l - 1] # NoPlace
    /\ PlacesLies(l, IF l = 1 THEN Root ELSE f[l - 1], f[l])

LEMMA PlacesResolveChained ==
  ASSUME Places!MatchAssumption, scheme \in Places!Schemes, NEW text, Places!IsList(text)
  PROVE  PlacesChained(Places!resolve(text))
<1> SUFFICES ASSUME NEW l \in Places!Levels, Places!resolve(text)[l] # NoPlace
             PROVE  /\ l # 1 => Places!resolve(text)[l - 1] # NoPlace
                    /\ PlacesLies(l, IF l = 1 THEN Root ELSE Places!resolve(text)[l - 1], Places!resolve(text)[l])
  BY DEF PlacesChained
<1> DEFINE above == IF l = 1 THEN Root ELSE Places!resolve(text)[l - 1]
<1>1. above # NoPlace /\ Places!resolve(text)[l] = Places!Match(l, above, text)
  BY PlacesResolveIs
<1>2. PlacesLies(l, above, Places!Match(l, above, text))
  BY <1>1, PlacesMatchIs
<1> QED
  BY <1>1, <1>2

LEMMA PlacesSnapChained ==
  ASSUME Places!MatchAssumption, scheme \in Places!Schemes, NEW said, NEW text,
         Places!IsList(text)
  PROVE  PlacesChained(Places!snap(said, text))
<1> SUFFICES ASSUME NEW l \in Places!Levels, Places!snap(said, text)[l] # NoPlace
             PROVE  /\ l # 1 => Places!snap(said, text)[l - 1] # NoPlace
                    /\ PlacesLies(l, IF l = 1 THEN Root ELSE Places!snap(said, text)[l - 1], Places!snap(said, text)[l])
  BY DEF PlacesChained
<1> DEFINE above == IF l = 1 THEN Root ELSE Places!snap(said, text)[l - 1]
<1>1. /\ above # NoPlace
      /\ Places!snap(said, text)[l] = Places!Or(Places!SnapOne(l, above, said[l]), Places!Match(l, above, text))
  BY PlacesSnapLevels
<1>2. Places!SnapOne(l, above, said[l]) # NoPlace => PlacesLies(l, above, Places!SnapOne(l, above, said[l]))
  BY PlacesSnapIs
<1>3. Places!Match(l, above, text) # NoPlace => PlacesLies(l, above, Places!Match(l, above, text))
  BY PlacesMatchIs
<1>4. PlacesLies(l, above, Places!snap(said, text)[l])
  BY <1>1, <1>2, <1>3 DEF Places!Or
<1> QED
  BY <1>1, <1>4

-----------------------------------------------------------------------------
(* The inductive invariant                                                 *)

PlacesShaped ==
  /\ scheme \in Places!Schemes /\ texts \in [Places!Batch -> Texts[scheme]] /\ strayed \subseteq Places!Batch
  /\ found = [i \in Places!Batch |-> found[i]]
  /\ \A i \in Places!Batch : found[i] = [l \in Places!Levels |-> found[i][l]]

PlacesOfLevel(l, p) == p = NoPlace \/ \E r \in DOMAIN Tables[scheme][l] : Places!Place(l, r) = p
PlacesPlaced == \A i \in Places!Batch, l \in Places!Levels : PlacesOfLevel(l, found[i][l])

\* The lines of the question, of which those still to read are about levels that are open.
PlacesAsking ==
  /\ tier \in 0..Places!Done /\ missing \in {<<>>, <<1>>, <<2>>, <<1, 2>>}
  /\ missing = <<>> => line = 0
  /\ missing # <<>> => tier \in Places!Levels /\ line \in 1..Len(missing)
  /\ tier > 1 => \A k \in DOMAIN missing : k >= line => found[missing[k]][tier] = NoPlace

\* What the rules read stands.
PlacesStands ==
  tier > 0 => \A i \in Places!Batch, l \in Places!Levels :
    Places!resolve(texts[i])[l] # NoPlace => found[i][l] = Places!resolve(texts[i])[l]

PlacesLinked ==
  \A i \in Places!Batch \ strayed : \A l \in Places!Levels \ {1} :
    found[i][l] # NoPlace => PlacesLies(l, found[i][l - 1], found[i][l])

PlacesIInv == PlacesShaped /\ PlacesPlaced /\ PlacesAsking /\ PlacesStands /\ PlacesLinked

\* The parts of Asking, one by one.
LEMMA PlacesAskingIs ==
  ASSUME tier' \in 0..Places!Done',
         missing' \in {<< >>, << 1 >>, << 2 >>, << 1, 2 >>},
         missing' = <<>> => line' = 0,
         missing' # <<>> => tier' \in Places!Levels' /\ line' \in 1..Len(missing'),
         tier' > 1 => \A k \in DOMAIN missing' : k >= line' => found'[missing'[k]][tier'] = NoPlace
  PROVE  PlacesAsking'
BY Zenon DEF PlacesAsking

\* The constants of the levels.
LEMMA PlacesLevelsAre ==
  ASSUME scheme \in Places!Schemes
  PROVE  /\ Places!Levels \in {1..2, 1..3} /\ Places!Levels \subseteq Nat /\ 1 \in Places!Levels
         /\ Places!Done \in Nat /\ Places!Done \notin Places!Levels /\ \A l \in Places!Levels : l < Places!Done /\ l + 1 \in 0..Places!Done
         /\ \A l \in Places!Levels : l # 1 => l - 1 \in Places!Levels
BY DEF Places!Levels, Places!Height, Places!Done, Places!Schemes

LEMMA PlacesInitIInv ==
  ASSUME Places!MatchAssumption, Places!Init PROVE PlacesIInv
<1>1. scheme \in Places!Schemes
  BY DEF Places!Init, Places!MatchAssumption
<1>2. \A i \in Places!Batch, l \in Places!Levels : found[i][l] = NoPlace
  BY DEF Places!Init
<1>3. PlacesShaped
  BY <1>1 DEF Places!Init, PlacesShaped
<1>4. PlacesPlaced /\ PlacesLinked
  BY <1>2, PlacesLevelsAre, <1>1 DEF PlacesPlaced, PlacesOfLevel, PlacesLinked
<1>5. PlacesAsking /\ PlacesStands
  <2>1. 0 \in 0..Places!Done /\ ~(0 > 1) /\ ~(0 > 0)
    BY <1>1, PlacesLevelsAre
  <2> QED BY <2>1 DEF Places!Init, PlacesAsking, PlacesStands
<1> QED
  BY <1>3, <1>4, <1>5 DEF PlacesIInv

\* What OpenOnes lists.
LEMMA PlacesOpenOnesAre ==
  /\ Places!OpenOnes \in {<<>>, <<1>>, <<2>>, <<1, 2>>}
  /\ \A k \in DOMAIN Places!OpenOnes : Places!OpenOnes[k] \in Places!Batch /\ Places!Open(Places!OpenOnes[k])
  /\ (\E i \in Places!Batch : Places!Open(i)) => Places!OpenOnes # <<>>
<1> DEFINE all == {<<>>, <<1>>, <<2>>, <<1, 2>>}
<1> DEFINE open == {i \in Places!Batch : Places!Open(i)}
<1> DEFINE range(s) == {s[k] : k \in DOMAIN s}
<1>1. open \in {{}, {1}, {2}, {1, 2}}
  BY DEF Places!Batch
<1>2. range(<<>>) = {} /\ range(<<1>>) = {1} /\ range(<<2>>) = {2} /\ range(<<1, 2>>) = {1, 2}
  OBVIOUS
<1>3. \E s \in all : range(s) = open
  BY <1>1, <1>2
<1>4. Places!OpenOnes = CHOOSE s \in all : range(s) = open
  BY DEF Places!OpenOnes
<1>5. Places!OpenOnes \in all /\ range(Places!OpenOnes) = open
  <2> HIDE DEF all, open, range
  <2> QED BY <1>3, <1>4
<1>6. \A k \in DOMAIN Places!OpenOnes : Places!OpenOnes[k] \in open
  BY <1>5
<1>7. open # {} => Places!OpenOnes # <<>>
  BY <1>2, <1>5
<1> QED
  BY <1>5, <1>6, <1>7

\* The lists of the catalogue stay, and what they say.
LEMMA PlacesCatalogueStays ==
  ASSUME UNCHANGED scheme
  PROVE  /\ Places!Levels' = Places!Levels /\ Places!Done' = Places!Done
         /\ \A l, p : PlacesOfLevel(l, p)' <=> PlacesOfLevel(l, p)
         /\ \A l, a, p : PlacesLies(l, a, p)' <=> PlacesLies(l, a, p)
BY DEF Places!Levels, Places!Done, Places!Height, PlacesOfLevel, PlacesLies, Places!Place

LEMMA PlacesResolveStays ==
  ASSUME UNCHANGED scheme
  PROVE  \A text : Places!resolve(text)' = Places!resolve(text)
BY DEF Places!resolve, Places!Levels, Places!Height, Places!Match, Places!Best, Places!Full,
     Places!Bare, Places!Key, Places!Below, Places!Place

\* Reading a line leaves the lines after it, when only what it is about was found.
LEMMA PlacesReadKeeps ==
  ASSUME PlacesShaped, PlacesAsking, missing # <<>>, Places!Read,
         \A i \in Places!Batch : i # missing[line] => found'[i] = found[i]
  PROVE  PlacesAsking'
<1>1. UNCHANGED scheme /\ tier \in Places!Levels /\ line \in 1..Len(missing)
  BY DEF Places!Read, PlacesAsking
<1>2. Places!Levels' = Places!Levels /\ Places!Done' = Places!Done
  BY <1>1, PlacesCatalogueStays
<1>3. CASE line = Len(missing)
  <2>1. missing' = <<>> /\ line' = 0 /\ tier' = tier + 1
    BY <1>3 DEF Places!Read
  <2>2. tier + 1 \in 0..Places!Done
    BY <1>1, PlacesLevelsAre DEF PlacesShaped
  <2>3. DOMAIN missing' = {}
    BY <2>1
  <2> QED BY <1>2, <2>1, <2>2, <2>3 DEF PlacesAsking
<1>4. CASE line # Len(missing)
  <2>1. line' = line + 1 /\ missing' = missing /\ tier' = tier
    BY <1>4 DEF Places!Read
  <2>2. missing = <<1, 2>> /\ line = 1
    <3>1. missing \in {<<>>, <<1>>, <<2>>, <<1, 2>>} /\ missing # <<>>
      BY DEF PlacesAsking
    <3>2. CASE missing = <<1>>
      BY <1>1, <1>4, <3>2
    <3>3. CASE missing = <<2>>
      BY <1>1, <1>4, <3>3
    <3>4. CASE missing = <<1, 2>>
      BY <1>1, <1>4, <3>4
    <3> QED BY <3>1, <3>2, <3>3, <3>4
  <2>3. tier > 1 => found'[2][tier] = NoPlace
    BY <2>2 DEF PlacesAsking, Places!Batch
  <2>4. tier > 1 => \A k \in DOMAIN missing : k >= 2 => found'[missing[k]][tier] = NoPlace
    BY <2>2, <2>3
  <2> QED BY <1>1, <1>2, <2>1, <2>2, <2>4 DEF PlacesAsking
<1> QED
  BY <1>3, <1>4

\* The rules.
LEMMA PlacesRulesKeep ==
  ASSUME Places!MatchAssumption, PlacesIInv, Places!Rules PROVE PlacesIInv'
<1>1. UNCHANGED <<scheme, texts, missing, line, strayed>> /\ tier = 0 /\ tier' \in {1, Places!Done}
  BY DEF Places!Rules
<1>2. scheme \in Places!Schemes /\ \A i \in Places!Batch : Places!IsList(texts[i])
  BY DEF PlacesIInv, PlacesShaped, Places!MatchAssumption
<1>3. \A i \in Places!Batch : found'[i] = Places!resolve(texts[i])
  BY DEF Places!Rules
<1>4. PlacesShaped'
  <2>1. \A i \in Places!Batch : Places!resolve(texts[i]) = [l \in Places!Levels |-> Places!resolve(texts[i])[l]]
    BY <1>2, PlacesResolveIs DEF Places!resolve
  <2>2. found' = [i \in Places!Batch |-> found'[i]]
    BY DEF Places!Rules
  <2> QED BY <1>1, <1>3, <2>1, <2>2, PlacesCatalogueStays DEF PlacesIInv, PlacesShaped
<1>5. \A i \in Places!Batch : PlacesChained(Places!resolve(texts[i]))
  BY <1>2, PlacesResolveChained
<1>6. PlacesPlaced'
  <2>1. \A i \in Places!Batch, l \in Places!Levels : PlacesOfLevel(l, Places!resolve(texts[i])[l])
    BY <1>5 DEF PlacesChained, PlacesLies, PlacesOfLevel
  <2> QED BY <1>1, <1>3, <2>1, PlacesCatalogueStays DEF PlacesPlaced
<1>7. PlacesLinked'
  <2>1. \A i \in Places!Batch, l \in Places!Levels \ {1} : Places!resolve(texts[i])[l] # NoPlace =>
          PlacesLies(l, Places!resolve(texts[i])[l - 1], Places!resolve(texts[i])[l])
    BY <1>5 DEF PlacesChained
  <2> QED BY <1>1, <1>3, <2>1, PlacesCatalogueStays DEF PlacesLinked
<1>8. PlacesStands'
  BY <1>1, <1>3, PlacesCatalogueStays, PlacesResolveStays DEF PlacesStands
<1>9. PlacesAsking'
  <2>1. missing = <<>>
    BY <1>1, <1>2, PlacesLevelsAre DEF PlacesIInv, PlacesAsking
  <2>2. tier' \in 0..Places!Done
    BY <1>1, <1>2, PlacesLevelsAre
  <2>3. DOMAIN missing' = {}
    BY <1>1, <2>1
  <2> QED BY <1>1, <2>1, <2>2, <2>3, PlacesCatalogueStays DEF PlacesIInv, PlacesAsking
<1> QED
  BY <1>4, <1>6, <1>7, <1>8, <1>9 DEF PlacesIInv

\* The model is asked, or not.
LEMMA PlacesAskKeeps ==
  ASSUME Places!MatchAssumption, PlacesIInv, Places!Ask \/ Places!Skip PROVE PlacesIInv'
<1>1. UNCHANGED <<scheme, texts, found, strayed>> /\ tier \in Places!Levels /\ missing = <<>>
  BY DEF Places!Ask, Places!Skip, Places!Running
<1>2. PlacesShaped' /\ PlacesPlaced' /\ PlacesLinked'
  BY <1>1, PlacesCatalogueStays DEF PlacesIInv, PlacesShaped, PlacesPlaced, PlacesLinked
<1>a. scheme \in Places!Schemes /\ tier \in Nat /\ tier > 0
  BY <1>1, PlacesLevelsAre DEF PlacesIInv, PlacesShaped, Places!Levels
<1>3. PlacesStands'
  BY <1>1, <1>a, PlacesCatalogueStays, PlacesResolveStays DEF PlacesIInv, PlacesStands
<1>4. ASSUME Places!Ask PROVE PlacesAsking'
  <2>1. missing' = Places!OpenOnes /\ line' = 1 /\ tier' = tier /\ Places!OpenOnes # <<>>
    BY <1>4, PlacesOpenOnesAre DEF Places!Ask
  <2>2. Places!OpenOnes \in {<<>>, <<1>>, <<2>>, <<1, 2>>}
    BY PlacesOpenOnesAre
  <2>3. line' \in 1..Len(missing')
    BY <2>1, <2>2
  <2>4. tier > 1 => \A k \in DOMAIN missing' : found[missing'[k]][tier] = NoPlace
    BY <2>1, PlacesOpenOnesAre DEF Places!Open
  <2>5. tier \in 0..Places!Done
    BY DEF PlacesIInv, PlacesAsking
  <2>6. tier' \in 0..Places!Done' /\ tier' \in Places!Levels' /\ missing' # <<>>
    BY <1>1, <2>1, <2>5, PlacesCatalogueStays
  <2>7. tier' > 1 => \A k \in DOMAIN missing' : k >= line' => found'[missing'[k]][tier'] = NoPlace
    BY <1>1, <2>1, <2>4
  <2>8. missing' \in {<<>>, <<1>>, <<2>>, <<1, 2>>}
    BY <2>1, <2>2
  <2> HIDE DEF PlacesAsking
  <2> QED BY <2>3, <2>6, <2>7, <2>8, PlacesAskingIs, Zenon
<1>5. ASSUME Places!Skip PROVE PlacesAsking'
  <2>1. tier' = tier + 1 /\ missing' = <<>> /\ line' = 0
    BY <1>1, <1>5 DEF Places!Skip, PlacesIInv, PlacesAsking
  <2>2. tier + 1 \in 0..Places!Done
    BY <1>1, <1>a, PlacesLevelsAre
  <2>3. DOMAIN missing' = {} /\ tier' \in 0..Places!Done'
    BY <1>1, <2>1, <2>2, PlacesCatalogueStays
  <2>4. missing' \in {<<>>, <<1>>, <<2>>, <<1, 2>>}
    BY <2>1
  <2>5. \A k \in DOMAIN missing' : k >= line' => found'[missing'[k]][tier'] = NoPlace
    BY <2>3
  <2> QED BY <2>1, <2>3, <2>4, <2>5, PlacesAskingIs, Zenon
<1> QED
  BY <1>2, <1>3, <1>4, <1>5 DEF PlacesIInv

\* A line the model left out.
LEMMA PlacesNothingKeeps ==
  ASSUME Places!MatchAssumption, PlacesIInv, Places!ReadNothing PROVE PlacesIInv'
<1>1. UNCHANGED <<scheme, texts, found, strayed>> /\ missing # <<>> /\ Places!Read
  BY DEF Places!ReadNothing, Places!Read
<1>2. PlacesShaped' /\ PlacesPlaced' /\ PlacesLinked'
  BY <1>1, PlacesCatalogueStays DEF PlacesIInv, PlacesShaped, PlacesPlaced, PlacesLinked
<1>3. scheme \in Places!Schemes /\ tier \in Places!Levels /\ tier \in Nat /\ tier > 0
  BY <1>1, PlacesLevelsAre DEF PlacesIInv, PlacesShaped, PlacesAsking, Places!Levels
<1>4. PlacesStands'
  BY <1>1, <1>3, PlacesCatalogueStays, PlacesResolveStays DEF PlacesIInv, PlacesStands
<1>5. PlacesAsking'
  BY <1>1, PlacesReadKeeps DEF PlacesIInv
<1> QED
  BY <1>2, <1>4, <1>5 DEF PlacesIInv

\* A line from memory: it fills the open levels, and is below what was found unless it strays.
LEMMA PlacesMemoryKeeps ==
  ASSUME Places!MatchAssumption, PlacesIInv, Places!ReadMemory PROVE PlacesIInv'
<1> DEFINE i == missing[line]
<1>1. UNCHANGED <<scheme, texts>> /\ missing # <<>> /\ Places!Read /\ tier = 1
  BY DEF Places!ReadMemory, Places!Read
<1>2. scheme \in Places!Schemes /\ i \in Places!Batch /\ Places!IsList(texts[i])
  <2>1. line \in DOMAIN missing /\ missing \in {<<1>>, <<2>>, <<1, 2>>}
    BY <1>1 DEF PlacesIInv, PlacesAsking
  <2>2. i \in Places!Batch
    BY <2>1 DEF Places!Batch
  <2> QED BY <2>2 DEF PlacesIInv, PlacesShaped, Places!MatchAssumption
<1>3. PICK said :
        LET snapped == Places!snap(said, texts[i])
        IN /\ found' = [found EXCEPT ![i] = [l \in Places!Levels |-> Places!Or(@[l], snapped[l])]]
           /\ strayed' = IF \E l \in Places!Levels : /\ found[i][l] # NoPlace
                                                     /\ snapped[l] \notin {found[i][l], NoPlace}
                         THEN strayed \cup {i} ELSE strayed
  BY DEF Places!ReadMemory, Places!Subject
<1> DEFINE s == Places!snap(said, texts[i])
<1>4. PlacesChained(s)
  BY <1>2, PlacesSnapChained
<1>5. \A j \in Places!Batch : found'[j] = IF j = i THEN [l \in Places!Levels |-> Places!Or(found[i][l], s[l])] ELSE found[j]
  BY <1>2, <1>3 DEF PlacesIInv, PlacesShaped
<1>6. found' = [j \in Places!Batch |-> found'[j]]
  BY <1>3 DEF PlacesIInv, PlacesShaped
<1> HIDE DEF s, i
<1>7. \A j \in Places!Batch, l \in Places!Levels :
        found'[j][l] = IF j = i THEN Places!Or(found[j][l], s[l]) ELSE found[j][l]
  BY <1>5
<1>8. strayed \subseteq strayed' /\ strayed' \subseteq Places!Batch
      /\ (i \notin strayed' => \A l \in Places!Levels :
            found[i][l] # NoPlace => s[l] \in {found[i][l], NoPlace})
  BY <1>2, <1>3 DEF s, i, PlacesIInv, PlacesShaped
<1>9. PlacesShaped'
  <2>1. \A j \in Places!Batch : found'[j] = [l \in Places!Levels |-> found'[j][l]]
    <3> TAKE j \in Places!Batch
    <3>1. CASE j = i
      BY <1>5, <3>1
    <3>2. CASE j # i
      BY <1>5, <3>2 DEF PlacesIInv, PlacesShaped
    <3> QED BY <3>1, <3>2
  <2> QED BY <1>1, <1>6, <1>8, <2>1, PlacesCatalogueStays DEF PlacesIInv, PlacesShaped
<1>10. PlacesPlaced'
  <2>1. \A l \in Places!Levels : PlacesOfLevel(l, s[l])
    BY <1>4 DEF PlacesChained, PlacesLies, PlacesOfLevel
  <2>2. \A j \in Places!Batch, l \in Places!Levels : PlacesOfLevel(l, found'[j][l])
    BY <1>7, <2>1 DEF PlacesIInv, PlacesPlaced, Places!Or
  <2> QED BY <1>1, <2>2, PlacesCatalogueStays DEF PlacesPlaced
<1>11. PlacesStands'
  <2>1. \A j \in Places!Batch, l \in Places!Levels :
          Places!resolve(texts[j])[l] # NoPlace => found'[j][l] = Places!resolve(texts[j])[l]
    BY <1>1, <1>7 DEF PlacesIInv, PlacesStands, Places!Or
  <2> QED BY <1>1, <2>1, PlacesCatalogueStays, PlacesResolveStays DEF PlacesStands
<1>12. PlacesLinked'
  <2>1. ASSUME NEW j \in Places!Batch \ strayed', NEW l \in Places!Levels \ {1}, found'[j][l] # NoPlace
        PROVE  PlacesLies(l, found'[j][l - 1], found'[j][l])
    <3>1. j \notin strayed /\ l - 1 \in Places!Levels
      BY <1>2, <1>8, PlacesLevelsAre
    <3>2. found[j][l] # NoPlace => /\ PlacesLies(l, found[j][l - 1], found[j][l])
                                   /\ found[j][l - 1] # NoPlace
      <4>1. found[j][l] # NoPlace => PlacesLies(l, found[j][l - 1], found[j][l])
        BY <3>1 DEF PlacesIInv, PlacesLinked
      <4>2. ASSUME NEW a, NEW p, PlacesLies(l, a, p) PROVE a # NoPlace
        <5>1. PICK r \in DOMAIN Tables[scheme][l] : Tables[scheme][l][r] = <<a, p>>
          BY <4>2 DEF PlacesLies
        <5>2. Tables[scheme][l][r][1] # NoPlace
          BY <1>2, PlacesRowsAre
        <5> QED BY <5>1, <5>2
      <4> QED BY <4>1, <4>2
    <3>3. CASE j # i
      BY <1>7, <2>1, <3>1, <3>2, <3>3
    <3>4. CASE j = i /\ found[j][l] # NoPlace
      BY <1>7, <3>1, <3>2, <3>4 DEF Places!Or
    <3>5. CASE j = i /\ found[j][l] = NoPlace
      <4>1. found'[j][l] = s[l] /\ s[l] # NoPlace
        BY <1>7, <2>1, <3>5 DEF Places!Or
      <4>2. s[l - 1] # NoPlace /\ PlacesLies(l, s[l - 1], s[l])
        BY <1>4, <4>1 DEF PlacesChained
      <4>3. found'[j][l - 1] = s[l - 1]
        BY <1>7, <1>8, <3>1, <3>5, <4>2 DEF Places!Or
      <4> QED BY <4>1, <4>2, <4>3
    <3> QED BY <3>3, <3>4, <3>5
  <2> QED BY <1>1, <2>1, PlacesCatalogueStays DEF PlacesLinked
<1>13. PlacesAsking'
  <2>1. \A j \in Places!Batch : j # missing[line] => found'[j] = found[j]
    BY <1>5 DEF i
  <2> QED BY <1>1, <2>1, PlacesReadKeeps DEF PlacesIInv
<1> QED
  BY <1>9, <1>10, <1>11, <1>12, <1>13 DEF PlacesIInv

\* A line from the list of a level: the level was open, and so are the levels below it unless
\* the address strayed.
LEMMA PlacesChoiceKeeps ==
  ASSUME Places!MatchAssumption, PlacesIInv, Places!ReadChoice PROVE PlacesIInv'
<1> DEFINE i == missing[line]
<1>1. UNCHANGED <<scheme, texts, strayed>> /\ missing # <<>> /\ Places!Read /\ tier > 1
  BY DEF Places!ReadChoice, Places!Read
<1>2. scheme \in Places!Schemes /\ i \in Places!Batch /\ tier \in Places!Levels \ {1} /\ found[i][tier] = NoPlace
  <2>1. line \in DOMAIN missing /\ missing \in {<<1>>, <<2>>, <<1, 2>>}
    BY <1>1 DEF PlacesIInv, PlacesAsking
  <2>2. i \in Places!Batch
    BY <2>1 DEF Places!Batch
  <2>3. scheme \in Places!Schemes /\ tier \in Places!Levels \ {1}
    BY <1>1, PlacesLevelsAre DEF PlacesIInv, PlacesShaped, PlacesAsking
  <2>4. line >= line
    <3>1. line \in 1..Len(missing)
      BY <1>1 DEF PlacesIInv, PlacesAsking
    <3> QED BY <3>1
  <2>5. found[i][tier] = NoPlace
    BY <1>1, <2>1, <2>4 DEF PlacesIInv, PlacesAsking
  <2> QED BY <2>2, <2>3, <2>5
<1>3. PICK name :
        found' = [found EXCEPT ![i][tier] = Places!Or(Places!SnapOne(tier, found[i][tier - 1], name), @)]
  BY DEF Places!ReadChoice, Places!Subject
<1> DEFINE p == Places!SnapOne(tier, found[i][tier - 1], name)
<1>4. p = NoPlace \/ PlacesLies(tier, found[i][tier - 1], p)
  BY <1>2, PlacesSnapIs
<1>5. found' = [found EXCEPT ![i] = [found[i] EXCEPT ![tier] = Places!Or(p, found[i][tier])]]
  BY <1>3
<1> HIDE DEF p, i
<1>6. \A j \in Places!Batch : found'[j] = IF j = i THEN [found[i] EXCEPT ![tier] = Places!Or(p, found[i][tier])]
                                  ELSE found[j]
  BY <1>2, <1>5 DEF PlacesIInv, PlacesShaped
<1>7. \A j \in Places!Batch, l \in Places!Levels :
        found'[j][l] = IF j = i /\ l = tier THEN p ELSE found[j][l]
  <2>1. \A j \in Places!Batch : found[j] = [l \in Places!Levels |-> found[j][l]]
    BY DEF PlacesIInv, PlacesShaped
  <2>2. Places!Or(p, found[i][tier]) = p
    BY <1>2 DEF Places!Or
  <2> QED BY <1>2, <1>6, <2>1, <2>2
<1>8. PlacesShaped'
  <2>1. found' = [j \in Places!Batch |-> found'[j]]
    BY <1>5 DEF PlacesIInv, PlacesShaped
  <2>2. \A j \in Places!Batch : found'[j] = [l \in Places!Levels |-> found'[j][l]]
    <3> TAKE j \in Places!Batch
    <3>1. found[j] = [l \in Places!Levels |-> found[j][l]]
      BY DEF PlacesIInv, PlacesShaped
    <3> QED BY <1>6, <3>1
  <2> QED BY <1>1, <2>1, <2>2, PlacesCatalogueStays DEF PlacesIInv, PlacesShaped
<1>9. PlacesPlaced'
  <2>1. PlacesOfLevel(tier, p)
    BY <1>4 DEF PlacesLies, PlacesOfLevel
  <2>2. \A j \in Places!Batch, l \in Places!Levels : PlacesOfLevel(l, found'[j][l])
    BY <1>7, <2>1 DEF PlacesIInv, PlacesPlaced
  <2> QED BY <1>1, <2>2, PlacesCatalogueStays DEF PlacesPlaced
<1>10. PlacesStands'
  <2>1. \A j \in Places!Batch, l \in Places!Levels :
          Places!resolve(texts[j])[l] # NoPlace => found'[j][l] = Places!resolve(texts[j])[l]
    <3> SUFFICES ASSUME NEW j \in Places!Batch, NEW l \in Places!Levels, Places!resolve(texts[j])[l] # NoPlace
                 PROVE  found'[j][l] = Places!resolve(texts[j])[l]
      OBVIOUS
    <3>1. found[j][l] = Places!resolve(texts[j])[l]
      BY <1>1, PlacesLevelsAre DEF PlacesIInv, PlacesStands, PlacesAsking
    <3>2. ~(j = i /\ l = tier)
      BY <1>2, <3>1
    <3> QED BY <1>7, <3>1, <3>2
  <2> QED BY <1>1, <2>1, PlacesCatalogueStays, PlacesResolveStays DEF PlacesStands
<1>11. PlacesLinked'
  <2>1. ASSUME NEW j \in Places!Batch \ strayed, NEW l \in Places!Levels \ {1}, found'[j][l] # NoPlace
        PROVE  PlacesLies(l, found'[j][l - 1], found'[j][l])
    <3>1. l - 1 \in Places!Levels /\ l \in Nat
      BY <1>2, PlacesLevelsAre
    <3>2. CASE j = i /\ l = tier
      <4>1. found'[j][l] = p /\ found'[j][l - 1] = found[i][tier - 1]
        BY <1>7, <3>1, <3>2
      <4> QED BY <1>4, <2>1, <3>2, <4>1
    <3>3. CASE ~(j = i /\ l = tier)
      <4>1. found'[j][l] = found[j][l] /\ PlacesLies(l, found[j][l - 1], found[j][l])
        BY <1>7, <2>1, <3>3 DEF PlacesIInv, PlacesLinked
      <4>2. found[j][l - 1] # NoPlace
        <5>1. PICK r \in DOMAIN Tables[scheme][l] :
                Tables[scheme][l][r] = <<found[j][l - 1], found[j][l]>>
          BY <4>1 DEF PlacesLies
        <5>2. Tables[scheme][l][r][1] # NoPlace
          BY <1>2, PlacesRowsAre
        <5> QED BY <5>1, <5>2
      <4>3. found'[j][l - 1] = found[j][l - 1]
        BY <1>2, <1>7, <3>1, <4>2
      <4> QED BY <4>1, <4>3
    <3> QED BY <3>2, <3>3
  <2> QED BY <1>1, <2>1, PlacesCatalogueStays DEF PlacesLinked
<1>12. PlacesAsking'
  <2>1. \A j \in Places!Batch : j # missing[line] => found'[j] = found[j]
    BY <1>6 DEF i
  <2> QED BY <1>1, <2>1, PlacesReadKeeps DEF PlacesIInv
<1> QED
  BY <1>8, <1>9, <1>10, <1>11, <1>12 DEF PlacesIInv

LEMMA PlacesStepKeeps ==
  ASSUME Places!MatchAssumption, PlacesIInv, [Places!Next]_Places!vars PROVE PlacesIInv'
<1>1. CASE UNCHANGED Places!vars
  <2>1. UNCHANGED <<scheme, texts, found, tier, missing, line, strayed>>
    BY <1>1 DEF Places!vars
  <2>2. PlacesShaped' /\ PlacesPlaced' /\ PlacesLinked' /\ PlacesAsking'
    BY <2>1, PlacesCatalogueStays
       DEF PlacesIInv, PlacesShaped, PlacesPlaced, PlacesLinked, PlacesAsking
  <2>3. PlacesStands'
    BY <2>1, PlacesCatalogueStays, PlacesResolveStays DEF PlacesIInv, PlacesStands
  <2> QED BY <2>2, <2>3 DEF PlacesIInv
<1> QED
  BY <1>1, PlacesRulesKeep, PlacesAskKeeps, PlacesNothingKeeps, PlacesMemoryKeeps,
       PlacesChoiceKeeps DEF Places!Next

LEMMA PlacesIInvAlways ==
  ASSUME Places!MatchAssumption PROVE Places!Spec => []PlacesIInv
<1>1. Places!Init => PlacesIInv
  BY PlacesInitIInv
<1>2. PlacesIInv /\ [Places!Next]_Places!vars => PlacesIInv'
  BY PlacesStepKeeps
<1> QED
  BY <1>1, <1>2, PTL DEF Places!Spec

LEMMA PlacesTypesFollow ==
  ASSUME Places!MatchAssumption, PlacesIInv PROVE Places!TypeOK
<1>1. line \in 0..Len(missing)
  <2>1. CASE missing = <<>>
    BY <2>1 DEF PlacesIInv, PlacesAsking
  <2>2. CASE missing # <<>>
    BY <2>2 DEF PlacesIInv, PlacesAsking
  <2> QED BY <2>1, <2>2
<1> QED
  BY <1>1 DEF PlacesIInv, PlacesShaped, PlacesPlaced, PlacesOfLevel, PlacesAsking, Places!TypeOK

LEMMA PlacesPlaceFollows ==
  ASSUME Places!MatchAssumption, PlacesIInv PROVE Places!OnePlace
<1>1. \A i \in Places!Batch, l \in Places!Levels \ {1} : i \notin strayed /\ found[i][l] # NoPlace =>
        \E r \in DOMAIN Tables[scheme][l] :
          Tables[scheme][l][r] = <<found[i][l - 1], found[i][l]>>
  BY DEF PlacesIInv, PlacesLinked, PlacesLies
<1> QED
  BY <1>1 DEF PlacesIInv, PlacesStands, Places!OnePlace

\* A behaviour of the back office is one of the part.
LEMMA PlacesRuns == Spec => Places!Spec
  <1>1. Init => Places!Init
    BY DEF Init
  <1>2. [Next]_vars => [Places!Next]_Places!vars
    BY DEF Next, Rest, vars, placeVars, Places!vars
  <1> QED BY <1>1, <1>2, PTL DEF Spec, Places!Spec

LEMMA PlacesAlwaysTyped == Spec => []Places!TypeOK
  <1>1. Places!MatchAssumption
    BY BackOfficeAssumption
  <1>2. PlacesIInv => Places!TypeOK
    BY <1>1, PlacesTypesFollow
  <1> QED BY <1>1, <1>2, PlacesRuns, PlacesIInvAlways, PTL

\* For every catalogue and every text: what the rules read of an address stands, and the places
\* of an address lie one below the other, unless the model named another place than the rules
\* had read (resolveGrounded, SpxAddressOldService.run).
THEOREM OrdersHaveOnePlace == Spec => []OnePlace
  <1>1. Places!MatchAssumption
    BY BackOfficeAssumption
  <1>2. PlacesIInv => OnePlace
    BY <1>1, PlacesPlaceFollows DEF OnePlace
  <1> QED BY <1>1, <1>2, PlacesRuns, PlacesIInvAlways, PTL
=============================================================================
