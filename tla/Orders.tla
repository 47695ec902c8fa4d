------------------------------- MODULE Orders --------------------------------
(***************************************************************************)
(* The orders, their history and the uses of a promotion: OrdersService    *)
(* over the functions of orders.sql and promotions.sql.  A call that       *)
(* computes its history itself reads the order first (proc.get); then its  *)
(* database function runs as one transaction, which reads (the row, the    *)
(* promotions it carried, whether the promotion has uses left) and writes  *)
(* only later: calls of several people overlap at each of these points.    *)
(***************************************************************************)
EXTENDS Naturals, Sequences, FiniteSets

CONSTANTS
  Ids,         \* the orders
  Values,      \* what a status, or a payment status, may be
  Slots,       \* the people at work: a call each at a time
  MaxUses,     \* max_uses of the promotion
  MaxRequests  \* bound on the calls

Fields == {"status", "pay"}

OrdersAssumption ==
  /\ IsFiniteSet(Ids) /\ Ids # {} /\ IsFiniteSet(Values) /\ Values # {}
  /\ MaxUses \in Nat /\ MaxRequests \in Nat

VARIABLES
  orders,   \* the rows of orders, with the rows of order_history they own
  used,     \* used_count of the promotion
  requests, \* the call of each slot
  served,
  torn,     \* orders saved over a change the saver had not seen (history)
  muddled   \* the counter was left out of step, by one of the ways below (history)

vars == <<orders, used, requests, served, torn, muddled>>

Row == [Fields -> Values]
Unborn == [is |-> "unborn"]
Gone == [is |-> "gone"]
Idle == [stage |-> "idle"]

Exists(o) == orders[o] \notin {Unborn, Gone}
Carriers == {o \in Ids : Exists(o) /\ orders[o].carries}

NoStory == [f \in Fields |-> <<>>]

\* An order starts with the values it was created with, which no entry records; story[f] has
\* the entries of the field f and, between them, the writes that leave none (silent; history).
NewOrder(row, carries) ==
  [row |-> row, born |-> row, carries |-> carries, story |-> NoStory]

Init ==
  \E o \in Ids, row \in Row, carries \in BOOLEAN :
    /\ carries => MaxUses > 0
    /\ orders = [q \in Ids |-> IF q = o THEN NewOrder(row, carries) ELSE Unborn]
    /\ used = IF carries THEN 1 ELSE 0
    /\ requests = [s \in Slots |-> Idle]
    /\ served = 0 /\ torn = {} /\ muddled = FALSE

-----------------------------------------------------------------------------
(* promotion_redeem, promotion_release                                     *)

\* (A mistake one could make.)
Redeem_Unguarded(n, carries) == IF carries THEN n + 1 ELSE n

Redeem(n, carries) == IF carries /\ n < MaxUses THEN n + 1 ELSE n
Release(n, carries) == IF carries /\ n > 0 THEN n - 1 ELSE n

-----------------------------------------------------------------------------
(* The call reaches the service                                            *)

Change(old, new, silent) ==
  IF old = new THEN <<>> ELSE <<[from |-> old, to |-> new, silent |-> silent]>>

\* (A mistake: the comparison ends at the first field that changes.)
diffOrders_First(prev, next) ==
  [f \in Fields |-> IF f = "pay" /\ prev["status"] # next["status"] THEN <<>>
                    ELSE Change(prev[f], next[f], FALSE)]

\* diffOrders: one entry for each field that the form changes.
diffOrders(prev, next) == [f \in Fields |-> Change(prev[f], next[f], FALSE)]

\* What is compared with the order as it was read: the form over it.
Merged(copy, row, pays) == [f \in Fields |-> IF f = "pay" /\ ~pays THEN copy[f] ELSE row[f]]

Ask(s, call) ==
  /\ requests[s] = Idle /\ served < MaxRequests
  /\ requests' = [requests EXCEPT ![s] = [stage |-> "asked", call |-> call]]
  /\ served' = served + 1
  /\ UNCHANGED <<orders, used, torn, muddled>>

\* addOrder: the service reads nothing first.
AskCreate(s) ==
  \E o \in Ids, row \in Row, wants \in BOOLEAN :
    /\ orders[o] = Unborn
    /\ \A t \in Slots : requests[t] # Idle => requests[t].call.order # o
    /\ Ask(s, [kind |-> "create", order |-> o, row |-> row, wants |-> wants])

\* updateOrder: the changes to record are computed here, from the order as it is now.  The
\* form may come without items, and without a payment status (pays), which order_update then
\* derives: the row has what it will be.
AskForm(s) ==
  \E o \in Ids, row \in Row, wants, items, pays \in BOOLEAN :
    /\ Exists(o)
    /\ Ask(s, [kind |-> "form", order |-> o, row |-> row, wants |-> wants, items |-> items,
               pays |-> pays, copy |-> orders[o].row,
               changes |-> diffOrders(orders[o].row, Merged(orders[o].row, row, pays))])

\* updateOrderStatus: a status that is not new ends the call here.
AskStatus(s) ==
  \E o \in Ids, v \in Values :
    /\ Exists(o) /\ orders[o].row["status"] # v
    /\ Ask(s, [kind |-> "status", order |-> o, field |-> "status", value |-> v])

\* patchOrderFields: nothing is read before the database function.
AskPatch(s) ==
  \E o \in Ids, v \in Values :
    /\ Exists(o)
    /\ Ask(s, [kind |-> "patch", order |-> o, field |-> "pay", value |-> v])

AskDelete(s) ==
  \E o \in Ids : Exists(o) /\ Ask(s, [kind |-> "delete", order |-> o])

-----------------------------------------------------------------------------
(* The database function begins: what it reads                             *)

\* promotion_compute lets the promotion in while it has uses left.
Eligible == used < MaxUses

SeenBy(call) ==
  CASE call.kind = "create" -> [carries |-> call.wants /\ Eligible]
    [] call.kind = "form" ->
         [carries |-> call.wants /\ Eligible, had |-> orders[call.order].carries]
    [] call.kind \in {"status", "patch"} -> [old |-> orders[call.order].row[call.field]]
    [] call.kind = "delete" -> [had |-> orders[call.order].carries]

\* Without the order the function raises ORDER_NOT_FOUND, or has nothing to delete; a
\* value that is there already leaves it nothing to write.
EndsEarly(call) ==
  \/ call.kind # "create" /\ ~Exists(call.order)
  \/ call.kind \in {"status", "patch"} /\ orders[call.order].row[call.field] = call.value

Begin(s) ==
  LET call == requests[s].call IN
  /\ requests[s].stage = "asked"
  /\ requests' = [requests EXCEPT ![s] =
       IF EndsEarly(call) THEN Idle ELSE [stage |-> "begun", call |-> call, saw |-> SeenBy(call)]]
  /\ UNCHANGED <<orders, used, served, torn, muddled>>

-----------------------------------------------------------------------------
(* It writes and commits                                                   *)

Commits(s, kinds) ==
  /\ requests[s].stage = "begun" /\ requests[s].call.kind \in kinds
  /\ requests' = [requests EXCEPT ![s] = Idle]
  /\ UNCHANGED served

\* order_create: the promotion is redeemed without a word when it ran out meanwhile.
Create(s) ==
  LET call == requests[s].call
      carries == requests[s].saw.carries
  IN
  /\ Commits(s, {"create"})
  /\ orders' = [orders EXCEPT ![call.order] = NewOrder(call.row, carries)]
  /\ used' = Redeem(used, carries)
  /\ muddled' = (muddled \/ (carries /\ used >= MaxUses))
  /\ UNCHANGED torn

\* What the write of a field adds: the change the call came with, or a derived status.
Added(call, row, f) ==
  IF f = "pay" /\ ~call.pays THEN Change(row[f], call.row[f], TRUE) ELSE call.changes[f]
Unseen(call, row) == \E f \in Fields : call.copy[f] # row[f] /\ (f = "pay" => call.pays)

\* order_update: the row, the changes it was given and the promotion it carries now; the
\* counter follows only a form with items.
Update(s) ==
  LET call == requests[s].call
      saw == requests[s].saw
      order == orders[call.order]
      released == Release(used, saw.had)
  IN
  /\ Commits(s, {"form"}) /\ Exists(call.order)
  /\ orders' = [orders EXCEPT ![call.order] =
       [row |-> call.row, born |-> order.born, carries |-> saw.carries,
        story |-> [f \in Fields |-> order.story[f] \o Added(call, order.row, f)]]]
  /\ used' = IF call.items THEN Redeem(released, saw.carries) ELSE used
  /\ muddled' = (\/ muddled
                 \/ saw.had # order.carries
                 \/ call.items /\ saw.carries /\ released >= MaxUses
                 \/ ~call.items /\ saw.carries # saw.had)
  /\ torn' = IF Unseen(call, order.row) THEN torn \cup {call.order} ELSE torn

\* order_update_status and order_patch_fields record the change from the value they read.
SetField(s) ==
  LET call == requests[s].call
      old == requests[s].saw.old
      order == orders[call.order]
  IN
  /\ Commits(s, {"status", "patch"}) /\ Exists(call.order)
  /\ orders' = [orders EXCEPT ![call.order] =
       [order EXCEPT !.row[call.field] = call.value,
                     !.story[call.field] = Append(@, [from |-> old, to |-> call.value,
                                                            silent |-> FALSE])]]
  /\ torn' = IF old = order.row[call.field] THEN torn ELSE torn \cup {call.order}
  /\ UNCHANGED <<used, muddled>>

\* (A mistake: no release.)
Delete_KeepsUse(s) ==
  LET o == requests[s].call.order IN
  /\ Commits(s, {"delete"})
  /\ orders' = [orders EXCEPT ![o] = Gone]
  /\ muddled' = (muddled \/ requests[s].saw.had # (o \in Carriers))
  /\ UNCHANGED <<used, torn>>

\* order_delete: what the order carried when it was read is released, whoever deleted it.
Delete(s) ==
  LET o == requests[s].call.order
      had == requests[s].saw.had
  IN
  /\ Commits(s, {"delete"})
  /\ orders' = [orders EXCEPT ![o] = Gone]
  /\ used' = Release(used, had)
  /\ muddled' = (muddled \/ had # (o \in Carriers))
  /\ UNCHANGED torn

\* The rows of its children miss the order deleted meanwhile: the transaction fails.
MissesOrder(s) ==
  /\ Commits(s, {"form", "status", "patch"}) /\ ~Exists(requests[s].call.order)
  /\ UNCHANGED <<orders, used, torn, muddled>>

\* Money comes in or is matched (webhook_sepay; order_reconcile_transaction, order_sync_cod,
\* transaction_reconcile_apply): the payment status follows what is paid, and no entry tells it.
Credit(o, v) ==
  /\ served < MaxRequests /\ served' = served + 1
  /\ Exists(o) /\ orders[o].row["pay"] # v
  /\ orders' = [orders EXCEPT ![o] =
       [orders[o] EXCEPT !.row["pay"] = v,
                         !.story["pay"] = Append(@, [from |-> orders[o].row["pay"], to |-> v,
                                                     silent |-> TRUE])]]
  /\ UNCHANGED <<used, requests, torn, muddled>>

\* promotion_reopen: a new round of the promotion; the orders of the old one keep it.
Reopen ==
  /\ served < MaxRequests /\ served' = served + 1
  /\ used' = 0
  /\ muddled' = (muddled \/ Carriers # {})
  /\ UNCHANGED <<orders, requests, torn>>

Next ==
  \/ \E s \in Slots :
       \/ AskCreate(s) \/ AskForm(s) \/ AskStatus(s) \/ AskPatch(s) \/ AskDelete(s)
       \/ Begin(s)
       \/ Create(s) \/ Update(s) \/ SetField(s) \/ Delete(s) \/ MissesOrder(s)
  \/ \E o \in Ids, v \in Values : Credit(o, v)
  \/ Reopen

Spec == Init /\ [][Next]_vars

-----------------------------------------------------------------------------
Entries == [from : Values, to : Values, silent : BOOLEAN]

OrderOk(o) ==
  \/ orders[o] \in {Unborn, Gone}
  \/ /\ orders[o].row \in Row /\ orders[o].born \in Row /\ orders[o].carries \in BOOLEAN
     /\ \A f \in Fields : orders[o].story[f] \in Seq(Entries)

\* The orders and the calls are well formed, and the promotion is never redeemed past
\* its limit, whatever overlaps (promotion_redeem).
TypeOK ==
  /\ DOMAIN orders = Ids /\ \A o \in Ids : OrderOk(o)
  /\ used \in 0..MaxUses
  /\ \A s \in Slots : requests[s].stage \in {"idle", "asked", "begun"}
  /\ served \in 0..MaxRequests /\ torn \subseteq Ids /\ muddled \in BOOLEAN

\* The entries of a field lead from the value it was born with to the one it holds.
Leads(story, born, now) ==
  LET before(i) == IF i = 1 THEN born ELSE story[i - 1].to
  IN /\ \A i \in DOMAIN story : story[i].from = before(i)
     /\ now = before(Len(story) + 1)

\* The history of an order tells all that befell it but the payment statuses that follow from
\* the money: each entry starts from what the entry, or such a status, before it left, and the
\* last ends at what the order holds, as long as no one saved over a change made after he had
\* read the order (order_history, read by the detail page).
HistoryTold ==
  \A o \in Ids \ torn : Exists(o) =>
    \A f \in Fields : Leads(orders[o].story[f], orders[o].born[f], orders[o].row[f])

\* The counter of a promotion is the number of the orders that carry it, unless two
\* calls overlapped over the last use or over one order, a form without items changed
\* the promotion, or a new round began (used_count of promotions).
CountTold == ~muddled => used = Cardinality(Carriers)

=============================================================================
