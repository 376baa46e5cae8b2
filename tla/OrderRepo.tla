----------------------------- MODULE OrderRepo ------------------------------
(***************************************************************************)
(* internal/db: SaveOrder, and the public inserts, as transactions of      *)
(* statements on the four tables of init.sql.  insertItems opens a second  *)
(* transaction, on a second connection, inside the first: it holds no      *)
(* statement, but it must begin and commit.                                *)
(*                                                                         *)
(* One transaction of this process is under way at a time, which is what   *)
(* the manager's mutex gives (RepoIsSerial of OrderServiceProofs).  A      *)
(* statement that is refused has no action: what follows it is Fail, as    *)
(* for a lost connection, a deadline or the end of the process.            *)
(***************************************************************************)
EXTENDS Validation

CONSTANTS
  Uids, Tracks, ChrtIds,  \* order_uids, track_numbers, chrt_ids
  Messages,               \* the orders that arrive
  Content,                \* what each of them says, a models.Order
  PoolSizes,              \* the values max_open_connections may have
  MaxDeliveryId,          \* bound: no insert draws a larger number
  None, Ok, Error

VARIABLES
  tables,    \* what is committed
  tx,        \* the transaction under way, or None
  nextId,    \* the sequence of deliveries.id, which no rollback sets back
  maxConns,  \* the pool's size
  answer     \* of the last SaveOrder: Ok, Error, or None before it returned

vars == <<tables, tx, nextId, maxConns, answer>>

Uid(m)         == Content[m].order_uid
Transaction(m) == Content[m].payment.transaction
ItemCount(m)   == Len(Content[m].items)
Item(m, k)     == Content[m].items[k]

\* A row is known by the message that wrote it, an item's also by its place in
\* the message, an order's also by the delivery it refers to.
OrderRows == [from : Messages, delivery : 1 .. MaxDeliveryId]
ItemRows  == [from : Messages, place : Nat]

Tables ==
  [deliveries : [1 .. MaxDeliveryId -> Messages \cup {None}],
   orders     : [Uids -> OrderRows \cup {None}],
   payments   : [Uids -> Messages \cup {None}],
   items      : [ChrtIds -> ItemRows \cup {None}]]

Operations == {"SaveOrder", "InsertDelivery", "InsertPayment", "InsertItems", "InsertItem"}

\* Wrong variant, for mutation: the order's row before the delivery it refers to.
ProgramOrderFirst(op) ==
  CASE op = "SaveOrder" ->
         <<"order", "delivery", "begin", "item", "end", "payment", "commit">>
    [] op = "InsertDelivery" -> <<"delivery", "commit">>
    [] op = "InsertPayment"  -> <<"payment", "commit">>
    [] op = "InsertItems"    -> <<"begin", "item", "end", "commit">>
    [] op = "InsertItem"     -> <<"item", "commit">>

\* The statements of an operation, in the order the code sends them; "item"
\* stands for one INSERT for each item.
Program(op) ==
  CASE op = "SaveOrder" ->
         <<"delivery", "order", "begin", "item", "end", "payment", "commit">>
    [] op = "InsertDelivery" -> <<"delivery", "commit">>
    [] op = "InsertPayment"  -> <<"payment", "commit">>
    [] op = "InsertItems"    -> <<"begin", "item", "end", "commit">>
    [] op = "InsertItem"     -> <<"item", "commit">>

\* at: the statement to execute next; done: the last item inserted, of those up
\* to last; delivery: the id insertDelivery returned; work: the tables as the
\* transaction sees them.
Transactions ==
  [op : Operations, msg : Messages, at : 1 .. 7, done : Nat, last : Nat,
   delivery : 0 .. MaxDeliveryId, work : Tables]

\* A payment's transaction and an item's track_number are any texts; the texts
\* that are nobody's order_uid or track_number are members of Uids and Tracks too.
ASSUME MessagesNameRows ==
  /\ None \notin Messages /\ Ok # Error /\ None \notin {Ok, Error}
  /\ None \notin OrderRows /\ None \notin ItemRows /\ None \notin Transactions
  /\ \A m \in Messages :
       /\ Content[m].order_uid \in Uids /\ Content[m].track_number \in Tracks
       /\ Content[m].payment.transaction \in Uids
       /\ Content[m].items \in Seq(Range(Content[m].items))
       /\ \A k \in 1 .. Len(Content[m].items) :
            Content[m].items[k].chrt_id \in ChrtIds

\* Amounts are Go's ints.  A message of MaxBytes, 10e6, has fewer than 2^24 items,
\* so that a word holds the sum of as many columns.
ASSUME AmountsAreInts ==
  \A m \in Messages :
    /\ LET p == Content[m].payment IN
         {p.amount, p.delivery_cost, p.goods_total, p.custom_fee} \subseteq Int
    /\ \A k \in 1 .. Len(Content[m].items) : Content[m].items[k].total_price \in Int
    /\ Len(Content[m].items) * HalfColumn <= HalfWord
ASSUME BoundsAreNat == MaxDeliveryId \in Nat /\ PoolSizes \subseteq Nat \ {0}

TypeOK ==
  /\ tables \in Tables
  /\ tx \in Transactions \cup {None}
  /\ nextId \in 0 .. MaxDeliveryId
  /\ maxConns \in PoolSizes
  /\ answer \in {None, Ok, Error}

Init ==
  /\ tables = [deliveries |-> [d \in 1 .. MaxDeliveryId |-> None],
               orders     |-> [u \in Uids |-> None],
               payments   |-> [u \in Uids |-> None],
               items      |-> [c \in ChrtIds |-> None]]
  /\ tx = None
  /\ nextId = 0
  /\ maxConns \in PoolSizes
  /\ answer = None

-----------------------------------------------------------------------------
\* WithTx takes the one connection it needs: nobody else holds any.
WithTx(op, m, done, last) ==
  /\ tx = None
  /\ tx' = [op |-> op, msg |-> m, at |-> 1, done |-> done, last |-> last,
            delivery |-> 0, work |-> tables]
  /\ answer' = IF op = "SaveOrder" THEN None ELSE answer
  /\ UNCHANGED <<tables, nextId, maxConns>>

\* ProcessOrder validates before it saves; the public inserts do not.
ValidMessages == {m \in Messages : Valid(Content[m])}

SaveOrder(m)      == m \in ValidMessages /\ WithTx("SaveOrder", m, 0, ItemCount(m))
InsertDelivery(m) == WithTx("InsertDelivery", m, 0, 0)
InsertPayment(m)  == WithTx("InsertPayment", m, 0, 0)
InsertItems(m)    == WithTx("InsertItems", m, 0, ItemCount(m))
InsertItem(m, k)  == WithTx("InsertItem", m, k - 1, k)

AtStatement(s) == tx # None /\ Program(tx.op)[tx.at] = s

\* The statement succeeds and leaves the tables as `work`.
Executed(work) ==
  /\ tx' = [tx EXCEPT !.work = work, !.at = @ + 1]
  /\ UNCHANGED <<tables, nextId, maxConns, answer>>

\* A serial primary key is never in conflict: every call adds a row.
ExecDelivery ==
  /\ AtStatement("delivery") /\ nextId < MaxDeliveryId
  /\ nextId' = nextId + 1
  /\ tx' = [tx EXCEPT !.work.deliveries[nextId + 1] = tx.msg,
                      !.delivery = nextId + 1, !.at = @ + 1]
  /\ UNCHANGED <<tables, maxConns, answer>>

\* What unique (track_number) of orders and the foreign key of items look up.
HasTrack(work, t) ==
  \E u \in Uids : work.orders[u] # None /\ Content[work.orders[u].from].track_number = t

NewRow == [from |-> tx.msg, delivery |-> tx.delivery]

\* Wrong variant, for mutation: ON CONFLICT DO UPDATE on the order's row.
ExecOrderUpserts ==
  /\ AtStatement("order") /\ OrderFits(Content[tx.msg])
  /\ ~HasTrack(tx.work, Content[tx.msg].track_number) \/ tx.work.orders[Uid(tx.msg)] # None
  /\ Executed([tx.work EXCEPT !.orders[Uid(tx.msg)] = NewRow])

\* A known order_uid is no conflict; a track_number another order has is one.
ExecOrder ==
  /\ AtStatement("order") /\ OrderFits(Content[tx.msg])
  /\ \/ tx.work.orders[Uid(tx.msg)] # None /\ Executed(tx.work)
     \/ /\ tx.work.orders[Uid(tx.msg)] = None
        /\ ~HasTrack(tx.work, Content[tx.msg].track_number)
        /\ Executed([tx.work EXCEPT !.orders[Uid(tx.msg)] = NewRow])

\* Wrong variant, for mutation: the nested transaction on the connection at hand.
BeginNested == AtStatement("begin") /\ Executed(tx.work)

\* The second connection.  In a pool of one, BeginTx waits for the connection
\* that this very call holds, until the context ends it.
BeginItems == AtStatement("begin") /\ maxConns > 1 /\ Executed(tx.work)

\* Wrong variant, for mutation: DO UPDATE on an item's row.
ExecItemUpserts ==
  /\ AtStatement("item") /\ tx.done < tx.last
  /\ LET i == Item(tx.msg, tx.done + 1) IN
     /\ ItemFits(i) /\ HasTrack(tx.work, i.track_number)
     /\ tx' = [tx EXCEPT !.done = @ + 1,
                         !.work.items[i.chrt_id] = [from |-> tx.msg, place |-> tx.done + 1]]
  /\ UNCHANGED <<tables, nextId, maxConns, answer>>

\* One turn of the loop.  A known chrt_id is no conflict, whatever order it is
\* of; a track_number no order has violates the foreign key.
ExecItem ==
  /\ AtStatement("item") /\ tx.done < tx.last
  /\ LET i == Item(tx.msg, tx.done + 1) IN
     /\ ItemFits(i)
     /\ \/ /\ tx.work.items[i.chrt_id] # None
           /\ tx' = [tx EXCEPT !.done = @ + 1]
        \/ /\ tx.work.items[i.chrt_id] = None /\ HasTrack(tx.work, i.track_number)
           /\ tx' = [tx EXCEPT !.done = @ + 1,
                               !.work.items[i.chrt_id] = [from |-> tx.msg,
                                                          place |-> tx.done + 1]]
  /\ UNCHANGED <<tables, nextId, maxConns, answer>>

EndLoop == AtStatement("item") /\ tx.done = tx.last /\ Executed(tx.work)

\* The nested transaction commits; its connection is free again.
EndItems == AtStatement("end") /\ Executed(tx.work)

\* A known transaction is no conflict; one that is no order_uid violates the
\* foreign key.
ExecPayment ==
  /\ AtStatement("payment") /\ PaymentFits(Content[tx.msg].payment)
  /\ LET t == Transaction(tx.msg) IN
     \/ tx.work.payments[t] # None /\ Executed(tx.work)
     \/ /\ tx.work.payments[t] = None /\ tx.work.orders[t] # None
        /\ Executed([tx.work EXCEPT !.payments[t] = tx.msg])

\* Commit, with or without its reply reaching the process.
CommitTx ==
  /\ AtStatement("commit")
  /\ tables' = tx.work
  /\ tx' = None
  /\ IF tx.op = "SaveOrder" THEN answer' \in {Ok, Error} ELSE UNCHANGED answer
  /\ UNCHANGED <<nextId, maxConns>>

\* Wrong variant, for mutation: an error after which WithTx commits all the same.
FailCommits ==
  /\ tx # None
  /\ tables' = tx.work
  /\ tx' = None
  /\ answer' = IF tx.op = "SaveOrder" THEN Error ELSE answer
  /\ UNCHANGED <<nextId, maxConns>>

\* A refused statement, an error, the deadline or a crash, at any point: the
\* deferred Rollback, or the server when the connection is gone.
Fail ==
  /\ tx # None
  /\ tx' = None
  /\ answer' = IF tx.op = "SaveOrder" THEN Error ELSE answer
  /\ UNCHANGED <<tables, nextId, maxConns>>

Next ==
  \/ \E m \in Messages :
       \/ SaveOrder(m) \/ InsertDelivery(m) \/ InsertPayment(m) \/ InsertItems(m)
       \/ \E k \in 1 .. ItemCount(m) : InsertItem(m, k)
  \/ ExecDelivery \/ ExecOrder \/ BeginItems \/ ExecItem \/ EndLoop \/ EndItems
  \/ ExecPayment \/ CommitTx \/ Fail

Spec == Init /\ [][Next]_vars

-----------------------------------------------------------------------------
\* A stored order is stored whole: its row refers to the delivery of the same
\* message, and its payment's transaction and every chrt_id of its items have a
\* row (theirs, or an earlier one), whatever fails between the statements.
StoredWhole ==
  \A u \in Uids : tables.orders[u] # None =>
    LET m == tables.orders[u].from IN
      /\ tables.deliveries[tables.orders[u].delivery] = m
      /\ tables.payments[Transaction(m)] # None
      /\ \A k \in 1 .. ItemCount(m) : tables.items[Item(m, k).chrt_id] # None

\* A message whose order_uid, track_number and chrt_ids occur in no other message
\* and that names its own order in its payment and items.  Validate asks for
\* none of this.
Own(m) ==
  /\ Transaction(m) = Uid(m)
  /\ \A k, l \in 1 .. ItemCount(m) :
       /\ Item(m, k).track_number = Content[m].track_number
       /\ Item(m, k).chrt_id = Item(m, l).chrt_id => k = l
  /\ \A n \in Messages \ {m} :
       /\ Uid(m) \notin {Uid(n), Transaction(n)}
       /\ Content[m].track_number # Content[n].track_number
       /\ \A k \in 1 .. ItemCount(n), l \in 1 .. ItemCount(m) :
            /\ Item(n, k).track_number # Content[m].track_number
            /\ Item(n, k).chrt_id # Item(m, l).chrt_id

\* The totals of such an order add up in the database, in exact arithmetic,
\* although Validate compares sums that may wrap around: the columns are too
\* narrow for any amount that did.
StoredItem(c) == Item(tables.items[c].from, tables.items[c].place)

GoodsTotal(t) ==
  MapThenSumSet(LAMBDA c : StoredItem(c).total_price,
                {c \in ChrtIds : tables.items[c] # None /\ StoredItem(c).track_number = t})

OwnMessages == {m \in Messages : Own(m)}

StoredTotalsAddUp ==
  \A m \in OwnMessages : tables.orders[Uid(m)] # None =>
    LET p == Content[tables.payments[Uid(m)]].payment
        g == GoodsTotal(Content[m].track_number)
    IN  p.goods_total = g /\ p.amount = g + p.delivery_cost + p.custom_fee

\* With max_open_connections 1, which the configuration allows, no order is ever
\* stored: SaveOrder waits for its own connection.
OneConnectionStoresNothing == maxConns = 1 => \A u \in Uids : tables.orders[u] = None

\* No row of a is missing or different in b.
Grows(a, b) ==
  /\ \A d \in 1 .. MaxDeliveryId :
       a.deliveries[d] # None => b.deliveries[d] = a.deliveries[d]
  /\ \A u \in Uids : /\ a.orders[u] # None => b.orders[u] = a.orders[u]
                     /\ a.payments[u] # None => b.payments[u] = a.payments[u]
  /\ \A c \in ChrtIds : a.items[c] # None => b.items[c] = a.items[c]

\* A committed row stays as it is: no redelivery, and no order that names
\* another's payment or items, changes what an earlier one stored.
CommittedRowsStay == [][Grows(tables, tables')]_vars

Store == INSTANCE OrderStore WITH
           OrderSet <- ValidMessages,
           store <- [u \in Uids |-> IF tables.orders[u] = None THEN None
                                    ELSE tables.orders[u].from],
           saving <- IF tx # None /\ tx.op = "SaveOrder" THEN tx.msg ELSE None

\* SaveOrder is atomic: the four inserts, the nested transaction and whatever
\* fails among them amount to one Commit or one Abort of OrderStore.
KeepsOrderStore == Store!StoreSpec
=============================================================================
