-------------------------- MODULE OrderRepoProofs ---------------------------
(***************************************************************************)
(* SaveOrder is atomic, for any messages, pool and tables.  A transaction  *)
(* only adds rows to what was committed when it began; by the statement it *)
(* has reached, the rows an order needs are there; and only the statement  *)
(* "order" of SaveOrder adds an order's row, which is what makes the whole *)
(* transaction one Commit of OrderStore.                                   *)
(*                                                                         *)
(* Every row came from a message and fits its columns (RowsKept), which is *)
(* why what Validate compared in words that wrap around adds up exactly.   *)
(***************************************************************************)
EXTENDS OrderRepo, FoldLemmas

\* What SaveOrder has done by the statement it has reached.
SaveProgress ==
  tx # None /\ tx.op = "SaveOrder" =>
    /\ tx.msg \in ValidMessages
    /\ tx.last = ItemCount(tx.msg)
    /\ tx.at > 1 => /\ tx.delivery \in 1 .. MaxDeliveryId
                    /\ tx.work.deliveries[tx.delivery] = tx.msg
    /\ tx.at > 2 => tx.work.orders[Uid(tx.msg)] # None
    /\ tx.at > 3 => maxConns > 1
    /\ \A k \in 1 .. tx.done : tx.work.items[Item(tx.msg, k).chrt_id] # None
    /\ tx.at > 4 => tx.done = tx.last
    /\ tx.at > 6 => tx.work.payments[Transaction(tx.msg)] # None

\* The orders of a transaction are the committed ones and, once inserted, its own.
OrdersOfWork ==
  tx # None =>
    \A u \in Uids :
      \/ tx.work.orders[u] = tables.orders[u]
      \/ /\ tx.op = "SaveOrder" /\ tx.at > 2 /\ u = Uid(tx.msg)
         /\ tables.orders[u] = None
         /\ tx.work.orders[u] = [from |-> tx.msg, delivery |-> tx.delivery]

WorkGrows ==
  tx # None => /\ Grows(tables, tx.work)
               /\ tx.at \in DOMAIN Program(tx.op)
               /\ tx.done <= tx.last /\ tx.last <= ItemCount(tx.msg)

\* No row has an id the sequence has not given out.
IdsAreFresh ==
  \A d \in 1 .. MaxDeliveryId : d > nextId =>
    tables.deliveries[d] = None /\ (tx # None => tx.work.deliveries[d] = None)

\* Every row says what its message says under the row's key, and fits its columns;
\* an order's row comes of a valid message.
RowsOfMessages(t) ==
  /\ \A u \in Uids :
       /\ t.orders[u] # None => /\ t.orders[u].from \in ValidMessages
                               /\ Uid(t.orders[u].from) = u
       /\ t.payments[u] # None => /\ Transaction(t.payments[u]) = u
                                 /\ PaymentFits(Content[t.payments[u]].payment)
  /\ \A c \in ChrtIds : t.items[c] # None =>
       LET n == t.items[c].from
           k == t.items[c].place
       IN  /\ k \in 1 .. ItemCount(n)
           /\ Item(n, k).chrt_id = c /\ ItemFits(Item(n, k))

RowsKept == RowsOfMessages(tables) /\ (tx # None => RowsOfMessages(tx.work))

IInv ==
  /\ TypeOK /\ WorkGrows /\ SaveProgress /\ OrdersOfWork /\ IdsAreFresh
  /\ StoredWhole /\ OneConnectionStoresNothing /\ RowsKept

-----------------------------------------------------------------------------
\* Where each statement stands in its program, and that only "commit" is last.
LEMMA Statements ==
  ASSUME NEW op \in Operations, NEW at \in DOMAIN Program(op)
  PROVE  /\ Program(op)[at] # "commit" => at + 1 \in DOMAIN Program(op)
         /\ at \in 1 .. 7
         /\ op = "SaveOrder" =>
              /\ Program(op)[at] = "delivery" => at = 1
              /\ Program(op)[at] = "order" => at = 2
              /\ Program(op)[at] = "begin" => at = 3
              /\ Program(op)[at] = "item" => at = 4
              /\ Program(op)[at] = "end" => at = 5
              /\ Program(op)[at] = "payment" => at = 6
              /\ Program(op)[at] = "commit" => at = 7
         /\ Program(op)[at] = "order" => op = "SaveOrder"
<1>1. CASE op = "SaveOrder"
  BY <1>1 DEF Program
<1>2. CASE op = "InsertDelivery"
  BY <1>2 DEF Program
<1>3. CASE op = "InsertPayment"
  BY <1>3 DEF Program
<1>4. CASE op = "InsertItems"
  BY <1>4 DEF Program
<1>5. CASE op = "InsertItem"
  BY <1>5 DEF Program
<1> QED BY <1>1, <1>2, <1>3, <1>4, <1>5 DEF Operations

\* What the assumptions say of one message.
LEMMA MessageFacts ==
  ASSUME NEW m \in Messages
  PROVE  /\ m # None /\ Uid(m) \in Uids /\ Transaction(m) \in Uids /\ ItemCount(m) \in Nat
         /\ \A k \in 1 .. ItemCount(m) : Item(m, k).chrt_id \in ChrtIds
BY MessagesNameRows DEF Uid, Transaction, ItemCount, Item

LEMMA GrowsIsTransitive ==
  ASSUME NEW a, NEW b, NEW c, Grows(a, b), Grows(b, c)
  PROVE  Grows(a, c)
<1>1. ASSUME NEW d \in 1 .. MaxDeliveryId, a.deliveries[d] # None
      PROVE  c.deliveries[d] = a.deliveries[d]
  BY <1>1 DEF Grows
<1>2. ASSUME NEW u \in Uids
      PROVE  /\ a.orders[u] # None => c.orders[u] = a.orders[u]
             /\ a.payments[u] # None => c.payments[u] = a.payments[u]
  BY DEF Grows
<1>3. ASSUME NEW i \in ChrtIds, a.items[i] # None
      PROVE  c.items[i] = a.items[i]
  BY <1>3 DEF Grows
<1> QED BY <1>1, <1>2, <1>3 DEF Grows

LEMMA GrowsIsReflexive == ASSUME NEW a PROVE Grows(a, a)
BY DEF Grows

\* What RowsOfMessages says depends on the three tables only.
LEMMA RowsUnchanged ==
  ASSUME NEW a, NEW b, RowsOfMessages(a),
         a.orders = b.orders, a.payments = b.payments, a.items = b.items
  PROVE  RowsOfMessages(b)
BY DEF RowsOfMessages

-----------------------------------------------------------------------------
\* The step leaves a transaction under way, of the same operation and message.
Continues == tx' \in Transactions /\ tx'.op = tx.op /\ tx'.msg = tx.msg

LEMMA InitHolds == Init => IInv
<1> SUFFICES ASSUME Init PROVE IInv
  OBVIOUS
<1>1. TypeOK
  BY BoundsAreNat DEF Init, TypeOK, Tables
<1> QED BY <1>1 DEF Init, IInv, WorkGrows, SaveProgress, OrdersOfWork, IdsAreFresh,
                    StoredWhole, OneConnectionStoresNothing, RowsKept, RowsOfMessages

\* The beginning of any operation.
LEMMA BeginHolds ==
  ASSUME IInv, NEW op \in Operations, NEW m \in Messages, NEW done \in Nat, NEW last \in Nat,
         done <= last, last <= ItemCount(m),
         op = "SaveOrder" => m \in ValidMessages /\ done = 0 /\ last = ItemCount(m),
         WithTx(op, m, done, last)
  PROVE  IInv' /\ tx' \in Transactions
<1>1. /\ tx' = [op |-> op, msg |-> m, at |-> 1, done |-> done, last |-> last,
                delivery |-> 0, work |-> tables]
      /\ UNCHANGED <<tables, nextId, maxConns>> /\ answer' \in {None, Ok, Error}
  BY DEF WithTx, IInv, TypeOK
<1>2. tx' \in Transactions
  BY <1>1, BoundsAreNat DEF Transactions, IInv, TypeOK
<1>3. TypeOK'
  BY <1>1, <1>2 DEF IInv, TypeOK
<1>4. WorkGrows'
  <2>1. 1 \in DOMAIN Program(op)
    BY DEF Operations, Program
  <2> QED BY <1>1, <2>1, GrowsIsReflexive DEF WorkGrows
<1>5. SaveProgress' /\ OrdersOfWork'
  BY <1>1 DEF SaveProgress, OrdersOfWork
<1>6. IdsAreFresh' /\ StoredWhole' /\ OneConnectionStoresNothing'
  BY <1>1 DEF IInv, IdsAreFresh, StoredWhole, OneConnectionStoresNothing
<1>7. RowsKept'
  BY <1>1, RowsUnchanged DEF IInv, RowsKept
<1> QED BY <1>2, <1>3, <1>4, <1>5, <1>6, <1>7 DEF IInv

\* A statement that adds rows to the tables of its transaction, or none.
LEMMA StatementHolds ==
  ASSUME IInv, tx # None, NEW work \in Tables, Grows(tx.work, work),
         Program(tx.op)[tx.at] \notin {"commit", "delivery"}, Executed(work),
         \A d \in 1 .. MaxDeliveryId : work.deliveries[d] = tx.work.deliveries[d],
         \A u \in Uids : work.orders[u] # tx.work.orders[u] =>
             tx.op = "SaveOrder" /\ tx.at = 2 /\ u = Uid(tx.msg) /\ tx.work.orders[u] = None
             /\ work.orders[u] = [from |-> tx.msg, delivery |-> tx.delivery],
         tx.op = "SaveOrder" =>
           /\ tx.at = 2 => work.orders[Uid(tx.msg)] # None
           /\ tx.at = 3 => maxConns > 1
           /\ tx.at = 4 => tx.done = tx.last
           /\ tx.at = 6 => work.payments[Transaction(tx.msg)] # None,
         RowsOfMessages(work)
  PROVE  IInv' /\ Continues
<1>1. /\ tx \in Transactions
      /\ tx' = [tx EXCEPT !.work = work, !.at = @ + 1]
      /\ UNCHANGED <<tables, nextId, maxConns, answer>>
  BY DEF Executed, IInv, TypeOK
<1>2. tx.at \in 1 .. 7 /\ tx.at + 1 \in DOMAIN Program(tx.op) /\ tx.at + 1 \in 1 .. 7
  BY <1>1, Statements DEF Transactions, IInv, WorkGrows
<1>3. /\ tx' \in Transactions /\ tx'.op = tx.op /\ tx'.msg = tx.msg /\ tx'.at = tx.at + 1
      /\ tx'.done = tx.done /\ tx'.last = tx.last /\ tx'.delivery = tx.delivery
      /\ tx'.work = work
  BY <1>1, <1>2 DEF Transactions
<1>4. TypeOK'
  BY <1>1, <1>3 DEF IInv, TypeOK
<1>5. WorkGrows'
  BY <1>1, <1>2, <1>3, GrowsIsTransitive DEF IInv, WorkGrows
<1>6. SaveProgress'
  <2> SUFFICES ASSUME tx.op = "SaveOrder" PROVE SaveProgress'
    BY <1>3 DEF SaveProgress
  <2>1. tx.at # 1
    BY DEF Program
  <2>2. /\ tx.msg \in ValidMessages /\ tx.last = ItemCount(tx.msg)
        /\ tx.delivery \in 1 .. MaxDeliveryId /\ tx.work.deliveries[tx.delivery] = tx.msg
        /\ tx.at > 2 => tx.work.orders[Uid(tx.msg)] # None
        /\ tx.at > 3 => maxConns > 1
        /\ \A k \in 1 .. tx.done : tx.work.items[Item(tx.msg, k).chrt_id] # None
        /\ tx.at > 4 => tx.done = tx.last
        /\ tx.at > 6 => tx.work.payments[Transaction(tx.msg)] # None
    BY <2>1, <1>2 DEF IInv, SaveProgress
  <2>3. /\ tx.msg \in Messages /\ tx.done \in Nat /\ tx.last \in Nat /\ tx.done <= tx.last
    BY <1>1 DEF Transactions, IInv, WorkGrows
  <2>4. \A k \in 1 .. tx.done : work.items[Item(tx.msg, k).chrt_id] # None
    BY <2>2, <2>3, MessageFacts DEF Grows
  <2>5. work.deliveries[tx.delivery] = tx.msg
    BY <2>2
  <2>6. tx.at > 1 => work.orders[Uid(tx.msg)] # None
    <3>1. CASE tx.at = 2
      BY <3>1
    <3>2. CASE tx.at > 2
      BY <3>2, <2>2, <2>3, MessageFacts DEF Grows
    <3> QED BY <3>1, <3>2, <1>2
  <2>7. tx.at > 5 => work.payments[Transaction(tx.msg)] # None
    <3>1. CASE tx.at = 6
      BY <3>1
    <3>2. CASE tx.at > 6
      BY <3>2, <2>2, <2>3, MessageFacts DEF Grows
    <3> QED BY <3>1, <3>2, <1>2
  <2>8. /\ tx.at + 1 > 4 => tx.done = tx.last
        /\ tx.at + 1 > 3 => maxConns > 1
    BY <2>2, <1>2
  <2>9. /\ tx.at + 1 > 2 <=> tx.at > 1
        /\ tx.at + 1 > 6 <=> tx.at > 5
    BY <1>2
  <2> QED BY <1>1, <1>3, <2>2, <2>4, <2>5, <2>6, <2>7, <2>8, <2>9 DEF SaveProgress
<1>7. OrdersOfWork'
  <2> SUFFICES ASSUME NEW u \in Uids
               PROVE  \/ work.orders[u] = tables.orders[u]
                      \/ /\ tx.op = "SaveOrder" /\ tx.at + 1 > 2 /\ u = Uid(tx.msg)
                         /\ tables.orders[u] = None
                         /\ work.orders[u] = [from |-> tx.msg, delivery |-> tx.delivery]
    BY <1>1, <1>3 DEF OrdersOfWork
  <2>1. \/ tx.work.orders[u] = tables.orders[u]
        \/ /\ tx.op = "SaveOrder" /\ tx.at > 2 /\ u = Uid(tx.msg)
           /\ tables.orders[u] = None
           /\ tx.work.orders[u] = [from |-> tx.msg, delivery |-> tx.delivery]
    BY DEF IInv, OrdersOfWork
  <2>2. CASE work.orders[u] = tx.work.orders[u]
    BY <2>1, <2>2, <1>2
  <2>3. CASE work.orders[u] # tx.work.orders[u]
    BY <2>1, <2>3, <1>2
  <2> QED BY <2>2, <2>3
<1>8. IdsAreFresh' /\ StoredWhole' /\ OneConnectionStoresNothing'
  <2>1. IdsAreFresh'
    BY <1>1, <1>3 DEF IInv, IdsAreFresh
  <2>2. StoredWhole' /\ OneConnectionStoresNothing'
    BY <1>1 DEF IInv, StoredWhole, OneConnectionStoresNothing
  <2> QED BY <2>1, <2>2
<1>9. RowsKept'
  BY <1>1, <1>3 DEF IInv, RowsKept
<1> QED BY <1>3, <1>4, <1>5, <1>6, <1>7, <1>8, <1>9 DEF IInv, Continues

LEMMA DeliveryHolds ==
  ASSUME IInv, ExecDelivery
  PROVE  IInv' /\ Continues
<1> DEFINE id == nextId + 1
           work == [tx.work EXCEPT !.deliveries[id] = tx.msg]
<1>1. /\ tx # None /\ tx \in Transactions /\ Program(tx.op)[tx.at] = "delivery"
      /\ id \in 1 .. MaxDeliveryId /\ id > nextId /\ nextId' = id
      /\ UNCHANGED <<tables, maxConns, answer>>
  BY BoundsAreNat DEF ExecDelivery, AtStatement, IInv, TypeOK
<1>2. /\ tx.work \in Tables /\ tx.msg \in Messages /\ tx.op \in Operations
      /\ work \in Tables /\ tx.work.deliveries[id] = None
      /\ \A d \in 1 .. MaxDeliveryId :
           work.deliveries[d] = IF d = id THEN tx.msg ELSE tx.work.deliveries[d]
      /\ work.orders = tx.work.orders /\ work.payments = tx.work.payments
      /\ work.items = tx.work.items
  BY <1>1 DEF Transactions, Tables, IInv, IdsAreFresh
<1>3. tx' = [tx EXCEPT !.work = work, !.delivery = id, !.at = @ + 1]
  BY <1>1 DEF ExecDelivery, Transactions, Tables
<1>4. /\ tx.at + 1 \in DOMAIN Program(tx.op) /\ tx.at \in 1 .. 7 /\ tx.at + 1 \in 1 .. 7
      /\ tx.op = "SaveOrder" => tx.at = 1
  BY <1>1, <1>2, Statements DEF IInv, WorkGrows
<1>5. /\ tx' \in Transactions /\ tx'.op = tx.op /\ tx'.msg = tx.msg /\ tx'.at = tx.at + 1
      /\ tx'.done = tx.done /\ tx'.last = tx.last /\ tx'.delivery = id
      /\ tx'.work = work
  <2>1. work \in Tables /\ id \in 0 .. MaxDeliveryId
    BY <1>1, <1>2, BoundsAreNat
  <2> HIDE DEF work, id
  <2> QED BY <2>1, <1>1, <1>3, <1>4 DEF Transactions
<1>6. TypeOK'
  BY <1>1, <1>5, BoundsAreNat DEF IInv, TypeOK
<1>7. WorkGrows'
  <2>1. Grows(tx.work, work)
    BY <1>2 DEF Grows
  <2> QED BY <1>1, <1>4, <1>5, <2>1, GrowsIsTransitive DEF IInv, WorkGrows
<1>8. SaveProgress'
  BY <1>1, <1>2, <1>4, <1>5 DEF IInv, SaveProgress
<1>9. OrdersOfWork'
  BY <1>1, <1>2, <1>4, <1>5 DEF IInv, OrdersOfWork
<1>10. IdsAreFresh'
  BY <1>1, <1>2, <1>5 DEF IInv, IdsAreFresh, TypeOK
<1>11. StoredWhole' /\ OneConnectionStoresNothing'
  BY <1>1 DEF IInv, StoredWhole, OneConnectionStoresNothing
<1>12. RowsKept'
  <2>1. RowsOfMessages(tables) /\ RowsOfMessages(tx.work)
    BY <1>1 DEF IInv, RowsKept
  <2>2. RowsOfMessages(work)
    BY <1>2, <2>1, RowsUnchanged
  <2> QED BY <1>1, <1>5, <2>1, <2>2 DEF RowsKept
<1> QED BY <1>5, <1>6, <1>7, <1>8, <1>9, <1>10, <1>11, <1>12 DEF IInv, Continues

\* One turn of the loop over the items.
LEMMA ItemHolds ==
  ASSUME IInv, ExecItem
  PROVE  IInv' /\ Continues
<1> DEFINE k == tx.done + 1
           c == Item(tx.msg, k).chrt_id
           work == IF tx.work.items[c] # None THEN tx.work
                   ELSE [tx.work EXCEPT !.items[c] = [from |-> tx.msg, place |-> k]]
<1>1. /\ tx # None /\ tx \in Transactions /\ Program(tx.op)[tx.at] = "item"
      /\ tx.done < tx.last /\ UNCHANGED <<tables, nextId, maxConns, answer>>
  BY DEF ExecItem, AtStatement, IInv, TypeOK
<1>2. /\ tx.work \in Tables /\ tx.msg \in Messages /\ tx.op \in Operations
      /\ tx.done \in Nat /\ tx.last \in Nat /\ k \in Nat /\ k <= tx.last
  BY <1>1 DEF Transactions
<1>3. k \in 1 .. ItemCount(tx.msg) /\ c \in ChrtIds
  BY <1>1, <1>2, MessageFacts DEF IInv, WorkGrows
<1>4. /\ work \in Tables /\ work.items[c] # None
      /\ \A i \in ChrtIds \ {c} : work.items[i] = tx.work.items[i]
      /\ tx.work.items[c] # None => work.items[c] = tx.work.items[c]
      /\ work.orders = tx.work.orders /\ work.payments = tx.work.payments
      /\ work.deliveries = tx.work.deliveries
  <2>1. CASE tx.work.items[c] # None
    BY <2>1, <1>2
  <2>2. CASE tx.work.items[c] = None
    <3>1. [from |-> tx.msg, place |-> k] \in ItemRows
      BY <1>2 DEF ItemRows
    <3> QED BY <2>2, <3>1, <1>2, <1>3, MessagesNameRows DEF Tables
  <2> QED BY <2>1, <2>2
<1>5. tx' = [tx EXCEPT !.done = k, !.work = work]
  <2>1. CASE tx.work.items[c] # None
    BY <2>1, <1>1 DEF ExecItem, Transactions
  <2>2. CASE tx.work.items[c] = None
    BY <2>2, <1>1 DEF ExecItem, Transactions
  <2> QED BY <2>1, <2>2
<1>6. /\ tx' \in Transactions /\ tx'.op = tx.op /\ tx'.msg = tx.msg /\ tx'.at = tx.at
      /\ tx'.done = k /\ tx'.last = tx.last /\ tx'.delivery = tx.delivery /\ tx'.work = work
  BY <1>1, <1>2, <1>4, <1>5 DEF Transactions
<1>7. TypeOK'
  BY <1>1, <1>6 DEF IInv, TypeOK
<1>8. Grows(tx.work, work)
  BY <1>4 DEF Grows
<1>9. WorkGrows'
  BY <1>1, <1>2, <1>6, <1>8, GrowsIsTransitive DEF IInv, WorkGrows
<1>10. SaveProgress'
  <2> SUFFICES ASSUME tx.op = "SaveOrder" PROVE SaveProgress'
    BY <1>6 DEF SaveProgress
  <2>1. tx.at = 4
    BY <1>1, <1>2, Statements DEF IInv, WorkGrows
  <2>2. /\ tx.msg \in ValidMessages /\ tx.last = ItemCount(tx.msg)
        /\ tx.delivery \in 1 .. MaxDeliveryId /\ tx.work.deliveries[tx.delivery] = tx.msg
        /\ tx.work.orders[Uid(tx.msg)] # None /\ maxConns > 1
        /\ \A j \in 1 .. tx.done : tx.work.items[Item(tx.msg, j).chrt_id] # None
    BY <1>1, <2>1 DEF IInv, SaveProgress
  <2>3. \A j \in 1 .. k : work.items[Item(tx.msg, j).chrt_id] # None
    <3> SUFFICES ASSUME NEW j \in 1 .. k PROVE work.items[Item(tx.msg, j).chrt_id] # None
      OBVIOUS
    <3>1. CASE j = k
      BY <3>1, <1>4
    <3>2. CASE j # k
      <4>1. j \in 1 .. tx.done /\ j \in 1 .. ItemCount(tx.msg)
        BY <3>2, <1>2, <1>3, MessageFacts
      <4>2. tx.work.items[Item(tx.msg, j).chrt_id] # None /\ Item(tx.msg, j).chrt_id \in ChrtIds
        BY <4>1, <2>2, <1>2, MessageFacts
      <4> QED BY <4>2, <1>8 DEF Grows
    <3> QED BY <3>1, <3>2
  <2> QED BY <1>1, <1>4, <1>6, <2>1, <2>2, <2>3 DEF SaveProgress
<1>11. OrdersOfWork' /\ IdsAreFresh'
  BY <1>1, <1>4, <1>6 DEF IInv, OrdersOfWork, IdsAreFresh
<1>12. StoredWhole' /\ OneConnectionStoresNothing'
  BY <1>1 DEF IInv, StoredWhole, OneConnectionStoresNothing
<1>13. RowsKept'
  <2>1. RowsOfMessages(tables) /\ RowsOfMessages(tx.work)
    BY <1>1 DEF IInv, RowsKept
  <2>2. ItemFits(Item(tx.msg, k))
    BY DEF ExecItem
  <2>3. RowsOfMessages(work)
    <3>1. CASE tx.work.items[c] # None
      BY <2>1, <3>1
    <3>2. CASE tx.work.items[c] = None
      <4>1. work.items[c] = [from |-> tx.msg, place |-> k]
        BY <3>2, <1>2, <1>3 DEF Tables
      <4> HIDE DEF work
      <4>2. \A i \in ChrtIds : work.items[i] # None =>
              /\ work.items[i].place \in 1 .. ItemCount(work.items[i].from)
              /\ Item(work.items[i].from, work.items[i].place).chrt_id = i
              /\ ItemFits(Item(work.items[i].from, work.items[i].place))
        <5>1. ASSUME NEW i \in ChrtIds \ {c}, work.items[i] # None
              PROVE  /\ work.items[i].place \in 1 .. ItemCount(work.items[i].from)
                     /\ Item(work.items[i].from, work.items[i].place).chrt_id = i
                     /\ ItemFits(Item(work.items[i].from, work.items[i].place))
          BY <1>4, <2>1, <5>1 DEF RowsOfMessages
        <5>2. /\ work.items[c].place \in 1 .. ItemCount(work.items[c].from)
              /\ Item(work.items[c].from, work.items[c].place).chrt_id = c
              /\ ItemFits(Item(work.items[c].from, work.items[c].place))
          BY <1>3, <2>2, <4>1
        <5> QED BY <5>1, <5>2
      <4> QED BY <1>4, <2>1, <4>2 DEF RowsOfMessages
    <3> QED BY <3>1, <3>2
  <2> QED BY <1>1, <1>6, <2>1, <2>3 DEF RowsKept
<1> QED BY <1>6, <1>7, <1>9, <1>10, <1>11, <1>12, <1>13 DEF IInv, Continues

\* The other statements.
LEMMA ExecHolds ==
  ASSUME IInv, ExecOrder \/ BeginItems \/ EndLoop \/ EndItems \/ ExecPayment
  PROVE  IInv' /\ Continues
<1>1. tx # None /\ tx \in Transactions
  BY DEF ExecOrder, BeginItems, EndLoop, EndItems, ExecPayment, AtStatement, IInv, TypeOK
<1>2. /\ tx.work \in Tables /\ tx.msg \in Messages /\ tx.op \in Operations /\ tx.at \in 1 .. 7
      /\ tx.at \in DOMAIN Program(tx.op) /\ tx.delivery \in 0 .. MaxDeliveryId
  BY <1>1 DEF Transactions, IInv, WorkGrows
<1>3. /\ Program(tx.op)[tx.at] = "order" => tx.op = "SaveOrder" /\ tx.at = 2
      /\ tx.op = "SaveOrder" /\ Program(tx.op)[tx.at] = "begin" => tx.at = 3
      /\ tx.op = "SaveOrder" /\ Program(tx.op)[tx.at] = "item" => tx.at = 4
      /\ tx.op = "SaveOrder" /\ Program(tx.op)[tx.at] = "end" => tx.at = 5
      /\ tx.op = "SaveOrder" /\ Program(tx.op)[tx.at] = "payment" => tx.at = 6
  BY <1>2, Statements
<1>4. Uid(tx.msg) \in Uids /\ Transaction(tx.msg) \in Uids
  BY <1>2, MessageFacts
<1>5. Grows(tx.work, tx.work) /\ RowsOfMessages(tx.work)
  BY <1>1, GrowsIsReflexive DEF IInv, RowsKept
<1>6. CASE ExecOrder
  <2>1. tx.op = "SaveOrder" /\ tx.at = 2 /\ Program(tx.op)[tx.at] = "order"
    BY <1>3, <1>6 DEF ExecOrder, AtStatement
  <2>2. CASE tx.work.orders[Uid(tx.msg)] # None
    <3>1. Executed(tx.work)
      BY <1>6, <2>2 DEF ExecOrder
    <3> QED BY <1>1, <1>2, <1>5, <2>1, <2>2, <3>1, StatementHolds
  <2>3. CASE tx.work.orders[Uid(tx.msg)] = None
    <3> DEFINE w == [tx.work EXCEPT !.orders[Uid(tx.msg)] = NewRow]
    <3>1. Executed(w)
      BY <1>6, <2>3 DEF ExecOrder
    <3>2. NewRow \in OrderRows /\ NewRow # None
      BY <1>1, <1>2, <2>1, MessagesNameRows DEF NewRow, OrderRows, IInv, SaveProgress
    <3>3. /\ w \in Tables /\ w.deliveries = tx.work.deliveries
          /\ w.payments = tx.work.payments /\ w.items = tx.work.items
          /\ \A u \in Uids : w.orders[u] = IF u = Uid(tx.msg) THEN NewRow
                                           ELSE tx.work.orders[u]
      BY <1>2, <1>4, <3>2 DEF Tables
    <3>4. Grows(tx.work, w)
      BY <2>3, <3>3 DEF Grows
    <3> HIDE DEF w
    <3>5. RowsOfMessages(w)
      <4>1. NewRow.from = tx.msg /\ tx.msg \in ValidMessages
        BY <1>1, <2>1 DEF NewRow, IInv, SaveProgress
      <4> QED BY <1>5, <3>3, <4>1 DEF RowsOfMessages
    <3> QED BY <1>1, <1>4, <2>1, <2>3, <3>1, <3>2, <3>3, <3>4, <3>5, StatementHolds
            DEF NewRow
  <2> QED BY <2>2, <2>3
<1>7. CASE BeginItems
  <2>1. Executed(tx.work) /\ Program(tx.op)[tx.at] = "begin" /\ maxConns > 1
    BY <1>7 DEF BeginItems, AtStatement
  <2> QED BY <1>1, <1>2, <1>3, <1>5, <2>1, StatementHolds
<1>8. CASE EndLoop
  <2>1. Executed(tx.work) /\ Program(tx.op)[tx.at] = "item" /\ tx.done = tx.last
    BY <1>8 DEF EndLoop, AtStatement
  <2> QED BY <1>1, <1>2, <1>3, <1>5, <2>1, StatementHolds
<1>9. CASE EndItems
  <2>1. Executed(tx.work) /\ Program(tx.op)[tx.at] = "end"
    BY <1>9 DEF EndItems, AtStatement
  <2> QED BY <1>1, <1>2, <1>3, <1>5, <2>1, StatementHolds
<1>10. CASE ExecPayment
  <2>1. Program(tx.op)[tx.at] = "payment"
    BY <1>10 DEF ExecPayment, AtStatement
  <2>2. CASE tx.work.payments[Transaction(tx.msg)] # None
    <3>1. Executed(tx.work)
      BY <1>10, <2>2 DEF ExecPayment
    <3> QED BY <1>1, <1>2, <1>3, <1>5, <2>1, <2>2, <3>1, StatementHolds
  <2>3. CASE tx.work.payments[Transaction(tx.msg)] = None
    <3> DEFINE w == [tx.work EXCEPT !.payments[Transaction(tx.msg)] = tx.msg]
    <3>1. Executed(w)
      BY <1>10, <2>3 DEF ExecPayment
    <3>2. /\ w \in Tables /\ w.deliveries = tx.work.deliveries
          /\ w.orders = tx.work.orders /\ w.items = tx.work.items
          /\ \A u \in Uids : w.payments[u] = IF u = Transaction(tx.msg) THEN tx.msg
                                             ELSE tx.work.payments[u]
      BY <1>2, <1>4 DEF Tables
    <3>3. Grows(tx.work, w) /\ w.payments[Transaction(tx.msg)] # None
      BY <2>3, <3>2, <1>2, <1>4, MessagesNameRows DEF Grows
    <3> HIDE DEF w
    <3>4. RowsOfMessages(w)
      <4>1. PaymentFits(Content[tx.msg].payment)
        BY <1>10 DEF ExecPayment
      <4> QED BY <1>5, <3>2, <4>1 DEF RowsOfMessages
    <3> QED BY <1>1, <1>3, <2>1, <3>1, <3>2, <3>3, <3>4, StatementHolds
  <2> QED BY <2>2, <2>3
<1> QED BY <1>6, <1>7, <1>8, <1>9, <1>10

\* What a transaction that reaches its commit makes visible.
LEMMA CommitFacts ==
  ASSUME IInv, CommitTx
  PROVE  /\ tx # None /\ tx \in Transactions /\ Grows(tables, tables')
         /\ tx.op = "SaveOrder" =>
              /\ tx.at = 7 /\ maxConns > 1 /\ tx.msg \in ValidMessages
              /\ tables'.orders[Uid(tx.msg)] # None
              /\ tables'.deliveries[tx.delivery] = tx.msg
              /\ tables'.payments[Transaction(tx.msg)] # None
              /\ \A k \in 1 .. ItemCount(tx.msg) :
                   tables'.items[Item(tx.msg, k).chrt_id] # None
         /\ \A u \in Uids :
              \/ tables'.orders[u] = tables.orders[u]
              \/ /\ tx.op = "SaveOrder" /\ u = Uid(tx.msg) /\ tables.orders[u] = None
                 /\ tables'.orders[u] = [from |-> tx.msg, delivery |-> tx.delivery]
<1>1. /\ tx # None /\ tx \in Transactions /\ Program(tx.op)[tx.at] = "commit"
      /\ tables' = tx.work /\ Grows(tables, tx.work)
  BY DEF CommitTx, AtStatement, IInv, TypeOK, WorkGrows
<1>2. tx.op = "SaveOrder" => tx.at = 7
  BY <1>1, Statements DEF IInv, WorkGrows, Transactions
<1> QED BY <1>1, <1>2 DEF IInv, SaveProgress, OrdersOfWork

LEMMA CommitHolds ==
  ASSUME IInv, CommitTx
  PROVE  IInv'
<1>1. /\ tx # None /\ tx \in Transactions /\ tables' = tx.work /\ tx' = None
      /\ UNCHANGED <<nextId, maxConns>> /\ answer' \in {None, Ok, Error}
  BY CommitFacts DEF CommitTx, IInv, TypeOK
<1>2. TypeOK' /\ WorkGrows' /\ SaveProgress' /\ OrdersOfWork' /\ IdsAreFresh'
  BY <1>1 DEF IInv, TypeOK, Transactions, WorkGrows, SaveProgress, OrdersOfWork, IdsAreFresh
<1>3. StoredWhole'
  <2> SUFFICES ASSUME NEW u \in Uids, tables'.orders[u] # None
               PROVE  LET m == tables'.orders[u].from IN
                        /\ tables'.deliveries[tables'.orders[u].delivery] = m
                        /\ tables'.payments[Transaction(m)] # None
                        /\ \A k \in 1 .. ItemCount(m) :
                             tables'.items[Item(m, k).chrt_id] # None
    BY DEF StoredWhole
  <2>1. CASE tables'.orders[u] = tables.orders[u]
    <3> DEFINE m == tables.orders[u].from
               d == tables.orders[u].delivery
    <3>1. m \in Messages /\ d \in 1 .. MaxDeliveryId
      BY <2>1 DEF IInv, TypeOK, Tables, OrderRows
    <3>2. /\ tables.deliveries[d] = m /\ tables.payments[Transaction(m)] # None
          /\ \A k \in 1 .. ItemCount(m) : tables.items[Item(m, k).chrt_id] # None
      BY <2>1 DEF IInv, StoredWhole
    <3>3. /\ m # None /\ Transaction(m) \in Uids
          /\ \A k \in 1 .. ItemCount(m) : Item(m, k).chrt_id \in ChrtIds
      BY <3>1, MessageFacts
    <3>4. Grows(tables, tables')
      BY CommitFacts
    <3> HIDE DEF m, d
    <3>5. /\ tables'.deliveries[d] = m /\ tables'.payments[Transaction(m)] # None
          /\ \A k \in 1 .. ItemCount(m) : tables'.items[Item(m, k).chrt_id] # None
      BY <3>1, <3>2, <3>3, <3>4 DEF Grows
    <3> QED BY <3>5, <2>1 DEF m, d
  <2>2. CASE tables'.orders[u] # tables.orders[u]
    BY <2>2, CommitFacts
  <2> QED BY <2>1, <2>2
<1>4. OneConnectionStoresNothing'
  BY <1>1, CommitFacts DEF IInv, OneConnectionStoresNothing
<1>5. RowsKept'
  BY <1>1 DEF IInv, RowsKept
<1> QED BY <1>2, <1>3, <1>4, <1>5 DEF IInv

\* The rollback.
LEMMA FailHolds ==
  ASSUME IInv, Fail
  PROVE  IInv'
<1>1. tx' = None /\ UNCHANGED <<tables, nextId, maxConns>> /\ answer' \in {None, Ok, Error}
  BY DEF Fail, IInv, TypeOK
<1> QED BY <1>1 DEF IInv, TypeOK, WorkGrows, SaveProgress, OrdersOfWork, IdsAreFresh,
                    StoredWhole, OneConnectionStoresNothing, RowsKept

\* The operations, as WithTx calls that satisfy BeginHolds.
LEMMA CallsBegin ==
  ASSUME NEW m \in Messages,
         \/ SaveOrder(m) \/ InsertDelivery(m) \/ InsertPayment(m) \/ InsertItems(m)
         \/ \E k \in 1 .. ItemCount(m) : InsertItem(m, k)
  PROVE  \E op \in Operations, done, last \in Nat :
           /\ done <= last /\ last <= ItemCount(m) /\ WithTx(op, m, done, last)
           /\ op = "SaveOrder" => m \in ValidMessages /\ done = 0 /\ last = ItemCount(m)
<1>1. ItemCount(m) \in Nat
  BY MessageFacts
<1>2. CASE SaveOrder(m)
  BY <1>1, <1>2 DEF SaveOrder, Operations
<1>3. CASE InsertDelivery(m)
  BY <1>1, <1>3 DEF InsertDelivery, Operations
<1>4. CASE InsertPayment(m)
  BY <1>1, <1>4 DEF InsertPayment, Operations
<1>5. CASE InsertItems(m)
  BY <1>1, <1>5 DEF InsertItems, Operations
<1>6. CASE \E k \in 1 .. ItemCount(m) : InsertItem(m, k)
  <2>1. PICK k \in 1 .. ItemCount(m) : WithTx("InsertItem", m, k - 1, k)
    BY <1>6 DEF InsertItem
  <2>2. k - 1 \in Nat /\ k \in Nat /\ k - 1 <= k /\ k <= ItemCount(m)
    BY <1>1
  <2> QED BY <2>1, <2>2 DEF Operations
<1> QED BY <1>2, <1>3, <1>4, <1>5, <1>6

\* The inductive invariant holds whatever arrives and whatever fails.
THEOREM InvariantHolds == Spec => []IInv
<1>1. Init => IInv
  BY InitHolds
<1>2. IInv /\ [Next]_vars => IInv'
  <2> SUFFICES ASSUME IInv, [Next]_vars PROVE IInv'
    OBVIOUS
  <2>1. CASE UNCHANGED vars
    BY <2>1 DEF vars, IInv, TypeOK, WorkGrows, SaveProgress, OrdersOfWork, IdsAreFresh,
                StoredWhole, OneConnectionStoresNothing, RowsKept
  <2>2. ASSUME NEW m \in Messages,
               \/ SaveOrder(m) \/ InsertDelivery(m) \/ InsertPayment(m) \/ InsertItems(m)
               \/ \E k \in 1 .. ItemCount(m) : InsertItem(m, k)
        PROVE  IInv'
    BY <2>2, CallsBegin, BeginHolds
  <2>3. CASE ExecDelivery \/ ExecItem
    BY <2>3, DeliveryHolds, ItemHolds
  <2>4. CASE ExecOrder \/ BeginItems \/ EndLoop \/ EndItems \/ ExecPayment
    BY <2>4, ExecHolds
  <2>5. CASE CommitTx \/ Fail
    BY <2>5, CommitHolds, FailHolds
  <2> QED BY <2>1, <2>2, <2>3, <2>4, <2>5 DEF Next
<1> QED BY <1>1, <1>2, PTL DEF Spec

-----------------------------------------------------------------------------
\* The types of the repository's state.
THEOREM TypeCorrect == Spec => []TypeOK
<1>1. IInv => TypeOK
  BY DEF IInv
<1> QED BY <1>1, InvariantHolds, PTL

\* A stored order has its delivery, its payment and all of its items.
THEOREM OrdersAreWhole == Spec => []StoredWhole
<1>1. IInv => StoredWhole
  BY DEF IInv
<1> QED BY <1>1, InvariantHolds, PTL

\* A pool of one connection stores no order.
THEOREM PoolOfOneIsUseless == Spec => []OneConnectionStoresNothing
<1>1. IInv => OneConnectionStoresNothing
  BY DEF IInv
<1> QED BY <1>1, InvariantHolds, PTL

\* What a step may do to the committed tables.
LEMMA TablesStep ==
  ASSUME [Next]_vars
  PROVE  CommitTx \/ UNCHANGED tables
<1>1. CASE UNCHANGED vars
  BY <1>1 DEF vars
<1>2. CASE \E m \in Messages :
             \/ SaveOrder(m) \/ InsertDelivery(m) \/ InsertPayment(m) \/ InsertItems(m)
             \/ \E k \in 1 .. ItemCount(m) : InsertItem(m, k)
  BY <1>2 DEF SaveOrder, InsertDelivery, InsertPayment, InsertItems, InsertItem, WithTx
<1>3. CASE ExecDelivery \/ ExecItem
  BY <1>3 DEF ExecDelivery, ExecItem
<1>4. CASE ExecOrder \/ BeginItems \/ EndLoop \/ EndItems \/ ExecPayment
  BY <1>4 DEF ExecOrder, BeginItems, EndLoop, EndItems, ExecPayment, Executed
<1>5. CASE CommitTx \/ Fail
  BY <1>5 DEF Fail
<1> QED BY <1>1, <1>2, <1>3, <1>4, <1>5 DEF Next

\* No step changes or removes a committed row.
THEOREM RowsStay == Spec => CommittedRowsStay
<1>1. IInv /\ [Next]_vars => Grows(tables, tables')
  <2> SUFFICES ASSUME IInv, [Next]_vars PROVE Grows(tables, tables')
    OBVIOUS
  <2>1. CASE CommitTx
    BY <2>1, CommitFacts
  <2>2. CASE UNCHANGED tables
    BY <2>2, GrowsIsReflexive
  <2> QED BY <2>1, <2>2, TablesStep
<1> QED BY <1>1, InvariantHolds, PTL DEF Spec, CommittedRowsStay

-----------------------------------------------------------------------------
\* OrderStore's variables, as OrderRepo's determine them.
stored == [u \in Uids |-> IF tables.orders[u] = None THEN None ELSE tables.orders[u].from]
saved  == IF tx # None /\ tx.op = "SaveOrder" THEN tx.msg ELSE None

\* A statement of a transaction is no step of OrderStore.
LEMMA StatementStutters ==
  ASSUME IInv, ExecDelivery \/ ExecItem \/ ExecOrder \/ BeginItems \/ EndLoop
                 \/ EndItems \/ ExecPayment
  PROVE  UNCHANGED <<stored, saved, answer>>
<1>1. tx # None /\ tx \in Transactions
  BY DEF ExecDelivery, ExecItem, ExecOrder, BeginItems, EndLoop, EndItems, ExecPayment,
         AtStatement, IInv, TypeOK
<1>2. UNCHANGED <<tables, answer>>
  BY DEF ExecDelivery, ExecItem, ExecOrder, BeginItems, EndLoop, EndItems, ExecPayment,
         Executed
<1>3. tx' # None /\ tx'.op = tx.op /\ tx'.msg = tx.msg
  BY DeliveryHolds, ItemHolds, ExecHolds, MessagesNameRows DEF Continues
<1> QED BY <1>1, <1>2, <1>3 DEF stored, saved

\* The commit of SaveOrder is Commit; that of another insert changes no order.
LEMMA CommitRefines ==
  ASSUME IInv, CommitTx
  PROVE  \/ UNCHANGED <<stored, saved, answer>>
         \/ /\ saved # None /\ saved' = None /\ answer' \in {Ok, Error}
            /\ stored' = [stored EXCEPT ![Uid(saved)] = IF @ = None THEN saved ELSE @]
<1>1. tx # None /\ tx \in Transactions /\ tx' = None /\ tx.msg \in Messages
  BY CommitFacts DEF CommitTx, Transactions
<1>2. CASE tx.op # "SaveOrder"
  <2>1. \A u \in Uids : tables'.orders[u] = tables.orders[u]
    BY <1>2, CommitFacts
  <2> QED BY <1>1, <1>2, <2>1 DEF stored, saved, CommitTx
<1>3. CASE tx.op = "SaveOrder"
  <2> DEFINE m == tx.msg
  <2>1. saved = m /\ saved' = None /\ m # None /\ answer' \in {Ok, Error}
    BY <1>1, <1>3, MessageFacts DEF saved, CommitTx
  <2>2. Uid(m) \in Uids /\ tables'.orders[Uid(m)] # None
    BY <1>1, <1>3, CommitFacts, MessageFacts
  <2>3. ASSUME NEW u \in Uids
        PROVE  stored'[u] = IF u = Uid(m) /\ stored[u] = None THEN m ELSE stored[u]
    <3>1. tables.orders[u] # None => tables.orders[u].from # None
      BY MessagesNameRows DEF IInv, TypeOK, Tables, OrderRows
    <3>2. CASE tables'.orders[u] = tables.orders[u]
      BY <2>2, <3>1, <3>2 DEF stored
    <3>3. CASE tables'.orders[u] # tables.orders[u]
      <4>1. /\ u = Uid(m) /\ tables.orders[u] = None
            /\ tables'.orders[u] = [from |-> m, delivery |-> tx.delivery]
        BY <3>3, CommitFacts
      <4> QED BY <4>1, <2>2 DEF stored
    <3> QED BY <3>2, <3>3
  <2>4. stored' = [stored EXCEPT ![Uid(m)] = IF @ = None THEN m ELSE @]
    BY <2>2, <2>3 DEF stored
  <2> QED BY <2>1, <2>4
<1> QED BY <1>2, <1>3

\* OrderRepo implements OrderStore: whatever fails between its statements,
\* SaveOrder is one Commit or one Abort.
THEOREM ImplementsOrderStore == Spec => KeepsOrderStore
<1>1. Init => Store!StoreInit
  BY MessagesNameRows DEF Init, Store!StoreInit
<1>2. IInv /\ [Next]_vars => [Store!StoreNext]_(Store!storeVars)
  <2> SUFFICES ASSUME IInv, [Next]_vars PROVE [Store!StoreNext]_(Store!storeVars)
    OBVIOUS
  <2>1. ASSUME UNCHANGED <<stored, saved, answer>> PROVE UNCHANGED Store!storeVars
    BY <2>1 DEF stored, saved, Store!storeVars
  <2>2. CASE UNCHANGED vars
    BY <2>2 DEF vars, Store!storeVars
  <2>3. ASSUME NEW m \in Messages, SaveOrder(m) PROVE Store!Save(m) /\ m \in ValidMessages
    <3>1. /\ m \in ValidMessages /\ tx = None /\ tx'.op = "SaveOrder" /\ tx'.msg = m
          /\ answer' = None /\ UNCHANGED tables
      BY <2>3 DEF SaveOrder, WithTx
    <3>2. tx' # None
      <4>1. tx' \in Transactions
        BY <2>3, CallsBegin, BeginHolds
      <4> QED BY <4>1, MessagesNameRows
    <3> QED BY <3>1, <3>2 DEF Store!Save
  <2>4. ASSUME NEW m \in Messages,
               \/ InsertDelivery(m) \/ InsertPayment(m) \/ InsertItems(m)
               \/ \E k \in 1 .. ItemCount(m) : InsertItem(m, k)
        PROVE  UNCHANGED Store!storeVars
    BY <2>4 DEF InsertDelivery, InsertPayment, InsertItems, InsertItem, WithTx, Store!storeVars
  <2>5. CASE ExecDelivery \/ ExecItem \/ ExecOrder \/ BeginItems \/ EndLoop \/ EndItems
               \/ ExecPayment
    BY <2>1, <2>5, StatementStutters
  <2>6. CASE CommitTx
    BY <2>1, <2>6, CommitRefines DEF stored, saved, Store!StoreNext, Store!Commit
  <2>7. CASE Fail
    <3>1. tx # None /\ tx' = None /\ UNCHANGED tables /\ tx.msg # None
      BY <2>7, MessageFacts DEF Fail, IInv, TypeOK, Transactions
    <3>2. CASE tx.op = "SaveOrder"
      BY <2>7, <3>1, <3>2 DEF Fail, Store!StoreNext, Store!Abort
    <3>3. CASE tx.op # "SaveOrder"
      BY <2>7, <3>1, <3>3 DEF Fail, Store!storeVars
    <3> QED BY <3>2, <3>3
  <2> QED BY <2>2, <2>3, <2>4, <2>5, <2>6, <2>7 DEF Next, Store!StoreNext
<1> QED BY <1>1, <1>2, InvariantHolds, PTL DEF Spec, KeepsOrderStore, Store!StoreSpec
-----------------------------------------------------------------------------
\* What fits a word is not changed by wrapping.
LEMMA WrapIsExact ==
  ASSUME NEW x \in Int, -HalfWord <= x, x < HalfWord
  PROVE  Wrap(x) = x
<1>1. /\ HalfWord \in Nat /\ x + HalfWord \in Nat /\ 2 * HalfWord \in Nat
      /\ x + HalfWord < 2 * HalfWord
  BY WordsHoldColumns
<1>2. ASSUME NEW a \in Nat, NEW b \in Nat, a < b PROVE a % b = a
  BY <1>2
<1>3. (x + HalfWord) % (2 * HalfWord) = x + HalfWord
  BY <1>1, <1>2
<1> QED BY <1>1, <1>3 DEF Wrap

LEMMA WrapIsInt == ASSUME NEW x \in Int PROVE Wrap(x) \in Int
<1>1. 2 * HalfWord \in Nat \ {0} /\ x + HalfWord \in Int /\ HalfWord \in Int
  BY WordsHoldColumns
<1>2. ASSUME NEW a \in Int, NEW b \in Nat \ {0} PROVE a % b \in Int
  OBVIOUS
<1> QED BY <1>1, <1>2 DEF Wrap

\* The rows of an order that nobody else names: its own payment, its own items,
\* and no other item has its track_number.
Chrts(m, i) == {Item(m, k).chrt_id : k \in 1 .. i}

LEMMA OwnRows ==
  ASSUME IInv, NEW m \in OwnMessages, tables.orders[Uid(m)] # None
  PROVE  /\ m \in ValidMessages
         /\ tables.payments[Uid(m)] = m /\ PaymentFits(Content[m].payment)
         /\ \A k \in 1 .. ItemCount(m) :
              /\ ItemFits(Item(m, k))
              /\ StoredItem(Item(m, k).chrt_id) = Item(m, k)
         /\ \A k, l \in 1 .. ItemCount(m) :
              Item(m, k).chrt_id = Item(m, l).chrt_id => k = l
         /\ {c \in ChrtIds : /\ tables.items[c] # None
                             /\ StoredItem(c).track_number = Content[m].track_number}
              = Chrts(m, ItemCount(m))
<1>1. /\ m \in Messages /\ Own(m) /\ Uid(m) \in Uids /\ Transaction(m) = Uid(m)
      /\ \A k \in 1 .. ItemCount(m) : Item(m, k).chrt_id \in ChrtIds
  BY MessageFacts DEF OwnMessages, Own
<1>2. RowsOfMessages(tables) /\ tables \in Tables
  BY DEF IInv, RowsKept, TypeOK
<1>3. /\ tables.orders[Uid(m)].from \in ValidMessages
      /\ Uid(tables.orders[Uid(m)].from) = Uid(m)
  BY <1>1, <1>2 DEF RowsOfMessages
<1>4. tables.orders[Uid(m)].from = m
  BY <1>1, <1>3 DEF Own, ValidMessages
<1>5. /\ tables.payments[Uid(m)] # None
      /\ \A k \in 1 .. ItemCount(m) : tables.items[Item(m, k).chrt_id] # None
  BY <1>1, <1>4 DEF IInv, StoredWhole
<1>6. tables.payments[Uid(m)] = m /\ PaymentFits(Content[m].payment)
  <2>1. /\ tables.payments[Uid(m)] \in Messages
        /\ Transaction(tables.payments[Uid(m)]) = Uid(m)
        /\ PaymentFits(Content[tables.payments[Uid(m)]].payment)
    BY <1>1, <1>2, <1>5 DEF RowsOfMessages, Tables
  <2> QED BY <1>1, <2>1 DEF Own
\* A row of an item comes of m when its chrt_id or its track_number is one of m's.
<1>7. ASSUME NEW c \in ChrtIds, tables.items[c] # None,
             \/ \E k \in 1 .. ItemCount(m) : c = Item(m, k).chrt_id
             \/ StoredItem(c).track_number = Content[m].track_number
      PROVE  /\ tables.items[c].from = m /\ tables.items[c].place \in 1 .. ItemCount(m)
             /\ Item(m, tables.items[c].place).chrt_id = c
             /\ ItemFits(Item(m, tables.items[c].place))
  <2> DEFINE n == tables.items[c].from
             l == tables.items[c].place
  <2>1. /\ n \in Messages /\ l \in 1 .. ItemCount(n) /\ Item(n, l).chrt_id = c
        /\ ItemFits(Item(n, l))
    BY <1>2, <1>7 DEF RowsOfMessages, Tables, ItemRows
  <2>2. n = m
    <3>1. SUFFICES ASSUME n \in Messages \ {m} PROVE FALSE
      BY <2>1
    <3> HIDE DEF n, l
    <3>2. /\ Item(n, l).track_number # Content[m].track_number
          /\ \A k \in 1 .. ItemCount(m) : Item(n, l).chrt_id # Item(m, k).chrt_id
      <4>1. 1 \in 1 .. ItemCount(m)
        BY <1>1, <1>3, <1>4, MessageFacts, MessagesNameRows
        DEF ValidMessages, Valid, OrderRequired, ItemCount
      <4> QED BY <1>1, <2>1, <3>1, <4>1 DEF Own
    <3> QED BY <1>7, <2>1, <3>2 DEF StoredItem, n, l
  <2> QED BY <2>1, <2>2
<1>8. ASSUME NEW k \in 1 .. ItemCount(m)
      PROVE  /\ ItemFits(Item(m, k)) /\ StoredItem(Item(m, k).chrt_id) = Item(m, k)
  <2> DEFINE c == Item(m, k).chrt_id
  <2>1. /\ tables.items[c].from = m /\ tables.items[c].place \in 1 .. ItemCount(m)
        /\ Item(m, tables.items[c].place).chrt_id = c
        /\ ItemFits(Item(m, tables.items[c].place))
    BY <1>1, <1>5, <1>7
  <2>2. tables.items[c].place = k
    BY <1>1, <2>1 DEF Own
  <2> QED BY <2>1, <2>2 DEF StoredItem
<1>9. {c \in ChrtIds : /\ tables.items[c] # None
                       /\ StoredItem(c).track_number = Content[m].track_number}
        = Chrts(m, ItemCount(m))
  <2>1. ASSUME NEW c \in ChrtIds, tables.items[c] # None,
               StoredItem(c).track_number = Content[m].track_number
        PROVE  c \in Chrts(m, ItemCount(m))
    BY <1>7, <2>1 DEF Chrts
  <2>2. ASSUME NEW c \in Chrts(m, ItemCount(m))
        PROVE  /\ c \in ChrtIds /\ tables.items[c] # None
               /\ StoredItem(c).track_number = Content[m].track_number
    <3>1. PICK k \in 1 .. ItemCount(m) : c = Item(m, k).chrt_id
      BY DEF Chrts
    <3>2. Item(m, k).track_number = Content[m].track_number
      BY <1>1 DEF Own
    <3> QED BY <1>1, <1>5, <1>8, <3>1, <3>2
  <2> QED BY <2>1, <2>2
<1> QED BY <1>1, <1>3, <1>4, <1>6, <1>8, <1>9 DEF Own

\* The loop of Validate over the items of such an order, in words that wrap
\* around, and the sum of its rows, in exact arithmetic and in any order, agree
\* item by item.
LEMMA TotalsAgree ==
  ASSUME IInv, NEW m \in OwnMessages, tables.orders[Uid(m)] # None
  PROVE  /\ GoodsTotal(Content[m].track_number) = ItemTotal(Content[m].items)
         /\ ItemTotal(Content[m].items) \in Nat
<1> DEFINE items == Content[m].items
           N == ItemCount(m)
           P == 1 .. N
           S == Chrts(m, N)
           Looped(it) == it = [s \in SUBSET P |->
                                 IF s = {} THEN 0
                                 ELSE Wrap(it[s \ {Largest(s)}] + items[Largest(s)].total_price)]
           loop == CHOOSE it : Looped(it)
           Chosen(s) == CHOOSE x \in s : TRUE
           Summed(it) == it = [s \in SUBSET S |->
                                 IF s = {} THEN 0
                                 ELSE StoredItem(Chosen(s)).total_price + it[s \ {Chosen(s)}]]
           sum == CHOOSE it : Summed(it)
           price == [c \in S |-> StoredItem(c).total_price]
<1>1. /\ m \in Messages /\ m \in ValidMessages /\ N \in Nat /\ items \in Seq(Range(items))
      /\ DOMAIN items = P /\ N = Len(items) /\ N * HalfColumn <= HalfWord
      /\ HalfColumn \in Nat /\ HalfWord \in Nat /\ HalfWord > 0
      /\ \A k \in P : items[k].total_price \in Int
  BY OwnRows, MessageFacts, MessagesNameRows, AmountsAreInts, WordsHoldColumns
  DEF OwnMessages, ItemCount
<1>2. /\ \A k \in P : /\ 0 <= items[k].total_price /\ items[k].total_price < HalfColumn
                      /\ Item(m, k).chrt_id \in S
                      /\ price[Item(m, k).chrt_id] = items[k].total_price
      /\ \A k, l \in P : Item(m, k).chrt_id = Item(m, l).chrt_id => k = l
  <2>1. ASSUME NEW k \in P
        PROVE  0 <= items[k].total_price /\ items[k].total_price < HalfColumn
    BY <1>1, OwnRows DEF ValidMessages, Valid, ItemValid, ItemFits, InColumn, Item
  <2>2. ASSUME NEW k \in P
        PROVE  /\ Item(m, k).chrt_id \in S
               /\ price[Item(m, k).chrt_id] = items[k].total_price
    BY OwnRows DEF Item, Chrts
  <2> QED BY <2>1, <2>2, OwnRows
<1>3. IsFiniteSet(S) /\ price \in [S -> Int] /\ IsFiniteSet(P)
  <2>1. IsFiniteSet(P)
    <3>1. N \in Int /\ 1 \in Int
      BY <1>1
    <3> HIDE DEF N
    <3> QED BY <3>1, FS_Interval
  <2>2. S = {Item(m, k).chrt_id : k \in P}
    BY DEF Chrts
  <2>3. IsFiniteSet(S)
    <3> DEFINE f == [k \in P |-> Item(m, k).chrt_id]
    <3>1. f \in Surjection(P, S)
      BY <2>2 DEF Surjection
    <3> HIDE DEF f, P, S
    <3> QED BY <2>1, <3>1, FS_Surjection
  <2>4. \A c \in S : price[c] \in Int
    BY <1>1, <1>2, <2>2
  <2> QED BY <2>1, <2>3, <2>4
<1>4. ItemTotal(items) = loop[P]
  BY <1>1 DEF ItemTotal, FoldLeft, MapThenFoldSet, Max, Largest
<1>5. GoodsTotal(Content[m].track_number) = sum[S]
  BY OwnRows DEF GoodsTotal, MapThenSumSet, MapThenFoldSet
<1>6. Looped(loop)
  <2> DEFINE G == [p \in P \X Int |-> Wrap(p[2] + items[p[1]].total_price)]
             pick == [s \in (SUBSET P) \ {{}} |-> Largest(s)]
  <2>1. \A s \in SUBSET P : s # {} => pick[s] \in s /\ pick[s] = Largest(s)
    <3>1. ASSUME NEW s \in SUBSET P, s # {} PROVE Largest(s) \in s
      <4>1. N \in Nat /\ s \in SUBSET (1 .. N)
        BY <1>1
      <4> HIDE DEF N, P
      <4> QED BY <3>1, <4>1, LargestIsMember
    <3> QED BY <3>1
  <2>2. G \in [P \X Int -> Int]
    <3>1. ASSUME NEW k \in P, NEW x \in Int PROVE Wrap(x + items[k].total_price) \in Int
      <4>1. x + items[k].total_price \in Int
        BY <1>1
      <4> QED BY <4>1, WrapIsInt
    <3> QED BY <3>1
  <2>3. PICK f \in [SUBSET P -> Int] : IsFold(f, P, 0, G, pick)
    <3>1. Picks(pick, P)
      BY <2>1 DEF Picks
    <3>2. 0 \in Int
      OBVIOUS
    <3> HIDE DEF P, G, pick
    <3> QED BY <1>3, <2>2, <3>1, <3>2, FoldExists
  <2>4. ASSUME NEW s \in SUBSET P
        PROVE  f[s] = IF s = {} THEN 0
                      ELSE Wrap(f[s \ {Largest(s)}] + items[Largest(s)].total_price)
    <3>1. CASE s = {}
      BY <2>3, <3>1 DEF IsFold
    <3>2. CASE s # {}
      <4>1. pick[s] = Largest(s) /\ Largest(s) \in P /\ f[s \ {Largest(s)}] \in Int
        BY <2>1, <2>3, <3>2
      <4>2. G[<<Largest(s), f[s \ {Largest(s)}]>>]
              = Wrap(f[s \ {Largest(s)}] + items[Largest(s)].total_price)
        BY <4>1
      <4> HIDE DEF G, pick
      <4> QED BY <2>3, <3>2, <4>1, <4>2 DEF IsFold
    <3> QED BY <3>1, <3>2
  <2>5. Looped(f)
    BY <2>3, <2>4
  <2> HIDE DEF Looped
  <2> QED BY <2>5
<1>7. Summed(sum)
  <2> DEFINE G == [p \in S \X Int |-> price[p[1]] + p[2]]
             pick == [s \in (SUBSET S) \ {{}} |-> Chosen(s)]
  <2>1. \A s \in SUBSET S : s # {} => pick[s] \in s /\ pick[s] = Chosen(s)
    OBVIOUS
  <2>2. G \in [S \X Int -> Int]
    BY <1>3
  <2>3. PICK f \in [SUBSET S -> Int] : IsFold(f, S, 0, G, pick)
    <3>1. Picks(pick, S) /\ 0 \in Int
      BY <2>1 DEF Picks
    <3> HIDE DEF S, G, pick
    <3> QED BY <1>3, <2>2, <3>1, FoldExists
  <2>4. ASSUME NEW s \in SUBSET S
        PROVE  f[s] = IF s = {} THEN 0
                      ELSE StoredItem(Chosen(s)).total_price + f[s \ {Chosen(s)}]
    <3>1. CASE s = {}
      BY <2>3, <3>1 DEF IsFold
    <3>2. CASE s # {}
      <4>1. pick[s] = Chosen(s) /\ Chosen(s) \in S /\ f[s \ {Chosen(s)}] \in Int
        BY <2>1, <2>3, <3>2
      <4>2. G[<<Chosen(s), f[s \ {Chosen(s)}]>>]
              = StoredItem(Chosen(s)).total_price + f[s \ {Chosen(s)}]
        <5>1. \A c \in S : price[c] = StoredItem(c).total_price
          OBVIOUS
        <5> HIDE DEF price, S, Chosen
        <5> QED BY <4>1, <5>1
      <4> HIDE DEF G, pick, Chosen
      <4> QED BY <2>3, <3>2, <4>1, <4>2 DEF IsFold
    <3> QED BY <3>1, <3>2
  <2>5. Summed(f)
    BY <2>3, <2>4
  <2> HIDE DEF Summed
  <2> QED BY <2>5
<1>8. \A s \in SUBSET S : sum[s] \in Int /\ \A c \in s : sum[s] = price[c] + sum[s \ {c}]
  <2> DEFINE pick == [s \in (SUBSET S) \ {{}} |-> Chosen(s)]
  <2>1. Picks(pick, S)
    BY DEF Picks
  <2>2. ASSUME NEW s \in SUBSET S
        PROVE  sum[s] = IF s = {} THEN 0 ELSE price[pick[s]] + sum[s \ {pick[s]}]
    <3>1. s # {} => pick[s] = Chosen(s) /\ Chosen(s) \in S
      OBVIOUS
    <3>2. sum[s] = IF s = {} THEN 0
                   ELSE StoredItem(Chosen(s)).total_price + sum[s \ {Chosen(s)}]
      <4> HIDE DEF sum, Chosen
      <4> QED BY <1>7
    <3>3. s # {} => price[Chosen(s)] = StoredItem(Chosen(s)).total_price
      BY <3>1
    <3> HIDE DEF sum, Chosen, pick, price
    <3> QED BY <3>1, <3>2, <3>3
  <2> HIDE DEF S, price, sum, pick
  <2>3. IsSum(sum, S, price, pick)
    BY <2>2 DEF IsSum
  <2> QED BY <1>3, <2>1, <2>3, SumRemovesAny
<1> HIDE DEF loop, sum, price
<1> DEFINE Sum(i) == sum[Chrts(m, i)]
           D == {i \in 0 .. N : /\ loop[1 .. i] = Sum(i)
                                /\ 0 <= Sum(i) /\ Sum(i) <= i * HalfColumn}
<1>9. \A i \in 0 .. N : Sum(i) \in Int
  <2>1. \A i \in 0 .. N : Chrts(m, i) \in SUBSET S
    BY <1>1 DEF Chrts
  <2> HIDE DEF S
  <2> QED BY <1>8, <2>1
<1>10. 0 \in D
  <2>1. 1 .. 0 = {} /\ Chrts(m, 0) = {}
    BY DEF Chrts
  <2>2. loop[{}] = 0 /\ sum[{}] = 0
    BY <1>6, <1>7
  <2>3. 0 \in 0 .. N /\ 0 * HalfColumn = 0
    BY <1>1
  <2> HIDE DEF N
  <2> QED BY <2>1, <2>2, <2>3
<1>11. ASSUME NEW i \in 0 .. N - 1, i \in D PROVE i + 1 \in D
  <2> DEFINE c == Item(m, i + 1).chrt_id
             p == items[i + 1].total_price
  <2>1. /\ i \in Nat /\ i + 1 \in P /\ i + 1 \in 0 .. N /\ 1 .. i + 1 \in SUBSET P
        /\ 1 .. i + 1 # {} /\ i \in 0 .. N
    <3>1. N \in Nat /\ i \in Nat /\ i + 1 <= N
      BY <1>1
    <3>2. 1 \in 1 .. i + 1 /\ \A j \in 1 .. i + 1 : j \in P
      BY <3>1
    <3> QED BY <3>1, <3>2
  <2>2. loop[1 .. i + 1] = Wrap(Sum(i) + p)
    <3>1. Largest(1 .. i + 1) = i + 1 /\ (1 .. i + 1) \ {i + 1} = 1 .. i
      BY <2>1, LargestOfPrefix
    <3> HIDE DEF Sum
    <3> QED BY <1>6, <1>11, <2>1, <3>1
  <2>3. Sum(i + 1) = p + Sum(i)
    <3>1. Chrts(m, i + 1) \in SUBSET S /\ c \in Chrts(m, i + 1)
      BY <1>1, <2>1 DEF Chrts
    <3>2. Chrts(m, i + 1) \ {c} = Chrts(m, i)
      <4>1. \A k \in 1 .. i : k \in P /\ k # i + 1 /\ k \in 1 .. i + 1
        BY <1>1, <2>1
      <4>2. \A k \in 1 .. i + 1 : k = i + 1 \/ k \in 1 .. i
        BY <2>1
      <4> QED BY <1>2, <2>1, <4>1, <4>2 DEF Chrts
    <3>3. price[c] = p
      BY <1>2, <2>1
    <3> HIDE DEF S, c, p
    <3> QED BY <1>8, <3>1, <3>2, <3>3
  <2>4. Sum(i) \in Int /\ 0 <= Sum(i) /\ Sum(i) <= i * HalfColumn
        /\ p \in Int /\ 0 <= p /\ p < HalfColumn
    BY <1>1, <1>2, <1>9, <1>11, <2>1
  <2>5. (i + 1) * HalfColumn = i * HalfColumn + HalfColumn
        /\ (i + 1) * HalfColumn <= N * HalfColumn /\ i * HalfColumn \in Int
    <3>1. \A a, b, h \in Nat : a <= b => a * h <= b * h
      OBVIOUS
    <3>2. \A a, h \in Nat : (a + 1) * h = a * h + h /\ a * h \in Int
      OBVIOUS
    <3>3. i \in Nat /\ i + 1 \in Nat /\ i + 1 <= N /\ N \in Nat /\ HalfColumn \in Nat
      BY <1>1, <2>1
    <3> HIDE DEF N
    <3> QED BY <3>1, <3>2, <3>3
  <2> HIDE DEF Sum, p, N
  <2>6. /\ Sum(i) + p \in Int /\ 0 <= Sum(i) + p /\ Sum(i) + p < HalfWord
        /\ Sum(i) + p <= (i + 1) * HalfColumn
    <3>1. N * HalfColumn \in Int
      BY <1>1
    <3> QED BY <1>1, <2>4, <2>5, <3>1
  <2>7. Wrap(Sum(i) + p) = Sum(i) + p
    BY <1>1, <2>6, WrapIsExact
  <2>8. Sum(i) + p = p + Sum(i)
    BY <2>4
  <2> QED BY <2>1, <2>2, <2>3, <2>6, <2>7, <2>8
<1>12. N \in D
  <2>1. \A i \in 0 .. N : i \in D
    <3> HIDE DEF D, N
    <3> QED BY <1>1, <1>10, <1>11, InductionUpTo
  <2> HIDE DEF D
  <2> QED BY <1>1, <2>1
<1>13. loop[P] = sum[S] /\ sum[S] \in Int /\ 0 <= sum[S]
  BY <1>1, <1>9, <1>12
<1> QED BY <1>4, <1>5, <1>13

\* The totals of a stored order that nobody else names add up in its rows: a sum
\* that wrapped around would not fit the columns.
THEOREM TotalsAddUp == Spec => []StoredTotalsAddUp
<1>1. ASSUME IInv, NEW m \in OwnMessages, tables.orders[Uid(m)] # None
      PROVE  LET p == Content[tables.payments[Uid(m)]].payment
                 g == GoodsTotal(Content[m].track_number)
             IN  p.goods_total = g /\ p.amount = g + p.delivery_cost + p.custom_fee
  <2> DEFINE p == Content[m].payment
             g == ItemTotal(Content[m].items)
  <2>1. /\ m \in Messages /\ Valid(Content[m]) /\ PaymentFits(p)
        /\ tables.payments[Uid(m)] = m
    BY <1>1, OwnRows DEF ValidMessages
  <2>2. GoodsTotal(Content[m].track_number) = g /\ g \in Nat
    BY <1>1, TotalsAgree
  <2>3. p.goods_total = g /\ p.amount = Wrap(Wrap(g + p.delivery_cost) + p.custom_fee)
    BY <2>1 DEF Valid, OrderLogic
  <2>4. /\ p.delivery_cost \in Int /\ p.custom_fee \in Int
        /\ 0 <= p.delivery_cost /\ 0 <= p.custom_fee
        /\ p.delivery_cost < HalfColumn /\ p.custom_fee < HalfColumn /\ g < HalfColumn
    <3>1. p.delivery_cost \in Int /\ p.custom_fee \in Int
      BY <2>1, AmountsAreInts
    <3>2. 0 <= p.delivery_cost /\ 0 <= p.custom_fee
      BY <2>1, <3>1 DEF Valid, PaymentValid
    <3>3. p.delivery_cost < HalfColumn /\ p.custom_fee < HalfColumn /\ g < HalfColumn
      BY <2>1, <2>3 DEF PaymentFits, InColumn
    <3> QED BY <3>1, <3>2, <3>3
  <2> HIDE DEF p, g
  <2>5. /\ g + p.delivery_cost \in Int /\ -HalfWord <= g + p.delivery_cost
        /\ g + p.delivery_cost < HalfWord
    BY <2>2, <2>4, WordsHoldColumns
  <2>6. /\ g + p.delivery_cost + p.custom_fee \in Int
        /\ -HalfWord <= g + p.delivery_cost + p.custom_fee
        /\ g + p.delivery_cost + p.custom_fee < HalfWord
    BY <2>2, <2>4, WordsHoldColumns
  <2>7. p.amount = g + p.delivery_cost + p.custom_fee
    BY <2>3, <2>5, <2>6, WrapIsExact
  <2> QED BY <2>1, <2>2, <2>3, <2>7 DEF p
<1>2. IInv => StoredTotalsAddUp
  BY <1>1 DEF StoredTotalsAddUp
<1> QED BY <1>2, InvariantHolds, PTL
=============================================================================
