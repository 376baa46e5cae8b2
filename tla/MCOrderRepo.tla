---------------------------- MODULE MCOrderRepo -----------------------------
(***************************************************************************)
(* OrderRepo for TLC: messages that meet each other in the tables.  Words  *)
(* of 10 bits and columns of 3 keep the proportions that matter: a product *)
(* of a price in a column and a percentage fits a word, as does the sum of *)
(* the prices of one order.                                                *)
(***************************************************************************)
EXTENDS OrderRepo

Goods(c, t, price, sale, total) ==
  [chrt_id |-> c, track_number |-> t, price |-> price, sale |-> sale,
   total_price |-> total, nm_id |-> 1, status |-> 0, blank |-> {}]

Order(u, t, items, txn, goods, cost, fee, amount) ==
  [order_uid |-> u, track_number |-> t, sm_id |-> 1, items |-> items,
   blank |-> {}, malformed |-> {},
   delivery |-> [blank |-> {"zip"}, malformed |-> {}],
   payment |-> [transaction |-> txn, goods_total |-> goods, delivery_cost |-> cost,
                custom_fee |-> fee, amount |-> amount, blank |-> {}, malformed |-> {}]]

MCContent ==
 <<  \* an order of two items that nobody else mentions, 3 - 50% and 0
    Order("u0", "t0", <<Goods(10, "t0", 3, 50, 2), Goods(11, "t0", 0, 0, 0)>>, "u0", 2, 1, 0, 3),
    \* the same with totals that do not add up: invalid
    Order("u5", "t5", <<Goods(15, "t5", 3, 50, 2)>>, "u5", 3, 0, 0, 3),
    \* an order, and its redelivery with another item
    Order("u1", "t1", <<Goods(12, "t1", 1, 0, 1)>>, "u1", 1, 0, 1, 2),
    Order("u1", "t1", <<Goods(13, "t1", 2, 0, 2)>>, "u1", 2, 0, 0, 2),
    \* another order with the track_number and an item of that one
    Order("u2", "t1", <<Goods(12, "t1", 3, 0, 3)>>, "u2", 3, 0, 0, 3),
    \* an order whose payment and items name that one
    Order("u3", "t3", <<Goods(12, "t1", 1, 0, 1)>>, "u1", 1, 0, 0, 1),
    \* valid, for the amount wraps to 0, but too large for the columns
    Order("u4", "t4", <<Goods(14, "t4", 2, 0, 2)>>, "u4", 2, 511, 511, 0) >>

MCMessages == DOMAIN MCContent
=============================================================================
