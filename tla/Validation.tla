----------------------------- MODULE Validation -----------------------------
(***************************************************************************)
(* Validate of models.Order, Delivery, Payment and Item, and which valid   *)
(* orders the columns of deployments' init.sql can hold.                   *)
(*                                                                         *)
(* A text field matters by two facts only: it may be blank, and a non-empty *)
(* one may fail the pattern or the date comparison its struct applies to   *)
(* it.  A record carries the names of such fields in `blank` and           *)
(* `malformed`.  Numbers are kept: sums and products are taken in words    *)
(* and wrap around; columns of type INT are narrower than words.           *)
(***************************************************************************)
EXTENDS Integers, SequencesExt

CONSTANTS
  HalfWord,   \* Go's int is of -HalfWord .. HalfWord - 1: 2^63
  HalfColumn  \* PostgreSQL's INT is of -HalfColumn .. HalfColumn - 1: 2^31

\* A word holds the sum of three columns, as that of amount's three summands.
ASSUME WordsHoldColumns ==
  /\ HalfWord \in Nat \ {0} /\ HalfColumn \in Nat \ {0}
  /\ 3 * HalfColumn <= HalfWord

Wrap(x)     == ((x + HalfWord) % (2 * HalfWord)) - HalfWord
InColumn(x) == -HalfColumn <= x /\ x < HalfColumn

\* Go's integer division truncates towards zero.
Percent(x) == IF x >= 0 THEN x \div 100 ELSE -((-x) \div 100)

-----------------------------------------------------------------------------
\* The loop of Order.validateLogic.
ItemTotal(items) == FoldLeft(LAMBDA sum, i : Wrap(sum + i.total_price), 0, items)

OrderRequired(o) ==
  /\ {"order_uid", "track_number", "entry", "customer_id"} \cap o.blank = {}
  /\ o.items # <<>>

OrderLogic(o) ==
  /\ {"order_uid", "date_created", "locale"} \cap o.malformed = {}
  /\ o.sm_id > 0
  /\ o.payment.goods_total = ItemTotal(o.items)
  /\ o.payment.amount =
       Wrap(Wrap(ItemTotal(o.items) + o.payment.delivery_cost) + o.payment.custom_fee)

DeliveryValid(d) ==
  /\ {"name", "phone", "address", "city"} \cap d.blank = {}
  /\ {"phone", "email", "zip"} \cap d.malformed = {}

PaymentValid(p) ==
  /\ {"transaction", "currency", "provider"} \cap p.blank = {}
  /\ {"currency", "payment_dt"} \cap p.malformed = {}
  /\ p.amount >= 0 /\ p.delivery_cost >= 0 /\ p.goods_total >= 0 /\ p.custom_fee >= 0

ItemValid(i) ==
  /\ {"track_number", "name", "brand"} \cap i.blank = {}
  /\ i.chrt_id > 0 /\ i.nm_id > 0
  /\ i.price >= 0 /\ i.total_price >= 0 /\ i.sale >= 0 /\ i.sale <= 100
  /\ i.total_price = Wrap(i.price - Percent(Wrap(i.price * i.sale)))

Valid(o) ==
  /\ OrderRequired(o) /\ OrderLogic(o)
  /\ DeliveryValid(o.delivery) /\ PaymentValid(o.payment)
  /\ \A k \in DOMAIN o.items : ItemValid(o.items[k])

-----------------------------------------------------------------------------
\* The INT columns of the four tables, sent to PostgreSQL as they are.  oof_shard
\* is a string in the message and an INT in the table.
OrderFits(o) == InColumn(o.sm_id) /\ "oof_shard" \notin o.malformed

\* Wrong variant, for mutation: delivery_cost and custom_fee in BIGINT columns.
PaymentFitsNarrowly(p) == InColumn(p.amount) /\ InColumn(p.goods_total)

PaymentFits(p) ==
  \A x \in {p.amount, p.delivery_cost, p.goods_total, p.custom_fee} : InColumn(x)

ItemFits(i) ==
  \A x \in {i.price, i.sale, i.total_price, i.status} : InColumn(x)
=============================================================================
