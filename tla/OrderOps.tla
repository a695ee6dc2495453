------------------------------ MODULE OrderOps ------------------------------
(***************************************************************************)
(* Rows of the tables orders_consultations and products, and what each     *)
(* function of order_service.py makes of the rows its session has loaded.  *)
(* Everything here is a pure operator: module Orders runs one handler at a *)
(* time over the committed rows, module OrdersRC runs the same operators   *)
(* over the rows a session has read, which other sessions may have changed *)
(* meanwhile.                                                              *)
(*                                                                         *)
(* Abstracted data: summary, phone, address, value and timestamps are left *)
(* out; quantity None is 0, since the code reads it as "quantity or 1".    *)
(***************************************************************************)
EXTENDS Integers, Functions

CONSTANTS
  OrderIds,      \* ids of orders_consultations rows
  ProductIds,    \* ids of products rows
  Customers,     \* (customer_id, type) pairs, the order's deduplication key
  Quantities,    \* quantities the classifier may report
  Stocks,        \* stock quantities an owner may type
  NoProduct,     \* product_id IS NULL
  Unlimited      \* stock_quantity IS NULL

ASSUME CustomersExist == Customers # {}
ASSUME QuantitiesAreNat == Quantities \subseteq Nat
ASSUME StocksAreNat == Stocks \subseteq Nat
ASSUME NoProductFresh == NoProduct \notin ProductIds
ASSUME UnlimitedFresh == Unlimited \notin Int

-----------------------------------------------------------------------------
\* Row types.

Absent     == "absent"       \* no row has been inserted under this id
Awaiting   == "awaiting_customer_confirmation"
Pending    == "pending"
Cancelled  == "cancelled"
Rejected   == "rejected"
Expired    == "expired"

\* _ADVANCE_SEQUENCE, as the position of each status in the list.
AdvanceStatus == {"confirmed", "processing", "shipped", "completed"}

NextStatus(s) ==
  CASE s = "confirmed"  -> "processing"
    [] s = "processing" -> "shipped"
    [] s = "shipped"    -> "completed"

Status ==
  {Absent, Awaiting, Pending, Cancelled, Rejected, Expired} \cup AdvanceStatus

OrderRow ==
  [status         : Status,
   confirmed      : BOOLEAN,
   stock_reserved : BOOLEAN,
   customer       : Customers,
   product        : ProductIds \cup {NoProduct},
   quantity       : Quantities \cup {0},
   recent         : BOOLEAN]  \* created_at is within the 10 minutes of dedup

ProductRow ==
  [stock     : Nat \cup {Unlimited},
   reserved  : Nat,
   is_active : BOOLEAN]

Units(o) == IF o.quantity = 0 THEN 1 ELSE o.quantity

AtLeastZero(n) == IF n >= 0 THEN n ELSE 0

\* What stands for an id under which no row has been inserted.
NoOrder ==
  [status |-> Absent, confirmed |-> FALSE, stock_reserved |-> FALSE,
   customer |-> CHOOSE c \in Customers : TRUE, product |-> NoProduct,
   quantity |-> 0, recent |-> FALSE]

-----------------------------------------------------------------------------
\* create_order_awaiting_confirmation: a candidate, nothing reserved.
CandidateRow(c, p, q) ==
  [status |-> Awaiting, confirmed |-> FALSE, stock_reserved |-> FALSE,
   customer |-> c, product |-> p,
   quantity |-> IF p = NoProduct THEN 0 ELSE q, recent |-> TRUE]

\* Mutant: only looks among the orders the customer has confirmed.
OnlyPendingDuplicate(rows, c, p) ==
  \E o \in DOMAIN rows : /\ rows[o].status = Pending /\ rows[o].recent
                        /\ rows[o].customer = c /\ rows[o].product = p

\* get_recent_duplicate over a table of order rows (the type is part of c).
HasRecentDuplicate(rows, c, p) ==
  \E o \in DOMAIN rows :
    /\ rows[o].status # Absent
    /\ rows[o].recent
    /\ rows[o].customer = c
    /\ rows[o].product = p

-----------------------------------------------------------------------------
\* Mutant: forgets what other orders hold already.
StockIsEnough(o, r) == r.stock # Unlimited /\ r.stock >= Units(o)

\* customer_confirm_order on a candidate o and its product row r.
CanReserve(o, r) ==
  /\ r.stock # Unlimited
  /\ r.stock - r.reserved >= Units(o)

CustomerConfirmOrder(o, r) ==
  [o EXCEPT !.status = Pending, !.stock_reserved = @ \/ CanReserve(o, r)]

CustomerConfirmProduct(o, r) ==
  IF CanReserve(o, r) THEN [r EXCEPT !.reserved = @ + Units(o)] ELSE r

\* The same without a product: only the status moves.
CustomerConfirmPlain(o) == [o EXCEPT !.status = Pending]

\* customer_cancel_order, and the timeout of a candidate.
CancelOrder(o) == [o EXCEPT !.status = Cancelled]

-----------------------------------------------------------------------------
\* Mutant: a confirmed order may be confirmed again.
MayConfirmAgain(o) == o.status \notin {Absent, Awaiting}

\* Mutant: the flag stock_reserved survives the confirmation.
ConfirmKeepingFlag(o) == [o EXCEPT !.confirmed = TRUE, !.status = "confirmed"]

\* Mutant: stock is not kept above zero.
ConfirmProductUnclamped(o, r) ==
  IF r.stock = Unlimited
  THEN r
  ELSE [r EXCEPT !.reserved = IF o.stock_reserved THEN @ - Units(o) ELSE @,
                 !.stock = @ - Units(o)]

\* cb_customer_confirm_order sends the owner an order's buttons, and only if
\* the order is of a product: those of other orders, and of candidates that
\* ended before, nobody can press.
OwnerHasButtons(o) ==
  /\ o.product # NoProduct
  /\ o.status \notin {Absent, Awaiting, Cancelled}

\* confirm_order: refused for a candidate and for a confirmed order.
OwnerMayConfirm(o) ==
  /\ o.status \notin {Absent, Awaiting}
  /\ ~o.confirmed

ConfirmOrder(o) ==
  [o EXCEPT !.confirmed = TRUE, !.status = "confirmed",
            !.stock_reserved = FALSE]

ConfirmProduct(o, r) ==
  IF r.stock = Unlimited
  THEN r
  ELSE [r EXCEPT !.reserved = IF o.stock_reserved
                              THEN AtLeastZero(@ - Units(o)) ELSE @,
                 !.stock = AtLeastZero(@ - Units(o))]

-----------------------------------------------------------------------------
\* Mutant: releases whether or not the order holds anything.
ReleaseAlways(o, r) == [r EXCEPT !.reserved = AtLeastZero(@ - Units(o))]

\* Mutant: looks for reservations among the candidates.
CandidateExpirable(o) == o.status = Awaiting /\ o.stock_reserved

\* _release_reservation, and its callers reject_order and
\* expire_stale_reservations.
ReleaseProduct(o, r) ==
  IF o.stock_reserved
  THEN [r EXCEPT !.reserved = AtLeastZero(@ - Units(o))]
  ELSE r

RejectOrder(o) == [o EXCEPT !.status = Rejected, !.stock_reserved = FALSE]

ExpireOrder(o) == [o EXCEPT !.status = Expired, !.stock_reserved = FALSE]

ReservationExpirable(o) == o.status = Pending /\ o.stock_reserved

\* advance_status: one step along the sequence, none from its end.
MayAdvance(o) == o.status \in AdvanceStatus \ {"completed"}

AdvanceOrder(o) == [o EXCEPT !.status = NextStatus(@)]

-----------------------------------------------------------------------------
\* Orders whose row says it holds units of product p, and how many.
Holders(rows, p) ==
  {o \in DOMAIN rows : rows[o].stock_reserved /\ rows[o].product = p}

HeldUnits(rows, p) ==
  SumFunctionOnSet([o \in DOMAIN rows |-> Units(rows[o])], Holders(rows, p))
=============================================================================
