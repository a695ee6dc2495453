------------------------------- MODULE Orders -------------------------------
(***************************************************************************)
(* The order and stock-reservation life cycle with one handler at a time:  *)
(* what order_service.py, its callers in the two bots and the periodic     *)
(* order_expiry_service.py promise when their transactions do not overlap. *)
(* Each action is one handler from the first read to the commit. Module    *)
(* OrdersRC drops the assumption that they do not overlap.                 *)
(*                                                                         *)
(* The periodic job may expire any candidate and any reservation: whether  *)
(* its deadline has passed is a matter of time, which is left open. It is  *)
(* modelled one order per step (orders expire independently).              *)
(***************************************************************************)
EXTENDS OrderOps

VARIABLES
  ord,        \* orders_consultations: order id -> row
  prod,       \* products: product id -> row
  override    \* history: products whose owner edited the stock, or confirmed
              \* an order that held no reservation

vars == <<ord, prod, override>>

Init ==
  /\ ord = [o \in OrderIds |-> NoOrder]
  /\ prod \in [ProductIds -> {[stock |-> s, reserved |-> 0, is_active |-> TRUE]
                                : s \in Stocks \cup {Unlimited}}]
  /\ override = {}

-----------------------------------------------------------------------------
\* _detect_and_notify_order with a "completed" result: the classifier's
\* product is one of the active products or none; a recent duplicate stops it.
Detect(o, c, p, q) ==
  /\ ord[o].status = Absent
  /\ p # NoProduct => prod[p].is_active
  /\ ~HasRecentDuplicate(ord, c, p)
  /\ ord' = [ord EXCEPT ![o] = CandidateRow(c, p, q)]
  /\ UNCHANGED <<prod, override>>

\* cb_customer_confirm_order.
CustomerConfirm(o) ==
  LET p == ord[o].product IN
  /\ ord[o].status = Awaiting
  /\ IF p = NoProduct
     THEN /\ ord' = [ord EXCEPT ![o] = CustomerConfirmPlain(@)]
          /\ UNCHANGED prod
     ELSE /\ ord' = [ord EXCEPT ![o] = CustomerConfirmOrder(@, prod[p])]
          /\ prod' = [prod EXCEPT ![p] = CustomerConfirmProduct(ord[o], @)]
  /\ UNCHANGED override

\* cb_customer_cancel_order.
CustomerCancel(o) ==
  /\ ord[o].status = Awaiting
  /\ ord' = [ord EXCEPT ![o] = CancelOrder(@)]
  /\ UNCHANGED <<prod, override>>

\* cb_confirm_order.
OwnerConfirm(o) ==
  LET p == ord[o].product IN
  /\ OwnerHasButtons(ord[o]) /\ OwnerMayConfirm(ord[o])
  /\ ord' = [ord EXCEPT ![o] = ConfirmOrder(@)]
  /\ prod' = [prod EXCEPT ![p] = ConfirmProduct(ord[o], @)]
  /\ override' = IF ord[o].stock_reserved THEN override ELSE override \cup {p}

\* Mutant: the old "reject" button still works on a confirmed order.
RejectAnyOrder(o) ==
  /\ ord[o].status \in {Pending, "confirmed"}
  /\ ord' = [ord EXCEPT ![o] = RejectOrder(@)]
  /\ UNCHANGED <<prod, override>>

\* cb_reject_order.
OwnerReject(o) ==
  LET p == ord[o].product IN
  /\ OwnerHasButtons(ord[o]) /\ ord[o].status = Pending
  /\ ord' = [ord EXCEPT ![o] = RejectOrder(@)]
  /\ prod' = [prod EXCEPT ![p] = ReleaseProduct(ord[o], @)]
  /\ UNCHANGED override

\* cb_advance_order.
OwnerAdvance(o) ==
  /\ OwnerHasButtons(ord[o]) /\ MayAdvance(ord[o])
  /\ ord' = [ord EXCEPT ![o] = AdvanceOrder(@)]
  /\ UNCHANGED <<prod, override>>

-----------------------------------------------------------------------------
\* Mutant: only candidates with a product time out.
ExpireProductCandidate(o) ==
  /\ ord[o].status = Awaiting /\ ord[o].product # NoProduct
  /\ ord' = [ord EXCEPT ![o] = CancelOrder(@)]
  /\ UNCHANGED <<prod, override>>

\* process_order_expiry: candidates the customer never answered ...
ExpireCandidate(o) ==
  /\ ord[o].status = Awaiting
  /\ ord' = [ord EXCEPT ![o] = CancelOrder(@)]
  /\ UNCHANGED <<prod, override>>

\* ... and reservations the owner never decided on.
ExpireReservation(o) ==
  LET p == ord[o].product IN
  /\ ReservationExpirable(ord[o])
  /\ ord' = [ord EXCEPT ![o] = ExpireOrder(@)]
  /\ IF p = NoProduct
     THEN UNCHANGED prod
     ELSE prod' = [prod EXCEPT ![p] = ReleaseProduct(ord[o], @)]
  /\ UNCHANGED override

\* edit_product_value_text / _apply_field_edit on the field "stock": the
\* owner types any number, or skips it, whatever is reserved.
EditStock(p, s) ==
  /\ prod[p].stock # s
  /\ prod' = [prod EXCEPT ![p].stock = s]
  /\ override' = override \cup {p}
  /\ UNCHANGED ord

\* product_service.soft_delete.
SoftDelete(p) ==
  /\ prod[p].is_active
  /\ prod' = [prod EXCEPT ![p].is_active = FALSE]
  /\ UNCHANGED <<ord, override>>

\* Ten minutes pass since the order was created.
LeaveDedupWindow(o) ==
  /\ ord[o].recent
  /\ ord' = [ord EXCEPT ![o].recent = FALSE]
  /\ UNCHANGED <<prod, override>>

-----------------------------------------------------------------------------
OrderStep(o) ==
  \/ \E c \in Customers, p \in ProductIds \cup {NoProduct},
        q \in Quantities \cup {0} : Detect(o, c, p, q)
  \/ CustomerConfirm(o)
  \/ CustomerCancel(o)
  \/ OwnerConfirm(o)
  \/ OwnerReject(o)
  \/ OwnerAdvance(o)
  \/ ExpireCandidate(o)
  \/ ExpireReservation(o)
  \/ LeaveDedupWindow(o)

ProductStep(p) ==
  \/ \E s \in Stocks \cup {Unlimited} : EditStock(p, s)
  \/ SoftDelete(p)

Next ==
  \/ \E o \in OrderIds : OrderStep(o)
  \/ \E p \in ProductIds : ProductStep(p)

Spec == Init /\ [][Next]_vars

\* run_periodic_tasks calls process_order_expiry every 30 minutes for as long
\* as the process lives, and every deadline passes. (Assumed: no earlier task of
\* the same loop raises in every pass, which would skip this one.)
FairSpec ==
  /\ Spec
  /\ \A o \in OrderIds : WF_vars(ExpireCandidate(o))
  /\ \A o \in OrderIds : WF_vars(ExpireReservation(o))

-----------------------------------------------------------------------------
\* The rows keep the types of their columns.
TypeOK ==
  /\ ord \in [OrderIds -> OrderRow]
  /\ prod \in [ProductIds -> ProductRow]
  /\ override \subseteq ProductIds

\* An order holds units only while it is PENDING, and only of a product: each
\* way out of PENDING (confirm, reject, expiry) gives the units back or turns
\* them into a sale, so no path leaks a reservation.
ReservedOnlyWhilePending ==
  \A o \in OrderIds :
    ord[o].stock_reserved => /\ ord[o].status = Pending
                             /\ ord[o].product # NoProduct

\* models.py keeps the legacy flag "confirmed" in step with "status": it is set
\* exactly when the status is CONFIRMED or later.
ConfirmedInSync ==
  \A o \in OrderIds : ord[o].confirmed <=> ord[o].status \in AdvanceStatus

\* A product's reserved_quantity covers every order that believes it holds
\* units of it, so releasing one order's units never hits the max(0, ...) of
\* _release_reservation and frees units another order holds.
ReservationsCovered ==
  \A p \in ProductIds : prod[p].reserved >= HeldUnits(ord, p)

\* Units promised to waiting customers are in stock, unless the owner decided
\* otherwise (edited the stock, or confirmed an order without reservation).
ReservationsBacked ==
  \A p \in ProductIds \ override :
    prod[p].stock # Unlimited => prod[p].reserved <= prod[p].stock

\* The dedup guard: within its window, a customer has at most one order of
\* the same type for the same product.
NoRecentDuplicates ==
  \A o1, o2 \in OrderIds :
    /\ ord[o1].recent /\ ord[o2].recent
    /\ ord[o1].customer = ord[o2].customer
    /\ ord[o1].product = ord[o2].product
    => o1 = o2

StatusRank(s) ==
  CASE s = Absent -> 0 [] s = Awaiting -> 1 [] s = Pending -> 2
    [] s \in {Rejected, Expired} -> 3
    [] s = "confirmed" -> 4 [] s = "processing" -> 5
    [] s = "shipped" -> 6 [] s \in {"completed", Cancelled} -> 7

\* An order never moves backwards: no handler re-opens a candidate, takes up one
\* its customer cancelled, un-confirms an order or takes a shipped one back,
\* whatever old button is pressed. (Confirming a rejected or expired order with
\* an old button is a step forward: confirm_order allows it.)
StatusMovesForward ==
  [][\A o \in OrderIds :
       StatusRank(ord'[o].status) >= StatusRank(ord[o].status)]_vars

\* No reservation lasts for ever: the owner decides or the job releases it.
ReservationEnds ==
  \A o \in OrderIds : ord[o].stock_reserved ~> ~ord[o].stock_reserved

\* No candidate waits for its customer for ever.
CandidateEnds ==
  \A o \in OrderIds : ord[o].status = Awaiting ~> ord[o].status # Awaiting
=============================================================================
