---------------------------- MODULE OrdersProofs ----------------------------
(***************************************************************************)
(* Proofs about Orders and, from "The sessions of OrdersRC" on, about      *)
(* OrdersRC, for any sets of orders, products, customers, quantities,      *)
(* stocks and sessions. Liveness is left to TLC.                           *)
(***************************************************************************)
EXTENDS OrdersRC, TLAPS, FiniteSetTheorems, WellFoundedInduction

-----------------------------------------------------------------------------
\* What the operators of OrderOps do to a row's type.

\* An order always stands for a natural number of units ("quantity or 1").
LEMMA UnitsType ==
  ASSUME NEW o \in OrderRow
  PROVE  Units(o) \in Nat
BY QuantitiesAreNat DEF Units, OrderRow

\* The row that stands for "not inserted yet" is a row.
LEMMA NoOrderType == NoOrder \in OrderRow
BY CustomersExist DEF NoOrder, OrderRow, Status, Absent

\* customer_confirm_order writes a product row.
LEMMA CustomerConfirmProductType ==
  ASSUME NEW o \in OrderRow, NEW r \in ProductRow
  PROVE  CustomerConfirmProduct(o, r) \in ProductRow
<1>1. Units(o) \in Nat
  BY UnitsType
<1>2. QED
  BY <1>1 DEF CustomerConfirmProduct, ProductRow

\* confirm_order writes a product row: both max(0, ...) are needed.
LEMMA ConfirmProductType ==
  ASSUME NEW o \in OrderRow, NEW r \in ProductRow
  PROVE  ConfirmProduct(o, r) \in ProductRow
<1>1. Units(o) \in Nat
  BY UnitsType
<1>2. CASE r.stock = Unlimited
  BY <1>2 DEF ConfirmProduct
<1>3. CASE r.stock # Unlimited
  <2>1. r.stock \in Nat /\ r.reserved \in Nat
    BY <1>3 DEF ProductRow
  <2>2. AtLeastZero(r.stock - Units(o)) \in Nat
    BY <1>1, <2>1 DEF AtLeastZero
  <2>3. AtLeastZero(r.reserved - Units(o)) \in Nat
    BY <1>1, <2>1 DEF AtLeastZero
  <2>4. QED
    BY <1>3, <2>1, <2>2, <2>3 DEF ConfirmProduct, ProductRow
<1>4. QED
  BY <1>2, <1>3

\* _release_reservation writes a product row.
LEMMA ReleaseProductType ==
  ASSUME NEW o \in OrderRow, NEW r \in ProductRow
  PROVE  ReleaseProduct(o, r) \in ProductRow
<1>1. Units(o) \in Nat
  BY UnitsType
<1>2. AtLeastZero(r.reserved - Units(o)) \in Nat
  BY <1>1 DEF AtLeastZero, ProductRow
<1>3. QED
  BY <1>2 DEF ReleaseProduct, ProductRow

\* Every handler writes an order row.
LEMMA OrderRowTypes ==
  ASSUME NEW o \in OrderRow
  PROVE  /\ CustomerConfirmPlain(o) \in OrderRow
         /\ CancelOrder(o) \in OrderRow
         /\ ConfirmOrder(o) \in OrderRow
         /\ RejectOrder(o) \in OrderRow
         /\ ExpireOrder(o) \in OrderRow
         /\ MayAdvance(o) => AdvanceOrder(o) \in OrderRow
         /\ \A r : CustomerConfirmOrder(o, r) \in OrderRow
<1>1. /\ CustomerConfirmPlain(o) \in OrderRow
      /\ CancelOrder(o) \in OrderRow
      /\ ConfirmOrder(o) \in OrderRow
      /\ RejectOrder(o) \in OrderRow
      /\ ExpireOrder(o) \in OrderRow
  BY DEF CustomerConfirmPlain, CancelOrder, ConfirmOrder, RejectOrder,
         ExpireOrder, OrderRow, Status, AdvanceStatus, Pending, Cancelled,
         Rejected, Expired
<1>2. MayAdvance(o) => AdvanceOrder(o) \in OrderRow
  BY DEF MayAdvance, AdvanceOrder, NextStatus, OrderRow, Status, AdvanceStatus
<1>3. ASSUME NEW r PROVE CustomerConfirmOrder(o, r) \in OrderRow
  BY DEF CustomerConfirmOrder, CanReserve, OrderRow, Status, Pending
<1>4. QED
  BY <1>1, <1>2, <1>3
-----------------------------------------------------------------------------
\* The inductive invariant: an order that holds units is PENDING, one whose
\* flag "confirmed" is set has been confirmed, and only inserted rows are
\* recent. The handlers' guards read the status alone, their effects depend on
\* the flags, so neither half is preserved without the other.
RecentIsPresent == \A o \in OrderIds : ord[o].recent => ord[o].status # Absent

IInv ==
  /\ TypeOK
  /\ ReservedOnlyWhilePending
  /\ ConfirmedInSync
  /\ RecentIsPresent

\* The empty tables satisfy it.
LEMMA InitIInv == Init => IInv
<1> SUFFICES ASSUME Init PROVE IInv
  OBVIOUS
<1>1. TypeOK
  <2>1. ord \in [OrderIds -> OrderRow]
    BY NoOrderType DEF Init
  <2>2. ASSUME NEW s \in Stocks \cup {Unlimited}
        PROVE  [stock |-> s, reserved |-> 0, is_active |-> TRUE] \in ProductRow
    BY StocksAreNat DEF ProductRow
  <2>3. prod \in [ProductIds -> ProductRow]
    BY <2>2 DEF Init
  <2>4. QED
    BY <2>1, <2>3 DEF Init, TypeOK
<1>2. ReservedOnlyWhilePending /\ ConfirmedInSync /\ RecentIsPresent
  BY DEF Init, ReservedOnlyWhilePending, ConfirmedInSync, RecentIsPresent,
         NoOrder, Absent, AdvanceStatus
<1>3. QED
  BY <1>1, <1>2 DEF IInv

\* A row a handler may leave behind: what IInv says of one order.
RowInv(row) ==
  /\ row \in OrderRow
  /\ row.stock_reserved => row.status = Pending /\ row.product # NoProduct
  /\ row.confirmed <=> row.status \in AdvanceStatus
  /\ row.recent => row.status # Absent

\* IInv is RowInv of every order, and the products' types.
LEMMA IInvIsRowInv ==
  IInv <=> /\ ord \in [OrderIds -> OrderRow]
           /\ \A o \in OrderIds : RowInv(ord[o])
           /\ prod \in [ProductIds -> ProductRow]
           /\ override \subseteq ProductIds
BY DEF IInv, TypeOK, ReservedOnlyWhilePending, ConfirmedInSync,
       RecentIsPresent, RowInv

\* The candidate row satisfies RowInv.
LEMMA CandidateRowInv ==
  ASSUME NEW c \in Customers, NEW p \in ProductIds \cup {NoProduct},
         NEW q \in Quantities \cup {0}
  PROVE  RowInv(CandidateRow(c, p, q))
BY DEF RowInv, CandidateRow, OrderRow, Status, Awaiting, Pending, Absent,
       AdvanceStatus

\* Each handler keeps RowInv of the order it changes, under its own guard.
LEMMA HandlersKeepRowInv ==
  ASSUME NEW o, RowInv(o)
  PROVE  /\ o.status = Awaiting => RowInv(CancelOrder(o))
         /\ o.status = Awaiting => RowInv(CustomerConfirmPlain(o))
         /\ o.status = Awaiting /\ o.product # NoProduct =>
              \A r : RowInv(CustomerConfirmOrder(o, r))
         /\ OwnerMayConfirm(o) => RowInv(ConfirmOrder(o))
         /\ o.status = Pending => RowInv(RejectOrder(o))
         /\ ReservationExpirable(o) => RowInv(ExpireOrder(o))
         /\ MayAdvance(o) => RowInv(AdvanceOrder(o))
<1> USE DEF Status, Absent, Awaiting, Pending, Cancelled, Rejected, Expired,
            AdvanceStatus
<1>0. o \in OrderRow
  BY DEF RowInv
<1>1. o.status = Awaiting => RowInv(CancelOrder(o))
  BY <1>0 DEF RowInv, CancelOrder, OrderRow
<1>2. o.status = Awaiting => RowInv(CustomerConfirmPlain(o))
  BY <1>0 DEF RowInv, CustomerConfirmPlain, OrderRow
<1>3. ASSUME o.status = Awaiting, o.product # NoProduct, NEW r
      PROVE  RowInv(CustomerConfirmOrder(o, r))
  BY <1>0, <1>3 DEF RowInv, CustomerConfirmOrder, CanReserve, OrderRow
<1>4. OwnerMayConfirm(o) => RowInv(ConfirmOrder(o))
  BY <1>0 DEF RowInv, OwnerMayConfirm, ConfirmOrder, OrderRow
<1>5. o.status = Pending => RowInv(RejectOrder(o))
  BY <1>0 DEF RowInv, RejectOrder, OrderRow
<1>6. ReservationExpirable(o) => RowInv(ExpireOrder(o))
  BY <1>0 DEF RowInv, ReservationExpirable, ExpireOrder, OrderRow
<1>7. MayAdvance(o) => RowInv(AdvanceOrder(o))
  BY <1>0 DEF RowInv, MayAdvance, AdvanceOrder, NextStatus, OrderRow
<1>8. QED
  BY <1>1, <1>2, <1>3, <1>4, <1>5, <1>6, <1>7

-----------------------------------------------------------------------------
\* A step that replaces the rows of one order and, perhaps, one product keeps
\* IInv if the new rows are good.
LEMMA OneOrderStep ==
  ASSUME IInv, NEW o \in OrderIds, NEW row, RowInv(row),
         ord' = [ord EXCEPT ![o] = row],
         prod' \in [ProductIds -> ProductRow],
         override' \subseteq ProductIds
  PROVE  IInv'
<1>1. /\ ord \in [OrderIds -> OrderRow]
      /\ \A x \in OrderIds : RowInv(ord[x])
  BY IInvIsRowInv
<1>2. row \in OrderRow
  BY DEF RowInv
<1>3. ord' \in [OrderIds -> OrderRow]
  BY <1>1, <1>2
<1>4. ASSUME NEW x \in OrderIds PROVE RowInv(ord'[x])
  <2>1. ord'[x] = IF x = o THEN row ELSE ord[x]
    BY <1>1
  <2>2. CASE x = o
    BY <2>1, <2>2
  <2>3. CASE x # o
    BY <1>1, <2>1, <2>3
  <2>4. QED
    BY <2>2, <2>3
<1>5. TypeOK'
  BY <1>3 DEF TypeOK
<1>6. ReservedOnlyWhilePending' /\ ConfirmedInSync' /\ RecentIsPresent'
  BY <1>4 DEF RowInv, ReservedOnlyWhilePending, ConfirmedInSync,
              RecentIsPresent
<1>7. QED
  BY <1>5, <1>6 DEF IInv

\* Every step of every handler, of the job and of the owner keeps IInv.
LEMMA NextIInv == IInv /\ [Next]_vars => IInv'
<1> SUFFICES ASSUME IInv, [Next]_vars PROVE IInv'
  OBVIOUS
<1>0. /\ ord \in [OrderIds -> OrderRow]
      /\ \A x \in OrderIds : RowInv(ord[x])
      /\ prod \in [ProductIds -> ProductRow]
      /\ override \subseteq ProductIds
  BY IInvIsRowInv
<1>1. ASSUME NEW o \in OrderIds, OrderStep(o) PROVE IInv'
  <2> DEFINE p == ord[o].product
  <2>0. /\ RowInv(ord[o]) /\ ord[o] \in OrderRow
        /\ p \in ProductIds \cup {NoProduct}
    BY <1>0 DEF OrderRow
  <2>1. ASSUME NEW c \in Customers, NEW pp \in ProductIds \cup {NoProduct},
               NEW q \in Quantities \cup {0}, Detect(o, c, pp, q)
        PROVE  IInv'
    <3>1. RowInv(CandidateRow(c, pp, q))
      BY CandidateRowInv
    <3>2. QED
      BY <1>0, <2>1, <3>1, OneOrderStep DEF Detect
  <2>2. CASE CustomerConfirm(o)
    <3>1. CASE p = NoProduct
      <4>1. RowInv(CustomerConfirmPlain(ord[o]))
        BY <2>0, <2>2, HandlersKeepRowInv DEF CustomerConfirm
      <4>2. QED
        BY <1>0, <2>2, <3>1, <4>1, OneOrderStep DEF CustomerConfirm
    <3>2. CASE p # NoProduct
      <4>1. RowInv(CustomerConfirmOrder(ord[o], prod[p]))
        BY <2>0, <2>2, <3>2, HandlersKeepRowInv DEF CustomerConfirm
      <4>2. prod' \in [ProductIds -> ProductRow]
        BY <1>0, <2>0, <2>2, <3>2, CustomerConfirmProductType
           DEF CustomerConfirm
      <4>3. QED
        BY <1>0, <2>2, <3>2, <4>1, <4>2, OneOrderStep DEF CustomerConfirm
    <3>3. QED
      BY <3>1, <3>2
  <2>3. CASE CustomerCancel(o)
    <3>1. RowInv(CancelOrder(ord[o]))
      BY <2>0, <2>3, HandlersKeepRowInv DEF CustomerCancel
    <3>2. QED
      BY <1>0, <2>3, <3>1, OneOrderStep DEF CustomerCancel
  <2>4. CASE OwnerConfirm(o)
    <3>1. RowInv(ConfirmOrder(ord[o]))
      BY <2>0, <2>4, HandlersKeepRowInv DEF OwnerConfirm
    <3>2. prod' \in [ProductIds -> ProductRow]
      BY <1>0, <2>0, <2>4, ConfirmProductType DEF OwnerConfirm, OwnerHasButtons
    <3>3. override' \subseteq ProductIds
      BY <1>0, <2>0, <2>4 DEF OwnerConfirm, OwnerHasButtons
    <3>4. QED
      BY <2>4, <3>1, <3>2, <3>3, OneOrderStep DEF OwnerConfirm
  <2>5. CASE OwnerReject(o)
    <3>1. RowInv(RejectOrder(ord[o]))
      BY <2>0, <2>5, HandlersKeepRowInv DEF OwnerReject
    <3>2. prod' \in [ProductIds -> ProductRow]
      BY <1>0, <2>0, <2>5, ReleaseProductType DEF OwnerReject, OwnerHasButtons
    <3>3. QED
      BY <1>0, <2>5, <3>1, <3>2, OneOrderStep DEF OwnerReject
  <2>6. CASE OwnerAdvance(o)
    <3>1. RowInv(AdvanceOrder(ord[o]))
      BY <2>0, <2>6, HandlersKeepRowInv DEF OwnerAdvance
    <3>2. QED
      BY <1>0, <2>6, <3>1, OneOrderStep DEF OwnerAdvance
  <2>7. CASE ExpireCandidate(o)
    <3>1. RowInv(CancelOrder(ord[o]))
      BY <2>0, <2>7, HandlersKeepRowInv DEF ExpireCandidate
    <3>2. QED
      BY <1>0, <2>7, <3>1, OneOrderStep DEF ExpireCandidate
  <2>8. CASE ExpireReservation(o)
    <3>1. RowInv(ExpireOrder(ord[o]))
      BY <2>0, <2>8, HandlersKeepRowInv DEF ExpireReservation
    <3>2. prod' \in [ProductIds -> ProductRow]
      BY <1>0, <2>0, <2>8, ReleaseProductType DEF ExpireReservation
    <3>3. QED
      BY <1>0, <2>8, <3>1, <3>2, OneOrderStep DEF ExpireReservation
  <2>9. CASE LeaveDedupWindow(o)
    <3>1. RowInv([ord[o] EXCEPT !.recent = FALSE])
      BY <2>0 DEF RowInv, OrderRow
    <3>2. ord' = [ord EXCEPT ![o] = [ord[o] EXCEPT !.recent = FALSE]]
      BY <2>9 DEF LeaveDedupWindow
    <3>3. QED
      BY <1>0, <2>9, <3>1, <3>2, OneOrderStep DEF LeaveDedupWindow
  <2>10. QED
    BY <1>1, <2>1, <2>2, <2>3, <2>4, <2>5, <2>6, <2>7, <2>8, <2>9
       DEF OrderStep
<1>2. ASSUME NEW p \in ProductIds, ProductStep(p) PROVE IInv'
  <2>1. ord' = ord /\ override' \subseteq ProductIds
    BY <1>0, <1>2 DEF ProductStep, EditStock, SoftDelete
  <2>2. prod' \in [ProductIds -> ProductRow]
    <3>1. ASSUME NEW s \in Stocks \cup {Unlimited}, EditStock(p, s)
          PROVE  prod' \in [ProductIds -> ProductRow]
      BY <1>0, <3>1, StocksAreNat DEF EditStock, ProductRow
    <3>2. CASE SoftDelete(p)
      BY <1>0, <3>2 DEF SoftDelete, ProductRow
    <3>3. QED
      BY <1>2, <3>1, <3>2 DEF ProductStep
  <2>3. QED
    BY <2>1, <2>2 DEF IInv, TypeOK, ReservedOnlyWhilePending,
                      ConfirmedInSync, RecentIsPresent
<1>3. CASE UNCHANGED vars
  BY <1>3 DEF vars, IInv, TypeOK, ReservedOnlyWhilePending, ConfirmedInSync,
              RecentIsPresent
<1>4. QED
  BY <1>1, <1>2, <1>3 DEF Next

\* The inductive invariant holds of every reachable state.
THEOREM SpecIInv == Spec => []IInv
<1>1. Init => IInv
  BY InitIInv
<1>2. IInv /\ [Next]_vars => IInv'
  BY NextIInv
<1>3. QED
  BY <1>1, <1>2, PTL DEF Spec

\* The rows keep the types of their columns; in particular neither the stock
\* nor the reserved quantity of a product ever becomes negative.
THEOREM SpecTypeOK == Spec => []TypeOK
<1>1. IInv => TypeOK
  BY DEF IInv
<1>2. QED
  BY <1>1, SpecIInv, PTL

\* No path out of PENDING leaves units reserved.
THEOREM SpecReservedOnlyWhilePending == Spec => []ReservedOnlyWhilePending
<1>1. IInv => ReservedOnlyWhilePending
  BY DEF IInv
<1>2. QED
  BY <1>1, SpecIInv, PTL

\* The legacy flag "confirmed" and the status agree.
THEOREM SpecConfirmedInSync == Spec => []ConfirmedInSync
<1>1. IInv => ConfirmedInSync
  BY DEF IInv
<1>2. QED
  BY <1>1, SpecIInv, PTL

-----------------------------------------------------------------------------
\* Units reserved are in stock. What the operators do to one product row:
Backed(r) == r.stock # Unlimited => r.reserved <= r.stock

\* A customer's confirmation reserves only what is left.
LEMMA CustomerConfirmBacked ==
  ASSUME NEW o \in OrderRow, NEW r \in ProductRow, Backed(r)
  PROVE  Backed(CustomerConfirmProduct(o, r))
<1>1. Units(o) \in Nat
  BY UnitsType
<1>2. CASE CanReserve(o, r)
  <2>1. r.stock \in Nat /\ r.reserved + Units(o) <= r.stock
    BY <1>1, <1>2 DEF CanReserve, ProductRow
  <2>2. QED
    BY <1>2, <2>1 DEF CustomerConfirmProduct, Backed, ProductRow
<1>3. CASE ~CanReserve(o, r)
  BY <1>3 DEF CustomerConfirmProduct
<1>4. QED
  BY <1>2, <1>3

\* Confirming an order that holds units takes them from both columns.
LEMMA ConfirmBacked ==
  ASSUME NEW o \in OrderRow, NEW r \in ProductRow, Backed(r), o.stock_reserved
  PROVE  Backed(ConfirmProduct(o, r))
<1>1. Units(o) \in Nat
  BY UnitsType
<1>2. CASE r.stock = Unlimited
  BY <1>2 DEF ConfirmProduct
<1>3. CASE r.stock # Unlimited
  <2>1. r.stock \in Nat /\ r.reserved \in Nat /\ r.reserved <= r.stock
    BY <1>3 DEF ProductRow, Backed
  <2>2. AtLeastZero(r.reserved - Units(o)) <= AtLeastZero(r.stock - Units(o))
    BY <1>1, <2>1 DEF AtLeastZero
  <2>3. QED
    BY <1>3, <2>2 DEF ConfirmProduct, Backed, ProductRow
<1>4. QED
  BY <1>2, <1>3

\* A release only lowers the reserved quantity.
LEMMA ReleaseBacked ==
  ASSUME NEW o \in OrderRow, NEW r \in ProductRow, Backed(r)
  PROVE  Backed(ReleaseProduct(o, r))
<1>1. Units(o) \in Nat
  BY UnitsType
<1>2. r.reserved \in Nat
  BY DEF ProductRow
<1>3. AtLeastZero(r.reserved - Units(o)) \in Nat
      /\ AtLeastZero(r.reserved - Units(o)) <= r.reserved
  BY <1>1, <1>2 DEF AtLeastZero
<1>4. CASE r.stock = Unlimited
  BY <1>4 DEF ReleaseProduct, Backed, ProductRow
<1>5. CASE r.stock # Unlimited
  <2>1. r.stock \in Nat /\ r.reserved <= r.stock
    BY <1>5 DEF ProductRow, Backed
  <2>2. QED
    BY <1>2, <1>3, <2>1 DEF ReleaseProduct, Backed, ProductRow
<1>6. QED
  BY <1>4, <1>5

\* ReservationsBacked is inductive relative to IInv.
LEMMA NextReservationsBacked ==
  IInv /\ ReservationsBacked /\ [Next]_vars => ReservationsBacked'
<1> SUFFICES ASSUME IInv, ReservationsBacked, [Next]_vars,
                    NEW x \in ProductIds \ override'
             PROVE  Backed(prod'[x])
  BY DEF ReservationsBacked, Backed
<1>0. /\ ord \in [OrderIds -> OrderRow]
      /\ prod \in [ProductIds -> ProductRow]
  BY DEF IInv, TypeOK
<1>1. override \subseteq override'
  BY DEF Next, OrderStep, ProductStep, Detect, CustomerConfirm,
         CustomerCancel, OwnerConfirm, OwnerReject, OwnerAdvance,
         ExpireCandidate, ExpireReservation, LeaveDedupWindow, EditStock,
         SoftDelete, vars
<1>2. Backed(prod[x]) /\ prod[x] \in ProductRow
  BY <1>0, <1>1 DEF ReservationsBacked, Backed
<1>3. CASE prod' = prod
  BY <1>2, <1>3
<1>4. ASSUME NEW o \in OrderIds, CustomerConfirm(o) PROVE Backed(prod'[x])
  BY <1>0, <1>2, <1>4, CustomerConfirmBacked DEF CustomerConfirm
<1>5. ASSUME NEW o \in OrderIds, OwnerConfirm(o) PROVE Backed(prod'[x])
  BY <1>0, <1>2, <1>5, ConfirmBacked DEF OwnerConfirm, OwnerHasButtons
<1>6. ASSUME NEW o \in OrderIds, OwnerReject(o) \/ ExpireReservation(o)
      PROVE  Backed(prod'[x])
  BY <1>0, <1>2, <1>6, ReleaseBacked
     DEF OwnerReject, OwnerHasButtons, ExpireReservation
<1>7. ASSUME NEW p \in ProductIds, ProductStep(p) PROVE Backed(prod'[x])
  BY <1>0, <1>2, <1>7 DEF ProductStep, EditStock, SoftDelete, Backed, ProductRow
<1>8. QED
  <2>1. ASSUME NEW o \in OrderIds, OrderStep(o)
        PROVE  \/ prod' = prod
               \/ CustomerConfirm(o) \/ OwnerConfirm(o)
               \/ OwnerReject(o) \/ ExpireReservation(o)
    BY <2>1 DEF OrderStep, Detect, CustomerCancel, OwnerAdvance,
                ExpireCandidate, LeaveDedupWindow
  <2>2. QED
    BY <1>3, <1>4, <1>5, <1>6, <1>7, <2>1 DEF Next, vars

\* Nothing is reserved at first.
LEMMA InitBacked == Init => ReservationsBacked
BY StocksAreNat DEF Init, ReservationsBacked

\* Units promised to waiting customers are in stock, for any number of orders,
\* unless the owner overrode the control.
THEOREM SpecReservationsBacked == Spec => []ReservationsBacked
<1>1. Init => ReservationsBacked
  BY InitBacked
<1>2. IInv /\ ReservationsBacked /\ [Next]_vars => ReservationsBacked'
  BY NextReservationsBacked
<1>3. QED
  BY <1>1, <1>2, SpecIInv, PTL DEF Spec

-----------------------------------------------------------------------------
\* Every handler but the detection keeps an order's customer and product, and
\* none makes an order recent.
LEMMA OtherStepsKeepKey ==
  ASSUME IInv, [Next]_vars, NEW o \in OrderIds,
         ~ \E c \in Customers, p \in ProductIds \cup {NoProduct},
              q \in Quantities \cup {0} : Detect(o, c, p, q)
  PROVE  /\ ord'[o].customer = ord[o].customer
         /\ ord'[o].product = ord[o].product
         /\ ord'[o].recent => ord[o].recent
<1>0. ord \in [OrderIds -> OrderRow] /\ ord[o] \in OrderRow
  BY DEF IInv, TypeOK
<1>1. ASSUME NEW x \in OrderIds, OrderStep(x), x # o PROVE ord'[o] = ord[o]
  BY <1>0, <1>1 DEF OrderStep, Detect, CustomerConfirm, CustomerCancel,
     OwnerConfirm, OwnerReject, OwnerAdvance, ExpireCandidate,
     ExpireReservation, LeaveDedupWindow
<1>2. ASSUME OrderStep(o)
      PROVE  /\ ord'[o].customer = ord[o].customer
             /\ ord'[o].product = ord[o].product
             /\ ord'[o].recent => ord[o].recent
  <2>1. CASE CustomerConfirm(o)
    <3>1. ord'[o] \in {CustomerConfirmPlain(ord[o]),
                       CustomerConfirmOrder(ord[o], prod[ord[o].product])}
      BY <1>0, <2>1 DEF CustomerConfirm
    <3> QED BY <1>0, <3>1 DEF CustomerConfirmPlain, CustomerConfirmOrder, OrderRow
  <2>2. CASE CustomerCancel(o)
    BY <1>0, <2>2 DEF CustomerCancel, CancelOrder, OrderRow
  <2>3. CASE OwnerConfirm(o)
    BY <1>0, <2>3 DEF OwnerConfirm, ConfirmOrder, OrderRow
  <2>4. CASE OwnerReject(o)
    BY <1>0, <2>4 DEF OwnerReject, RejectOrder, OrderRow
  <2>5. CASE OwnerAdvance(o)
    BY <1>0, <2>5 DEF OwnerAdvance, AdvanceOrder, OrderRow
  <2>6. CASE ExpireCandidate(o)
    BY <1>0, <2>6 DEF ExpireCandidate, CancelOrder, OrderRow
  <2>7. CASE ExpireReservation(o)
    BY <1>0, <2>7 DEF ExpireReservation, ExpireOrder, OrderRow
  <2>8. CASE LeaveDedupWindow(o)
    BY <1>0, <2>8 DEF LeaveDedupWindow, OrderRow
  <2> QED BY <1>2, <2>1, <2>2, <2>3, <2>4, <2>5, <2>6, <2>7, <2>8 DEF OrderStep
<1>3. ASSUME NEW p \in ProductIds, ProductStep(p) PROVE ord' = ord
  BY <1>3 DEF ProductStep, EditStock, SoftDelete
<1>4. CASE UNCHANGED vars
  BY <1>4 DEF vars
<1>5. QED
  BY <1>0, <1>1, <1>2, <1>3, <1>4 DEF Next

\* NoRecentDuplicates is inductive relative to IInv.
LEMMA NextNoRecentDuplicates ==
  IInv /\ NoRecentDuplicates /\ [Next]_vars => NoRecentDuplicates'
<1> SUFFICES ASSUME IInv, NoRecentDuplicates, [Next]_vars
             PROVE  NoRecentDuplicates'
  OBVIOUS
<1>0. ord \in [OrderIds -> OrderRow] /\ DOMAIN ord = OrderIds
  BY DEF IInv, TypeOK
<1>1. ASSUME NEW o \in OrderIds, NEW c \in Customers,
             NEW p \in ProductIds \cup {NoProduct},
             NEW q \in Quantities \cup {0}, Detect(o, c, p, q)
      PROVE  NoRecentDuplicates'
  <2>1. ord' = [ord EXCEPT ![o] = CandidateRow(c, p, q)]
    BY <1>1 DEF Detect
  <2>2. \A x \in OrderIds : ~(/\ ord[x].recent /\ ord[x].customer = c
                              /\ ord[x].product = p)
    BY <1>0, <1>1 DEF Detect, HasRecentDuplicate, IInv, RecentIsPresent
  <2>3. /\ ord'[o].customer = c /\ ord'[o].product = p
        /\ \A x \in OrderIds : x # o => ord'[x] = ord[x]
    BY <1>0, <2>1 DEF CandidateRow
  <2>4. QED
    BY <2>2, <2>3 DEF NoRecentDuplicates
<1>2. ASSUME ~ \E o \in OrderIds, c \in Customers,
                  p \in ProductIds \cup {NoProduct},
                  q \in Quantities \cup {0} : Detect(o, c, p, q)
      PROVE  NoRecentDuplicates'
  <2>1. \A o \in OrderIds : /\ ord'[o].customer = ord[o].customer
                            /\ ord'[o].product = ord[o].product
                            /\ ord'[o].recent => ord[o].recent
    BY <1>2, OtherStepsKeepKey
  <2>2. QED
    BY <2>1 DEF NoRecentDuplicates
<1>3. QED
  BY <1>1, <1>2

\* There are no orders at first.
LEMMA InitNoDuplicates == Init => NoRecentDuplicates
BY DEF Init, NoRecentDuplicates, NoOrder

\* Within the window, a customer has at most one order per type and product.
THEOREM SpecNoRecentDuplicates == Spec => []NoRecentDuplicates
<1>1. Init => NoRecentDuplicates
  BY InitNoDuplicates
<1>2. IInv /\ NoRecentDuplicates /\ [Next]_vars => NoRecentDuplicates'
  BY NextNoRecentDuplicates
<1>3. QED
  BY <1>1, <1>2, SpecIInv, PTL DEF Spec

-----------------------------------------------------------------------------
\* One step along the life cycle of an order.
LEMMA NextMovesForward ==
  ASSUME IInv, [Next]_vars, NEW o \in OrderIds
  PROVE  StatusRank(ord'[o].status) >= StatusRank(ord[o].status)
<1> USE DEF Absent, Awaiting, Pending, Cancelled, Rejected, Expired,
            AdvanceStatus
<1>0. /\ ord \in [OrderIds -> OrderRow]
      /\ ord[o] \in OrderRow
      /\ ord[o].confirmed <=> ord[o].status \in AdvanceStatus
  BY DEF IInv, TypeOK, ConfirmedInSync
<1>1. ord[o].status \in Status
  BY <1>0 DEF OrderRow
<1>2. CASE ord'[o].status = ord[o].status
  <2>1. StatusRank(ord[o].status) \in Nat
    BY <1>1 DEF StatusRank, Status
  <2>2. QED
    BY <1>2, <2>1
<1>3. ASSUME NEW x \in OrderIds, OrderStep(x), x # o PROVE ord'[o] = ord[o]
  BY <1>0, <1>3 DEF OrderStep, Detect, CustomerConfirm, CustomerCancel,
     OwnerConfirm, OwnerReject, OwnerAdvance, ExpireCandidate,
     ExpireReservation, LeaveDedupWindow
<1>4. ASSUME OrderStep(o)
      PROVE  \/ ord'[o].status = ord[o].status
             \/ ord[o].status = Absent /\ ord'[o].status = Awaiting
             \/ ord[o].status = Awaiting /\ ord'[o].status \in {Pending, Cancelled}
             \/ ord[o].status = Pending /\ ord'[o].status \in {Rejected, Expired}
             \/ /\ ord[o].status \in {Pending, Rejected, Expired}
                /\ ord'[o].status = "confirmed"
             \/ MayAdvance(ord[o]) /\ ord'[o].status = NextStatus(ord[o].status)
  <2>1. CASE OwnerConfirm(o)
    BY <1>0, <1>1, <2>1 DEF OwnerConfirm, OwnerHasButtons, OwnerMayConfirm,
       ConfirmOrder, OrderRow, Status
  <2>2. ASSUME NEW c \in Customers, NEW p \in ProductIds \cup {NoProduct},
               NEW q \in Quantities \cup {0}, Detect(o, c, p, q)
        PROVE  ord[o].status = Absent /\ ord'[o].status = Awaiting
    BY <1>0, <2>2 DEF Detect, CandidateRow
  <2>3. CASE CustomerConfirm(o) \/ CustomerCancel(o) \/ ExpireCandidate(o)
    <3>1. CASE CustomerConfirm(o)
      <4>1. ord[o].status = Awaiting
        BY <3>1 DEF CustomerConfirm
      <4>2. ord'[o].status = Pending
        <5>1. CASE ord[o].product = NoProduct
          BY <1>0, <3>1, <5>1 DEF CustomerConfirm, CustomerConfirmPlain, OrderRow
        <5>2. CASE ord[o].product # NoProduct
          <6>1. ord'[o] = CustomerConfirmOrder(ord[o], prod[ord[o].product])
            BY <1>0, <3>1, <5>2 DEF CustomerConfirm
          <6> QED BY <1>0, <6>1 DEF CustomerConfirmOrder, OrderRow
        <5> QED BY <5>1, <5>2
      <4> QED BY <4>1, <4>2
    <3>2. CASE CustomerCancel(o)
      BY <1>0, <3>2 DEF CustomerCancel, CancelOrder, OrderRow
    <3>3. CASE ExpireCandidate(o)
      BY <1>0, <3>3 DEF ExpireCandidate, CancelOrder, OrderRow
    <3> QED BY <2>3, <3>1, <3>2, <3>3
  <2>4. CASE OwnerReject(o) \/ ExpireReservation(o)
    <3>1. CASE OwnerReject(o)
      BY <1>0, <3>1 DEF OwnerReject, RejectOrder, OrderRow
    <3>2. CASE ExpireReservation(o)
      BY <1>0, <3>2 DEF ExpireReservation, ReservationExpirable, ExpireOrder, OrderRow
    <3> QED BY <2>4, <3>1, <3>2
  <2>5. CASE OwnerAdvance(o)
    BY <1>0, <2>5 DEF OwnerAdvance, AdvanceOrder, OrderRow
  <2>6. CASE LeaveDedupWindow(o)
    BY <1>0, <2>6 DEF LeaveDedupWindow, OrderRow
  <2>7. QED
    BY <1>4, <2>1, <2>2, <2>3, <2>4, <2>5, <2>6 DEF OrderStep
<1>5. ASSUME NEW p \in ProductIds, ProductStep(p) PROVE ord' = ord
  BY <1>5 DEF ProductStep, EditStock, SoftDelete
<1>6. CASE OrderStep(o)
  <2>1. CASE ord[o].status = Absent /\ ord'[o].status = Awaiting
    BY <2>1 DEF StatusRank
  <2>2. CASE ord[o].status = Awaiting /\ ord'[o].status \in {Pending, Cancelled}
    BY <2>2 DEF StatusRank
  <2>3. CASE ord[o].status = Pending /\ ord'[o].status \in {Rejected, Expired}
    BY <2>3 DEF StatusRank
  <2>4. CASE /\ ord[o].status \in {Pending, Rejected, Expired}
             /\ ord'[o].status = "confirmed"
    BY <2>4 DEF StatusRank
  <2>5. CASE MayAdvance(ord[o]) /\ ord'[o].status = NextStatus(ord[o].status)
    BY <2>5 DEF StatusRank, MayAdvance, NextStatus
  <2>6. QED
    BY <1>2, <1>4, <1>6, <2>1, <2>2, <2>3, <2>4, <2>5
<1>7. QED
  BY <1>2, <1>3, <1>5, <1>6 DEF Next, vars

\* Old buttons never take an order back along its life cycle.
THEOREM SpecStatusMovesForward == Spec => StatusMovesForward
<1>1. IInv /\ [Next]_vars =>
        [\A o \in OrderIds :
           StatusRank(ord'[o].status) >= StatusRank(ord[o].status)]_vars
  BY NextMovesForward
<1>2. QED
  BY <1>1, SpecIInv, PTL DEF Spec, StatusMovesForward

-----------------------------------------------------------------------------
\* What reserved_quantity stands for: a sum over the orders that hold units.
\* Sums over a finite set, by induction in the form that a set of
\* counterexamples has a smallest member.

Sum(f, S) == SumFunctionOnSet(f, S)

Pick(s) == CHOOSE x \in s : TRUE

Adds(g, f, S) ==
  g = [s \in SUBSET S |-> IF s = {} THEN 0 ELSE f[Pick(s)] + g[s \ {Pick(s)}]]

\* What the community modules' sum is: the value, at S, of a function that adds
\* one member after the other.
LEMMA SumUnfold ==
  ASSUME NEW f, NEW S
  PROVE SumFunctionOnSet(f, S) = (CHOOSE g : Adds(g, f, S))[S]
BY DEF SumFunctionOnSet, FoldFunctionOnSet, MapThenFoldSet, Adds, Pick

\* Induction on finite sets: a set of counterexamples has a smallest one.
LEMMA Minimal ==
  ASSUME NEW S, IsFiniteSet(S), NEW Bad \in SUBSET SUBSET S, Bad # {}
  PROVE  \E T \in Bad : \A U \in Bad : U \subseteq T => U = T
<1>1. Bad \subseteq FiniteSubsetsOf(S)
  BY FS_Subset DEF FiniteSubsetsOf
<1>2. \E T \in Bad : \A U \in Bad : ~(<<U, T>> \in StrictSubsetOrdering(S))
  BY <1>1, FS_StrictSubsetOrderingWellFounded, WFMin
<1> QED BY <1>2 DEF StrictSubsetOrdering

\* A choice is of the set.
LEMMA PickIn == ASSUME NEW s, s # {} PROVE Pick(s) \in s
BY DEF Pick

\* One step of the adding.
LEMMA AddsAt ==
  ASSUME NEW S, NEW f, NEW g, Adds(g, f, S), NEW s \in SUBSET S
  PROVE  g[s] = IF s = {} THEN 0 ELSE f[Pick(s)] + g[s \ {Pick(s)}]
BY DEF Adds

\* Two ways to add the same agree on what both add.
LEMMA AddsAgree ==
  ASSUME NEW S, IsFiniteSet(S), NEW f, NEW g, Adds(g, f, S),
         NEW T \in SUBSET S, NEW h, Adds(h, f, T)
  PROVE  \A s \in SUBSET T : g[s] = h[s]
<1> DEFINE Bad == {s \in SUBSET T : g[s] # h[s]}
<1> SUFFICES ASSUME Bad # {} PROVE FALSE
  OBVIOUS
<1>1. IsFiniteSet(T) BY FS_Subset
<1>2. PICK s \in Bad : \A u \in Bad : u \subseteq s => u = s
  <2> HIDE DEF Bad
  <2>1. Bad \in SUBSET SUBSET T BY DEF Bad
  <2> QED BY <1>1, <2>1, Minimal
<1>3. s \in SUBSET T /\ s \in SUBSET S /\ g[s] # h[s]
  OBVIOUS
<1> HIDE DEF Bad
<1>4. g[s] = IF s = {} THEN 0 ELSE f[Pick(s)] + g[s \ {Pick(s)}]
  BY <1>3, AddsAt
<1>5. h[s] = IF s = {} THEN 0 ELSE f[Pick(s)] + h[s \ {Pick(s)}]
  BY <1>3, AddsAt
<1>6. s # {}
  BY <1>3, <1>4, <1>5
<1>7. Pick(s) \in s
  BY <1>6, PickIn
<1>8. g[s \ {Pick(s)}] = h[s \ {Pick(s)}]
  BY <1>2, <1>3, <1>7 DEF Bad
<1> QED BY <1>3, <1>4, <1>5, <1>6, <1>8

\* There is a way to add over every finite set.
LEMMA AddsExists ==
  ASSUME NEW S, IsFiniteSet(S), NEW f
  PROVE  \E g : Adds(g, f, S)
<1> DEFINE Sol(T) == CHOOSE g : Adds(g, f, T)
           Bad == {T \in SUBSET S : ~ \E g : Adds(g, f, T)}
<1> SUFFICES ASSUME Bad # {} PROVE FALSE
  OBVIOUS
<1>1. PICK T \in Bad : \A U \in Bad : U \subseteq T => U = T
  <2> HIDE DEF Bad
  <2>1. Bad \in SUBSET SUBSET S BY DEF Bad
  <2> QED BY <2>1, Minimal
<1>2. T \in SUBSET S /\ ~ \E g : Adds(g, f, T)
  OBVIOUS
<1>3. \A U \in SUBSET T : U # T => Adds(Sol(U), f, U)
  BY <1>1, <1>2
<1> DEFINE G == [s \in SUBSET T |->
                   IF s = {} THEN 0
                   ELSE f[Pick(s)] + Sol(s \ {Pick(s)})[s \ {Pick(s)}]]
<1> HIDE DEF Bad, Sol
<1>4. ASSUME NEW u \in SUBSET T, u # T PROVE G[u] = Sol(u)[u]
  <2>1. Adds(Sol(u), f, u) BY <1>3, <1>4
  <2>2. Sol(u)[u] = IF u = {} THEN 0 ELSE f[Pick(u)] + Sol(u)[u \ {Pick(u)}]
    BY <2>1, AddsAt
  <2>3. ASSUME u # {} PROVE Sol(u)[u \ {Pick(u)}] = Sol(u \ {Pick(u)})[u \ {Pick(u)}]
    <3> DEFINE v == u \ {Pick(u)}
    <3>1. v \in SUBSET u /\ v \in SUBSET T /\ v # T
      BY <1>4, <2>3, PickIn
    <3>2. Adds(Sol(v), f, v) BY <1>3, <3>1
    <3>3. IsFiniteSet(u) BY <1>2, FS_Subset
    <3> HIDE DEF v
    <3>4. Sol(u)[v] = Sol(v)[v]
      BY <2>1, <3>1, <3>2, <3>3, AddsAgree
    <3> QED BY <3>4 DEF v
  <2> QED BY <2>2, <2>3
<1>5. ASSUME NEW s \in SUBSET T, s # {}
      PROVE  G[s] = f[Pick(s)] + G[s \ {Pick(s)}]
  <2>1. s \ {Pick(s)} \in SUBSET T /\ s \ {Pick(s)} # T
    BY <1>5, PickIn
  <2>2. G[s \ {Pick(s)}] = Sol(s \ {Pick(s)})[s \ {Pick(s)}]
    BY <1>4, <2>1
  <2> QED BY <1>5, <2>2
<1>6. \A s \in SUBSET T : G[s] = IF s = {} THEN 0 ELSE f[Pick(s)] + G[s \ {Pick(s)}]
  BY <1>5
<1>7. DOMAIN G = SUBSET T /\ G = [s \in SUBSET T |-> G[s]]
  OBVIOUS
<1> HIDE DEF G
<1>8. Adds(G, f, T)
  BY <1>6, <1>7 DEF Adds
<1> QED BY <1>2, <1>8

\* The sum, one member at a time.
LEMMA SumPick ==
  ASSUME NEW S, IsFiniteSet(S), NEW f
  PROVE  Sum(f, S) = IF S = {} THEN 0 ELSE f[Pick(S)] + Sum(f, S \ {Pick(S)})
<1> DEFINE Sol(T) == CHOOSE g : Adds(g, f, T)
           T == S \ {Pick(S)}
<1>1. IsFiniteSet(T) /\ T \in SUBSET S
  BY FS_Subset
<1>2. Adds(Sol(S), f, S) /\ Adds(Sol(T), f, T)
  BY <1>1, AddsExists
<1>3. Sum(f, S) = Sol(S)[S] /\ Sum(f, T) = Sol(T)[T]
  BY SumUnfold DEF Sum
<1> HIDE DEF Sol
<1>4. Sol(S)[S] = IF S = {} THEN 0 ELSE f[Pick(S)] + Sol(S)[T]
  BY <1>2, AddsAt
<1>5. Sol(S)[T] = Sol(T)[T]
  BY <1>1, <1>2, AddsAgree
<1> QED BY <1>3, <1>4, <1>5

\* The empty sum.
LEMMA SumOfNone == ASSUME NEW f PROVE Sum(f, {}) = 0
BY SumPick, FS_EmptySet

\* A sum of integers is an integer.
LEMMA SumType ==
  ASSUME NEW S, IsFiniteSet(S), NEW f, \A x \in S : f[x] \in Int
  PROVE  \A T \in SUBSET S : Sum(f, T) \in Int
<1> DEFINE Bad == {T \in SUBSET S : Sum(f, T) \notin Int}
<1> SUFFICES ASSUME Bad # {} PROVE FALSE
  OBVIOUS
<1>1. PICK T \in Bad : \A U \in Bad : U \subseteq T => U = T
  <2> HIDE DEF Bad
  <2>1. Bad \in SUBSET SUBSET S BY DEF Bad
  <2> QED BY <2>1, Minimal
<1>2. T \in SUBSET S /\ Sum(f, T) \notin Int /\ IsFiniteSet(T)
  BY FS_Subset
<1>3. T # {}
  BY <1>2, SumOfNone
<1>4. Pick(T) \in T
  BY <1>3, PickIn
<1>5. Sum(f, T \ {Pick(T)}) \in Int
  BY <1>1, <1>2, <1>4
<1>6. Sum(f, T) = f[Pick(T)] + Sum(f, T \ {Pick(T)})
  BY <1>2, <1>3, SumPick
<1>7. f[Pick(T)] \in Int
  BY <1>2, <1>4
<1> HIDE DEF Bad
<1> QED BY <1>2, <1>5, <1>6, <1>7

\* A sum of natural numbers is one.
LEMMA SumNat ==
  ASSUME NEW S, IsFiniteSet(S), NEW f, \A x \in S : f[x] \in Nat
  PROVE  \A T \in SUBSET S : Sum(f, T) \in Nat
<1> DEFINE Bad == {T \in SUBSET S : Sum(f, T) \notin Nat}
<1> SUFFICES ASSUME Bad # {} PROVE FALSE
  OBVIOUS
<1>1. PICK T \in Bad : \A U \in Bad : U \subseteq T => U = T
  <2> HIDE DEF Bad
  <2>1. Bad \in SUBSET SUBSET S BY DEF Bad
  <2> QED BY <2>1, Minimal
<1>2. T \in SUBSET S /\ Sum(f, T) \notin Nat /\ IsFiniteSet(T)
  BY FS_Subset
<1>3. T # {}
  BY <1>2, SumOfNone
<1>4. Pick(T) \in T
  BY <1>3, PickIn
<1>5. Sum(f, T \ {Pick(T)}) \in Nat
  BY <1>1, <1>2, <1>4
<1>6. Sum(f, T) = f[Pick(T)] + Sum(f, T \ {Pick(T)})
  BY <1>2, <1>3, SumPick
<1>7. f[Pick(T)] \in Nat
  BY <1>2, <1>4
<1> HIDE DEF Bad
<1> QED BY <1>2, <1>5, <1>6, <1>7

\* Any member may be taken out first.
LEMMA SumRemove ==
  ASSUME NEW S, IsFiniteSet(S), NEW f, \A x \in S : f[x] \in Int
  PROVE  \A T \in SUBSET S : \A x \in T : Sum(f, T) = f[x] + Sum(f, T \ {x})
<1> DEFINE Bad == {T \in SUBSET S : \E x \in T : Sum(f, T) # f[x] + Sum(f, T \ {x})}
<1> SUFFICES ASSUME Bad # {} PROVE FALSE
  OBVIOUS
<1>1. PICK T \in Bad : \A U \in Bad : U \subseteq T => U = T
  <2> HIDE DEF Bad
  <2>1. Bad \in SUBSET SUBSET S BY DEF Bad
  <2> QED BY <2>1, Minimal
<1>2. PICK x \in T : Sum(f, T) # f[x] + Sum(f, T \ {x})
  OBVIOUS
<1>3. T \in SUBSET S /\ IsFiniteSet(T) /\ x \in S
  BY FS_Subset
<1> DEFINE c == Pick(T)
           A == T \ {c}
           B == T \ {x}
           C == (T \ {c}) \ {x}
<1>4. c \in T /\ c \in S
  BY <1>3, PickIn
<1>5. Sum(f, T) = f[c] + Sum(f, A)
  BY <1>2, <1>3, SumPick
<1>6. c # x
  BY <1>2, <1>5
<1>7. A \in SUBSET S /\ B \in SUBSET S /\ A \notin Bad /\ B \notin Bad
  BY <1>1, <1>3, <1>4
<1>8. x \in A /\ c \in B /\ A \ {x} = C /\ B \ {c} = C /\ C \in SUBSET S
  BY <1>3, <1>4, <1>6
<1>9. Sum(f, A) = f[x] + Sum(f, A \ {x})
  BY <1>7, <1>8
<1>10. Sum(f, B) = f[c] + Sum(f, B \ {c})
  BY <1>7, <1>8
<1>11. f[x] \in Int /\ f[c] \in Int
  BY <1>3, <1>4
<1> HIDE DEF Bad, A, B, C, c
<1>12. Sum(f, C) \in Int
  BY <1>8, SumType
<1>13. Sum(f, A) = f[x] + Sum(f, C) /\ Sum(f, B) = f[c] + Sum(f, C)
  BY <1>8, <1>9, <1>10
<1>14. Sum(f, T) # f[x] + Sum(f, B)
  BY <1>2 DEF B
<1> QED BY <1>5, <1>11, <1>12, <1>13, <1>14

\* A sum over two parts of a set.
LEMMA SumSplit ==
  ASSUME NEW S, IsFiniteSet(S), NEW f, \A x \in S : f[x] \in Int
  PROVE  \A T \in SUBSET S : Sum(f, S) = Sum(f, T) + Sum(f, S \ T)
<1> DEFINE Bad == {T \in SUBSET S : Sum(f, S) # Sum(f, T) + Sum(f, S \ T)}
<1> SUFFICES ASSUME Bad # {} PROVE FALSE
  OBVIOUS
<1>1. PICK T \in Bad : \A U \in Bad : U \subseteq T => U = T
  <2> HIDE DEF Bad
  <2>1. Bad \in SUBSET SUBSET S BY DEF Bad
  <2> QED BY <2>1, Minimal
<1>2. T \in SUBSET S /\ Sum(f, S) # Sum(f, T) + Sum(f, S \ T)
  OBVIOUS
<1>3. \A U \in SUBSET S : Sum(f, U) \in Int
  BY SumType
<1>4. T # {}
  <2>1. Sum(f, {}) = 0 /\ S \ {} = S
    BY SumOfNone
  <2> SUFFICES ASSUME T = {} PROVE FALSE
    OBVIOUS
  <2>2. S \ T = S
    OBVIOUS
  <2>3. Sum(f, S) # Sum(f, {}) + Sum(f, S)
    BY <1>2, <2>2
  <2> QED BY <1>3, <2>1, <2>3
<1>5. PICK x \in T : TRUE
  BY <1>4
<1> DEFINE A == T \ {x}
           B == S \ A
<1>6. Sum(f, S) = Sum(f, A) + Sum(f, B)
  BY <1>1, <1>2, <1>5
<1> HIDE DEF Bad
<1>7. Sum(f, T) = f[x] + Sum(f, A)
  BY <1>2, <1>5, SumRemove
<1>8. Sum(f, B) = f[x] + Sum(f, S \ T)
  <2>1. B \in SUBSET S /\ x \in B /\ B \ {x} = S \ T
    BY <1>2, <1>5
  <2> HIDE DEF B
  <2>2. Sum(f, B) = f[x] + Sum(f, B \ {x})
    BY <2>1, SumRemove
  <2> QED BY <2>1, <2>2
<1>9. f[x] \in Int /\ Sum(f, A) \in Int /\ Sum(f, S \ T) \in Int
  <2>1. A \in SUBSET S /\ S \ T \in SUBSET S /\ x \in S
    BY <1>2, <1>5
  <2> HIDE DEF A
  <2> QED BY <1>3, <2>1
<1> HIDE DEF A, B
<1> QED BY <1>2, <1>6, <1>7, <1>8, <1>9

\* The sum depends only on the values that are added.
LEMMA SumAgree ==
  ASSUME NEW S, IsFiniteSet(S), NEW f, NEW g, \A x \in S : f[x] = g[x]
  PROVE  Sum(f, S) = Sum(g, S)
<1> DEFINE Bad == {T \in SUBSET S : Sum(f, T) # Sum(g, T)}
<1> SUFFICES ASSUME Bad # {} PROVE FALSE
  OBVIOUS
<1>1. PICK T \in Bad : \A U \in Bad : U \subseteq T => U = T
  <2> HIDE DEF Bad
  <2>1. Bad \in SUBSET SUBSET S BY DEF Bad
  <2> QED BY <2>1, Minimal
<1>2. T \in SUBSET S /\ Sum(f, T) # Sum(g, T) /\ IsFiniteSet(T)
  BY FS_Subset
<1>3. T # {}
  BY <1>2, SumOfNone
<1>4. Pick(T) \in T
  BY <1>3, PickIn
<1>5. Sum(f, T \ {Pick(T)}) = Sum(g, T \ {Pick(T)})
  BY <1>1, <1>2, <1>4
<1>6. /\ Sum(f, T) = f[Pick(T)] + Sum(f, T \ {Pick(T)})
      /\ Sum(g, T) = g[Pick(T)] + Sum(g, T \ {Pick(T)})
  BY <1>2, <1>3, SumPick
<1> HIDE DEF Bad
<1> QED BY <1>2, <1>4, <1>5, <1>6

-----------------------------------------------------------------------------
\* Units held.

HeldBy == [o \in OrderIds |-> Units(ord[o])]

\* In every reachable state finitely many orders hold units, whatever the
\* number of ids, and the products' columns cover them.
Covered ==
  \A p \in ProductIds :
    IsFiniteSet(Holders(ord, p)) /\ prod[p].reserved >= Sum(HeldBy, Holders(ord, p))

\* The held units, as the specification writes them.
LEMMA HeldUnitsIs ==
  ASSUME IInv, NEW p \in ProductIds
  PROVE  /\ HeldUnits(ord, p) = Sum(HeldBy, Holders(ord, p))
         /\ Holders(ord, p) = {x \in OrderIds : ord[x].stock_reserved /\ ord[x].product = p}
         /\ \A x \in OrderIds : HeldBy[x] = Units(ord[x]) /\ HeldBy[x] \in Nat
<1>1. DOMAIN ord = OrderIds /\ \A x \in OrderIds : ord[x] \in OrderRow
  BY DEF IInv, TypeOK
<1>2. HeldUnits(ord, p) = Sum(HeldBy, Holders(ord, p))
  BY <1>1 DEF HeldUnits, HeldBy, Sum
<1> QED BY <1>1, <1>2, UnitsType DEF Holders, HeldBy

\* What a step that replaces one order's row does to what is held of product
\* p: nothing, or the order's units are added or taken away.
LEMMA HeldAfter ==
  ASSUME IInv, IInv', NEW p \in ProductIds, IsFiniteSet(Holders(ord, p)),
         NEW o \in OrderIds, \A x \in OrderIds : x # o => ord'[x] = ord[x],
         ord[o].stock_reserved /\ ord'[o].stock_reserved => ord'[o].quantity = ord[o].quantity
  PROVE  /\ IsFiniteSet(Holders(ord', p))
         /\ Sum(HeldBy, Holders(ord, p)) \in Int
         /\ Sum(HeldBy', Holders(ord', p)) \in Int
         /\ Sum(HeldBy', Holders(ord', p)) =
              Sum(HeldBy, Holders(ord, p))
              + (IF o \in Holders(ord', p) THEN Units(ord'[o]) ELSE 0)
              - (IF o \in Holders(ord, p) THEN Units(ord[o]) ELSE 0)
<1> DEFINE H == Holders(ord, p)
           K == Holders(ord', p)
           f == HeldBy
           g == HeldBy'
<1>1. /\ H = {x \in OrderIds : ord[x].stock_reserved /\ ord[x].product = p}
      /\ \A x \in OrderIds : f[x] = Units(ord[x]) /\ f[x] \in Nat
  BY HeldUnitsIs
<1>2. /\ K = {x \in OrderIds : ord'[x].stock_reserved /\ ord'[x].product = p}
      /\ \A x \in OrderIds : g[x] = Units(ord'[x]) /\ g[x] \in Nat
  <2>1. DOMAIN ord' = OrderIds /\ \A x \in OrderIds : ord'[x] \in OrderRow
    BY DEF IInv, TypeOK
  <2> QED BY <2>1, UnitsType DEF Holders, HeldBy
<1>3. H \subseteq OrderIds /\ K \subseteq OrderIds /\ H \ {o} = K \ {o}
  BY <1>1, <1>2
<1>4. IsFiniteSet(H)
  OBVIOUS
<1>5. \A x \in OrderIds : x # o => f[x] = g[x]
  BY <1>1, <1>2
<1>6. f[o] = Units(ord[o]) /\ g[o] = Units(ord'[o]) /\ f[o] \in Nat /\ g[o] \in Nat
  BY <1>1, <1>2
<1> HIDE DEF H, K, f, g
<1>7. IsFiniteSet(K)
  <2>1. IsFiniteSet(H \cup {o})
    BY <1>4, FS_AddElement
  <2>2. K \subseteq H \cup {o}
    BY <1>3
  <2> QED BY <2>1, <2>2, FS_Subset
<1>8. (\A x \in H : f[x] \in Int) /\ (\A x \in K : g[x] \in Int)
  BY <1>1, <1>2, <1>3
<1>9. Sum(f, H) \in Int /\ Sum(g, K) \in Int
  BY <1>4, <1>7, <1>8, SumType
<1>10. Sum(f, H \ {o}) = Sum(g, K \ {o}) /\ Sum(f, H \ {o}) \in Int
  <2>1. IsFiniteSet(H \ {o}) /\ \A x \in H \ {o} : f[x] = g[x] /\ f[x] \in Int
    BY <1>3, <1>4, <1>5, <1>8, FS_Subset
  <2>2. Sum(f, H \ {o}) = Sum(g, H \ {o})
    BY <2>1, SumAgree
  <2>3. Sum(f, H \ {o}) \in Int
    BY <2>1, SumType
  <2> QED BY <1>3, <2>2, <2>3, Zenon
<1>11. Sum(f, H) = Sum(f, H \ {o}) + (IF o \in H THEN f[o] ELSE 0)
  <2>1. CASE o \in H
    <3>1. Sum(f, H) = f[o] + Sum(f, H \ {o})
      BY <1>4, <1>8, <2>1, SumRemove
    <3> QED BY <1>6, <1>10, <2>1, <3>1
  <2>2. CASE o \notin H
    <3>1. H \ {o} = H
      BY <2>2
    <3>2. Sum(f, H \ {o}) = Sum(f, H)
      BY <3>1, Zenon
    <3> QED BY <1>9, <2>2, <3>2
  <2> QED BY <2>1, <2>2
<1>12. Sum(g, K) = Sum(g, K \ {o}) + (IF o \in K THEN g[o] ELSE 0)
  <2>1. CASE o \in K
    <3>1. Sum(g, K) = g[o] + Sum(g, K \ {o})
      BY <1>7, <1>8, <2>1, SumRemove
    <3> QED BY <1>6, <1>10, <2>1, <3>1
  <2>2. CASE o \notin K
    <3>1. K \ {o} = K
      BY <2>2
    <3>2. Sum(g, K \ {o}) = Sum(g, K)
      BY <3>1, Zenon
    <3> QED BY <1>9, <2>2, <3>2
  <2> QED BY <2>1, <2>2
<1>13. Sum(g, K) = Sum(f, H) + (IF o \in K THEN Units(ord'[o]) ELSE 0)
                              - (IF o \in H THEN Units(ord[o]) ELSE 0)
  BY <1>6, <1>9, <1>10, <1>11, <1>12
<1> QED BY <1>7, <1>9, <1>13 DEF H, K, f, g

\* The order that a handler changes keeps its product and its units while it
\* holds them, and the others keep their rows.
LEMMA ChangedOrder ==
  ASSUME IInv, NEW o \in OrderIds, OrderStep(o)
  PROVE  /\ \A x \in OrderIds : x # o => ord'[x] = ord[x]
         /\ ord[o].stock_reserved \/ ord'[o].stock_reserved =>
              ord'[o].quantity = ord[o].quantity /\ ord'[o].product = ord[o].product
<1>0. /\ ord \in [OrderIds -> OrderRow] /\ ord[o] \in OrderRow
      /\ ord[o].stock_reserved => ord[o].status = Pending
  BY DEF IInv, TypeOK, ReservedOnlyWhilePending
<1>1. \A x \in OrderIds : x # o => ord'[x] = ord[x]
  <2>1. ASSUME NEW c \in Customers, NEW p \in ProductIds \cup {NoProduct},
               NEW q \in Quantities \cup {0}, Detect(o, c, p, q)
        PROVE  \A x \in OrderIds : x # o => ord'[x] = ord[x]
    BY <1>0, <2>1 DEF Detect
  <2>2. CASE CustomerConfirm(o)
    BY <1>0, <2>2 DEF CustomerConfirm
  <2>3. CASE CustomerCancel(o) \/ ExpireCandidate(o)
    BY <1>0, <2>3 DEF CustomerCancel, ExpireCandidate
  <2>4. CASE OwnerConfirm(o) \/ OwnerReject(o)
    BY <1>0, <2>4 DEF OwnerConfirm, OwnerReject
  <2>5. CASE OwnerAdvance(o) \/ ExpireReservation(o) \/ LeaveDedupWindow(o)
    BY <1>0, <2>5 DEF OwnerAdvance, ExpireReservation, LeaveDedupWindow
  <2> QED BY <2>1, <2>2, <2>3, <2>4, <2>5 DEF OrderStep
<1>2. ASSUME NEW c \in Customers, NEW p \in ProductIds \cup {NoProduct},
             NEW q \in Quantities \cup {0}, Detect(o, c, p, q)
      PROVE  ~ord[o].stock_reserved /\ ~ord'[o].stock_reserved
  BY <1>0, <1>2 DEF Detect, CandidateRow, Absent, Pending
<1>3. CASE \/ CustomerConfirm(o) \/ CustomerCancel(o) \/ OwnerConfirm(o) \/ OwnerReject(o)
           \/ OwnerAdvance(o) \/ ExpireCandidate(o) \/ ExpireReservation(o) \/ LeaveDedupWindow(o)
  <2>1. ord'[o].quantity = ord[o].quantity /\ ord'[o].product = ord[o].product
    <3>1. CASE CustomerConfirm(o)
      <4>1. ord'[o] \in {CustomerConfirmPlain(ord[o]),
                         CustomerConfirmOrder(ord[o], prod[ord[o].product])}
        BY <1>0, <3>1 DEF CustomerConfirm
      <4> QED BY <1>0, <4>1 DEF CustomerConfirmPlain, CustomerConfirmOrder, OrderRow
    <3>2. CASE CustomerCancel(o)
      BY <1>0, <3>2 DEF CustomerCancel, CancelOrder, OrderRow
    <3>3. CASE OwnerConfirm(o)
      BY <1>0, <3>3 DEF OwnerConfirm, ConfirmOrder, OrderRow
    <3>4. CASE OwnerReject(o)
      BY <1>0, <3>4 DEF OwnerReject, RejectOrder, OrderRow
    <3>5. CASE OwnerAdvance(o)
      BY <1>0, <3>5 DEF OwnerAdvance, AdvanceOrder, OrderRow
    <3>6. CASE ExpireCandidate(o)
      BY <1>0, <3>6 DEF ExpireCandidate, CancelOrder, OrderRow
    <3>7. CASE ExpireReservation(o)
      BY <1>0, <3>7 DEF ExpireReservation, ExpireOrder, OrderRow
    <3>8. CASE LeaveDedupWindow(o)
      BY <1>0, <3>8 DEF LeaveDedupWindow, OrderRow
    <3> QED BY <1>3, <3>1, <3>2, <3>3, <3>4, <3>5, <3>6, <3>7, <3>8
  <2> QED BY <1>1, <2>1
<1> QED BY <1>1, <1>2, <1>3 DEF OrderStep

\* A handler's write of reserved_quantity makes up for what its order begins or
\* ceases to hold: reservation and flag change together.
LEMMA ReservedAfter ==
  ASSUME IInv, NEW o \in OrderIds, OrderStep(o), NEW p \in ProductIds
  PROVE  prod'[p].reserved >=
           prod[p].reserved
           + (IF ord'[o].stock_reserved /\ ord'[o].product = p THEN Units(ord'[o]) ELSE 0)
           - (IF ord[o].stock_reserved /\ ord[o].product = p THEN Units(ord[o]) ELSE 0)
<1> DEFINE a == IF ord'[o].stock_reserved /\ ord'[o].product = p THEN Units(ord'[o]) ELSE 0
           b == IF ord[o].stock_reserved /\ ord[o].product = p THEN Units(ord[o]) ELSE 0
           R == prod[p].reserved
<1>0. /\ ord \in [OrderIds -> OrderRow] /\ ord[o] \in OrderRow
      /\ prod \in [ProductIds -> ProductRow] /\ prod[p] \in ProductRow
      /\ Units(ord[o]) \in Nat /\ R \in Nat
  <2>1. /\ ord \in [OrderIds -> OrderRow] /\ ord[o] \in OrderRow
        /\ prod \in [ProductIds -> ProductRow] /\ prod[p] \in ProductRow
    BY DEF IInv, TypeOK
  <2> QED BY <2>1, UnitsType DEF ProductRow
<1>1. /\ ord[o].stock_reserved => ord[o].status = Pending /\ ord[o].product # NoProduct
  BY DEF IInv, ReservedOnlyWhilePending
<1>2. CASE prod' = prod /\ a = b
  BY <1>0, <1>2
<1>3. ASSUME NEW c \in Customers, NEW pp \in ProductIds \cup {NoProduct},
             NEW q \in Quantities \cup {0}, Detect(o, c, pp, q)
      PROVE  prod' = prod /\ a = b
  BY <1>0, <1>1, <1>3 DEF Detect, CandidateRow, Absent, Pending
<1>4. CASE \/ CustomerCancel(o) \/ OwnerAdvance(o) \/ ExpireCandidate(o) \/ LeaveDedupWindow(o)
  <2>1. /\ prod' = prod /\ ord'[o].quantity = ord[o].quantity
        /\ ord'[o].product = ord[o].product /\ ord'[o].stock_reserved = ord[o].stock_reserved
    <3>1. CASE CustomerCancel(o)
      BY <1>0, <3>1 DEF CustomerCancel, CancelOrder, OrderRow
    <3>2. CASE OwnerAdvance(o)
      BY <1>0, <3>2 DEF OwnerAdvance, AdvanceOrder, OrderRow
    <3>3. CASE ExpireCandidate(o)
      BY <1>0, <3>3 DEF ExpireCandidate, CancelOrder, OrderRow
    <3>4. CASE LeaveDedupWindow(o)
      BY <1>0, <3>4 DEF LeaveDedupWindow, OrderRow
    <3> QED BY <1>4, <3>1, <3>2, <3>3, <3>4
  <2> QED BY <1>2, <2>1 DEF Units
<1>5. CASE CustomerConfirm(o)
  <2>0. ~ord[o].stock_reserved
    BY <1>1, <1>5 DEF CustomerConfirm, Awaiting, Pending
  <2>1. CASE ord[o].product = NoProduct
    <3>1. prod' = prod /\ ~ord'[o].stock_reserved
      BY <1>0, <1>5, <2>0, <2>1 DEF CustomerConfirm, CustomerConfirmPlain, OrderRow
    <3> QED BY <1>2, <2>0, <3>1
  <2>2. CASE ord[o].product # NoProduct
    <3> DEFINE r == prod[ord[o].product]
    <3>1. /\ ord' = [ord EXCEPT ![o] = CustomerConfirmOrder(@, r)]
          /\ prod' = [prod EXCEPT ![ord[o].product] = CustomerConfirmProduct(ord[o], @)]
      BY <1>5, <2>2 DEF CustomerConfirm
    <3>2. /\ ord'[o].product = ord[o].product /\ Units(ord'[o]) = Units(ord[o])
          /\ ord'[o].stock_reserved <=> CanReserve(ord[o], r)
      BY <1>0, <2>0, <3>1 DEF CustomerConfirmOrder, OrderRow, Units
    <3>3. CASE p # ord[o].product
      BY <1>0, <2>0, <3>1, <3>2, <3>3
    <3>4. CASE p = ord[o].product
      <4>1. prod'[p] = CustomerConfirmProduct(ord[o], prod[p])
        BY <1>0, <3>1, <3>4
      <4>2. CASE CanReserve(ord[o], r)
        <5>1. prod'[p].reserved = R + Units(ord[o])
          BY <1>0, <3>4, <4>1, <4>2 DEF CustomerConfirmProduct, ProductRow
        <5> QED BY <1>0, <2>0, <3>2, <3>4, <4>2, <5>1
      <4>3. CASE ~CanReserve(ord[o], r)
        <5>1. prod'[p] = prod[p]
          BY <3>4, <4>1, <4>3 DEF CustomerConfirmProduct
        <5> QED BY <1>0, <2>0, <3>2, <4>3, <5>1
      <4> QED BY <4>2, <4>3
    <3> QED BY <3>3, <3>4
  <2> QED BY <2>1, <2>2
<1>6. CASE OwnerConfirm(o) \/ OwnerReject(o) \/ ExpireReservation(o)
  <2>1. ~ord'[o].stock_reserved
    <3>1. CASE OwnerConfirm(o)
      BY <1>0, <3>1 DEF OwnerConfirm, ConfirmOrder, OrderRow
    <3>2. CASE OwnerReject(o)
      BY <1>0, <3>2 DEF OwnerReject, RejectOrder, OrderRow
    <3>3. CASE ExpireReservation(o)
      BY <1>0, <3>3 DEF ExpireReservation, ExpireOrder, OrderRow
    <3> QED BY <1>6, <3>1, <3>2, <3>3
  <2>2. \/ prod'[p] = prod[p] /\ ord[o].product # p
        \/ ord[o].product = p /\ prod'[p] = ConfirmProduct(ord[o], prod[p])
        \/ ord[o].product = p /\ prod'[p] = ReleaseProduct(ord[o], prod[p])
    <3>1. CASE OwnerConfirm(o)
      BY <1>0, <3>1, NoProductFresh DEF OwnerConfirm
    <3>2. CASE OwnerReject(o)
      BY <1>0, <3>2, NoProductFresh DEF OwnerReject
    <3>3. CASE ExpireReservation(o)
      BY <1>0, <3>3, NoProductFresh DEF ExpireReservation
    <3> QED BY <1>6, <3>1, <3>2, <3>3
  <2>3. AtLeastZero(R - Units(ord[o])) >= R - Units(ord[o]) /\ R >= R - Units(ord[o]) /\ R >= R
    BY <1>0 DEF AtLeastZero
  <2>4. prod'[p].reserved >= R - b
    <3>1. CASE ord[o].stock_reserved /\ ord[o].product = p
      <4>1. prod'[p].reserved \in {R, AtLeastZero(R - Units(ord[o]))}
        <5> DEFINE n == AtLeastZero(R - Units(ord[o]))
                   m == AtLeastZero(prod[p].stock - Units(ord[o]))
        <5>1. prod'[p] \in {prod[p], [prod[p] EXCEPT !.reserved = n],
                            [prod[p] EXCEPT !.reserved = n, !.stock = m]}
          BY <2>2, <3>1 DEF ConfirmProduct, ReleaseProduct
        <5> HIDE DEF n, m
        <5>2. prod'[p].reserved \in {R, n}
          BY <1>0, <5>1 DEF ProductRow
        <5> QED BY <5>2 DEF n
      <4> QED BY <2>3, <3>1, <4>1
    <3>2. CASE ~(ord[o].stock_reserved /\ ord[o].product = p)
      <4>1. prod'[p].reserved = R
        BY <1>0, <2>2, <3>2 DEF ConfirmProduct, ReleaseProduct, ProductRow
      <4> QED BY <1>0, <3>2, <4>1
    <3> QED BY <3>1, <3>2
  <2> QED BY <1>0, <2>1, <2>4
<1> QED BY <1>2, <1>3, <1>4, <1>5, <1>6 DEF OrderStep

\* Covered is inductive relative to IInv.
LEMMA NextCovered == IInv /\ Covered /\ [Next]_vars => Covered'
<1> SUFFICES ASSUME IInv, Covered, [Next]_vars, NEW p \in ProductIds
             PROVE  /\ IsFiniteSet(Holders(ord', p))
                    /\ prod'[p].reserved >= Sum(HeldBy', Holders(ord', p))
  BY DEF Covered, Sum, Holders
<1>0. IInv' /\ prod \in [ProductIds -> ProductRow] /\ prod' \in [ProductIds -> ProductRow]
  BY NextIInv DEF IInv, TypeOK
<1>1. IsFiniteSet(Holders(ord, p)) /\ prod[p].reserved >= Sum(HeldBy, Holders(ord, p))
  BY DEF Covered
<1>2. prod[p].reserved \in Nat /\ prod'[p].reserved \in Nat
  BY <1>0 DEF ProductRow
<1>3. ASSUME NEW o \in OrderIds, OrderStep(o)
      PROVE  /\ IsFiniteSet(Holders(ord', p))
             /\ prod'[p].reserved >= Sum(HeldBy', Holders(ord', p))
  <2> DEFINE a == IF ord'[o].stock_reserved /\ ord'[o].product = p THEN Units(ord'[o]) ELSE 0
             b == IF ord[o].stock_reserved /\ ord[o].product = p THEN Units(ord[o]) ELSE 0
  <2>1. /\ \A x \in OrderIds : x # o => ord'[x] = ord[x]
        /\ ord[o].stock_reserved /\ ord'[o].stock_reserved => ord'[o].quantity = ord[o].quantity
    BY <1>3, ChangedOrder
  <2>2. /\ IsFiniteSet(Holders(ord', p))
        /\ Sum(HeldBy, Holders(ord, p)) \in Int /\ Sum(HeldBy', Holders(ord', p)) \in Int
        /\ Sum(HeldBy', Holders(ord', p)) =
             Sum(HeldBy, Holders(ord, p))
             + (IF o \in Holders(ord', p) THEN Units(ord'[o]) ELSE 0)
             - (IF o \in Holders(ord, p) THEN Units(ord[o]) ELSE 0)
    BY <1>0, <1>1, <2>1, HeldAfter
  <2>3. /\ o \in Holders(ord, p) <=> ord[o].stock_reserved /\ ord[o].product = p
        /\ o \in Holders(ord', p) <=> ord'[o].stock_reserved /\ ord'[o].product = p
    BY <1>0 DEF Holders, IInv, TypeOK
  <2>4. prod'[p].reserved >= prod[p].reserved + a - b
    BY <1>3, ReservedAfter
  <2>5. a \in Int /\ b \in Int
    <3>1. ord[o] \in OrderRow /\ ord'[o] \in OrderRow
      BY <1>0 DEF IInv, TypeOK
    <3> QED BY <3>1, UnitsType
  <2>6. Sum(HeldBy', Holders(ord', p)) = Sum(HeldBy, Holders(ord, p)) + a - b
    BY <2>2, <2>3
  <2> HIDE DEF a, b
  <2> QED BY <1>1, <1>2, <2>2, <2>4, <2>5, <2>6
<1>4. CASE ord' = ord /\ prod'[p].reserved = prod[p].reserved
  <2>1. HeldBy' = HeldBy
    BY <1>4 DEF HeldBy
  <2> QED BY <1>1, <1>4, <2>1
<1>5. ASSUME NEW x \in ProductIds, ProductStep(x)
      PROVE  ord' = ord /\ prod'[p].reserved = prod[p].reserved
  BY <1>0, <1>5 DEF ProductStep, EditStock, SoftDelete, ProductRow
<1>6. CASE UNCHANGED vars
  BY <1>4, <1>6 DEF vars
<1> QED BY <1>3, <1>4, <1>5, <1>6 DEF Next

\* Nothing is held at first.
LEMMA InitCovered == Init => Covered
<1> SUFFICES ASSUME Init, NEW p \in ProductIds
             PROVE  /\ IsFiniteSet(Holders(ord, p))
                    /\ prod[p].reserved >= Sum(HeldBy, Holders(ord, p))
  BY DEF Covered
<1>1. Holders(ord, p) = {} /\ prod[p].reserved = 0
  BY DEF Init, Holders, NoOrder
<1>2. Sum(HeldBy, {}) = 0 /\ IsFiniteSet({})
  BY SumOfNone, FS_EmptySet
<1> QED BY <1>1, <1>2

\* A product's reserved_quantity covers every order that believes it holds units
\* of it, for any number of orders: a release gives back its own units only, and
\* never another order's through the max(0, ...) of _release_reservation.
THEOREM SpecReservationsCovered == Spec => []ReservationsCovered
<1>1. Init => Covered
  BY InitCovered
<1>2. IInv /\ Covered /\ [Next]_vars => Covered'
  BY NextCovered
<1>3. IInv /\ Covered => ReservationsCovered
  BY HeldUnitsIs DEF Covered, ReservationsCovered
<1> QED BY <1>1, <1>2, <1>3, SpecIInv, PTL DEF Spec

-----------------------------------------------------------------------------
\* The sessions of OrdersRC. What a session has are the handler k it runs, the
\* orders T it has not processed yet, the order rows a as loaded and b as
\* changed, and the product rows pa and pb likewise. Nothing but the session
\* itself changes them, so what is said of them is said of these values.

Rows(T, a, b, pa, pb) ==
  /\ DOMAIN a \subseteq OrderIds /\ DOMAIN b = DOMAIN a /\ T \subseteq DOMAIN a
  /\ DOMAIN pa \subseteq ProductIds /\ DOMAIN pb = DOMAIN pa
  /\ \A o \in DOMAIN a : a[o] \in OrderRow /\ b[o] \in OrderRow
  /\ \A p \in DOMAIN pa : pa[p] \in ProductRow /\ pb[p] \in ProductRow

\* A detection has the row of a candidate for an id without a row.
Detected(T, a, b, pa) ==
  /\ T = {} /\ DOMAIN pa = {}
  /\ \E o \in OrderIds, c \in Customers, p \in ProductIds \cup {NoProduct},
        q \in Quantities \cup {0} :
       DOMAIN a = {o} /\ a[o] = NoOrder /\ b[o] = CandidateRow(c, p, q)

\* An edit sets the stock of one product, or deletes it.
EditOf(x, y) ==
  \/ \E s \in Stocks \cup {Unlimited} : y = [x EXCEPT !.stock = s]
  \/ x.is_active /\ y = [x EXCEPT !.is_active = FALSE]

Edited(a, pa, pb) ==
  DOMAIN a = {} /\ \E p \in ProductIds : DOMAIN pa = {p} /\ EditOf(pa[p], pb[p])

\* A handler of one order has the rows that the handler alone would make of what
\* it loaded, and has loaded the product only if it needs it.
Handled(k, T, a, b, pa, pb) ==
  \E o \in OrderIds :
    /\ DOMAIN a = {o} /\ Accepts(k, a[o])
    /\ T # {} => b[o] = a[o] /\ DOMAIN pa = {}
    /\ T = {} /\ NeedsProduct(k, a[o]) =>
         LET p == a[o].product IN
         /\ DOMAIN pa = {p}
         /\ b[o] = OrderAfter(k, a[o], pa[p]) /\ pb[p] = ProductAfter(k, a[o], pa[p])
    /\ T = {} /\ ~NeedsProduct(k, a[o]) =>
         DOMAIN pa = {} /\ b[o] = OrderAfter(k, a[o], NoProduct)

\* A pass of the job has timed out the orders it is through with, and each
\* product it has loaded has got back what those of them that held it held.
TimedOut(row) == IF row.status = Awaiting THEN CancelOrder(row) ELSE ExpireOrder(row)

Holds(row, p) == row.stock_reserved /\ row.product = p

Releasing(S, a, p) == {o \in S : Holds(a[o], p)}

UnitsOf(a) == [o \in DOMAIN a |-> Units(a[o])]

Passed(T, a, b, pa, pb) ==
  /\ IsFiniteSet(DOMAIN a)
  /\ \A o \in DOMAIN a :
       /\ a[o].status = Awaiting \/ ReservationExpirable(a[o])
       /\ b[o] = IF o \in T THEN a[o] ELSE TimedOut(a[o])
  /\ DOMAIN pa = {p \in ProductIds : Releasing(DOMAIN a \ T, a, p) # {}}
  /\ \A p \in DOMAIN pa :
       pb[p] = [pa[p] EXCEPT !.reserved =
                  AtLeastZero(@ - Sum(UnitsOf(a), Releasing(DOMAIN a \ T, a, p)))]

Session(k, T, a, b, pa, pb) ==
  /\ k \in OneOrderOps \cup {"idle", "detect", "edit", "expire"}
  /\ Rows(T, a, b, pa, pb)
  /\ k = "idle" => DOMAIN a = {} /\ DOMAIN pa = {}
  /\ k = "detect" => Detected(T, a, b, pa)
  /\ k = "edit" => Edited(a, pa, pb)
  /\ k \in OneOrderOps => Handled(k, T, a, b, pa, pb)
  /\ k = "expire" => Passed(T, a, b, pa, pb)

InOrder(w) == Session(op[w], todo[w], old[w], new[w], pold[w], pnew[w])

\* The id that a detection inserts has no row, and no other session has it.
FreshIds ==
  \A w \in Sessions : op[w] = "detect" =>
    \A o \in DOMAIN old[w] :
      ord[o] = NoOrder /\ \A v \in Sessions \ {w} : o \notin DOMAIN old[v]

\* Other sessions only have ids with rows.
LoadedExist ==
  \A w \in Sessions : op[w] # "detect" =>
    \A o \in DOMAIN old[w] : ord[o].status # Absent

OwnerOps == {"confirm", "reject", "advance"}

\* The owner decides on orders of which the buttons have been sent.
ButtonsWereSent ==
  ~stale => \A w \in Sessions : op[w] \in OwnerOps =>
              \A o \in DOMAIN old[w] : OwnerHasButtons(old[w][o])

Tables ==
  /\ TypeOK /\ stale \in BOOLEAN
  /\ \A o \in OrderIds : ord[o].status = Absent => ord[o] = NoOrder
  /\ DOMAIN op = Sessions /\ DOMAIN todo = Sessions
  /\ DOMAIN old = Sessions /\ DOMAIN new = Sessions
  /\ DOMAIN pold = Sessions /\ DOMAIN pnew = Sessions

\* The inductive invariant of OrdersRC, stale or not.
RCInv ==
  /\ Tables /\ FreshIds /\ LoadedExist /\ ButtonsWereSent
  /\ \A w \in Sessions : InOrder(w)

-----------------------------------------------------------------------------
\* A commit writes rows: each column is the session's or the table's.
LEMMA FlushType ==
  /\ \A b, a, r \in OrderRow : Flush(b, a, r) \in OrderRow
  /\ \A b, a, r \in ProductRow : Flush(b, a, r) \in ProductRow
<1>1. ASSUME NEW b \in OrderRow, NEW a \in OrderRow, NEW r \in OrderRow
      PROVE  Flush(b, a, r) \in OrderRow
  BY DEF Flush, OrderRow
<1>2. ASSUME NEW b \in ProductRow, NEW a \in ProductRow, NEW r \in ProductRow
      PROVE  Flush(b, a, r) \in ProductRow
  BY DEF Flush, ProductRow
<1> QED BY <1>1, <1>2

\* Status and flag after a commit.
LEMMA FlushColumns ==
  ASSUME NEW b \in OrderRow, NEW a \in OrderRow, NEW r \in OrderRow
  PROVE  /\ Flush(b, a, r).status = IF a.status # b.status THEN a.status ELSE r.status
         /\ Flush(b, a, r).confirmed =
              IF a.confirmed # b.confirmed THEN a.confirmed ELSE r.confirmed
BY DEF Flush, OrderRow

\* A session that has read the row as it is writes the row it has computed.
LEMMA FlushUnread ==
  /\ \A b, a \in OrderRow : Flush(b, a, b) = a
  /\ \A b, a \in ProductRow : Flush(b, a, b) = a
<1>1. ASSUME NEW b \in OrderRow, NEW a \in OrderRow PROVE Flush(b, a, b) = a
  BY DEF Flush, OrderRow
<1>2. ASSUME NEW b \in ProductRow, NEW a \in ProductRow PROVE Flush(b, a, b) = a
  BY DEF Flush, ProductRow
<1> QED BY <1>1, <1>2

\* What two rows have in common that differ by the time at most.
LEMMA SameColumns ==
  ASSUME NEW b \in OrderRow, NEW r \in OrderRow, SameRow(b, r)
  PROVE  /\ b.status = r.status /\ b.confirmed = r.confirmed
         /\ b.stock_reserved = r.stock_reserved /\ b.customer = r.customer
         /\ b.product = r.product /\ b.quantity = r.quantity /\ Units(b) = Units(r)
BY DEF SameRow, OrderRow, Units

\* The same for an order: the time that has passed since does not matter.
LEMMA FlushSame ==
  ASSUME NEW b \in OrderRow, NEW r \in OrderRow, SameRow(b, r)
  PROVE  /\ Flush(b, CustomerConfirmPlain(b), r) = CustomerConfirmPlain(r)
         /\ \A x \in ProductRow :
              Flush(b, CustomerConfirmOrder(b, x), r) = CustomerConfirmOrder(r, x)
         /\ Flush(b, CancelOrder(b), r) = CancelOrder(r)
         /\ Flush(b, ConfirmOrder(b), r) = ConfirmOrder(r)
         /\ Flush(b, RejectOrder(b), r) = RejectOrder(r)
         /\ Flush(b, AdvanceOrder(b), r) = AdvanceOrder(r)
         /\ Flush(b, ExpireOrder(b), r) = ExpireOrder(r)
<1>0. /\ b.status = r.status /\ b.confirmed = r.confirmed
      /\ b.stock_reserved = r.stock_reserved /\ b.customer = r.customer
      /\ b.product = r.product /\ b.quantity = r.quantity /\ Units(b) = Units(r)
  BY SameColumns
<1>1. Flush(b, CustomerConfirmPlain(b), r) = CustomerConfirmPlain(r)
  BY <1>0 DEF Flush, OrderRow, CustomerConfirmPlain
<1>2. ASSUME NEW x \in ProductRow
      PROVE  Flush(b, CustomerConfirmOrder(b, x), r) = CustomerConfirmOrder(r, x)
  <2> DEFINE y == b.stock_reserved \/ CanReserve(b, x)
  <2>1. y \in BOOLEAN /\ (y <=> r.stock_reserved \/ CanReserve(r, x))
    BY <1>0 DEF CanReserve
  <2>2. /\ CustomerConfirmOrder(b, x) = [b EXCEPT !.status = Pending, !.stock_reserved = y]
        /\ CustomerConfirmOrder(r, x) = [r EXCEPT !.status = Pending, !.stock_reserved = y]
    BY <2>1 DEF CustomerConfirmOrder
  <2> HIDE DEF y
  <2>3. CASE y = TRUE
    <3>1. Flush(b, [b EXCEPT !.status = Pending, !.stock_reserved = TRUE], r)
            = [r EXCEPT !.status = Pending, !.stock_reserved = TRUE]
      BY <1>0 DEF Flush, OrderRow
    <3> QED BY <2>2, <2>3, <3>1
  <2>4. CASE y = FALSE
    <3>1. Flush(b, [b EXCEPT !.status = Pending, !.stock_reserved = FALSE], r)
            = [r EXCEPT !.status = Pending, !.stock_reserved = FALSE]
      BY <1>0 DEF Flush, OrderRow
    <3> QED BY <2>2, <2>4, <3>1
  <2> QED BY <2>1, <2>3, <2>4
<1>3. Flush(b, CancelOrder(b), r) = CancelOrder(r)
  BY <1>0 DEF Flush, OrderRow, CancelOrder
<1>4. Flush(b, ConfirmOrder(b), r) = ConfirmOrder(r)
  <2> DEFINE c == ConfirmOrder(b)
             e == ConfirmOrder(r)
  <2>1. c \in OrderRow /\ e \in OrderRow /\ Flush(b, c, r) \in OrderRow
    BY OrderRowTypes, FlushType
  <2>2. /\ c.status = "confirmed" /\ c.confirmed = TRUE /\ c.stock_reserved = FALSE
        /\ c.customer = b.customer /\ c.product = b.product /\ c.quantity = b.quantity
        /\ c.recent = b.recent
    BY DEF ConfirmOrder, OrderRow
  <2>3. /\ e.status = "confirmed" /\ e.confirmed = TRUE /\ e.stock_reserved = FALSE
        /\ e.customer = r.customer /\ e.product = r.product /\ e.quantity = r.quantity
        /\ e.recent = r.recent
    BY DEF ConfirmOrder, OrderRow
  <2> HIDE DEF c, e
  <2>4. /\ Flush(b, c, r).status = e.status /\ Flush(b, c, r).confirmed = e.confirmed
        /\ Flush(b, c, r).stock_reserved = e.stock_reserved
        /\ Flush(b, c, r).customer = e.customer /\ Flush(b, c, r).product = e.product
        /\ Flush(b, c, r).quantity = e.quantity /\ Flush(b, c, r).recent = e.recent
    BY <1>0, <2>1, <2>2, <2>3 DEF Flush, OrderRow
  <2>5. Flush(b, c, r) = e
    BY <2>1, <2>4 DEF OrderRow
  <2> QED BY <2>5 DEF c, e
<1>5. Flush(b, RejectOrder(b), r) = RejectOrder(r)
  BY <1>0 DEF Flush, OrderRow, RejectOrder
<1>6. Flush(b, AdvanceOrder(b), r) = AdvanceOrder(r)
  BY <1>0 DEF Flush, OrderRow, AdvanceOrder
<1>7. Flush(b, ExpireOrder(b), r) = ExpireOrder(r)
  BY <1>0 DEF Flush, OrderRow, ExpireOrder
<1> QED BY <1>1, <1>2, <1>3, <1>4, <1>5, <1>6, <1>7

\* What the handlers make of rows they accept are rows.
LEMMA AfterTypes ==
  ASSUME NEW o \in OrderRow
  PROVE  /\ \A k \in OneOrderOps : Accepts(k, o) => \A r : OrderAfter(k, o, r) \in OrderRow
         /\ TimedOut(o) \in OrderRow
         /\ \A r : OrderAfter("expire", o, r) = TimedOut(o)
         /\ \A r \in ProductRow :
              /\ ProductAfter("customer_confirm", o, r) \in ProductRow
              /\ ProductAfter("confirm", o, r) \in ProductRow
              /\ ProductAfter("reject", o, r) \in ProductRow
              /\ ProductAfter("expire", o, r) = ReleaseProduct(o, r)
              /\ ReleaseProduct(o, r) \in ProductRow
<1>1. ASSUME NEW k \in OneOrderOps, Accepts(k, o), NEW r
      PROVE  OrderAfter(k, o, r) \in OrderRow
  <2>1. k = "advance" => MayAdvance(o)
    BY <1>1 DEF Accepts
  <2> QED BY <2>1, OrderRowTypes DEF OrderAfter, OneOrderOps
<1>2. TimedOut(o) \in OrderRow
  BY OrderRowTypes DEF TimedOut
<1>3. ASSUME NEW r PROVE OrderAfter("expire", o, r) = TimedOut(o)
  BY DEF OrderAfter, TimedOut
<1>4. ASSUME NEW r \in ProductRow
      PROVE  /\ ProductAfter("customer_confirm", o, r) = CustomerConfirmProduct(o, r)
             /\ ProductAfter("confirm", o, r) = ConfirmProduct(o, r)
             /\ ProductAfter("reject", o, r) = ReleaseProduct(o, r)
             /\ ProductAfter("expire", o, r) = ReleaseProduct(o, r)
  BY DEF ProductAfter
<1>5. ASSUME NEW r \in ProductRow
      PROVE  /\ CustomerConfirmProduct(o, r) \in ProductRow
             /\ ConfirmProduct(o, r) \in ProductRow /\ ReleaseProduct(o, r) \in ProductRow
  BY CustomerConfirmProductType, ConfirmProductType, ReleaseProductType
<1> QED BY <1>1, <1>2, <1>3, <1>4, <1>5

\* What a session that is ready to commit writes: the status of an order that
\* is neither absent nor a candidate, except for the candidate a detection
\* inserts, and never "confirmed" over again.
LEMMA SessionWrites ==
  ASSUME NEW k, NEW a, NEW b, NEW pa, NEW pb, Session(k, {}, a, b, pa, pb),
         NEW o \in DOMAIN a
  PROVE  /\ k # "detect" => b[o].status \notin {Absent, Awaiting}
         /\ k = "detect" => a[o] = NoOrder /\ b[o].status = Awaiting /\ ~b[o].confirmed
         /\ a[o].confirmed => b[o].confirmed
<1>0. a[o] \in OrderRow
  BY DEF Session, Rows
<1>1. CASE k \in {"idle", "edit"}
  BY <1>1 DEF Session, Edited
<1>2. CASE k = "detect"
  <2>1. PICK x \in OrderIds, c \in Customers, p \in ProductIds \cup {NoProduct},
             q \in Quantities \cup {0} :
          DOMAIN a = {x} /\ a[x] = NoOrder /\ b[x] = CandidateRow(c, p, q)
    BY <1>2 DEF Session, Detected
  <2> QED BY <1>2, <2>1 DEF CandidateRow, NoOrder
<1>3. CASE k = "expire"
  <2>1. b[o] = TimedOut(a[o])
    BY <1>3 DEF Session, Passed
  <2>2. /\ TimedOut(a[o]).status \in {Cancelled, Expired}
        /\ TimedOut(a[o]).confirmed = a[o].confirmed
    BY <1>0 DEF TimedOut, CancelOrder, ExpireOrder, OrderRow
  <2> QED BY <1>3, <2>1, <2>2 DEF Cancelled, Expired, Absent, Awaiting
<1>4. CASE k \in OneOrderOps
  <2>1. PICK r : b[o] = OrderAfter(k, a[o], r)
    BY <1>4 DEF Session, Handled
  <2>2. Accepts(k, a[o])
    BY <1>4 DEF Session, Handled
  <2>3. CASE k = "customer_confirm"
    BY <1>0, <2>1, <2>3 DEF OrderAfter, CustomerConfirmOrder, CustomerConfirmPlain, OrderRow,
       Pending, Absent, Awaiting
  <2>4. CASE k = "customer_cancel"
    BY <1>0, <2>1, <2>4 DEF OrderAfter, CancelOrder, OrderRow, Cancelled, Absent, Awaiting
  <2>5. CASE k = "confirm"
    BY <1>0, <2>1, <2>5 DEF OrderAfter, ConfirmOrder, OrderRow, Absent, Awaiting
  <2>6. CASE k = "reject"
    BY <1>0, <2>1, <2>6 DEF OrderAfter, RejectOrder, OrderRow, Rejected, Absent, Awaiting
  <2>7. CASE k = "advance"
    <3>1. b[o] = AdvanceOrder(a[o]) /\ MayAdvance(a[o])
      BY <2>1, <2>2, <2>7 DEF OrderAfter, Accepts
    <3>2. NextStatus(a[o].status) \notin {Absent, Awaiting}
      BY <3>1 DEF MayAdvance, AdvanceStatus, NextStatus, Absent, Awaiting
    <3> QED BY <1>0, <2>7, <3>1, <3>2 DEF AdvanceOrder, OrderRow
  <2> QED BY <1>4, <2>3, <2>4, <2>5, <2>6, <2>7 DEF OneOrderOps
<1> QED BY <1>1, <1>2, <1>3, <1>4 DEF Session

-----------------------------------------------------------------------------
\* A step of session w leaves the others as they are.
Alone(w) ==
  /\ DOMAIN op' = Sessions /\ DOMAIN todo' = Sessions
  /\ DOMAIN old' = Sessions /\ DOMAIN new' = Sessions
  /\ DOMAIN pold' = Sessions /\ DOMAIN pnew' = Sessions
  /\ \A v \in Sessions \ {w} :
       /\ op'[v] = op[v] /\ todo'[v] = todo[v] /\ old'[v] = old[v]
       /\ new'[v] = new[v] /\ pold'[v] = pold[v] /\ pnew'[v] = pnew[v]

\* No session is open at first.
LEMMA RCInitInv == RCInit => RCInv
<1> SUFFICES ASSUME RCInit PROVE RCInv
  OBVIOUS
<1>1. TypeOK
  BY InitIInv DEF IInv, RCInit
<1>2. Tables
  BY <1>1 DEF RCInit, Init, Tables
<1>3. \A w \in Sessions : /\ op[w] = "idle" /\ todo[w] = {}
                          /\ old[w] = Empty /\ new[w] = Empty /\ pold[w] = Empty /\ pnew[w] = Empty
  BY DEF RCInit
<1>4. DOMAIN Empty = {}
  BY DEF Empty
<1>5. Session("idle", {}, Empty, Empty, Empty, Empty)
  BY <1>4 DEF Session, Rows, OneOrderOps
<1>6. FreshIds /\ LoadedExist /\ ButtonsWereSent
  BY <1>3, <1>4 DEF FreshIds, LoadedExist, ButtonsWereSent, OwnerOps
<1> QED BY <1>2, <1>3, <1>5, <1>6 DEF RCInv, InOrder

\* A step that opens session w, or goes on in it, keeps the invariant if what
\* the session then has is in order and fits the tables.
LEMMA OneSession ==
  ASSUME RCInv, NEW w \in Sessions, Alone(w), UNCHANGED vars, UNCHANGED stale, InOrder(w)',
         op'[w] = "detect" => \A o \in DOMAIN old'[w] :
           ord[o] = NoOrder /\ \A v \in Sessions \ {w} : o \notin DOMAIN old[v],
         op'[w] # "detect" => \A o \in DOMAIN old'[w] : ord[o].status # Absent,
         ~stale /\ op'[w] \in OwnerOps => \A o \in DOMAIN old'[w] : OwnerHasButtons(old'[w][o])
  PROVE  RCInv'
<1>0. ord' = ord /\ prod' = prod /\ override' = override /\ stale' = stale
  BY DEF vars
<1>1. Tables'
  BY <1>0 DEF RCInv, Tables, TypeOK, Alone
<1>2. \A v \in Sessions : InOrder(v)'
  BY DEF RCInv, InOrder, Alone
<1>3. LoadedExist'
  BY <1>0 DEF RCInv, LoadedExist, Alone
<1>4. ButtonsWereSent'
  BY <1>0 DEF RCInv, ButtonsWereSent, Alone
<1>5. FreshIds'
  <2> SUFFICES ASSUME NEW v \in Sessions, op'[v] = "detect", NEW o \in DOMAIN old'[v]
               PROVE  /\ ord[o] = NoOrder
                      /\ \A u \in Sessions \ {v} : o \notin DOMAIN old'[u]
    BY <1>0 DEF FreshIds
  <2>1. CASE v = w
    BY <2>1 DEF Alone
  <2>2. CASE v # w
    <3>1. /\ ord[o] = NoOrder /\ \A u \in Sessions \ {v} : o \notin DOMAIN old[u]
      BY <2>2 DEF Alone, RCInv, FreshIds
    <3>2. o \notin DOMAIN old'[w]
      <4>1. ord[o].status = Absent /\ o \in DOMAIN old[v]
        BY <2>2, <3>1 DEF NoOrder, Alone
      <4> QED BY <2>2, <4>1
    <3> QED BY <3>1, <3>2 DEF Alone
  <2> QED BY <2>1, <2>2
<1> QED BY <1>1, <1>2, <1>3, <1>4, <1>5 DEF RCInv

\* The first query of a handler: it has rows it will change, and no product.
LEMMA LoadInv ==
  ASSUME RCInv, NEW w \in Sessions, NEW k \in OneOrderOps \cup {"expire"},
         NEW S \in SUBSET OrderIds, Load(w, k, S),
         \A o \in S : ord[o].status # Absent,
         k \in OneOrderOps => \E o \in OrderIds : S = {o} /\ Accepts(k, ord[o]),
         k = "expire" => /\ IsFiniteSet(S)
                         /\ \A o \in S : ord[o].status = Awaiting \/ ReservationExpirable(ord[o]),
         ~stale /\ k \in OwnerOps => \A o \in S : OwnerHasButtons(ord[o])
  PROVE  RCInv'
<1> DEFINE a == [o \in S |-> ord[o]]
<1>0. Tables /\ InOrder(w) /\ op[w] = "idle"
  BY DEF RCInv, Load
<1>1. Alone(w) /\ UNCHANGED vars /\ UNCHANGED stale
  BY <1>0 DEF Load, Alone, Tables
<1>2. /\ op'[w] = k /\ todo'[w] = S /\ old'[w] = a /\ new'[w] = a
      /\ pold'[w] = pold[w] /\ pnew'[w] = pnew[w]
  BY <1>0 DEF Load, Tables
<1>3. DOMAIN pold[w] = {} /\ DOMAIN pnew[w] = {}
  BY <1>0 DEF InOrder, Session, Rows
<1>4. DOMAIN a = S /\ \A o \in S : a[o] = ord[o] /\ a[o] \in OrderRow
  BY <1>0 DEF Tables, TypeOK
<1>5. Rows(S, a, a, pold[w], pnew[w])
  BY <1>3, <1>4 DEF Rows
<1> HIDE DEF a
<1>6. k \in OneOrderOps => Handled(k, S, a, a, pold[w], pnew[w])
  BY <1>3, <1>4 DEF Handled
<1>7. k = "expire" => Passed(S, a, a, pold[w], pnew[w])
  BY <1>3, <1>4 DEF Passed, Releasing
<1>8. Session(k, S, a, a, pold[w], pnew[w])
  BY <1>5, <1>6, <1>7 DEF Session, OneOrderOps
<1>9. InOrder(w)'
  BY <1>2, <1>8 DEF InOrder
<1>10. k # "detect"
  BY DEF OneOrderOps
<1> QED BY <1>1, <1>2, <1>4, <1>9, <1>10, OneSession

\* Every way a session is opened keeps the invariant.
LEMMA BeginInv ==
  ASSUME RCInv, NEW w \in Sessions,
         HandlerStep(w) \/ \E S \in SUBSET OrderIds : BeginExpiry(w, S)
  PROVE  RCInv'
<1>0. Tables /\ InOrder(w)
  BY DEF RCInv
<1>t. ord \in [OrderIds -> OrderRow] /\ prod \in [ProductIds -> ProductRow]
  BY <1>0 DEF Tables, TypeOK
<1>1. ASSUME NEW k \in OneOrderOps, NEW o \in OrderIds, BeginHandler(w, k, o)
      PROVE  RCInv'
  <2>1. Load(w, k, {o}) /\ Accepts(k, ord[o])
    BY <1>1 DEF BeginHandler
  <2>2. ord[o].status # Absent
    BY <2>1 DEF Accepts, OneOrderOps, OwnerMayConfirm, MayAdvance, AdvanceStatus, Absent,
       Awaiting, Pending
  <2>3. ~stale /\ k \in OwnerOps => OwnerHasButtons(ord[o])
    BY <1>1 DEF BeginHandler, OwnerOps, ButtonsSent
  <2>4. k # "expire"
    BY DEF OneOrderOps
  <2> QED BY <2>1, <2>2, <2>3, <2>4, LoadInv
<1>2. ASSUME NEW S \in SUBSET OrderIds, BeginExpiry(w, S)
      PROVE  RCInv'
  <2>1. /\ Load(w, "expire", S) /\ IsFiniteSet(S)
        /\ \A o \in S : ord[o].status = Awaiting \/ ReservationExpirable(ord[o])
    BY <1>2 DEF BeginExpiry
  <2>2. \A o \in S : ord[o].status # Absent
    BY <2>1 DEF ReservationExpirable, Absent, Awaiting, Pending
  <2>3. "expire" \notin OneOrderOps /\ "expire" \notin OwnerOps
    BY DEF OneOrderOps, OwnerOps
  <2> QED BY <2>1, <2>2, <2>3, LoadInv
<1>3. ASSUME NEW o \in OrderIds, NEW c \in Customers, NEW p \in ProductIds \cup {NoProduct},
             NEW q \in Quantities \cup {0}, BeginDetect(w, o, c, p, q)
      PROVE  RCInv'
  <2> DEFINE a == Only(o, ord[o])
             b == Only(o, CandidateRow(c, p, q))
  <2>1. Alone(w) /\ UNCHANGED vars /\ UNCHANGED stale
    BY <1>0, <1>3 DEF BeginDetect, Alone, Tables
  <2>2. /\ op[w] = "idle" /\ op'[w] = "detect" /\ todo'[w] = todo[w] /\ old'[w] = a
        /\ new'[w] = b /\ pold'[w] = pold[w] /\ pnew'[w] = pnew[w]
    BY <1>0, <1>3 DEF BeginDetect, Tables
  <2>3. DOMAIN pold[w] = {} /\ DOMAIN pnew[w] = {} /\ todo[w] = {}
    BY <1>0, <2>2 DEF InOrder, Session, Rows
  <2>4. /\ DOMAIN a = {o} /\ DOMAIN b = {o} /\ a[o] = ord[o] /\ b[o] = CandidateRow(c, p, q)
    BY DEF Only
  <2>5. ord[o] = NoOrder /\ \A v \in Sessions : o \notin DOMAIN old[v]
    BY <1>0, <1>3 DEF BeginDetect, Tables, RCInv, InOrder, Session, Rows
  <2>6. CandidateRow(c, p, q) \in OrderRow
    BY CandidateRowInv DEF RowInv
  <2> HIDE DEF a, b
  <2>7. Rows({}, a, b, pold[w], pnew[w]) /\ Detected({}, a, b, pold[w])
    BY <2>3, <2>4, <2>5, <2>6, NoOrderType DEF Rows, Detected
  <2>8. Session("detect", todo[w], a, b, pold[w], pnew[w])
    BY <2>3, <2>7 DEF Session, OneOrderOps
  <2>9. InOrder(w)'
    BY <2>2, <2>8 DEF InOrder
  <2> QED BY <2>1, <2>2, <2>4, <2>5, <2>9, OneSession DEF OwnerOps
<1>4. ASSUME NEW p \in ProductIds, NEW row, EditOf(prod[p], row), row \in ProductRow,
             BeginEdit(w, p, row)
      PROVE  RCInv'
  <2> DEFINE a == Only(p, prod[p])
             b == Only(p, row)
  <2>1. Alone(w) /\ UNCHANGED vars /\ UNCHANGED stale
    BY <1>0, <1>4 DEF BeginEdit, Alone, Tables
  <2>2. /\ op[w] = "idle" /\ op'[w] = "edit" /\ todo'[w] = todo[w] /\ old'[w] = old[w]
        /\ new'[w] = new[w] /\ pold'[w] = a /\ pnew'[w] = b
    BY <1>0, <1>4 DEF BeginEdit, Tables
  <2>3. DOMAIN old[w] = {} /\ DOMAIN new[w] = {} /\ todo[w] = {}
    BY <1>0, <2>2 DEF InOrder, Session, Rows
  <2>4. /\ DOMAIN a = {p} /\ DOMAIN b = {p} /\ a[p] = prod[p] /\ b[p] = row
    BY DEF Only
  <2> HIDE DEF a, b
  <2>7. Rows({}, old[w], new[w], a, b) /\ Edited(old[w], a, b)
    BY <1>t, <1>4, <2>3, <2>4 DEF Rows, Edited
  <2>8. Session("edit", todo[w], old[w], new[w], a, b)
    BY <2>3, <2>7 DEF Session, OneOrderOps
  <2>9. InOrder(w)'
    BY <2>2, <2>8 DEF InOrder
  <2> QED BY <2>1, <2>2, <2>3, <2>9, OneSession DEF OwnerOps
<1>5. ASSUME NEW p \in ProductIds, NEW s \in Stocks \cup {Unlimited}, BeginEditStock(w, p, s)
      PROVE  RCInv'
  <2>1. [prod[p] EXCEPT !.stock = s] \in ProductRow
    BY <1>t, StocksAreNat DEF ProductRow
  <2>2. EditOf(prod[p], [prod[p] EXCEPT !.stock = s])
    BY DEF EditOf
  <2> QED BY <1>4, <1>5, <2>1, <2>2 DEF BeginEditStock
<1>6. ASSUME NEW p \in ProductIds, BeginSoftDelete(w, p)
      PROVE  RCInv'
  <2>1. [prod[p] EXCEPT !.is_active = FALSE] \in ProductRow
    BY <1>t DEF ProductRow
  <2>2. EditOf(prod[p], [prod[p] EXCEPT !.is_active = FALSE])
    BY <1>6 DEF EditOf, BeginSoftDelete
  <2> QED BY <1>4, <1>6, <2>1, <2>2 DEF BeginSoftDelete
<1> QED BY <1>1, <1>2, <1>3, <1>5, <1>6 DEF HandlerStep

\* Giving back in two steps is giving back at once: max(0, ...) is harmless.
LEMMA ReleaseTwice ==
  ASSUME NEW x \in Nat, NEW m \in Nat, NEW n \in Nat
  PROVE  AtLeastZero(AtLeastZero(x - m) - n) = AtLeastZero(x - (n + m))
BY DEF AtLeastZero

\* A handler of one order computes on the rows it has loaded.
LEMMA ProcessOne ==
  ASSUME RCInv, NEW w \in Sessions, NEW o \in OrderIds, Process(w, o), op[w] \in OneOrderOps
  PROVE  InOrder(w)'
<1> DEFINE k == op[w]
           row == old[w][o]
           p == row.product
<1>0. Tables /\ InOrder(w) /\ o \in todo[w] /\ prod \in [ProductIds -> ProductRow]
  BY DEF RCInv, Process, Tables, TypeOK
<1>1. /\ DOMAIN old[w] = {o} /\ DOMAIN new[w] = {o} /\ todo[w] = {o}
      /\ new[w][o] = row /\ row \in OrderRow /\ Accepts(k, row)
      /\ DOMAIN pold[w] = {} /\ DOMAIN pnew[w] = {}
  BY <1>0 DEF InOrder, Session, Rows, Handled
<1>2. op'[w] = k /\ todo'[w] = {} /\ old'[w] = old[w]
  BY <1>0, <1>1 DEF Process, Tables
<1>3. CASE NeedsProduct(k, row)
  <2>1. p \in ProductIds /\ prod[p] \in ProductRow
    BY <1>0, <1>1, <1>3 DEF NeedsProduct, OrderRow
  <2>2. /\ new' = [new EXCEPT ![w][o] = OrderAfter(k, row, prod[p])]
        /\ pold' = [pold EXCEPT ![w] = With(@, p, prod[p])]
        /\ pnew' = [pnew EXCEPT ![w] = With(@, p, ProductAfter(k, row, prod[p]))]
    BY <1>1, <1>3 DEF Process, ProductSeen
  <2>3. /\ DOMAIN new'[w] = {o} /\ new'[w][o] = OrderAfter(k, row, prod[p])
    BY <1>0, <1>1, <2>2 DEF Tables
  <2>4. /\ DOMAIN pold'[w] = {p} /\ pold'[w][p] = prod[p]
        /\ DOMAIN pnew'[w] = {p} /\ pnew'[w][p] = ProductAfter(k, row, prod[p])
    BY <1>0, <1>1, <2>2 DEF Tables, With
  <2>5. OrderAfter(k, row, prod[p]) \in OrderRow /\ ProductAfter(k, row, prod[p]) \in ProductRow
    BY <1>1, <1>3, <2>1, AfterTypes DEF NeedsProduct, OneOrderOps
  <2>6. Rows(todo'[w], old'[w], new'[w], pold'[w], pnew'[w])
    BY <1>1, <1>2, <2>1, <2>3, <2>4, <2>5 DEF Rows
  <2>7. Handled(k, todo'[w], old'[w], new'[w], pold'[w], pnew'[w])
    BY <1>1, <1>2, <1>3, <2>3, <2>4 DEF Handled
  <2> QED BY <1>2, <2>6, <2>7 DEF InOrder, Session, OneOrderOps
<1>4. CASE ~NeedsProduct(k, row)
  <2>2. /\ new' = [new EXCEPT ![w][o] = OrderAfter(k, row, NoProduct)]
        /\ pold'[w] = pold[w] /\ pnew'[w] = pnew[w]
    BY <1>1, <1>4 DEF Process
  <2>3. /\ DOMAIN new'[w] = {o} /\ new'[w][o] = OrderAfter(k, row, NoProduct)
    BY <1>0, <1>1, <2>2 DEF Tables
  <2>5. OrderAfter(k, row, NoProduct) \in OrderRow
    BY <1>1, AfterTypes
  <2>6. Rows(todo'[w], old'[w], new'[w], pold'[w], pnew'[w])
    BY <1>1, <1>2, <2>2, <2>3, <2>5 DEF Rows
  <2>7. Handled(k, todo'[w], old'[w], new'[w], pold'[w], pnew'[w])
    BY <1>1, <1>2, <1>4, <2>2, <2>3 DEF Handled
  <2> QED BY <1>2, <2>6, <2>7 DEF InOrder, Session, OneOrderOps
<1> QED BY <1>3, <1>4

\* What the orders that a pass is through with held, when it is through with one
\* more: the units of that order are added to those of its product.
LEMMA ReleasingMore ==
  ASSUME NEW a, \A x \in DOMAIN a : a[x] \in OrderRow, IsFiniteSet(DOMAIN a),
         NEW T \in SUBSET DOMAIN a, NEW o \in T, NEW p
  PROVE  /\ Sum(UnitsOf(a), Releasing(DOMAIN a \ T, a, p)) \in Nat
         /\ o \in Releasing(DOMAIN a \ (T \ {o}), a, p) =>
              Sum(UnitsOf(a), Releasing(DOMAIN a \ (T \ {o}), a, p)) =
                Units(a[o]) + Sum(UnitsOf(a), Releasing(DOMAIN a \ T, a, p))
<1> DEFINE D == DOMAIN a
           f == UnitsOf(a)
           before == Releasing(D \ T, a, p)
           after  == Releasing(D \ (T \ {o}), a, p)
<1>1. \A x \in D : f[x] = Units(a[x]) /\ f[x] \in Nat
  BY UnitsType DEF UnitsOf
<1>2. before \in SUBSET D /\ after \in SUBSET D /\ o \notin before
  BY DEF Releasing
<1>4. o \in after => after = before \cup {o} /\ after \ {o} = before
  BY <1>2 DEF Releasing
<1> HIDE DEF before, after, f
<1>5. \A x \in after : Sum(f, after) = f[x] + Sum(f, after \ {x})
  <2>1. \A x \in D : f[x] \in Int
    BY <1>1
  <2> QED BY <1>2, <2>1, SumRemove
<1>6. Sum(f, before) \in Nat
  BY <1>1, <1>2, SumNat
<1>7. o \in after => Sum(f, after) = Units(a[o]) + Sum(f, before)
  BY <1>1, <1>4, <1>5
<1> QED BY <1>6, <1>7 DEF before, after, f

\* One more order of a pass of the job.
LEMMA ProcessPass ==
  ASSUME RCInv, NEW w \in Sessions, NEW o \in OrderIds, Process(w, o), op[w] = "expire"
  PROVE  InOrder(w)'
<1> DEFINE a == old[w]
           T == todo[w]
           p == a[o].product
           res(x) == Releasing(DOMAIN a \ T, a, x)
           sum(x) == Sum(UnitsOf(a), res(x))
           nres(x) == Releasing(DOMAIN a \ (T \ {o}), a, x)
           nsum(x) == Sum(UnitsOf(a), nres(x))
<1>0. Tables /\ InOrder(w) /\ o \in T /\ prod \in [ProductIds -> ProductRow]
  BY DEF RCInv, Process, Tables, TypeOK
<1>1. /\ Rows(T, a, new[w], pold[w], pnew[w]) /\ Passed(T, a, new[w], pold[w], pnew[w])
  BY <1>0 DEF InOrder, Session
<1>2. /\ o \in DOMAIN a /\ new[w][o] = a[o] /\ a[o] \in OrderRow
      /\ DOMAIN new[w] = DOMAIN a /\ DOMAIN pnew[w] = DOMAIN pold[w] /\ T \subseteq DOMAIN a
      /\ DOMAIN pold[w] \subseteq ProductIds
  BY <1>0, <1>1 DEF Rows, Passed
<1>3. op'[w] = "expire" /\ todo'[w] = T \ {o} /\ old'[w] = a
  BY <1>0 DEF Process, Tables
<1>4. /\ new'[w] = [new[w] EXCEPT ![o] = TimedOut(a[o])]
  <2>1. \A r : OrderAfter("expire", a[o], r) = TimedOut(a[o])
    BY <1>2, AfterTypes
  <2>2. PICK r : new' = [new EXCEPT ![w][o] = OrderAfter("expire", a[o], r)]
    BY <1>2 DEF Process
  <2>3. new' = [new EXCEPT ![w][o] = TimedOut(a[o])]
    BY <2>1, <2>2
  <2> QED BY <1>0, <2>3 DEF Tables
<1>5. /\ DOMAIN new'[w] = DOMAIN a /\ TimedOut(a[o]) \in OrderRow
      /\ \A x \in DOMAIN a : new'[w][x] = IF x \in T \ {o} THEN a[x] ELSE TimedOut(a[x])
      /\ \A x \in DOMAIN a : new'[w][x] \in OrderRow
  <2>1. TimedOut(a[o]) \in OrderRow
    BY <1>2, AfterTypes
  <2>2. \A x \in DOMAIN a : /\ new[w][x] \in OrderRow
                            /\ new[w][x] = IF x \in T THEN a[x] ELSE TimedOut(a[x])
    BY <1>1 DEF Rows, Passed
  <2> QED BY <1>2, <1>4, <2>1, <2>2
<1>6. \A x \in ProductIds :
         /\ sum(x) \in Nat
         /\ o \notin nres(x) => nres(x) = res(x)
         /\ o \in nres(x) =>
              nres(x) = res(x) \cup {o} /\ nsum(x) = Units(a[o]) + sum(x)
  <2>1. (\A x \in DOMAIN a : a[x] \in OrderRow) /\ IsFiniteSet(DOMAIN a) /\ T \in SUBSET DOMAIN a
    BY <1>1 DEF Rows, Passed
  <2> HIDE DEF a, T
  <2>2. ASSUME NEW x \in ProductIds
        PROVE  /\ o \notin nres(x) => nres(x) = res(x)
               /\ o \in nres(x) => nres(x) = res(x) \cup {o}
    BY <1>0, <2>1 DEF Releasing
  <2>3. ASSUME NEW x \in ProductIds
        PROVE  sum(x) \in Nat /\ (o \in nres(x) => nsum(x) = Units(a[o]) + sum(x))
    BY <1>0, <2>1, ReleasingMore
  <2> QED BY <2>2, <2>3
<1>7. /\ DOMAIN pold[w] = {x \in ProductIds : res(x) # {}}
      /\ \A x \in DOMAIN pold[w] : /\ pold[w][x] \in ProductRow /\ pnew[w][x] \in ProductRow
           /\ pnew[w][x] = [pold[w][x] EXCEPT !.reserved = AtLeastZero(@ - sum(x))]
  BY <1>1 DEF Rows, Passed
<1>8. /\ DOMAIN pold'[w] = {x \in ProductIds : nres(x) # {}} /\ DOMAIN pnew'[w] = DOMAIN pold'[w]
      /\ \A x \in DOMAIN pold'[w] : /\ pold'[w][x] \in ProductRow /\ pnew'[w][x] \in ProductRow
           /\ pnew'[w][x] = [pold'[w][x] EXCEPT !.reserved = AtLeastZero(@ - nsum(x))]
  <2>1. CASE ~NeedsProduct("expire", a[o])
    <3>1. pold'[w] = pold[w] /\ pnew'[w] = pnew[w]
      BY <1>0, <1>2, <2>1 DEF Process
    <3>2. \A x \in ProductIds : nres(x) = res(x)
      BY <1>6, <2>1, NoProductFresh DEF NeedsProduct, Holds, Releasing
    <3> HIDE DEF res, nres
    <3> QED BY <1>2, <1>7, <3>1, <3>2
  <2>2. CASE NeedsProduct("expire", a[o])
    <3> DEFINE r == ProductSeen(w, p)
    <3>1. p \in ProductIds /\ a[o].stock_reserved /\ prod[p] \in ProductRow
      BY <1>0, <1>2, <2>2 DEF NeedsProduct, OrderRow
    <3>2. r \in ProductRow /\ Units(a[o]) \in Nat
      BY <1>2, <1>7, <3>1, UnitsType DEF ProductSeen
    <3>3. ProductAfter("expire", a[o], r) = [r EXCEPT !.reserved = AtLeastZero(@ - Units(a[o]))]
      BY <1>2, <3>1, <3>2, AfterTypes DEF ReleaseProduct
    <3>4. ProductAfter("expire", a[o], r) \in ProductRow
      BY <1>2, <3>2, AfterTypes
    <3>5. pnew'[w] = With(pnew[w], p, [r EXCEPT !.reserved = AtLeastZero(@ - Units(a[o]))])
      BY <1>0, <1>2, <2>2, <3>3 DEF Process, Tables
    <3>6. nres(p) # {} /\ nsum(p) = Units(a[o]) + sum(p) /\ sum(p) \in Nat
          /\ \A x \in ProductIds : x # p => nres(x) = res(x)
      <4>1. o \in nres(p) /\ \A x \in ProductIds : x # p => o \notin nres(x)
        BY <1>0, <1>2, <3>1 DEF Holds, Releasing
      <4> QED BY <1>6, <3>1, <4>1
    <3>7. CASE p \in DOMAIN pold[w]
      <4>1. pold'[w] = pold[w] /\ r = pnew[w][p]
        BY <1>0, <1>2, <2>2, <3>7 DEF Process, ProductSeen, Tables
      <4>2. DOMAIN pnew'[w] = DOMAIN pold[w]
        BY <1>2, <3>5, <3>7 DEF With
      <4>3. \A x \in DOMAIN pold[w] : x # p => pnew'[w][x] = pnew[w][x]
        BY <1>2, <3>5 DEF With
      <4>4. pnew'[w][p] = [pnew[w][p] EXCEPT !.reserved = AtLeastZero(@ - Units(a[o]))]
        BY <3>5, <4>1 DEF With
      <4>5. pnew'[w][p] \in ProductRow
        BY <3>3, <3>4, <4>1, <4>4
      <4>6. pnew'[w][p] = [pold[w][p] EXCEPT !.reserved = AtLeastZero(@ - nsum(p))]
        <5> DEFINE x == pold[w][p].reserved
        <5>1. x \in Nat /\ pold[w][p] \in ProductRow
          BY <1>7, <3>7 DEF ProductRow
        <5>2. AtLeastZero(AtLeastZero(x - sum(p)) - Units(a[o])) = AtLeastZero(x - nsum(p))
          BY <3>2, <3>6, <5>1, ReleaseTwice
        <5>3. pnew[w][p] = [pold[w][p] EXCEPT !.reserved = AtLeastZero(x - sum(p))]
          BY <1>7, <3>7
        <5> HIDE DEF sum, nsum
        <5> QED BY <4>4, <5>1, <5>2, <5>3 DEF ProductRow
      <4>7. \A x \in ProductIds : (nres(x) # {}) <=> (res(x) # {})
        BY <1>7, <3>6, <3>7
      <4>8. \A x \in ProductIds : x # p => nsum(x) = sum(x)
        BY <3>6
      <4> HIDE DEF res, nres, sum, nsum
      <4> QED BY <1>7, <3>7, <4>1, <4>2, <4>3, <4>5, <4>6, <4>7, <4>8
    <3>8. CASE p \notin DOMAIN pold[w]
      <4>1. pold'[w] = With(pold[w], p, prod[p]) /\ r = prod[p]
        BY <1>0, <1>2, <2>2, <3>8 DEF Process, ProductSeen, Tables
      <4>2. DOMAIN pold'[w] = DOMAIN pold[w] \cup {p} /\ DOMAIN pnew'[w] = DOMAIN pold[w] \cup {p}
        BY <1>2, <3>5, <4>1 DEF With
      <4>3. \A x \in DOMAIN pold[w] : pnew'[w][x] = pnew[w][x] /\ pold'[w][x] = pold[w][x]
        BY <1>2, <3>5, <3>8, <4>1 DEF With
      <4>4. /\ pold'[w][p] = prod[p]
            /\ pnew'[w][p] = [prod[p] EXCEPT !.reserved = AtLeastZero(@ - Units(a[o]))]
        BY <3>5, <4>1 DEF With
      <4>5. pnew'[w][p] \in ProductRow
        BY <3>3, <3>4, <4>1, <4>4
      <4>6. res(p) = {} /\ sum(p) = 0 /\ nsum(p) = Units(a[o])
        <5>1. res(p) = {}
          BY <1>7, <3>1, <3>8
        <5>2. sum(p) = 0
          BY <5>1, SumOfNone
        <5> HIDE DEF res, nres, sum, nsum
        <5>3. nsum(p) = Units(a[o])
          BY <3>2, <3>6, <5>2
        <5> QED BY <5>1, <5>2, <5>3
      <4>7. \A x \in ProductIds : (nres(x) # {}) <=> (x = p \/ res(x) # {})
        BY <3>6
      <4>8. \A x \in ProductIds : x # p => nsum(x) = sum(x)
        BY <3>6
      <4> HIDE DEF res, nres, sum, nsum
      <4> QED BY <1>7, <3>1, <3>8, <4>2, <4>3, <4>4, <4>5, <4>6, <4>7, <4>8
    <3> QED BY <3>7, <3>8
  <2> QED BY <2>1, <2>2
<1>9. Rows(todo'[w], old'[w], new'[w], pold'[w], pnew'[w])
  <2>1. \A x \in DOMAIN a : a[x] \in OrderRow
    BY <1>1 DEF Rows
  <2>2. DOMAIN a \subseteq OrderIds
    BY <1>1 DEF Rows
  <2> QED BY <1>2, <1>3, <1>5, <1>8, <2>1, <2>2 DEF Rows
<1>10. Passed(todo'[w], old'[w], new'[w], pold'[w], pnew'[w])
  <2>1. /\ IsFiniteSet(DOMAIN a)
        /\ \A x \in DOMAIN a : a[x].status = Awaiting \/ ReservationExpirable(a[x])
    BY <1>1 DEF Passed
  <2>2. Passed(T \ {o}, a, new'[w], pold'[w], pnew'[w])
    BY <1>5, <1>8, <2>1 DEF Passed
  <2> QED BY <1>3, <2>2
<1> QED BY <1>3, <1>9, <1>10 DEF InOrder, Session, OneOrderOps

\* A handler's computation keeps the invariant.
LEMMA ProcessInv ==
  ASSUME RCInv, NEW w \in Sessions, NEW o \in OrderIds, Process(w, o)
  PROVE  RCInv'
<1>0. Tables /\ InOrder(w) /\ o \in todo[w] /\ LoadedExist /\ ButtonsWereSent
  BY DEF RCInv, Process
<1>1. op[w] \in OneOrderOps \cup {"expire"}
  BY <1>0 DEF InOrder, Session, Rows, Detected, Edited
<1>2. InOrder(w)'
  BY <1>1, ProcessOne, ProcessPass
<1>3. UNCHANGED vars /\ UNCHANGED stale /\ op' = op /\ old' = old
  BY DEF Process
<1>4. Alone(w)
  BY <1>0, <1>3 DEF Process, Alone, Tables
<1>5. op'[w] # "detect"
  BY <1>1, <1>3 DEF OneOrderOps
<1>6. \A x \in DOMAIN old'[w] : ord[x].status # Absent
  BY <1>0, <1>3, <1>5 DEF LoadedExist
<1>7. ~stale /\ op'[w] \in OwnerOps => \A x \in DOMAIN old'[w] : OwnerHasButtons(old'[w][x])
  BY <1>0, <1>3 DEF ButtonsWereSent
<1> QED BY <1>2, <1>3, <1>4, <1>5, <1>6, <1>7, OneSession

\* A closed session has nothing.
LEMMA Closed ==
  ASSUME RCInv, NEW w \in Sessions, CloseSession(w)
  PROVE  Alone(w) /\ InOrder(w)' /\ op'[w] = "idle" /\ DOMAIN old'[w] = {}
<1>0. Tables
  BY DEF RCInv
<1>1. Alone(w)
  BY <1>0 DEF CloseSession, Alone, Tables
<1>2. /\ op'[w] = "idle" /\ todo'[w] = {} /\ old'[w] = Empty /\ new'[w] = Empty
      /\ pold'[w] = Empty /\ pnew'[w] = Empty
  BY <1>0 DEF CloseSession, Tables
<1>3. DOMAIN Empty = {}
  BY DEF Empty
<1>4. Session("idle", {}, Empty, Empty, Empty, Empty)
  BY <1>3 DEF Session, Rows, OneOrderOps
<1> QED BY <1>1, <1>2, <1>3, <1>4 DEF InOrder

\* What a commit leaves behind, stale or not.
LEMMA CommitRows ==
  ASSUME RCInv, NEW w \in Sessions, Commit(w)
  PROVE  /\ ord' \in [OrderIds -> OrderRow] /\ prod' \in [ProductIds -> ProductRow]
         /\ \A o \in OrderIds \ DOMAIN old[w] : ord'[o] = ord[o]
         /\ \A o \in DOMAIN old[w] :
              /\ op[w] # "detect" => ord'[o].status \notin {Absent, Awaiting} \/ ord'[o].status = ord[o].status
              /\ op[w] = "detect" => ord'[o].status = Awaiting
              /\ ord[o].confirmed => ord'[o].confirmed
<1>0. Tables /\ InOrder(w) /\ FreshIds /\ todo[w] = {}
  BY DEF RCInv, Commit, ReadyToCommit
<1>1. ord \in [OrderIds -> OrderRow] /\ prod \in [ProductIds -> ProductRow]
  BY <1>0 DEF Tables, TypeOK
<1>2. Rows({}, old[w], new[w], pold[w], pnew[w])
  BY <1>0 DEF InOrder, Session
<1>3. /\ DOMAIN new[w] = DOMAIN old[w] /\ DOMAIN old[w] \subseteq OrderIds
      /\ \A o \in DOMAIN old[w] : old[w][o] \in OrderRow /\ new[w][o] \in OrderRow
  BY <1>2 DEF Rows
<1>4. /\ \A o \in OrderIds \ DOMAIN old[w] : ord'[o] = ord[o]
      /\ \A o \in DOMAIN old[w] : ord'[o] = Flush(old[w][o], new[w][o], ord[o])
      /\ ord' = OrdersAfterCommit(w)
  BY <1>3 DEF Commit, OrdersAfterCommit
<1>5. ord' \in [OrderIds -> OrderRow]
  BY <1>1, <1>3, FlushType DEF Commit, OrdersAfterCommit
<1>6. prod' \in [ProductIds -> ProductRow]
  <2>1. \A p \in DOMAIN pnew[w] : pold[w][p] \in ProductRow /\ pnew[w][p] \in ProductRow
    BY <1>2 DEF Rows
  <2> QED BY <1>1, <2>1, FlushType DEF Commit, ProductsAfterCommit
<1>7. ASSUME NEW o \in DOMAIN old[w]
      PROVE  /\ op[w] # "detect" => ord'[o].status \notin {Absent, Awaiting} \/ ord'[o].status = ord[o].status
             /\ op[w] = "detect" => ord'[o].status = Awaiting
             /\ ord[o].confirmed => ord'[o].confirmed
  <2> DEFINE a == old[w][o]
             b == new[w][o]
             r == ord[o]
  <2>1. a \in OrderRow /\ b \in OrderRow /\ r \in OrderRow /\ o \in OrderIds
    BY <1>1, <1>3
  <2>2. /\ ord'[o].status = IF b.status # a.status THEN b.status ELSE r.status
        /\ ord'[o].confirmed = IF b.confirmed # a.confirmed THEN b.confirmed ELSE r.confirmed
    BY <1>4, <2>1, FlushColumns
  <2>3. /\ op[w] # "detect" => b.status \notin {Absent, Awaiting}
        /\ op[w] = "detect" => a = NoOrder /\ b.status = Awaiting /\ ~b.confirmed
        /\ a.confirmed => b.confirmed
    BY <1>0, SessionWrites DEF InOrder
  <2>4. a.confirmed \in BOOLEAN /\ b.confirmed \in BOOLEAN /\ r.confirmed \in BOOLEAN
    BY <2>1 DEF OrderRow
  <2>5. NoOrder.status = Absent /\ Absent # Awaiting
    BY DEF NoOrder, Absent, Awaiting
  <2>6. r.confirmed => ord'[o].confirmed
    <3>1. CASE b.confirmed = a.confirmed
      BY <2>2, <3>1
    <3>2. CASE b.confirmed # a.confirmed
      <4>1. b.confirmed = TRUE
        BY <2>3, <2>4, <3>2
      <4> QED BY <2>2, <3>2, <4>1
    <3> QED BY <3>1, <3>2
  <2> HIDE DEF a, b, r
  <2>7. op[w] = "detect" => ord'[o].status = Awaiting
    BY <2>2, <2>3, <2>5
  <2>8. op[w] # "detect" => ord'[o].status \notin {Absent, Awaiting} \/ ord'[o].status = r.status
    BY <2>2, <2>3
  <2> QED BY <2>6, <2>7, <2>8 DEF r
<1> QED BY <1>4, <1>5, <1>6, <1>7

\* A commit keeps the invariant.
LEMMA CommitInv ==
  ASSUME RCInv, NEW w \in Sessions, Commit(w)
  PROVE  RCInv'
<1>0. /\ Tables /\ InOrder(w) /\ FreshIds /\ LoadedExist /\ ButtonsWereSent
      /\ \A v \in Sessions : InOrder(v)
  BY DEF RCInv
<1>1. Alone(w) /\ InOrder(w)' /\ op'[w] = "idle" /\ DOMAIN old'[w] = {}
  BY Closed DEF Commit
<1>2. /\ ord' \in [OrderIds -> OrderRow] /\ prod' \in [ProductIds -> ProductRow]
      /\ \A o \in OrderIds \ DOMAIN old[w] : ord'[o] = ord[o]
      /\ \A o \in DOMAIN old[w] :
           /\ op[w] # "detect" => ord'[o].status \notin {Absent, Awaiting} \/ ord'[o].status = ord[o].status
           /\ op[w] = "detect" => ord'[o].status = Awaiting
  BY CommitRows
<1>3. DOMAIN pnew[w] \subseteq ProductIds /\ DOMAIN old[w] \subseteq OrderIds
  BY <1>0 DEF InOrder, Session, Rows
<1>4. stale' \in BOOLEAN /\ (stale => stale') /\ override' \subseteq ProductIds
  BY <1>0, <1>3 DEF Commit, Tables, TypeOK, Overridden
<1>5. \A o \in OrderIds : ord[o].status # Absent => ord'[o].status # Absent
  BY <1>2 DEF Absent, Awaiting
<1>6. \A o \in OrderIds : ord'[o].status = Absent => ord'[o] = NoOrder
  <2> SUFFICES ASSUME NEW o \in OrderIds, ord'[o].status = Absent PROVE ord'[o] = NoOrder
    OBVIOUS
  <2>1. ord[o] = NoOrder
    BY <1>0, <1>5 DEF Tables
  <2>2. o \notin DOMAIN old[w]
    <3> SUFFICES ASSUME o \in DOMAIN old[w] PROVE FALSE
      OBVIOUS
    <3>1. op[w] # "detect"
      BY <1>2 DEF Absent, Awaiting
    <3> QED BY <1>0, <2>1, <3>1 DEF LoadedExist, NoOrder
  <2> QED BY <1>2, <2>1, <2>2
<1>7. Tables'
  BY <1>1, <1>2, <1>4, <1>6 DEF Tables, TypeOK, Alone
<1>8. LoadedExist'
  <2> SUFFICES ASSUME NEW v \in Sessions, op'[v] # "detect", NEW o \in DOMAIN old'[v]
               PROVE  ord'[o].status # Absent
    BY DEF LoadedExist
  <2>1. v # w /\ op[v] # "detect" /\ o \in DOMAIN old[v]
    BY <1>1 DEF Alone
  <2>2. o \in OrderIds
    BY <1>0, <2>1 DEF InOrder, Session, Rows
  <2> QED BY <1>0, <1>5, <2>1, <2>2 DEF LoadedExist
<1>9. FreshIds'
  <2> SUFFICES ASSUME NEW v \in Sessions, op'[v] = "detect", NEW o \in DOMAIN old'[v]
               PROVE  /\ ord'[o] = NoOrder
                      /\ \A u \in Sessions \ {v} : o \notin DOMAIN old'[u]
    BY DEF FreshIds
  <2>1. v # w /\ op[v] = "detect" /\ o \in DOMAIN old[v]
    BY <1>1 DEF Alone
  <2>2. ord[o] = NoOrder /\ \A u \in Sessions \ {v} : o \notin DOMAIN old[u]
    BY <1>0, <2>1 DEF FreshIds
  <2>3. o \in OrderIds
    BY <1>0, <2>1 DEF InOrder, Session, Rows
  <2> QED BY <1>1, <1>2, <2>1, <2>2, <2>3 DEF Alone
<1>10. ButtonsWereSent'
  BY <1>0, <1>1, <1>4 DEF ButtonsWereSent, Alone, OwnerOps
<1>11. \A v \in Sessions : InOrder(v)'
  BY <1>0, <1>1 DEF InOrder, Alone
<1> QED BY <1>7, <1>8, <1>9, <1>10, <1>11 DEF RCInv

\* A session that is rolled back leaves nothing behind.
LEMMA RollbackInv ==
  ASSUME RCInv, NEW w \in Sessions, Rollback(w)
  PROVE  RCInv'
<1>1. Alone(w) /\ InOrder(w)' /\ op'[w] = "idle" /\ DOMAIN old'[w] = {}
  BY Closed DEF Rollback
<1>2. UNCHANGED vars /\ UNCHANGED stale
  BY DEF Rollback
<1> QED BY <1>1, <1>2, OneSession

\* What a session has read may grow old, which its copies do not show.
LEMMA TimeInv ==
  ASSUME RCInv, NEW o \in OrderIds, TimePasses(o)
  PROVE  RCInv'
<1>0. /\ Tables /\ FreshIds /\ LoadedExist /\ ButtonsWereSent
      /\ \A v \in Sessions : InOrder(v)
  BY DEF RCInv
<1>1. /\ ord[o].recent /\ ord' = [ord EXCEPT ![o].recent = FALSE]
      /\ prod' = prod /\ override' = override /\ stale' = stale /\ op' = op /\ todo' = todo
      /\ old' = old /\ new' = new /\ pold' = pold /\ pnew' = pnew
  BY DEF TimePasses, LeaveDedupWindow, svars
<1>2. ord \in [OrderIds -> OrderRow]
  BY <1>0 DEF Tables, TypeOK
<1>3. /\ ord' \in [OrderIds -> OrderRow] /\ \A x \in OrderIds : x # o => ord'[x] = ord[x]
      /\ ord'[o].status = ord[o].status
  BY <1>1, <1>2 DEF OrderRow
<1>4. ord[o].status # Absent /\ ord[o] # NoOrder
  BY <1>0, <1>1 DEF Tables, NoOrder
<1>5. Tables'
  BY <1>0, <1>1, <1>3, <1>4 DEF Tables, TypeOK
<1>6. \A v \in Sessions : DOMAIN old[v] \subseteq OrderIds
  BY <1>0 DEF InOrder, Session, Rows
<1>7. FreshIds' /\ LoadedExist'
  BY <1>0, <1>1, <1>3, <1>4, <1>6 DEF FreshIds, LoadedExist
<1>8. ButtonsWereSent' /\ \A v \in Sessions : InOrder(v)'
  BY <1>0, <1>1 DEF ButtonsWereSent, InOrder
<1> QED BY <1>5, <1>7, <1>8 DEF RCInv

\* RCInv is inductive.
LEMMA RCNextInv == RCInv /\ [RCNext]_rcvars => RCInv'
<1> SUFFICES ASSUME RCInv, [RCNext]_rcvars PROVE RCInv'
  OBVIOUS
<1>1. CASE UNCHANGED rcvars
  <2>1. /\ ord' = ord /\ prod' = prod /\ override' = override /\ stale' = stale /\ op' = op
        /\ todo' = todo /\ old' = old /\ new' = new /\ pold' = pold /\ pnew' = pnew
    BY <1>1 DEF rcvars, vars, svars
  <2> QED BY <2>1 DEF RCInv, Tables, TypeOK, FreshIds, LoadedExist, ButtonsWereSent, InOrder
<1>2. CASE RCNext
  BY <1>2, BeginInv, ProcessInv, CommitInv, RollbackInv, TimeInv DEF RCNext
<1> QED BY <1>1, <1>2

\* In overlapping sessions too the tables and the sessions' copies keep their
\* types, and what a session has computed is what its handler alone would make of
\* the rows it has loaded.
THEOREM RCSpecInv == RCSpec => []RCInv
<1>1. RCInit => RCInv
  BY RCInitInv
<1>2. RCInv /\ [RCNext]_rcvars => RCInv'
  BY RCNextInv
<1> QED BY <1>1, <1>2, PTL DEF RCSpec

\* The tables and the copies of their rows that sessions have keep the types of
\* their columns, whatever the interleaving.
THEOREM RCSpecTypeOK == RCSpec => []RCTypeOK
<1>1. RCInv => RCTypeOK
  <2> SUFFICES ASSUME RCInv, NEW w \in Sessions
               PROVE  /\ todo[w] \subseteq DOMAIN new[w]
                      /\ \A o \in DOMAIN new[w] : {old[w][o], new[w][o]} \subseteq OrderRow
                      /\ \A p \in DOMAIN pnew[w] : {pold[w][p], pnew[w][p]} \subseteq ProductRow
    BY DEF RCInv, Tables, RCTypeOK
  <2>1. Rows(todo[w], old[w], new[w], pold[w], pnew[w])
    BY DEF RCInv, InOrder, Session
  <2> QED BY <2>1 DEF Rows
<1> QED BY <1>1, RCSpecInv, PTL

\* Which steps write the orders table.
LEMMA OrderWriters ==
  ASSUME [RCNext]_rcvars
  PROVE  \/ \E w \in Sessions : Commit(w)
         \/ \E o \in OrderIds : TimePasses(o)
         \/ UNCHANGED vars /\ UNCHANGED stale
<1>1. ASSUME NEW w \in Sessions, HandlerStep(w) PROVE UNCHANGED vars /\ UNCHANGED stale
  BY <1>1 DEF HandlerStep, BeginHandler, Load, BeginDetect, BeginEditStock, BeginSoftDelete,
     BeginEdit
<1>2. ASSUME NEW w \in Sessions, NEW S \in SUBSET OrderIds, BeginExpiry(w, S)
      PROVE  UNCHANGED vars /\ UNCHANGED stale
  BY <1>2 DEF BeginExpiry, Load
<1>3. ASSUME NEW w \in Sessions, NEW o \in OrderIds, Process(w, o)
      PROVE  UNCHANGED vars /\ UNCHANGED stale
  BY <1>3 DEF Process
<1>4. ASSUME NEW w \in Sessions, Rollback(w) PROVE UNCHANGED vars /\ UNCHANGED stale
  BY <1>4 DEF Rollback
<1>5. CASE UNCHANGED rcvars
  BY <1>5 DEF rcvars
<1> QED BY <1>1, <1>2, <1>3, <1>4, <1>5 DEF RCNext

\* No step, stale or not, makes an order a candidate again or unconfirms it.
LEMMA NextNeverReopened ==
  ASSUME RCInv, [RCNext]_rcvars, NEW o \in OrderIds
  PROVE  /\ ord[o].status \notin {Absent, Awaiting} => ord'[o].status \notin {Absent, Awaiting}
         /\ ord[o].confirmed => ord'[o].confirmed
<1>0. Tables /\ FreshIds
  BY DEF RCInv
<1>1. ASSUME NEW w \in Sessions, Commit(w)
      PROVE  /\ ord[o].status \notin {Absent, Awaiting} => ord'[o].status \notin {Absent, Awaiting}
             /\ ord[o].confirmed => ord'[o].confirmed
  <2>1. CASE o \notin DOMAIN old[w]
    <3>1. ord'[o] = ord[o]
      BY <1>1, <2>1, CommitRows
    <3> QED BY <3>1
  <2>2. CASE o \in DOMAIN old[w]
    <3>1. /\ op[w] # "detect" => ord'[o].status \notin {Absent, Awaiting} \/ ord'[o].status = ord[o].status
          /\ ord[o].confirmed => ord'[o].confirmed
      BY <1>1, <2>2, CommitRows
    <3>2. op[w] = "detect" => ord[o].status = Absent
      <4>1. op[w] = "detect" => ord[o] = NoOrder
        BY <1>0, <2>2 DEF FreshIds
      <4> QED BY <4>1 DEF NoOrder
    <3> QED BY <3>1, <3>2
  <2> QED BY <2>1, <2>2
<1>2. ASSUME NEW x \in OrderIds, TimePasses(x)
      PROVE  ord'[o].status = ord[o].status /\ ord'[o].confirmed = ord[o].confirmed
  BY <1>0, <1>2 DEF Tables, TypeOK, TimePasses, LeaveDedupWindow, OrderRow
<1>3. CASE UNCHANGED vars
  BY <1>3 DEF vars
<1> QED BY <1>1, <1>2, <1>3, OrderWriters

\* Whatever the interleaving and however stale what a session has read, an order
\* that has left AWAITING is never a candidate again, and "confirmed" stays.
THEOREM SpecNeverReopened == RCSpec => NeverReopened
<1>1. RCInv /\ [RCNext]_rcvars =>
        [\A o \in OrderIds :
           /\ ord[o].status \notin {Absent, Awaiting} =>
                ord'[o].status \notin {Absent, Awaiting}
           /\ ord[o].confirmed => ord'[o].confirmed]_rcvars
  BY NextNeverReopened
<1> QED BY <1>1, RCSpecInv, PTL DEF RCSpec, NeverReopened

-----------------------------------------------------------------------------
\* A commit of a session that has read rows as they still are.

\* What it writes are the rows it has computed, over the time that has passed.
LEMMA FreshCommit ==
  ASSUME RCInv, NEW w \in Sessions, Commit(w), ~ReadsAreStale(w)
  PROVE  /\ \A o \in DOMAIN old[w] : SameRow(old[w][o], ord[o])
         /\ \A p \in DOMAIN pold[w] : pold[w][p] = prod[p]
         /\ ord' = [o \in OrderIds |-> IF o \in DOMAIN old[w]
                      THEN Flush(old[w][o], new[w][o], ord[o]) ELSE ord[o]]
         /\ prod' = [p \in ProductIds |-> IF p \in DOMAIN pold[w] THEN pnew[w][p] ELSE prod[p]]
<1>1. /\ \A o \in DOMAIN old[w] : SameRow(old[w][o], ord[o])
      /\ \A p \in DOMAIN pold[w] : pold[w][p] = prod[p]
  BY DEF ReadsAreStale
<1>2. Rows(todo[w], old[w], new[w], pold[w], pnew[w])
  BY DEF RCInv, InOrder, Session
<1>3. ord' = [o \in OrderIds |-> IF o \in DOMAIN old[w]
                THEN Flush(old[w][o], new[w][o], ord[o]) ELSE ord[o]]
  BY <1>2 DEF Rows, Commit, OrdersAfterCommit
<1>4. \A p \in DOMAIN pold[w] : Flush(pold[w][p], pnew[w][p], prod[p]) = pnew[w][p]
  BY <1>1, <1>2, FlushUnread DEF Rows
<1>5. prod' = [p \in ProductIds |-> IF p \in DOMAIN pold[w] THEN pnew[w][p] ELSE prod[p]]
  BY <1>2, <1>4 DEF Rows, Commit, ProductsAfterCommit
<1> QED BY <1>1, <1>3, <1>5

\* A detection is Orders' Detect: neither a duplicate has appeared nor has the
\* product gone.
LEMMA CommitDetect ==
  ASSUME RCInv, NEW w \in Sessions, Commit(w), ~ReadsAreStale(w), op[w] = "detect"
  PROVE  Next
<1>0. Tables /\ FreshIds /\ Detected(todo[w], old[w], new[w], pold[w])
      /\ Rows(todo[w], old[w], new[w], pold[w], pnew[w])
  BY DEF RCInv, InOrder, Session
<1>1. PICK o \in OrderIds, c \in Customers, p \in ProductIds \cup {NoProduct},
           q \in Quantities \cup {0} :
        DOMAIN old[w] = {o} /\ old[w][o] = NoOrder /\ new[w][o] = CandidateRow(c, p, q)
  BY <1>0 DEF Detected
<1>2. DOMAIN new[w] = {o} /\ DOMAIN pold[w] = {} /\ DOMAIN pnew[w] = {}
  BY <1>0, <1>1 DEF Detected, Rows
<1>3. ord[o] = NoOrder /\ ord[o].status = Absent
  <2>1. ord[o] = NoOrder
    BY <1>0, <1>1 DEF FreshIds
  <2> QED BY <2>1 DEF NoOrder
<1>4. new[w][o].customer = c /\ new[w][o].product = p
  BY <1>1 DEF CandidateRow
<1>5. ~HasRecentDuplicate(ord, c, p) /\ (p # NoProduct => prod[p].is_active)
  BY <1>2, <1>4 DEF ReadsAreStale
<1>6. CandidateRow(c, p, q) \in OrderRow
  BY CandidateRowInv DEF RowInv
<1>7. Flush(NoOrder, CandidateRow(c, p, q), NoOrder) = CandidateRow(c, p, q)
  BY <1>6, NoOrderType, FlushUnread
<1>8. ord \in [OrderIds -> OrderRow] /\ prod \in [ProductIds -> ProductRow]
  BY <1>0 DEF Tables, TypeOK
<1>9. ord' = [ord EXCEPT ![o] = CandidateRow(c, p, q)]
  <2>1. ord' = [x \in OrderIds |-> IF x \in DOMAIN old[w]
                  THEN Flush(old[w][x], new[w][x], ord[x]) ELSE ord[x]]
    BY FreshCommit
  <2> QED BY <1>1, <1>3, <1>7, <1>8, <2>1
<1>10. prod' = prod
  <2>1. prod' = [x \in ProductIds |-> IF x \in DOMAIN pold[w] THEN pnew[w][x] ELSE prod[x]]
    BY FreshCommit
  <2> QED BY <1>2, <1>8, <2>1
<1>11. override' = override
  BY <1>2 DEF Commit, Overridden
<1>12. Detect(o, c, p, q)
  BY <1>3, <1>5, <1>9, <1>10, <1>11 DEF Detect
<1> QED BY <1>12 DEF Next, OrderStep

\* An edit is Orders' EditStock or SoftDelete, or the stock was so already.
LEMMA CommitEdit ==
  ASSUME RCInv, NEW w \in Sessions, Commit(w), ~ReadsAreStale(w), op[w] = "edit"
  PROVE  Next \/ UNCHANGED vars
<1>0. /\ Tables /\ Edited(old[w], pold[w], pnew[w])
      /\ Rows(todo[w], old[w], new[w], pold[w], pnew[w])
  BY DEF RCInv, InOrder, Session
<1>1. PICK p \in ProductIds : DOMAIN pold[w] = {p} /\ EditOf(pold[w][p], pnew[w][p])
  BY <1>0 DEF Edited
<1>2. DOMAIN old[w] = {} /\ DOMAIN pnew[w] = {p} /\ pold[w][p] = prod[p]
  BY <1>0, <1>1, FreshCommit DEF Edited, Rows
<1>3. ord \in [OrderIds -> OrderRow] /\ prod \in [ProductIds -> ProductRow]
  BY <1>0 DEF Tables, TypeOK
<1>4. ord' = ord
  <2>1. ord' = [x \in OrderIds |-> IF x \in DOMAIN old[w]
                  THEN Flush(old[w][x], new[w][x], ord[x]) ELSE ord[x]]
    BY FreshCommit
  <2> QED BY <1>2, <1>3, <2>1
<1>5. prod' = [prod EXCEPT ![p] = pnew[w][p]]
  <2>1. prod' = [x \in ProductIds |-> IF x \in DOMAIN pold[w] THEN pnew[w][x] ELSE prod[x]]
    BY FreshCommit
  <2> QED BY <1>1, <1>3, <2>1
<1>6. override' = override \cup (IF pnew[w][p].stock # prod[p].stock THEN {p} ELSE {})
  BY <1>2 DEF Commit, Overridden
<1>7. ASSUME NEW s \in Stocks \cup {Unlimited}, pnew[w][p] = [prod[p] EXCEPT !.stock = s]
      PROVE  Next \/ UNCHANGED vars
  <2>1. pnew[w][p].stock = s /\ prod[p] \in ProductRow
    BY <1>3, <1>7 DEF ProductRow
  <2>2. CASE s = prod[p].stock
    <3>1. pnew[w][p] = prod[p]
      BY <1>7, <2>1, <2>2 DEF ProductRow
    <3> QED BY <1>3, <1>4, <1>5, <1>6, <3>1 DEF vars
  <2>3. CASE s # prod[p].stock
    <3>1. EditStock(p, s)
      BY <1>3, <1>4, <1>5, <1>6, <1>7, <2>1, <2>3 DEF EditStock
    <3> QED BY <3>1 DEF Next, ProductStep
  <2> QED BY <2>2, <2>3
<1>8. CASE prod[p].is_active /\ pnew[w][p] = [prod[p] EXCEPT !.is_active = FALSE]
  <2>1. pnew[w][p].stock = prod[p].stock
    BY <1>3, <1>8 DEF ProductRow
  <2>2. SoftDelete(p)
    BY <1>3, <1>4, <1>5, <1>6, <1>8, <2>1 DEF SoftDelete
  <2> QED BY <2>2 DEF Next, ProductStep
<1> QED BY <1>1, <1>2, <1>7, <1>8 DEF EditOf

\* What a handler computes does not depend on the time that has passed since it
\* read the order.
LEMMA AfterSame ==
  ASSUME NEW k \in OneOrderOps, NEW b \in OrderRow, NEW r \in OrderRow, SameRow(b, r)
  PROVE  /\ NeedsProduct(k, b) <=> NeedsProduct(k, r)
         /\ Accepts(k, b) <=> Accepts(k, r)
         /\ \A x \in ProductRow : Flush(b, OrderAfter(k, b, x), r) = OrderAfter(k, r, x)
         /\ NeedsProduct(k, b) =>
              \A x \in ProductRow : ProductAfter(k, b, x) = ProductAfter(k, r, x)
         /\ ~NeedsProduct(k, b) =>
              Flush(b, OrderAfter(k, b, NoProduct), r) = OrderAfter(k, r, NoProduct)
<1>0. /\ b.status = r.status /\ b.confirmed = r.confirmed
      /\ b.stock_reserved = r.stock_reserved /\ b.customer = r.customer
      /\ b.product = r.product /\ b.quantity = r.quantity /\ Units(b) = Units(r)
  BY SameColumns
<1>1. NeedsProduct(k, b) <=> NeedsProduct(k, r)
  BY <1>0 DEF NeedsProduct
<1>2. Accepts(k, b) <=> Accepts(k, r)
  BY <1>0 DEF Accepts, OneOrderOps, OwnerMayConfirm, MayAdvance
<1>3. ASSUME NEW x, x \in ProductRow \/ (x = NoProduct /\ ~NeedsProduct(k, b))
      PROVE  Flush(b, OrderAfter(k, b, x), r) = OrderAfter(k, r, x)
  <2>1. CASE k = "customer_confirm" /\ b.product # NoProduct
    <3>1. x \in ProductRow
      BY <1>3, <2>1 DEF NeedsProduct
    <3>2. /\ OrderAfter(k, b, x) = CustomerConfirmOrder(b, x)
          /\ OrderAfter(k, r, x) = CustomerConfirmOrder(r, x)
      BY <1>0, <2>1 DEF OrderAfter
    <3> QED BY <3>1, <3>2, FlushSame
  <2>2. CASE k = "customer_confirm" /\ b.product = NoProduct
    <3>2. /\ OrderAfter(k, b, x) = CustomerConfirmPlain(b)
          /\ OrderAfter(k, r, x) = CustomerConfirmPlain(r)
      BY <1>0, <2>2 DEF OrderAfter
    <3> QED BY <3>2, FlushSame
  <2>3. CASE k = "customer_cancel"
    BY <2>3, FlushSame DEF OrderAfter
  <2>4. CASE k = "confirm"
    BY <2>4, FlushSame DEF OrderAfter
  <2>5. CASE k = "reject"
    BY <2>5, FlushSame DEF OrderAfter
  <2>6. CASE k = "advance"
    BY <2>6, FlushSame DEF OrderAfter
  <2> QED BY <2>1, <2>2, <2>3, <2>4, <2>5, <2>6 DEF OneOrderOps
<1>4. ASSUME NeedsProduct(k, b), NEW x \in ProductRow
      PROVE  ProductAfter(k, b, x) = ProductAfter(k, r, x)
  <2>1. k \in {"customer_confirm", "confirm", "reject"}
    BY <1>4 DEF NeedsProduct, OneOrderOps
  <2>2. CanReserve(b, x) <=> CanReserve(r, x)
    BY <1>0 DEF CanReserve
  <2>3. CustomerConfirmProduct(b, x) = CustomerConfirmProduct(r, x)
    BY <1>0, <2>2 DEF CustomerConfirmProduct
  <2>4. ConfirmProduct(b, x) = ConfirmProduct(r, x)
    BY <1>0 DEF ConfirmProduct
  <2>5. ReleaseProduct(b, x) = ReleaseProduct(r, x)
    BY <1>0 DEF ReleaseProduct
  <2> QED BY <2>1, <2>3, <2>4, <2>5 DEF ProductAfter
<1> QED BY <1>1, <1>2, <1>3, <1>4

\* A handler of one order writes what it would make of the tables as they are.
LEMMA CommitOne ==
  ASSUME RCInv, NEW w \in Sessions, Commit(w), ~ReadsAreStale(w), NEW k \in OneOrderOps,
         op[w] = k
  PROVE  \E o \in OrderIds :
           /\ DOMAIN old[w] = {o} /\ SameRow(old[w][o], ord[o]) /\ old[w][o] \in OrderRow
           /\ Accepts(k, ord[o])
           /\ NeedsProduct(k, ord[o]) =>
                LET p == ord[o].product IN
                /\ ord' = [ord EXCEPT ![o] = OrderAfter(k, ord[o], prod[p])]
                /\ prod' = [prod EXCEPT ![p] = ProductAfter(k, ord[o], prod[p])]
                /\ DOMAIN pnew[w] = {p}
           /\ ~NeedsProduct(k, ord[o]) =>
                /\ ord' = [ord EXCEPT ![o] = OrderAfter(k, ord[o], NoProduct)]
                /\ prod' = prod /\ DOMAIN pnew[w] = {}
<1>0. /\ Tables /\ todo[w] = {}
      /\ Handled(k, {}, old[w], new[w], pold[w], pnew[w])
      /\ Rows({}, old[w], new[w], pold[w], pnew[w])
  BY DEF RCInv, InOrder, Session, Commit, ReadyToCommit
<1>1. PICK o \in OrderIds :
        /\ DOMAIN old[w] = {o} /\ Accepts(k, old[w][o])
        /\ NeedsProduct(k, old[w][o]) =>
             LET p == old[w][o].product IN
             /\ DOMAIN pold[w] = {p}
             /\ new[w][o] = OrderAfter(k, old[w][o], pold[w][p])
             /\ pnew[w][p] = ProductAfter(k, old[w][o], pold[w][p])
        /\ ~NeedsProduct(k, old[w][o]) =>
             DOMAIN pold[w] = {} /\ new[w][o] = OrderAfter(k, old[w][o], NoProduct)
  BY <1>0 DEF Handled
<1> DEFINE b == old[w][o]
           r == ord[o]
           p == ord[o].product
<1>2. ord \in [OrderIds -> OrderRow] /\ prod \in [ProductIds -> ProductRow]
  BY <1>0 DEF Tables, TypeOK
<1>3. b \in OrderRow /\ r \in OrderRow /\ SameRow(b, r)
  BY <1>0, <1>1, <1>2, FreshCommit DEF Rows
<1>4. b.product = p
  BY <1>3, SameColumns
<1>5. Accepts(k, r) /\ (NeedsProduct(k, b) <=> NeedsProduct(k, r))
  BY <1>1, <1>3, AfterSame
<1>6. ord' = [ord EXCEPT ![o] = Flush(b, new[w][o], r)]
  <2>1. ord' = [x \in OrderIds |-> IF x \in DOMAIN old[w]
                  THEN Flush(old[w][x], new[w][x], ord[x]) ELSE ord[x]]
    BY FreshCommit
  <2> QED BY <1>1, <1>2, <2>1
<1>7. prod' = [x \in ProductIds |-> IF x \in DOMAIN pold[w] THEN pnew[w][x] ELSE prod[x]]
  BY FreshCommit
<1>8. CASE NeedsProduct(k, r)
  <2>1. /\ DOMAIN pold[w] = {p} /\ new[w][o] = OrderAfter(k, b, pold[w][p])
        /\ pnew[w][p] = ProductAfter(k, b, pold[w][p])
    BY <1>1, <1>4, <1>5, <1>8
  <2>2. p \in ProductIds /\ pold[w][p] = prod[p] /\ prod[p] \in ProductRow
    BY <1>2, <1>3, <1>8, <2>1, FreshCommit DEF NeedsProduct, OrderRow
  <2>3. /\ Flush(b, OrderAfter(k, b, prod[p]), r) = OrderAfter(k, r, prod[p])
        /\ ProductAfter(k, b, prod[p]) = ProductAfter(k, r, prod[p])
    BY <1>3, <1>5, <1>8, <2>2, AfterSame
  <2>4. ord' = [ord EXCEPT ![o] = OrderAfter(k, r, prod[p])]
    BY <1>6, <2>1, <2>2, <2>3
  <2>5. prod' = [prod EXCEPT ![p] = ProductAfter(k, r, prod[p])]
    BY <1>2, <1>7, <2>1, <2>2, <2>3
  <2>6. DOMAIN pnew[w] = {p}
    BY <1>0, <2>1 DEF Rows
  <2> QED BY <1>1, <1>3, <1>5, <1>8, <2>4, <2>5, <2>6
<1>9. CASE ~NeedsProduct(k, r)
  <2>1. DOMAIN pold[w] = {} /\ new[w][o] = OrderAfter(k, b, NoProduct)
    BY <1>1, <1>5, <1>9
  <2>2. Flush(b, OrderAfter(k, b, NoProduct), r) = OrderAfter(k, r, NoProduct)
    BY <1>3, <1>5, <1>9, AfterSame
  <2>3. ord' = [ord EXCEPT ![o] = OrderAfter(k, r, NoProduct)]
    BY <1>6, <2>1, <2>2
  <2>4. prod' = prod
    BY <1>2, <1>7, <2>1
  <2>5. DOMAIN pnew[w] = {}
    BY <1>0, <2>1 DEF Rows
  <2> QED BY <1>1, <1>3, <1>5, <1>9, <2>3, <2>4, <2>5
<1> QED BY <1>8, <1>9

\* So its commit is the handler's action in Orders.
LEMMA CommitHandler ==
  ASSUME RCInv, NEW w \in Sessions, Commit(w), ~ReadsAreStale(w), ~stale,
         op[w] \in OneOrderOps
  PROVE  Next
<1> DEFINE k == op[w]
<1>1. PICK o \in OrderIds :
        /\ DOMAIN old[w] = {o} /\ SameRow(old[w][o], ord[o]) /\ old[w][o] \in OrderRow
        /\ Accepts(k, ord[o])
        /\ NeedsProduct(k, ord[o]) =>
             LET p == ord[o].product IN
             /\ ord' = [ord EXCEPT ![o] = OrderAfter(k, ord[o], prod[p])]
             /\ prod' = [prod EXCEPT ![p] = ProductAfter(k, ord[o], prod[p])]
             /\ DOMAIN pnew[w] = {p}
        /\ ~NeedsProduct(k, ord[o]) =>
             /\ ord' = [ord EXCEPT ![o] = OrderAfter(k, ord[o], NoProduct)]
             /\ prod' = prod /\ DOMAIN pnew[w] = {}
  BY CommitOne
<1> DEFINE r == ord[o]
           p == ord[o].product
<1>2. ord \in [OrderIds -> OrderRow] /\ prod \in [ProductIds -> ProductRow] /\ r \in OrderRow
  BY DEF RCInv, Tables, TypeOK
<1>3. k \in OwnerOps => OwnerHasButtons(r)
  <2>1. k \in OwnerOps => OwnerHasButtons(old[w][o])
    BY <1>1 DEF RCInv, ButtonsWereSent
  <2>2. old[w][o].product = r.product /\ old[w][o].status = r.status
    BY <1>1, <1>2, SameColumns
  <2> QED BY <2>1, <2>2 DEF OwnerHasButtons
<1>4. k # "confirm" => override' = override
  BY DEF Commit, Overridden, OneOrderOps
<1>5. CASE k = "customer_confirm"
  <2>1. r.status = Awaiting
    BY <1>1, <1>5 DEF Accepts
  <2>2. NeedsProduct(k, r) <=> p # NoProduct
    BY <1>5 DEF NeedsProduct
  <2>3. CASE p = NoProduct
    <3>1. ord' = [ord EXCEPT ![o] = CustomerConfirmPlain(r)] /\ prod' = prod
      BY <1>1, <1>5, <2>2, <2>3 DEF OrderAfter
    <3>2. CustomerConfirm(o)
      BY <1>4, <1>5, <2>1, <2>3, <3>1 DEF CustomerConfirm
    <3> QED BY <3>2 DEF Next, OrderStep
  <2>4. CASE p # NoProduct
    <3>1. /\ ord' = [ord EXCEPT ![o] = CustomerConfirmOrder(r, prod[p])]
          /\ prod' = [prod EXCEPT ![p] = CustomerConfirmProduct(r, prod[p])]
      BY <1>1, <1>5, <2>2, <2>4 DEF OrderAfter, ProductAfter
    <3>2. CustomerConfirm(o)
      BY <1>4, <1>5, <2>1, <2>4, <3>1 DEF CustomerConfirm
    <3> QED BY <3>2 DEF Next, OrderStep
  <2> QED BY <2>3, <2>4
<1>6. CASE k = "customer_cancel"
  <2>1. r.status = Awaiting /\ ~NeedsProduct(k, r)
    BY <1>1, <1>6 DEF Accepts, NeedsProduct
  <2>2. ord' = [ord EXCEPT ![o] = CancelOrder(r)] /\ prod' = prod
    BY <1>1, <1>6, <2>1 DEF OrderAfter
  <2>3. CustomerCancel(o)
    BY <1>4, <1>6, <2>1, <2>2 DEF CustomerCancel
  <2> QED BY <2>3 DEF Next, OrderStep
<1>7. CASE k = "confirm"
  <2>1. OwnerHasButtons(r) /\ OwnerMayConfirm(r)
    BY <1>1, <1>3, <1>7 DEF Accepts, OwnerOps
  <2>2. NeedsProduct(k, r)
    BY <1>7, <2>1 DEF NeedsProduct, OwnerHasButtons
  <2>3. /\ ord' = [ord EXCEPT ![o] = ConfirmOrder(r)]
        /\ prod' = [prod EXCEPT ![p] = ConfirmProduct(r, prod[p])] /\ DOMAIN pnew[w] = {p}
    BY <1>1, <1>7, <2>2 DEF OrderAfter, ProductAfter
  <2>4. old[w][o].stock_reserved = r.stock_reserved
    BY <1>1, <1>2, SameColumns
  <2>5. Overridden(w) = IF r.stock_reserved THEN {} ELSE {p}
    BY <1>1, <1>7, <2>3, <2>4 DEF Overridden
  <2>6. override' = IF r.stock_reserved THEN override ELSE override \cup {p}
    BY <2>5 DEF Commit
  <2>7. OwnerConfirm(o)
    BY <2>1, <2>3, <2>6 DEF OwnerConfirm
  <2> QED BY <2>7 DEF Next, OrderStep
<1>8. CASE k = "reject"
  <2>1. OwnerHasButtons(r) /\ r.status = Pending
    BY <1>1, <1>3, <1>8 DEF Accepts, OwnerOps
  <2>2. NeedsProduct(k, r) <=> r.stock_reserved
    BY <1>8, <2>1 DEF NeedsProduct, OwnerHasButtons
  <2>3. ord' = [ord EXCEPT ![o] = RejectOrder(r)]
    BY <1>1, <1>8 DEF OrderAfter
  <2>4. prod' = [prod EXCEPT ![p] = ReleaseProduct(r, prod[p])]
    <3>1. CASE r.stock_reserved
      BY <1>1, <1>8, <2>2, <3>1 DEF ProductAfter
    <3>2. CASE ~r.stock_reserved
      <4>1. prod' = prod /\ ReleaseProduct(r, prod[p]) = prod[p]
        BY <1>1, <2>2, <3>2 DEF ReleaseProduct
      <4> QED BY <1>2, <4>1
    <3> QED BY <3>1, <3>2
  <2>5. OwnerReject(o)
    BY <1>4, <1>8, <2>1, <2>3, <2>4 DEF OwnerReject
  <2> QED BY <2>5 DEF Next, OrderStep
<1>9. CASE k = "advance"
  <2>1. OwnerHasButtons(r) /\ MayAdvance(r) /\ ~NeedsProduct(k, r)
    BY <1>1, <1>3, <1>9 DEF Accepts, OwnerOps, NeedsProduct
  <2>2. ord' = [ord EXCEPT ![o] = AdvanceOrder(r)] /\ prod' = prod
    BY <1>1, <1>9, <2>1 DEF OrderAfter
  <2>3. OwnerAdvance(o)
    BY <1>4, <1>9, <2>1, <2>2 DEF OwnerAdvance
  <2> QED BY <2>3 DEF Next, OrderStep
<1> QED BY <1>5, <1>6, <1>7, <1>8, <1>9 DEF OneOrderOps

\* A pass of the job gives back what its orders hold in the table.
LEMMA CommitPass ==
  ASSUME RCInv, NEW w \in Sessions, Commit(w), ~ReadsAreStale(w), op[w] = "expire"
  PROVE  \E S \in SUBSET OrderIds : ExpirePass(S)
<1> DEFINE a == old[w]
           S == DOMAIN a
           rows == [o \in S |-> ord[o]]
<1>0. /\ Tables /\ todo[w] = {}
      /\ Passed({}, a, new[w], pold[w], pnew[w]) /\ Rows({}, a, new[w], pold[w], pnew[w])
  BY DEF RCInv, InOrder, Session, Commit, ReadyToCommit
<1>1. ord \in [OrderIds -> OrderRow] /\ prod \in [ProductIds -> ProductRow]
  BY <1>0 DEF Tables, TypeOK
<1>2. /\ S \in SUBSET OrderIds /\ IsFiniteSet(S)
      /\ \A o \in S : a[o] \in OrderRow /\ ord[o] \in OrderRow /\ SameRow(a[o], ord[o])
      /\ \A o \in S : a[o].status = Awaiting \/ ReservationExpirable(a[o])
      /\ \A o \in S : new[w][o] = TimedOut(a[o])
  BY <1>0, <1>1, FreshCommit DEF Rows, Passed
<1>3. \A o \in S : /\ a[o].status = ord[o].status /\ a[o].stock_reserved = ord[o].stock_reserved
                   /\ a[o].product = ord[o].product /\ Units(a[o]) = Units(ord[o])
  BY <1>2, SameColumns
<1>4. \A o \in S : ord[o].status = Awaiting \/ ReservationExpirable(ord[o])
  BY <1>2, <1>3 DEF ReservationExpirable
<1>5. \A o \in S : Flush(a[o], new[w][o], ord[o]) = TimedOut(ord[o])
  <2> SUFFICES ASSUME NEW o \in S PROVE Flush(a[o], TimedOut(a[o]), ord[o]) = TimedOut(ord[o])
    BY <1>2
  <2>1. /\ Flush(a[o], CancelOrder(a[o]), ord[o]) = CancelOrder(ord[o])
        /\ Flush(a[o], ExpireOrder(a[o]), ord[o]) = ExpireOrder(ord[o])
    BY <1>2, FlushSame
  <2> QED BY <1>3, <2>1 DEF TimedOut
<1>6. ord' = [o \in OrderIds |->
                IF o \notin S THEN ord[o]
                ELSE IF ord[o].status = Awaiting THEN CancelOrder(ord[o])
                ELSE ExpireOrder(ord[o])]
  <2>1. ord' = [x \in OrderIds |-> IF x \in S THEN Flush(a[x], new[w][x], ord[x]) ELSE ord[x]]
    BY FreshCommit
  <2>2. ord' = [x \in OrderIds |-> IF x \in S THEN TimedOut(ord[x]) ELSE ord[x]]
    BY <1>5, <2>1
  <2> QED BY <2>2 DEF TimedOut
<1>7. ASSUME NEW p \in ProductIds
      PROVE  /\ HeldUnits(rows, p) = Sum(UnitsOf(a), Releasing(S, a, p))
             /\ Releasing(S, a, p) = {} => HeldUnits(rows, p) = 0
  <2> DEFINE f == [o \in S |-> Units(ord[o])]
  <2>1. Holders(rows, p) = Releasing(S, a, p)
    BY <1>3 DEF Holders, Releasing, Holds
  <2>2. HeldUnits(rows, p) = Sum(f, Holders(rows, p))
    <3>1. DOMAIN rows = S /\ [o \in DOMAIN rows |-> Units(rows[o])] = f
      OBVIOUS
    <3> HIDE DEF rows, f
    <3> QED BY <3>1 DEF HeldUnits, Sum
  <2>3. \A o \in S : f[o] = UnitsOf(a)[o]
    BY <1>3 DEF UnitsOf
  <2>4. Releasing(S, a, p) \subseteq S /\ IsFiniteSet(Releasing(S, a, p))
    BY <1>2, FS_Subset DEF Releasing
  <2> HIDE DEF f, rows
  <2>5. Sum(f, Releasing(S, a, p)) = Sum(UnitsOf(a), Releasing(S, a, p))
    BY <2>3, <2>4, SumAgree
  <2>6. Releasing(S, a, p) = {} => Sum(f, Releasing(S, a, p)) = 0
    BY SumOfNone
  <2> QED BY <2>1, <2>2, <2>5, <2>6
<1>8. prod' = [p \in ProductIds |->
                 [prod[p] EXCEPT !.reserved = AtLeastZero(@ - HeldUnits(rows, p))]]
  <2>1. prod' = [x \in ProductIds |-> IF x \in DOMAIN pold[w] THEN pnew[w][x] ELSE prod[x]]
    BY FreshCommit
  <2> HIDE DEF rows
  <2>2. ASSUME NEW p \in ProductIds
        PROVE  (IF p \in DOMAIN pold[w] THEN pnew[w][p] ELSE prod[p])
                 = [prod[p] EXCEPT !.reserved = AtLeastZero(@ - HeldUnits(rows, p))]
    <3>0. DOMAIN pold[w] = {x \in ProductIds : Releasing(S, a, x) # {}}
      <4>1. S \ {} = S
        OBVIOUS
      <4> QED BY <1>0, <4>1 DEF Passed
    <3>1. CASE p \in DOMAIN pold[w]
      <4>1. pold[w][p] = prod[p]
        BY <3>1, FreshCommit
      <4>2. pnew[w][p] = [pold[w][p] EXCEPT !.reserved =
                            AtLeastZero(@ - Sum(UnitsOf(a), Releasing(S, a, p)))]
        <5>1. S \ {} = S
          OBVIOUS
        <5> QED BY <1>0, <3>1, <5>1 DEF Passed
      <4> QED BY <1>7, <3>1, <4>1, <4>2
    <3>2. CASE p \notin DOMAIN pold[w]
      <4>1. HeldUnits(rows, p) = 0
        BY <1>7, <3>0, <3>2
      <4>2. prod[p] \in ProductRow
        BY <1>1
      <4>3. AtLeastZero(prod[p].reserved - 0) = prod[p].reserved
        BY <4>2 DEF AtLeastZero, ProductRow
      <4>4. [prod[p] EXCEPT !.reserved = prod[p].reserved] = prod[p]
        BY <4>2 DEF ProductRow
      <4> QED BY <3>2, <4>1, <4>3, <4>4
    <3> QED BY <3>1, <3>2
  <2> QED BY <2>1, <2>2
<1>9. override' = override
  BY DEF Commit, Overridden
<1>10. ExpirePass(S)
  BY <1>2, <1>4, <1>6, <1>8, <1>9 DEF ExpirePass
<1> QED BY <1>2, <1>10

\* A step after which nothing stale has been committed is a step of one handler
\* alone.
LEMMA NextSerial ==
  ASSUME RCInv, [RCNext]_rcvars, ~stale'
  PROVE  Next \/ UNCHANGED vars \/ \E S \in SUBSET OrderIds : ExpirePass(S)
<1>1. ASSUME NEW w \in Sessions, Commit(w)
      PROVE  Next \/ UNCHANGED vars \/ \E S \in SUBSET OrderIds : ExpirePass(S)
  <2>1. ~stale /\ ~ReadsAreStale(w) /\ op[w] # "idle"
    BY <1>1 DEF Commit, ReadyToCommit
  <2>2. op[w] \in OneOrderOps \cup {"detect", "edit", "expire"}
    BY <2>1 DEF RCInv, InOrder, Session
  <2> QED BY <1>1, <2>1, <2>2, CommitDetect, CommitEdit, CommitHandler, CommitPass
<1>2. ASSUME NEW o \in OrderIds, TimePasses(o) PROVE Next
  BY <1>2 DEF TimePasses, Next, OrderStep
<1> QED BY <1>1, <1>2, OrderWriters

\* Overlapping sessions go wrong in one way only: as long as no handler has
\* committed what it computed from rows changed since it read them, every commit
\* is a step of one handler alone.
THEOREM SpecSerialUnlessStale == RCSpec => SerialUnlessStale
<1>1. RCInv /\ [RCNext]_rcvars =>
        [\/ stale' \/ Next \/ UNCHANGED vars
         \/ \E S \in SUBSET OrderIds : ExpirePass(S)]_rcvars
  BY NextSerial
<1> QED BY <1>1, RCSpecInv, PTL DEF RCSpec, SerialUnlessStale

-----------------------------------------------------------------------------
\* What is promised of handlers that run alone, in overlapping sessions.

\* A pass of the job keeps the rows right.
LEMMA PassIInv ==
  ASSUME IInv, NEW S \in SUBSET OrderIds, ExpirePass(S)
  PROVE  /\ IInv'
         /\ \A o \in OrderIds \ S : ord'[o] = ord[o]
         /\ \A o \in S : /\ ord'[o] = TimedOut(ord[o]) /\ ~ord'[o].stock_reserved
                         /\ ord'[o].customer = ord[o].customer
                         /\ ord'[o].product = ord[o].product /\ ord'[o].recent = ord[o].recent
         /\ override' = override
<1>0. /\ ord \in [OrderIds -> OrderRow] /\ \A x \in OrderIds : RowInv(ord[x])
      /\ prod \in [ProductIds -> ProductRow] /\ override \subseteq ProductIds
  BY IInvIsRowInv
<1>1. /\ \A o \in OrderIds \ S : ord'[o] = ord[o]
      /\ \A o \in S : ord'[o] = TimedOut(ord[o])
      /\ DOMAIN ord' = OrderIds /\ override' = override
      /\ \A o \in S : ord[o].status = Awaiting \/ ReservationExpirable(ord[o])
      /\ ord' = [o \in OrderIds |-> IF o \in S THEN TimedOut(ord[o]) ELSE ord[o]]
  BY DEF ExpirePass, TimedOut
<1>2. ASSUME NEW o \in S
      PROVE  /\ RowInv(TimedOut(ord[o])) /\ ~TimedOut(ord[o]).stock_reserved
             /\ TimedOut(ord[o]).customer = ord[o].customer
             /\ TimedOut(ord[o]).product = ord[o].product
             /\ TimedOut(ord[o]).recent = ord[o].recent
  <2>0. ord[o] \in OrderRow /\ RowInv(ord[o])
    BY <1>0
  <2>1. CASE ord[o].status = Awaiting
    <3>1. RowInv(CancelOrder(ord[o])) /\ ~ord[o].stock_reserved
      BY <2>0, <2>1, HandlersKeepRowInv DEF RowInv, Awaiting, Pending
    <3> QED BY <2>0, <2>1, <3>1 DEF TimedOut, CancelOrder, OrderRow
  <2>2. CASE ord[o].status # Awaiting
    <3>1. RowInv(ExpireOrder(ord[o]))
      BY <1>1, <2>0, <2>2, HandlersKeepRowInv
    <3> QED BY <2>0, <2>2, <3>1 DEF TimedOut, ExpireOrder, OrderRow
  <2> QED BY <2>1, <2>2
<1>3. \A o \in OrderIds : RowInv(ord'[o])
  BY <1>0, <1>1, <1>2
<1>4. ord' \in [OrderIds -> OrderRow]
  BY <1>1, <1>3 DEF RowInv
<1>5. prod' \in [ProductIds -> ProductRow]
  <2>1. ASSUME NEW p \in ProductIds, NEW n \in Int
        PROVE  [prod[p] EXCEPT !.reserved = AtLeastZero(@ - n)] \in ProductRow
    <3>1. prod[p] \in ProductRow /\ prod[p].reserved \in Nat
      BY <1>0 DEF ProductRow
    <3>2. AtLeastZero(prod[p].reserved - n) \in Nat
      BY <3>1 DEF AtLeastZero
    <3> QED BY <3>1, <3>2 DEF ProductRow
  <2>2. ASSUME NEW p \in ProductIds PROVE HeldUnits([o \in S |-> ord[o]], p) \in Int
    <3> DEFINE rows == [o \in S |-> ord[o]]
               f == [o \in DOMAIN rows |-> Units(rows[o])]
    <3>1. IsFiniteSet(S) /\ Holders(rows, p) \in SUBSET S
      BY DEF ExpirePass, Holders
    <3>2. \A x \in S : f[x] \in Int
      BY <1>0, UnitsType
    <3> HIDE DEF f
    <3>3. Sum(f, Holders(rows, p)) \in Int
      BY <3>1, <3>2, SumType
    <3> QED BY <3>3 DEF HeldUnits, Sum, f
  <2> QED BY <2>1, <2>2 DEF ExpirePass
<1>6. IInv'
  <2>1. IInv' <=> /\ ord' \in [OrderIds -> OrderRow] /\ \A o \in OrderIds : RowInv(ord'[o])
                  /\ prod' \in [ProductIds -> ProductRow] /\ override' \subseteq ProductIds
    BY DEF IInv, TypeOK, ReservedOnlyWhilePending, ConfirmedInSync, RecentIsPresent, RowInv
  <2> QED BY <1>0, <1>1, <1>3, <1>4, <1>5, <2>1
<1> QED BY <1>1, <1>2, <1>6

\* It releases what its orders hold, and no more.
LEMMA PassReleases ==
  ASSUME IInv, NEW S \in SUBSET OrderIds, ExpirePass(S), NEW p \in ProductIds
  PROVE  /\ HeldUnits([o \in S |-> ord[o]], p) = Sum(HeldBy, Holders(ord, p) \cap S)
         /\ Sum(HeldBy, Holders(ord, p) \cap S) \in Nat
         /\ prod'[p] = [prod[p] EXCEPT !.reserved =
                          AtLeastZero(@ - Sum(HeldBy, Holders(ord, p) \cap S))]
         /\ IsFiniteSet(Holders(ord, p) \cap S)
<1> DEFINE rows == [o \in S |-> ord[o]]
           f == [o \in S |-> Units(ord[o])]
           H == Holders(ord, p) \cap S
<1>0. ord \in [OrderIds -> OrderRow] /\ IsFiniteSet(S)
  BY DEF IInv, TypeOK, ExpirePass
<1>1. Holders(rows, p) = H
  BY <1>0 DEF Holders
<1>2. HeldUnits(rows, p) = Sum(f, Holders(rows, p))
  <2>1. DOMAIN rows = S /\ [o \in DOMAIN rows |-> Units(rows[o])] = f
    OBVIOUS
  <2> HIDE DEF rows, f
  <2> QED BY <2>1 DEF HeldUnits, Sum
<1>3. IsFiniteSet(H) /\ H \subseteq S
  BY <1>0, FS_Subset
<1>4. \A o \in S : f[o] = HeldBy[o] /\ HeldBy[o] \in Nat
  BY <1>0, UnitsType DEF HeldBy
<1>5. prod'[p] = [prod[p] EXCEPT !.reserved = AtLeastZero(@ - HeldUnits(rows, p))]
  BY DEF ExpirePass
<1> HIDE DEF rows, f, H
<1>6. Sum(f, H) = Sum(HeldBy, H)
  BY <1>3, <1>4, SumAgree
<1>7. Sum(HeldBy, H) \in Nat
  BY <1>3, <1>4, SumNat
<1>8. HeldUnits(rows, p) = Sum(HeldBy, H)
  BY <1>1, <1>2, <1>6
<1> QED BY <1>3, <1>5, <1>7, <1>8 DEF rows, H

\* A pass of the job keeps what is promised of reservations and duplicates.
LEMMA PassKeeps ==
  ASSUME IInv, NEW S \in SUBSET OrderIds, ExpirePass(S)
  PROVE  /\ Covered => Covered'
         /\ ReservationsBacked => ReservationsBacked'
         /\ NoRecentDuplicates => NoRecentDuplicates'
<1>0. /\ IInv' /\ \A o \in OrderIds \ S : ord'[o] = ord[o]
      /\ \A o \in S : /\ ~ord'[o].stock_reserved /\ ord'[o].customer = ord[o].customer
                      /\ ord'[o].product = ord[o].product /\ ord'[o].recent = ord[o].recent
      /\ override' = override
  BY PassIInv
<1>1. /\ ord \in [OrderIds -> OrderRow] /\ ord' \in [OrderIds -> OrderRow]
      /\ prod \in [ProductIds -> ProductRow] /\ prod' \in [ProductIds -> ProductRow]
  BY <1>0 DEF IInv, TypeOK
<1>2. NoRecentDuplicates => NoRecentDuplicates'
  <2>1. \A o \in OrderIds : /\ ord'[o].customer = ord[o].customer
                            /\ ord'[o].product = ord[o].product /\ ord'[o].recent = ord[o].recent
    BY <1>0
  <2> QED BY <2>1 DEF NoRecentDuplicates
<1>3. ASSUME ReservationsBacked PROVE ReservationsBacked'
  <2> SUFFICES ASSUME NEW p \in ProductIds \ override, prod'[p].stock # Unlimited
               PROVE  prod'[p].reserved <= prod'[p].stock
    BY <1>0 DEF ReservationsBacked
  <2> DEFINE n == Sum(HeldBy, Holders(ord, p) \cap S)
  <2>1. n \in Nat /\ prod'[p] = [prod[p] EXCEPT !.reserved = AtLeastZero(@ - n)]
    BY PassReleases
  <2> HIDE DEF n
  <2>2. prod[p] \in ProductRow /\ prod[p].reserved \in Nat
    BY <1>1 DEF ProductRow
  <2>3. prod'[p].stock = prod[p].stock /\ prod'[p].reserved = AtLeastZero(prod[p].reserved - n)
    BY <2>1, <2>2 DEF ProductRow
  <2>4. prod[p].stock \in Nat /\ prod[p].reserved <= prod[p].stock
    BY <1>3, <2>2, <2>3 DEF ReservationsBacked, ProductRow
  <2> QED BY <2>1, <2>2, <2>3, <2>4 DEF AtLeastZero
<1>4. ASSUME Covered PROVE Covered'
  <2> SUFFICES ASSUME NEW p \in ProductIds
               PROVE  /\ IsFiniteSet(Holders(ord', p))
                      /\ prod'[p].reserved >= Sum(HeldBy', Holders(ord', p))
    BY DEF Covered, Sum, Holders
  <2> DEFINE H == Holders(ord, p)
             K == Holders(ord', p)
  <2>1. IsFiniteSet(H) /\ prod[p].reserved >= Sum(HeldBy, H)
    BY <1>4 DEF Covered
  <2>2. K = H \ (H \cap S) /\ H \subseteq OrderIds
    BY <1>0, <1>1 DEF Holders
  <2>3. \A x \in H : HeldBy[x] \in Nat
    BY <1>1, UnitsType DEF HeldBy, Holders
  <2>4. \A x \in K : HeldBy'[x] = HeldBy[x]
    BY <1>0, <1>1, <2>2 DEF HeldBy
  <2>5. /\ Sum(HeldBy, H \cap S) \in Nat
        /\ prod'[p] = [prod[p] EXCEPT !.reserved = AtLeastZero(@ - Sum(HeldBy, H \cap S))]
    BY PassReleases
  <2>6. prod[p] \in ProductRow /\ prod[p].reserved \in Nat
    BY <1>1 DEF ProductRow
  <2> DEFINE n == Sum(HeldBy, H \cap S)
             f == HeldBy
             g == HeldBy'
  <2>7. prod'[p].reserved = AtLeastZero(prod[p].reserved - n)
    BY <2>5, <2>6 DEF ProductRow
  <2> HIDE DEF H, K, f, g
  <2>8. IsFiniteSet(K)
    BY <2>1, <2>2, FS_Subset
  <2>9. Sum(g, K) = Sum(f, K)
    BY <2>4, <2>8, SumAgree DEF f, g
  <2>10. Sum(f, H) = Sum(f, H \cap S) + Sum(f, H \ (H \cap S))
    <3>1. \A x \in H : f[x] \in Int
      BY <2>3 DEF f
    <3>2. H \cap S \in SUBSET H
      OBVIOUS
    <3> QED BY <2>1, <3>1, <3>2, SumSplit
  <2>11. Sum(f, K) \in Nat /\ Sum(f, H) \in Nat
    BY <2>1, <2>2, <2>3, SumNat DEF f
  <2>12. Sum(f, H) = n + Sum(f, K)
    BY <2>2, <2>10 DEF f
  <2>13. n \in Nat
    BY <2>5
  <2>14. prod[p].reserved >= Sum(f, H)
    BY <2>1 DEF f
  <2> HIDE DEF n
  <2>15. prod'[p].reserved >= Sum(f, K)
    BY <2>6, <2>7, <2>11, <2>12, <2>13, <2>14 DEF AtLeastZero
  <2> QED BY <2>8, <2>9, <2>15 DEF K, g
<1> QED BY <1>2, <1>3, <1>4

\* Either something stale has been committed, or all that Orders promises holds.
KeptUnlessStale ==
  stale \/ (IInv /\ Covered /\ ReservationsBacked /\ NoRecentDuplicates)

\* A step keeps it: serial steps keep what Orders promises, and a stale commit
\* is remembered.
LEMMA NextKept == RCInv /\ KeptUnlessStale /\ [RCNext]_rcvars => KeptUnlessStale'
<1> SUFFICES ASSUME RCInv, KeptUnlessStale, [RCNext]_rcvars, ~stale'
             PROVE  /\ IInv' /\ Covered' /\ ReservationsBacked' /\ NoRecentDuplicates'
  BY DEF KeptUnlessStale
<1>1. ~stale
  <2>1. ASSUME NEW w \in Sessions, Commit(w) PROVE ~stale
    BY <2>1 DEF Commit
  <2>2. ASSUME NEW o \in OrderIds, TimePasses(o) PROVE ~stale
    BY <2>2 DEF TimePasses
  <2> QED BY <2>1, <2>2, OrderWriters
<1>2. IInv /\ Covered /\ ReservationsBacked /\ NoRecentDuplicates
  BY <1>1 DEF KeptUnlessStale
<1>3. CASE Next \/ UNCHANGED vars
  <2>1. [Next]_vars
    BY <1>3
  <2> QED BY <1>2, <2>1, NextIInv, NextCovered, NextReservationsBacked, NextNoRecentDuplicates
<1>4. ASSUME NEW S \in SUBSET OrderIds, ExpirePass(S)
      PROVE  IInv' /\ Covered' /\ ReservationsBacked' /\ NoRecentDuplicates'
  BY <1>2, <1>4, PassIInv, PassKeeps
<1> QED BY <1>3, <1>4, NextSerial

\* Everything Orders promises of handlers that run alone holds in overlapping
\* sessions too until the first commit of values computed from rows changed since.
THEOREM RCSpecKept ==
  RCSpec => [](\/ stale
               \/ /\ TypeOK /\ ReservedOnlyWhilePending /\ ConfirmedInSync
                  /\ ReservationsCovered /\ ReservationsBacked /\ NoRecentDuplicates)
<1>1. RCInit => KeptUnlessStale
  <2> SUFFICES ASSUME RCInit PROVE IInv /\ Covered /\ ReservationsBacked /\ NoRecentDuplicates
    BY DEF KeptUnlessStale
  <2>1. Init
    BY DEF RCInit
  <2> QED BY <2>1, InitIInv, InitCovered, InitBacked, InitNoDuplicates
<1>2. RCInv /\ KeptUnlessStale /\ [RCNext]_rcvars => KeptUnlessStale'
  BY NextKept
<1>3. KeptUnlessStale =>
        \/ stale
        \/ /\ TypeOK /\ ReservedOnlyWhilePending /\ ConfirmedInSync
           /\ ReservationsCovered /\ ReservationsBacked /\ NoRecentDuplicates
  BY HeldUnitsIs DEF KeptUnlessStale, IInv, Covered, ReservationsCovered
<1> QED BY <1>1, <1>2, <1>3, RCSpecInv, PTL DEF RCSpec
=============================================================================
