------------------------------ MODULE OrdersRC ------------------------------
(***************************************************************************)
(* The order handlers as they really run: each in a database session of    *)
(* its own, under READ COMMITTED, interleaved at every await. A session    *)
(* loads the order row, later (session.get) the product row, computes the  *)
(* new rows in Python and, at commit, writes the columns that differ from  *)
(* what it loaded. Nothing is locked or version-checked between load and   *)
(* commit, so a session may write values computed from rows that another   *)
(* session has changed meanwhile.                                          *)
(*                                                                         *)
(* The module EXTENDS Orders, whose rows, Init and Next keep their names:  *)
(* Next is what one handler does alone.                                    *)
(*                                                                         *)
(* Row locks taken by a flush only order the commits of two writers of the *)
(* same row; as uncommitted writes are invisible, letting the whole write  *)
(* happen at commit gives the same outcomes.                               *)
(***************************************************************************)
EXTENDS Orders, FiniteSets

CONSTANTS
  Sessions,   \* database sessions open at the same time
  MaxBatch    \* how many orders one pass of the job expires at most

ASSUME MaxBatchIsNat == MaxBatch \in Nat

VARIABLES     \* besides the committed rows and override, as in Orders
  op,         \* session -> the handler it runs, "idle" if none
  todo,       \* session -> orders it has loaded and not processed yet
  old, new,   \* session -> order rows as loaded, and as changed in Python
  pold, pnew, \* session -> product rows likewise
  stale       \* history: some commit was computed from rows since changed

svars  == <<op, todo, old, new, pold, pnew>>
rcvars == <<vars, svars, stale>>

\* Tables of the rows a session has: none, one, one more.
Empty == [x \in {} |-> x]
Only(x, row) == [y \in {x} |-> row]
With(rows, x, row) ==
  [y \in DOMAIN rows \cup {x} |-> IF y = x THEN row ELSE rows[y]]

RCInit ==
  /\ Init
  /\ op = [w \in Sessions |-> "idle"]
  /\ todo = [w \in Sessions |-> {}]
  /\ old = [w \in Sessions |-> Empty] /\ new = old
  /\ pold = [w \in Sessions |-> Empty] /\ pnew = pold
  /\ stale = FALSE

-----------------------------------------------------------------------------
\* Opening a session: the handler's first query loads the orders S; the
\* session has them to process, or has computed their rows already.
Load(w, k, S) ==
  /\ op[w] = "idle"
  /\ op' = [op EXCEPT ![w] = k]
  /\ todo' = [todo EXCEPT ![w] = S]
  /\ old' = [old EXCEPT ![w] = [o \in S |-> ord[o]]]
  /\ new' = [new EXCEPT ![w] = [o \in S |-> ord[o]]]
  /\ UNCHANGED <<vars, pold, pnew, stale>>

\* The guard of each handler, on the row as it was read.
Accepts(k, o) ==
  CASE k \in {"customer_confirm", "customer_cancel"} -> o.status = Awaiting
    [] k = "confirm" -> OwnerMayConfirm(o)
    [] k = "reject"  -> o.status = Pending
    [] k = "advance" -> MayAdvance(o)

OneOrderOps ==
  {"customer_confirm", "customer_cancel", "confirm", "reject", "advance"}

\* As OwnerHasButtons; but once a customer's two answers, or an answer and the
\* job, have overwritten each other, a cancelled order may have its buttons.
ButtonsSent(o) ==
  \/ OwnerHasButtons(ord[o])
  \/ stale /\ ord[o].product # NoProduct

BeginHandler(w, k, o) ==
  /\ k \in {"confirm", "reject", "advance"} => ButtonsSent(o)
  /\ Accepts(k, ord[o])
  /\ Load(w, k, {o})

\* process_order_expiry: both of its queries. One loop runs the job, so two
\* passes never overlap.
BeginExpiry(w, S) ==
  /\ \A v \in Sessions : op[v] # "expire"
  /\ S # {} /\ IsFiniteSet(S) /\ Cardinality(S) <= MaxBatch
  /\ \A o \in S : ord[o].status = Awaiting \/ ReservationExpirable(ord[o])
  /\ Load(w, "expire", S)

\* _detect_and_notify_order: the duplicate check reads, the row comes later.
BeginDetect(w, o, c, p, q) ==
  /\ op[w] = "idle"
  /\ ord[o].status = Absent
  /\ \A v \in Sessions : o \notin DOMAIN new[v]
  /\ p # NoProduct => prod[p].is_active
  /\ ~HasRecentDuplicate(ord, c, p)
  /\ op' = [op EXCEPT ![w] = "detect"]
  /\ old' = [old EXCEPT ![w] = Only(o, ord[o])]
  /\ new' = [new EXCEPT ![w] = Only(o, CandidateRow(c, p, q))]
  /\ UNCHANGED <<vars, todo, pold, pnew, stale>>

\* _apply_field_edit on the stock, and soft_delete: load and set one column.
BeginEdit(w, p, row) ==
  /\ op[w] = "idle"
  /\ op' = [op EXCEPT ![w] = "edit"]
  /\ pold' = [pold EXCEPT ![w] = Only(p, prod[p])]
  /\ pnew' = [pnew EXCEPT ![w] = Only(p, row)]
  /\ UNCHANGED <<vars, todo, old, new, stale>>

BeginEditStock(w, p, s) == BeginEdit(w, p, [prod[p] EXCEPT !.stock = s])

BeginSoftDelete(w, p) ==
  /\ prod[p].is_active
  /\ BeginEdit(w, p, [prod[p] EXCEPT !.is_active = FALSE])

-----------------------------------------------------------------------------
\* Mutant: every order of a pass starts from the committed product row.
ProductReread(w, p) == prod[p]

\* session.get(Product, ...): the identity map first, the table otherwise.
ProductSeen(w, p) == IF p \in DOMAIN pnew[w] THEN pnew[w][p] ELSE prod[p]

\* Handlers that look at the product row of the order they process.
NeedsProduct(k, o) ==
  /\ o.product # NoProduct
  /\ \/ k \in {"customer_confirm", "confirm"}
     \/ k \in {"reject", "expire"} /\ o.stock_reserved

OrderAfter(k, o, r) ==
  CASE k = "customer_confirm" /\ o.product # NoProduct
                             -> CustomerConfirmOrder(o, r)
    [] k = "customer_confirm" /\ o.product = NoProduct
                             -> CustomerConfirmPlain(o)
    [] k = "customer_cancel" -> CancelOrder(o)
    [] k = "confirm"         -> ConfirmOrder(o)
    [] k = "reject"          -> RejectOrder(o)
    [] k = "advance"         -> AdvanceOrder(o)
    [] k = "expire"          -> IF o.status = Awaiting THEN CancelOrder(o)
                                ELSE ExpireOrder(o)

ProductAfter(k, o, r) ==
  CASE k = "customer_confirm" -> CustomerConfirmProduct(o, r)
    [] k = "confirm"          -> ConfirmProduct(o, r)
    [] k \in {"reject", "expire"} -> ReleaseProduct(o, r)

\* The handler's computation on one of its orders.
Process(w, o) ==
  LET row == new[w][o]
      p   == row.product
  IN
  /\ o \in todo[w]
  /\ todo' = [todo EXCEPT ![w] = @ \ {o}]
  /\ IF NeedsProduct(op[w], row)
     THEN LET r == ProductSeen(w, p) IN
          /\ new' = [new EXCEPT ![w][o] = OrderAfter(op[w], row, r)]
          /\ pold' = IF p \in DOMAIN pold[w] THEN pold
                      ELSE [pold EXCEPT ![w] = With(@, p, r)]
          /\ pnew' = [pnew EXCEPT ![w] =
                        With(@, p, ProductAfter(op[w], row, r))]
     ELSE /\ new' = [new EXCEPT ![w][o] = OrderAfter(op[w], row, NoProduct)]
          /\ UNCHANGED <<pold, pnew>>
  /\ UNCHANGED <<vars, op, old, stale>>

\* Mutant: the whole row is written back, unchanged columns included.
FlushWholeRow(before, after, row) == after

\* The columns the session changed, over the row as it is now committed.
Flush(before, after, row) ==
  [f \in DOMAIN row |-> IF after[f] # before[f] THEN after[f] ELSE row[f]]

OrdersAfterCommit(w) ==
  [o \in OrderIds |-> IF o \in DOMAIN new[w]
                      THEN Flush(old[w][o], new[w][o], ord[o]) ELSE ord[o]]

ProductsAfterCommit(w) ==
  [p \in ProductIds |-> IF p \in DOMAIN pnew[w]
                        THEN Flush(pold[w][p], pnew[w][p], prod[p]) ELSE prod[p]]

\* Some row that session w loaded is no longer what is committed (time alone
\* does not count); or a duplicate has appeared since w looked for one, or the
\* product it found active has been deleted.
SameRow(a, b) == [a EXCEPT !.recent = FALSE] = [b EXCEPT !.recent = FALSE]

ReadsAreStale(w) ==
  \/ \E o \in DOMAIN old[w] : ~SameRow(old[w][o], ord[o])
  \/ \E p \in DOMAIN pold[w] : pold[w][p] # prod[p]
  \/ /\ op[w] = "detect"
     /\ \E o \in DOMAIN new[w] :
          LET p == new[w][o].product IN
          \/ HasRecentDuplicate(ord, new[w][o].customer, p)
          \/ p # NoProduct /\ ~prod[p].is_active

\* Products whose owner, in session w, overrode the stock control.
Overridden(w) ==
  {p \in DOMAIN pnew[w] :
     \/ op[w] = "edit" /\ pnew[w][p].stock # pold[w][p].stock
     \/ op[w] = "confirm" /\ \A o \in DOMAIN old[w] : ~old[w][o].stock_reserved}

\* The handler is through with its orders.
ReadyToCommit(w) == op[w] # "idle" /\ todo[w] = {}

CloseSession(w) ==
  /\ op' = [op EXCEPT ![w] = "idle"]
  /\ todo' = [todo EXCEPT ![w] = {}]
  /\ old' = [old EXCEPT ![w] = Empty] /\ new' = [new EXCEPT ![w] = Empty]
  /\ pold' = [pold EXCEPT ![w] = Empty] /\ pnew' = [pnew EXCEPT ![w] = Empty]

\* session.commit() at the end of the handler.
Commit(w) ==
  /\ ReadyToCommit(w)
  /\ ord' = OrdersAfterCommit(w)
  /\ prod' = ProductsAfterCommit(w)
  /\ override' = override \cup Overridden(w)
  /\ stale' = (stale \/ ReadsAreStale(w))
  /\ CloseSession(w)

\* An exception anywhere in the handler (a Telegram call that fails, a
\* database error): the session is rolled back.
Rollback(w) ==
  /\ op[w] # "idle"
  /\ CloseSession(w)
  /\ UNCHANGED <<vars, stale>>

\* Ten minutes pass since the order was created.
TimePasses(o) == LeaveDedupWindow(o) /\ UNCHANGED <<svars, stale>>

-----------------------------------------------------------------------------
HandlerStep(w) ==
  \/ \E k \in OneOrderOps, o \in OrderIds : BeginHandler(w, k, o)
  \/ \E o \in OrderIds, c \in Customers, p \in ProductIds \cup {NoProduct},
        q \in Quantities \cup {0} : BeginDetect(w, o, c, p, q)
  \/ \E p \in ProductIds, s \in Stocks \cup {Unlimited} : BeginEditStock(w, p, s)
  \/ \E p \in ProductIds : BeginSoftDelete(w, p)

RCNext ==
  \/ \E w \in Sessions : HandlerStep(w)
  \/ \E w \in Sessions, S \in SUBSET OrderIds : BeginExpiry(w, S)
  \/ \E w \in Sessions, o \in OrderIds : Process(w, o)
  \/ \E w \in Sessions : Commit(w)
  \/ \E w \in Sessions : Rollback(w)
  \/ \E o \in OrderIds : TimePasses(o)

RCSpec == RCInit /\ [][RCNext]_rcvars

-----------------------------------------------------------------------------
\* Types of the committed rows and of the sessions' copies.
RCTypeOK ==
  /\ TypeOK
  /\ \A w \in Sessions :
       /\ todo[w] \subseteq DOMAIN new[w]
       /\ \A o \in DOMAIN new[w] : {old[w][o], new[w][o]} \subseteq OrderRow
       /\ \A p \in DOMAIN pnew[w] : {pold[w][p], pnew[w][p]} \subseteq ProductRow
  /\ stale \in BOOLEAN

\* One pass of the job over the orders S, alone: each order as in Orders, each
\* product gives back what its orders held.
ExpirePass(S) ==
  LET Released(p) == HeldUnits([o \in S |-> ord[o]], p) IN
  /\ IsFiniteSet(S)
  /\ \A o \in S : ord[o].status = Awaiting \/ ReservationExpirable(ord[o])
  /\ ord' = [o \in OrderIds |->
               IF o \notin S THEN ord[o]
               ELSE IF ord[o].status = Awaiting THEN CancelOrder(ord[o])
               ELSE ExpireOrder(ord[o])]
  /\ prod' = [p \in ProductIds |->
                [prod[p] EXCEPT !.reserved = AtLeastZero(@ - Released(p))]]
  /\ UNCHANGED override

\* Stale reads are the only thing that goes wrong: as long as no handler has
\* committed values computed from rows changed since, every commit is a step
\* of one handler alone, so everything shown of Orders holds of the real,
\* interleaved handlers too (a version check at commit would be enough).
SerialUnlessStale ==
  [][\/ stale' \/ Next \/ UNCHANGED vars
     \/ \E S \in SUBSET OrderIds : ExpirePass(S)]_rcvars

\* Whatever the interleaving, a candidate that has left AWAITING is never a
\* candidate again and "confirmed" is never taken back: no session writes
\* these values, stale or not.
NeverReopened ==
  [][\A o \in OrderIds :
       /\ ord[o].status \notin {Absent, Awaiting} =>
            ord'[o].status \notin {Absent, Awaiting}
       /\ ord[o].confirmed => ord'[o].confirmed]_rcvars
=============================================================================
