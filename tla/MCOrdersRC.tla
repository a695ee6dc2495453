----------------------------- MODULE MCOrdersRC -----------------------------
(***************************************************************************)
(* OrdersRC for TLC: two sessions at a time and two orders of one product. *)
(* Orders and sessions are interchangeable.                                *)
(***************************************************************************)
EXTENDS OrdersRC, TLC

Symmetry == Permutations(OrderIds) \cup Permutations(Sessions)

\* Explored with one order only: a product without stock control, the owner's
\* edits of it, and what follows a stale commit (SerialUnlessStale says nothing
\* more then, and NeverReopened is about each order alone).
Editing ==
  \/ \E w \in Sessions : op[w] = "edit"
  \/ \E p \in ProductIds : ~prod[p].is_active \/ prod[p].stock = Unlimited

Focus == stale \/ Editing => \E o \in OrderIds : ord[o].status = Absent
=============================================================================
