--------------------------- MODULE PaymentsProofs ---------------------------
(***************************************************************************)
(* Proofs about Payments, for any number of payments and any sets of       *)
(* owners, referrals and sessions: however approvals and rejections        *)
(* overlap, what they leave in the database adds up. SessionEnds is about  *)
(* fairness and is left to TLC.                                            *)
(***************************************************************************)
EXTENDS Payments, TLAPS, FiniteSetTheorems

-----------------------------------------------------------------------------
\* The inductive invariant, in parts.

Pcs == {"idle", "inquire", "first", "flush", "usage", "count", "credit",
        "referral", "reward", "finish", "told", "reject"}

PayRow == [status : Status, owner : Owners, method : Methods,
           code : BOOLEAN, paid : BOOLEAN, receipt : BOOLEAN]

SessRow == [pc : Pcs, p : 0..MaxPayments, seen : Status, first : BOOLEAN,
            count : Nat, reward : BOOLEAN]

\* The steps of an approval after the payment, the use, the code and the owner
\* are written.
PaymentHeld == {"usage", "count", "credit", "referral", "reward", "finish", "told"}
UsageHeld == {"count", "credit", "referral", "reward", "finish", "told"}
CodeHeld == {"credit", "referral", "reward", "finish", "told"}
OwnerHeld == {"referral", "reward", "finish", "told"}

\* TypeOK, with the sessions.
Types ==
  /\ TypeOK
  /\ sess \in [Sessions -> SessRow]

\* A session works on a payment that exists, which it has read PENDING.
Working ==
  \A s \in Sessions :
    /\ sess[s].pc # "idle" => /\ sess[s].p \in Ids
                              /\ Row(s).status # "absent"
                              /\ sess[s].seen = "pending"
    /\ sess[s].reward => sess[s].pc \in {"finish", "told"}

\* A session that tells before it commits approves a card payment.
TellingIsCard ==
  \A s \in Sessions : sess[s].pc = "told" => Row(s).method = "card"

\* Each row is held by one session at a time.
Exclusive ==
  \A s, t \in Sessions : s # t =>
    /\ ~(/\ sess[s].pc \in PaymentHeld /\ sess[t].pc \in PaymentHeld
         /\ sess[s].p = sess[t].p)
    /\ ~(/\ sess[s].pc \in UsageHeld /\ sess[t].pc \in UsageHeld
         /\ Row(s).code /\ Row(t).code /\ Row(s).owner = Row(t).owner)
    /\ ~(/\ sess[s].pc \in CodeHeld /\ sess[t].pc \in CodeHeld
         /\ Row(s).code /\ Row(t).code)
    /\ ~(/\ sess[s].pc \in OwnerHeld /\ sess[t].pc \in OwnerHeld
         /\ Row(s).owner = Row(t).owner)

\* A payment that a session holds is still PENDING, unless it is stale.
HeldIsPending ==
  \A s \in Sessions : sess[s].pc \in PaymentHeld =>
    Row(s).status = "pending" \/ sess[s].p \in stale

\* A use that a session has inserted was not there before ...
UseIsNew ==
  \A s \in Sessions : sess[s].pc \in UsageHeld /\ Row(s).code =>
    Row(s).owner \notin usage

\* ... and is there once the payment is credited.
UseIsKept ==
  \A p \in Ids : credits[p] > 0 /\ pay[p].code => pay[p].owner \in usage

\* A session that rewards a referrer does it for a referral that is pending.
ReferralIsPending ==
  \A s \in Sessions : sess[s].pc = "reward" \/ sess[s].reward =>
    Row(s).owner \in pending

\* The value of used_count that a session increments.
CountIsRead ==
  \A s \in Sessions : sess[s].pc \in UsageHeld /\ Row(s).code =>
    /\ sess[s].count <= Cardinality(usage)
    /\ sess[s].pc \in CodeHeld /\ ~lost => sess[s].count = used_count

\* Nothing is credited or announced before it exists.
NoneBefore ==
  \A p \in Ids : pay[p].status = "absent" => credits[p] = 0 /\ p \notin told

IInv ==
  /\ Types /\ IsFiniteSet(usage)
  /\ Working /\ TellingIsCard /\ Exclusive /\ NoneBefore
  /\ HeldIsPending /\ CreditedUnlessStale
  /\ UseIsNew /\ UseIsKept /\ OneCreditPerCode
  /\ ReferralIsPending /\ RewardedOnce /\ ToldUnlessUndone
  /\ CountIsRead /\ UsedCountUnlessLost

-----------------------------------------------------------------------------
\* Lemmas.

\* The row that stands for "not inserted yet" is a row.
LEMMA NoPaymentType == NoPayment \in PayRow
<1>1. (CHOOSE o \in Owners : TRUE) \in Owners
  BY OwnersExist, Zenon
<1>2. QED
  BY <1>1 DEF NoPayment, PayRow, Status, Methods

\* A session that has ended, or not begun, has a session's type.
LEMMA IdleType == Idle \in SessRow
BY MaxPaymentsIsNat DEF Idle, SessRow, Pcs, Status

\* The invariant holds before anything has happened.
LEMMA InitIInv == Init => IInv
<1> SUFFICES ASSUME Init PROVE IInv
  OBVIOUS
<1>1. Types
  <2>1. pay \in [Ids -> PayRow]
    BY NoPaymentType DEF Init
  <2>2. sess \in [Sessions -> SessRow]
    BY IdleType DEF Init
  <2>3. /\ fsm \in [Owners -> [step : {"none", "topup", "receipt"}, code : BOOLEAN,
                               card : 0..MaxPayments]]
        /\ \A o \in Owners : fsm[o].step = "receipt" <=> fsm[o].card \in Ids
    BY MaxPaymentsIsNat DEF Init, NoTopup, Ids
  <2>4. \A s \in Sessions : sess[s].p \in 0..MaxPayments
    BY <2>2 DEF SessRow
  <2>5. QED
    BY <2>1, <2>2, <2>3, <2>4, ReferrersAreOwners DEF Init, Types, TypeOK, PayRow
<1>2. IsFiniteSet(usage) /\ Cardinality(usage) = 0
  BY FS_EmptySet DEF Init
<1>3. \A s \in Sessions : sess[s] = Idle
  BY DEF Init
<1>4. /\ Working /\ TellingIsCard /\ Exclusive /\ HeldIsPending /\ UseIsNew
      /\ ReferralIsPending /\ CountIsRead
  BY <1>3 DEF Idle, Working, TellingIsCard, Exclusive, HeldIsPending, UseIsNew, ReferralIsPending,
              CountIsRead, PaymentHeld, UsageHeld, CodeHeld, OwnerHeld
<1>5. /\ NoneBefore /\ CreditedUnlessStale /\ UseIsKept /\ OneCreditPerCode
      /\ RewardedOnce /\ ToldUnlessUndone
  BY DEF Init, NoPayment, NoneBefore, CreditedUnlessStale, UseIsKept,
         OneCreditPerCode, RewardedOnce, ToldUnlessUndone
<1>6. UsedCountUnlessLost
  BY <1>2 DEF Init, UsedCountUnlessLost
<1>7. QED
  BY <1>1, <1>2, <1>4, <1>5, <1>6 DEF IInv

\* What an owner or a provider does to the payments leaves those that exist
\* what they are, and only inserts rows that are pending.
LEMMA OwnerFrame ==
  ASSUME IInv, UNCHANGED OwnerOnly,
         TypeOK',
         \A p \in Ids :
           /\ pay[p].status # "absent" =>
                /\ pay'[p].status = pay[p].status /\ pay'[p].owner = pay[p].owner
                /\ pay'[p].code = pay[p].code /\ pay'[p].method = pay[p].method
           /\ pay[p].status = "absent" => pay'[p].status \in {"absent", "pending"}
  PROVE  IInv'
<1> USE DEF OwnerOnly
<1>1. Types' /\ IsFiniteSet(usage)'
  BY DEF IInv, Types
<1>2. \A p \in Ids : pay[p].status = "absent" => credits[p] = 0 /\ p \notin told
  BY DEF IInv, NoneBefore
<1>3. NoneBefore'
  BY <1>2 DEF NoneBefore
<1>4. \A s \in Sessions : sess[s].pc # "idle" =>
        /\ sess[s].p \in Ids
        /\ Row(s).status # "absent"
        /\ pay'[sess[s].p].status = Row(s).status
        /\ pay'[sess[s].p].owner = Row(s).owner
        /\ pay'[sess[s].p].code = Row(s).code
        /\ pay'[sess[s].p].method = Row(s).method
  BY DEF IInv, Working, Row
<1>5. Working' /\ TellingIsCard'
  BY <1>4 DEF IInv, Working, TellingIsCard, Row
<1>6. Exclusive'
  BY <1>4 DEF IInv, Exclusive, Row, PaymentHeld, UsageHeld, CodeHeld, OwnerHeld
<1>7. HeldIsPending' /\ UseIsNew'
  BY <1>4 DEF IInv, HeldIsPending, UseIsNew, Row, PaymentHeld, UsageHeld
<1>8. ReferralIsPending'
  BY <1>4 DEF IInv, ReferralIsPending, Working, Row
<1>9. CountIsRead'
  BY <1>4 DEF IInv, CountIsRead, Row, UsageHeld, CodeHeld
<1>10. CreditedUnlessStale'
  BY <1>2 DEF IInv, CreditedUnlessStale
<1>11. UseIsKept'
  BY <1>2 DEF IInv, UseIsKept
<1>12. OneCreditPerCode'
  BY <1>2 DEF IInv, OneCreditPerCode
<1>13. RewardedOnce' /\ UsedCountUnlessLost'
  BY DEF IInv, RewardedOnce, UsedCountUnlessLost
<1>14. ToldUnlessUndone'
  <2>1. told \subseteq Ids
    BY DEF IInv, Types, TypeOK
  <2>2. QED
    BY <1>2, <2>1 DEF IInv, ToldUnlessUndone, At
<1>15. QED
  BY <1>1, <1>3, <1>5, <1>6, <1>7, <1>8, <1>9, <1>10, <1>11, <1>12, <1>13, <1>14
     DEF IInv

\* What a session may go on to: the same clauses as the invariant's, for the
\* state r that session s is about to enter.
MayEnter(s, r) ==
  /\ r \in SessRow
  /\ r.pc # "idle" =>
       /\ r.p \in Ids /\ pay[r.p].status # "absent" /\ r.seen = "pending"
  /\ r.reward => r.pc \in {"finish", "told"}
  /\ r.pc = "told" => pay[r.p].method = "card"
  /\ \A t \in Others(s) :
       /\ ~(/\ r.pc \in PaymentHeld /\ sess[t].pc \in PaymentHeld
            /\ r.p = sess[t].p)
       /\ ~(/\ r.pc \in UsageHeld /\ sess[t].pc \in UsageHeld
            /\ pay[r.p].code /\ Row(t).code /\ pay[r.p].owner = Row(t).owner)
       /\ ~(/\ r.pc \in CodeHeld /\ sess[t].pc \in CodeHeld
            /\ pay[r.p].code /\ Row(t).code)
       /\ ~(/\ r.pc \in OwnerHeld /\ sess[t].pc \in OwnerHeld
            /\ pay[r.p].owner = Row(t).owner)
  /\ r.pc \in PaymentHeld => pay[r.p].status = "pending" \/ r.p \in stale'
  /\ r.pc \in UsageHeld /\ pay[r.p].code =>
       /\ pay[r.p].owner \notin usage
       /\ r.count <= Cardinality(usage)
       /\ r.pc \in CodeHeld /\ ~lost' => r.count = used_count
  /\ r.pc = "reward" \/ r.reward => pay[r.p].owner \in pending

\* What session s has announced and does not commit on its way to r: nothing, or
\* its approval failed, or the owner was referred.
MayLeave(s, r) ==
  sess[s].pc = "told" => \/ r.pc = "told" /\ r.p = sess[s].p
                         \/ sess[s].p \in undone'
                         \/ Row(s).owner \in DOMAIN Referrer

\* A session that goes on without committing preserves the invariant; what it
\* announces meanwhile it is about to commit.
LEMMA SessionFrame ==
  ASSUME IInv,
         NEW s \in Sessions, NEW r, MayEnter(s, r), MayLeave(s, r),
         sess' = [sess EXCEPT ![s] = r],
         UNCHANGED <<Committed, fsm>>,
         \A p \in told' : p \in told \/ (r.pc = "told" /\ p = r.p),
         undone \subseteq undone', undone' \subseteq Ids,
         stale \subseteq stale', stale' \subseteq Ids,
         lost' \in BOOLEAN, lost => lost'
  PROVE  IInv'
<1> USE DEF Committed
<1>1. /\ r \in SessRow /\ sess \in [Sessions -> SessRow]
      /\ sess'[s] = r /\ \A t \in Others(s) : sess'[t] = sess[t]
  BY DEF MayEnter, IInv, Types, Others
<1>2. Types'
  <2>1. sess' \in [Sessions -> SessRow]
    BY <1>1
  <2>2. \A t \in Sessions : sess'[t].p \in 0..MaxPayments
    BY <2>1 DEF SessRow
  <2>3. told' \subseteq Ids
    BY DEF IInv, Types, TypeOK, MayEnter
  <2>4. QED
    BY <2>1, <2>2, <2>3 DEF IInv, Types, TypeOK
<1>3. IsFiniteSet(usage)' /\ UseIsKept' /\ OneCreditPerCode' /\ RewardedOnce'
  BY DEF IInv, UseIsKept, OneCreditPerCode, RewardedOnce
<1>4. UsedCountUnlessLost' /\ CreditedUnlessStale'
  BY DEF IInv, UsedCountUnlessLost, CreditedUnlessStale
<1>5. Working' /\ TellingIsCard'
  BY <1>1 DEF IInv, Working, TellingIsCard, MayEnter, Row, Others
<1>6. Exclusive'
  BY <1>1 DEF IInv, Exclusive, MayEnter, Row, Others
<1>7. HeldIsPending'
  BY <1>1 DEF IInv, HeldIsPending, MayEnter, Row, Others
<1>8. UseIsNew'
  BY <1>1 DEF IInv, UseIsNew, MayEnter, Row, Others
<1>9. ReferralIsPending'
  BY <1>1 DEF IInv, ReferralIsPending, MayEnter, Row, Others
<1>10. CountIsRead'
  BY <1>1 DEF IInv, CountIsRead, MayEnter, Row, Others
<1>11. NoneBefore'
  BY DEF IInv, NoneBefore, MayEnter
<1>12. ToldUnlessUndone'
  <2> SUFFICES ASSUME NEW p \in told'
               PROVE  \/ credits[p] > 0
                      \/ \E t \in Sessions : sess'[t].pc = "told" /\ sess'[t].p = p
                      \/ /\ pay[p].method = "card"
                         /\ p \in undone' \/ pay[p].owner \in DOMAIN Referrer
    BY DEF ToldUnlessUndone, At
  <2>1. CASE r.pc = "told" /\ p = r.p
    BY <1>1, <2>1
  <2>2. CASE p \in told
    <3>1. \/ credits[p] > 0
          \/ \E t \in Sessions : sess[t].pc = "told" /\ sess[t].p = p
          \/ /\ pay[p].method = "card"
             /\ p \in undone \/ pay[p].owner \in DOMAIN Referrer
      BY <2>2 DEF IInv, ToldUnlessUndone, At
    <3>2. CASE \E t \in Sessions : sess[t].pc = "told" /\ sess[t].p = p
      <4>1. PICK t \in Sessions : sess[t].pc = "told" /\ sess[t].p = p
        BY <3>2
      <4>2. pay[p].method = "card"
        BY <4>1 DEF IInv, TellingIsCard, Row
      <4>3. CASE t = s
        BY <1>1, <4>1, <4>2, <4>3 DEF MayLeave, Row
      <4>4. CASE t # s
        BY <1>1, <4>1, <4>4 DEF Others
      <4>5. QED
        BY <4>3, <4>4
    <3>3. QED
      BY <3>1, <3>2
  <2>3. QED
    BY <2>1, <2>2
<1>13. QED
  BY <1>2, <1>3, <1>4, <1>5, <1>6, <1>7, <1>8, <1>9, <1>10, <1>11, <1>12 DEF IInv

\* A session may end at any time.
LEMMA MayEnd ==
  ASSUME NEW s \in Sessions
  PROVE  MayEnter(s, Idle)
<1>1. /\ Idle.pc = "idle" /\ Idle.reward = FALSE /\ Idle.p = 0
      /\ Idle.pc \notin PaymentHeld \cup UsageHeld \cup CodeHeld \cup OwnerHeld
  BY DEF Idle, PaymentHeld, UsageHeld, CodeHeld, OwnerHeld
<1>2. QED
  BY <1>1, IdleType DEF MayEnter

\* A session that is rolled back preserves the invariant.
LEMMA RollBack ==
  ASSUME IInv,
         NEW s \in Sessions, MayLeave(s, Idle),
         sess' = [sess EXCEPT ![s] = Idle],
         undone \subseteq undone', undone' \subseteq Ids,
         UNCHANGED <<Committed, fsm, told, stale, lost>>
  PROVE  IInv'
<1>1. stale' \subseteq Ids /\ lost' \in BOOLEAN
  BY DEF IInv, Types, TypeOK
<1>2. QED
  BY <1>1, MayEnd, SessionFrame

\* The commit of an approval preserves the invariant. Every held row is needed:
\* the payment's for CreditedUnlessStale, the use's for OneCreditPerCode, the
\* code's for UsedCountUnlessLost and the owner's for RewardedOnce.
LEMMA CommitFrame ==
  ASSUME IInv,
         NEW s \in Sessions, sess[s].pc \in {"finish", "told"}, CommitApproval(s),
         told' \subseteq told \cup {sess[s].p},
         sess' = [sess EXCEPT ![s] = Idle],
         UNCHANGED <<fsm, undone, stale, lost>>
  PROVE  IInv'
<1> DEFINE p == sess[s].p
           o == Row(s).owner
<1>1. /\ sess \in [Sessions -> SessRow]
      /\ sess'[s] = Idle /\ \A t \in Others(s) : sess'[t] = sess[t]
  BY DEF IInv, Types, Others
<1>2. /\ p \in Ids /\ pay \in [Ids -> PayRow] /\ pay[p].status # "absent"
      /\ o \in Owners /\ sess[s].count \in Nat /\ sess[s].reward \in BOOLEAN
      /\ Row(s) = pay[p] /\ Row(s).code \in BOOLEAN
  BY <1>1 DEF IInv, Types, TypeOK, Working, Row, SessRow, PayRow
<1>3. /\ pay'[p].status = "approved"
      /\ \A q \in Ids : /\ pay'[q].owner = pay[q].owner /\ pay'[q].code = pay[q].code
                        /\ pay'[q].method = pay[q].method
                        /\ q # p => pay'[q] = pay[q]
  BY <1>2 DEF CommitApproval, PayRow
<1>4. /\ credits' = [credits EXCEPT ![p] = @ + 1]
      /\ credits \in [Ids -> Nat] /\ credits' \in [Ids -> Nat]
  BY <1>2 DEF CommitApproval, IInv, Types, TypeOK
<1>5. \A t \in Others(s) : t \in Sessions /\ t # s
  BY DEF Others
<1>6. /\ sess[s].pc \in PaymentHeld /\ sess[s].pc \in UsageHeld
      /\ sess[s].pc \in CodeHeld /\ sess[s].pc \in OwnerHeld
  BY DEF PaymentHeld, UsageHeld, CodeHeld, OwnerHeld
<1>7. /\ usage' = IF Row(s).code THEN usage \cup {o} ELSE usage
      /\ used_count' = IF Row(s).code THEN sess[s].count + 1 ELSE used_count
      /\ pending' = IF sess[s].reward THEN pending \ {o} ELSE pending
      /\ rewards' = IF sess[s].reward THEN [rewards EXCEPT ![o] = @ + 1] ELSE rewards
  BY <1>2 DEF CommitApproval
<1>8. IsFiniteSet(usage') /\ Cardinality(usage') \in Nat /\ Cardinality(usage) \in Nat
      /\ Cardinality(usage') =
           IF Row(s).code THEN Cardinality(usage) + 1 ELSE Cardinality(usage)
  <2>1. IsFiniteSet(usage)
    BY DEF IInv
  <2>2. Row(s).code => o \notin usage
    BY <1>6 DEF IInv, UseIsNew
  <2>3. QED
    BY <1>7, <2>1, <2>2, FS_AddElement, FS_CardinalityType
<1>9. Idle.pc = "idle" /\ Idle.reward = FALSE
      /\ Idle.pc \notin PaymentHeld \cup UsageHeld \cup CodeHeld \cup OwnerHeld
  BY DEF Idle, PaymentHeld, UsageHeld, CodeHeld, OwnerHeld
<1>10. \A t \in Others(s) : sess[t].pc # "idle" =>
        /\ sess[t].p \in Ids
        /\ pay'[sess[t].p].status # "absent"
        /\ pay'[sess[t].p].owner = Row(t).owner
        /\ pay'[sess[t].p].code = Row(t).code
        /\ pay'[sess[t].p].method = Row(t).method
  BY <1>3, <1>5 DEF IInv, Working, Row
<1>11. Types'
  <2>1. sess' \in [Sessions -> SessRow]
    BY <1>1, IdleType
  <2>2. \A t \in Sessions : sess'[t].p \in 0..MaxPayments
    BY <2>1 DEF SessRow
  <2>3. pay' \in [Ids -> PayRow]
    BY <1>2 DEF CommitApproval, PayRow, Status
  <2>4. /\ used_count' \in Nat /\ usage' \subseteq Owners
        /\ pending' \subseteq DOMAIN Referrer
    BY <1>2, <1>7 DEF IInv, Types, TypeOK
  <2>5. rewards' \in [DOMAIN Referrer -> Nat]
    <3> DEFINE D == DOMAIN Referrer
    <3>1. rewards \in [D -> Nat]
      BY DEF IInv, Types, TypeOK
    <3> HIDE DEF D
    <3>2. sess[s].reward => o \in D
      BY DEF IInv, Types, TypeOK, ReferralIsPending, D
    <3>3. rewards' \in [D -> Nat]
      BY <1>7, <3>1, <3>2
    <3>4. QED
      BY <3>3 DEF D
  <2>6. told' \subseteq Ids
    BY <1>2 DEF IInv, Types, TypeOK
  <2>7. QED
    BY <1>4, <2>1, <2>2, <2>3, <2>4, <2>5, <2>6 DEF IInv, Types, TypeOK, PayRow
<1>12. Working' /\ TellingIsCard'
  BY <1>1, <1>5, <1>9, <1>10 DEF IInv, Working, TellingIsCard, Row, Others
<1>13. Exclusive'
  BY <1>1, <1>5, <1>9, <1>10
     DEF IInv, Exclusive, Row, Others, PaymentHeld, UsageHeld, CodeHeld, OwnerHeld
<1>14. NoneBefore'
  BY <1>2, <1>3, <1>4 DEF IInv, NoneBefore
<1>15. HeldIsPending'
  <2>1. \A t \in Others(s) : sess[t].pc \in PaymentHeld => sess[t].p # p
    BY <1>5, <1>6 DEF IInv, Exclusive
  <2>2. \A t \in Others(s) : sess[t].pc \in PaymentHeld =>
          pay'[sess[t].p].status = "pending" \/ sess[t].p \in stale
    BY <1>3, <1>5, <2>1 DEF IInv, HeldIsPending, Working, Row, PaymentHeld
  <2>3. QED
    BY <1>1, <1>9, <2>2 DEF HeldIsPending, Row, Others
<1>16. CreditedUnlessStale'
  <2>1. p \notin stale => pay[p].status = "pending"
    BY <1>2, <1>6 DEF IInv, HeldIsPending
  <2>2. p \notin stale => credits[p] = 0
    BY <1>2, <2>1 DEF IInv, CreditedUnlessStale
  <2>3. QED
    BY <1>2, <1>3, <1>4, <2>2 DEF IInv, CreditedUnlessStale
<1>17. UseIsNew'
  <2>1. \A t \in Others(s) : sess[t].pc \in UsageHeld /\ Row(t).code =>
          Row(t).owner \notin usage'
    BY <1>5, <1>6, <1>7 DEF IInv, Exclusive, UseIsNew
  <2>2. QED
    BY <1>1, <1>9, <1>10, <2>1 DEF UseIsNew, Row, Others, UsageHeld
<1>18. UseIsKept'
  BY <1>2, <1>3, <1>4, <1>7 DEF IInv, UseIsKept
<1>19. OneCreditPerCode'
  <2>1. Row(s).code =>
          \A q \in Ids : pay[q].code /\ pay[q].owner = o => credits[q] = 0
    BY <1>4, <1>6 DEF IInv, UseIsNew, UseIsKept
  <2>2. QED
    BY <1>2, <1>3, <1>4, <2>1 DEF IInv, OneCreditPerCode
<1>20. ReferralIsPending'
  <2>1. \A t \in Others(s) : sess[t].pc = "reward" \/ sess[t].reward =>
          sess[t].pc \in OwnerHeld /\ sess[t].pc # "idle"
    BY <1>5 DEF IInv, Working, OwnerHeld
  <2>2. \A t \in Others(s) : sess[t].pc = "reward" \/ sess[t].reward =>
          Row(t).owner \in pending'
    BY <1>5, <1>6, <1>7, <2>1 DEF IInv, Exclusive, ReferralIsPending
  <2>3. QED
    BY <1>1, <1>9, <1>10, <2>1, <2>2 DEF ReferralIsPending, Row, Others
<1>21. RewardedOnce'
  <2>1. sess[s].reward => o \in pending
    BY DEF IInv, ReferralIsPending
  <2>2. rewards \in [DOMAIN Referrer -> Nat] /\ pending \subseteq DOMAIN Referrer
    BY DEF IInv, Types, TypeOK
  <2>3. QED
    BY <1>7, <2>1, <2>2 DEF IInv, RewardedOnce
<1>22. ToldUnlessUndone'
  <2>1. credits'[p] > 0 /\ \A q \in Ids : credits[q] > 0 => credits'[q] > 0
    BY <1>2, <1>4
  <2>2. told \subseteq Ids
    BY DEF IInv, Types, TypeOK
  <2>3. ASSUME NEW q \in told'
        PROVE  \/ credits'[q] > 0
               \/ \E t \in Sessions : sess'[t].pc = "told" /\ sess'[t].p = q
               \/ /\ pay'[q].method = "card"
                  /\ q \in undone \/ pay'[q].owner \in DOMAIN Referrer
    <3>1. CASE q = p
      BY <2>1, <3>1
    <3>2. CASE q # p
      <4>1. q \in told /\ q \in Ids
        BY <2>2, <3>2
      <4>2. \/ credits[q] > 0
            \/ \E t \in Sessions : sess[t].pc = "told" /\ sess[t].p = q
            \/ /\ pay[q].method = "card"
               /\ q \in undone \/ pay[q].owner \in DOMAIN Referrer
        BY <4>1 DEF IInv, ToldUnlessUndone, At
      <4>3. CASE \E t \in Sessions : sess[t].pc = "told" /\ sess[t].p = q
        BY <1>1, <3>2, <4>3 DEF Others
      <4>4. QED
        BY <1>3, <2>1, <4>1, <4>2, <4>3
    <3>3. QED
      BY <3>1, <3>2
  <2>4. QED
    BY <2>3 DEF ToldUnlessUndone, At
<1>23. CountIsRead'
  <2>1. \A t \in Others(s) : sess[t].pc \in UsageHeld /\ Row(t).code =>
          /\ sess[t].count <= Cardinality(usage')
          /\ sess[t].pc \in CodeHeld /\ ~lost => sess[t].count = used_count'
    <3> SUFFICES ASSUME NEW t \in Others(s), sess[t].pc \in UsageHeld, Row(t).code
                 PROVE  /\ sess[t].count <= Cardinality(usage')
                        /\ sess[t].pc \in CodeHeld /\ ~lost => sess[t].count = used_count'
      OBVIOUS
    <3>1. sess[t].count <= Cardinality(usage) /\ sess[t].count \in Nat
      BY <1>1, <1>5 DEF IInv, CountIsRead, SessRow
    <3>2. sess[t].pc \in CodeHeld => ~Row(s).code
      BY <1>5, <1>6 DEF IInv, Exclusive
    <3>3. sess[t].pc \in CodeHeld /\ ~lost => sess[t].count = used_count
      BY <1>5 DEF IInv, CountIsRead
    <3>4. QED
      BY <1>7, <1>8, <3>1, <3>2, <3>3
  <2>2. QED
    BY <1>1, <1>9, <1>10, <2>1 DEF CountIsRead, Row, Others, UsageHeld
<1>24. UsedCountUnlessLost'
  <2>1. Row(s).code => /\ sess[s].count <= Cardinality(usage)
                       /\ ~lost => sess[s].count = used_count
    BY <1>6 DEF IInv, CountIsRead
  <2>2. QED
    BY <1>2, <1>7, <1>8, <2>1 DEF IInv, UsedCountUnlessLost
<1>25. QED
  BY <1>8, <1>11, <1>12, <1>13, <1>14, <1>15, <1>16, <1>17, <1>18, <1>19, <1>20,
     <1>21, <1>22, <1>23, <1>24 DEF IInv

\* The rejection of a payment that no session holds preserves the invariant.
LEMMA RejectIInv ==
  ASSUME IInv, NEW s \in Sessions, Reject(s)
  PROVE  IInv'
<1> DEFINE p == sess[s].p
<1>1. /\ sess \in [Sessions -> SessRow]
      /\ sess'[s] = Idle /\ \A t \in Others(s) : sess'[t] = sess[t]
  BY DEF Reject, IInv, Types, Others
<1>2. /\ p \in Ids /\ pay \in [Ids -> PayRow] /\ pay[p].status # "absent"
      /\ sess[s].seen = "pending" /\ Row(s) = pay[p]
  BY <1>1 DEF Reject, At, IInv, Types, TypeOK, Working, Row, PayRow
<1>3. /\ pay'[p].status = "rejected"
      /\ \A q \in Ids : /\ pay'[q].owner = pay[q].owner /\ pay'[q].code = pay[q].code
                        /\ pay'[q].method = pay[q].method
                        /\ q # p => pay'[q] = pay[q]
  BY <1>2 DEF Reject, PayRow
<1>4. /\ stale \subseteq stale' /\ stale' \subseteq Ids
      /\ p \notin stale' => pay[p].status = "pending"
  BY <1>2 DEF Reject, IInv, Types, TypeOK
<1>5. /\ \A t \in Others(s) : t \in Sessions /\ t # s
      /\ \A t \in Others(s) : sess[t].pc \in PaymentHeld => sess[t].p # p
  BY DEF Others, Reject, HoldsPayment, At, PaymentHeld
<1>6. Idle.pc = "idle" /\ Idle.reward = FALSE
      /\ Idle.pc \notin PaymentHeld \cup UsageHeld \cup CodeHeld \cup OwnerHeld
  BY DEF Idle, PaymentHeld, UsageHeld, CodeHeld, OwnerHeld
<1>7. \A t \in Others(s) : sess[t].pc # "idle" =>
        /\ sess[t].p \in Ids
        /\ pay'[sess[t].p].status # "absent"
        /\ pay'[sess[t].p].owner = Row(t).owner
        /\ pay'[sess[t].p].code = Row(t).code
        /\ pay'[sess[t].p].method = Row(t).method
  BY <1>3, <1>5 DEF IInv, Working, Row
<1>8. Types'
  <2>1. sess' \in [Sessions -> SessRow]
    BY <1>1, IdleType DEF Reject
  <2>2. \A t \in Sessions : sess'[t].p \in 0..MaxPayments
    BY <2>1 DEF SessRow
  <2>3. pay' \in [Ids -> PayRow]
    BY <1>2 DEF Reject, PayRow, Status
  <2>4. QED
    BY <1>4, <2>1, <2>2, <2>3 DEF Reject, IInv, Types, TypeOK, PayRow
<1>9. Working' /\ TellingIsCard'
  BY <1>1, <1>5, <1>6, <1>7 DEF IInv, Working, TellingIsCard, Row, Others
<1>10. Exclusive'
  BY <1>1, <1>5, <1>6, <1>7
     DEF IInv, Exclusive, Row, Others, PaymentHeld, UsageHeld, CodeHeld, OwnerHeld
<1>11. NoneBefore'
  BY <1>2, <1>3 DEF Reject, IInv, NoneBefore
<1>12. HeldIsPending'
  <2>1. \A t \in Others(s) : sess[t].pc \in PaymentHeld =>
          pay'[sess[t].p].status = "pending" \/ sess[t].p \in stale'
    BY <1>3, <1>4, <1>5 DEF IInv, HeldIsPending, Working, Row, PaymentHeld
  <2>2. QED
    BY <1>1, <1>6, <2>1 DEF HeldIsPending, Row, Others
<1>13. CreditedUnlessStale'
  BY <1>2, <1>3, <1>4 DEF Reject, IInv, CreditedUnlessStale
<1>14. UseIsNew'
  BY <1>1, <1>5, <1>6, <1>7 DEF Reject, IInv, UseIsNew, Row, Others, UsageHeld
<1>15. UseIsKept' /\ OneCreditPerCode'
  BY <1>3 DEF Reject, IInv, UseIsKept, OneCreditPerCode
<1>16. ReferralIsPending'
  <2>1. \A t \in Others(s) : sess[t].pc = "reward" \/ sess[t].reward => sess[t].pc # "idle"
    BY <1>5 DEF IInv, Working
  <2>2. QED
    BY <1>1, <1>5, <1>6, <1>7, <2>1 DEF Reject, IInv, ReferralIsPending, Row, Others
<1>17. IsFiniteSet(usage)' /\ RewardedOnce' /\ UsedCountUnlessLost'
  BY DEF Reject, IInv, RewardedOnce, UsedCountUnlessLost
<1>18. ToldUnlessUndone'
  <2>1. \A t \in Sessions : sess[t].pc = "told" => sess'[t] = sess[t]
    BY <1>1 DEF Reject, At, Others
  <2>2. UNCHANGED <<told, undone, credits>> /\ told \subseteq Ids
    BY DEF Reject, IInv, Types, TypeOK
  <2>3. QED
    BY <1>3, <2>1, <2>2 DEF IInv, ToldUnlessUndone, At
<1>19. CountIsRead'
  BY <1>1, <1>5, <1>6, <1>7 DEF Reject, IInv, CountIsRead, Row, Others, UsageHeld
<1>20. QED
  BY <1>8, <1>9, <1>10, <1>11, <1>12, <1>13, <1>14, <1>15, <1>16, <1>17, <1>18, <1>19
     DEF IInv

\* The owner's conversation and the provider preserve the invariant.
LEMMA OwnerIInv ==
  ASSUME IInv, (\E o \in Owners : OwnerStep(o)) \/ (\E p \in Ids : PayOnline(p))
  PROVE  IInv'
<1> DEFINE FsmRow == [step : {"none", "topup", "receipt"}, code : BOOLEAN,
                      card : 0..MaxPayments]
<1>1. /\ pay \in [Ids -> PayRow] /\ fsm \in [Owners -> FsmRow]
      /\ \A o \in Owners : fsm[o].step = "receipt" <=> fsm[o].card \in Ids
  BY DEF IInv, Types, TypeOK, PayRow
<1>2. NoTopup \in FsmRow /\ NoTopup.step = "none" /\ NoTopup.card \notin Ids
  BY MaxPaymentsIsNat DEF NoTopup, Ids
<1>3. ASSUME UNCHANGED OwnerOnly, pay' \in [Ids -> PayRow], fsm' \in [Owners -> FsmRow],
             \A o \in Owners : fsm'[o].step = "receipt" <=> fsm'[o].card \in Ids
      PROVE  TypeOK'
  BY <1>3 DEF IInv, Types, TypeOK, OwnerOnly, PayRow
<1>4. ASSUME NEW o \in Owners, ChooseAmount(o) \/ EnterCode(o) \/ Abandon(o)
      PROVE  IInv'
  <2>1. UNCHANGED OwnerOnly /\ UNCHANGED pay
    BY <1>4 DEF ChooseAmount, EnterCode, Abandon
  <2>2. /\ fsm' \in [Owners -> FsmRow]
        /\ \A x \in Owners : fsm'[x].step = "receipt" <=> fsm'[x].card \in Ids
    <3>1. CASE ChooseAmount(o)
      <4>1. fsm' = [fsm EXCEPT ![o] = [NoTopup EXCEPT !.step = "topup"]]
        BY <3>1 DEF ChooseAmount
      <4>2. QED
        BY <1>1, <1>2, <4>1 DEF NoTopup
    <3>2. CASE EnterCode(o)
      <4>1. fsm' = [fsm EXCEPT ![o].code = TRUE]
        BY <3>2 DEF EnterCode
      <4>2. QED
        BY <1>1, <4>1
    <3>3. CASE Abandon(o)
      <4>1. fsm' = [fsm EXCEPT ![o] = NoTopup]
        BY <3>3 DEF Abandon
      <4>2. QED
        BY <1>1, <1>2, <4>1
    <3>4. QED
      BY <1>4, <3>1, <3>2, <3>3
  <2>3. QED
    BY <1>1, <1>3, <2>1, <2>2, OwnerFrame
<1>5. ASSUME NEW o \in Owners, NEW p \in Ids, CreateCard(o, p) \/ CreateOnline(o, p)
      PROVE  IInv'
  <2>1. UNCHANGED OwnerOnly
    BY <1>5 DEF CreateCard, CreateOnline
  <2>2. PICK m \in Methods : NewPayment(o, p, m)
    BY <1>5 DEF CreateCard, CreateOnline, Methods
  <2>3. /\ fsm' \in [Owners -> FsmRow]
        /\ \A x \in Owners : fsm'[x].step = "receipt" <=> fsm'[x].card \in Ids
    <3>1. \/ fsm' = [fsm EXCEPT ![o].step = "receipt", ![o].card = p]
          \/ fsm' = [fsm EXCEPT ![o] = NoTopup]
      BY <1>5 DEF CreateCard, CreateOnline
    <3>2. p \in 0..MaxPayments
      BY MaxPaymentsIsNat DEF Ids
    <3>3. QED
      BY <1>1, <1>2, <3>1, <3>2
  <2>4. /\ pay' \in [Ids -> PayRow] /\ pay'[p].status = "pending"
        /\ pay[p].status = "absent"
        /\ \A q \in Ids : q # p => pay'[q] = pay[q]
    BY <1>1, <2>2, NoPaymentType DEF NewPayment, PayRow, Status
  <2>5. QED
    BY <1>3, <2>1, <2>3, <2>4, OwnerFrame
<1>6. ASSUME NEW o \in Owners, SendReceipt(o)
      PROVE  IInv'
  <2>1. UNCHANGED OwnerOnly
    BY <1>6 DEF SendReceipt
  <2>2. /\ fsm' \in [Owners -> FsmRow]
        /\ \A x \in Owners : fsm'[x].step = "receipt" <=> fsm'[x].card \in Ids
    BY <1>1, <1>2, <1>6 DEF SendReceipt
  <2>3. /\ pay' \in [Ids -> PayRow]
        /\ \A q \in Ids : /\ pay'[q].status = pay[q].status /\ pay'[q].owner = pay[q].owner
                          /\ pay'[q].code = pay[q].code /\ pay'[q].method = pay[q].method
    BY <1>1, <1>6, ZenonT(40) DEF SendReceipt, PayRow
  <2>4. QED
    BY <1>3, <2>1, <2>2, <2>3, OwnerFrame
<1>7. ASSUME NEW p \in Ids, PayOnline(p)
      PROVE  IInv'
  <2>1. UNCHANGED OwnerOnly /\ UNCHANGED fsm
    BY <1>7 DEF PayOnline
  <2>2. /\ pay' \in [Ids -> PayRow]
        /\ \A q \in Ids : /\ pay'[q].status = pay[q].status /\ pay'[q].owner = pay[q].owner
                          /\ pay'[q].code = pay[q].code /\ pay'[q].method = pay[q].method
    <3>1. pay' = [pay EXCEPT ![p].paid = TRUE]
      BY <1>7 DEF PayOnline
    <3>2. QED
      BY <1>1, <3>1, ZenonT(40) DEF PayRow
  <2>3. QED
    BY <1>1, <1>3, <2>1, <2>2, OwnerFrame
<1>8. QED
  BY <1>4, <1>5, <1>6, <1>7 DEF OwnerStep

\* A session that has opened a payment has the types of its row and of itself.
LEMMA SessionFacts ==
  ASSUME IInv, NEW s \in Sessions, sess[s].pc # "idle"
  PROVE  /\ sess \in [Sessions -> SessRow] /\ sess[s] \in SessRow
         /\ sess[s].p \in Ids /\ Row(s) = pay[sess[s].p]
         /\ Row(s) \in PayRow /\ Row(s).status # "absent"
         /\ sess[s].seen = "pending"
         /\ sess[s].reward => sess[s].pc \in {"finish", "told"}
         /\ stale \subseteq Ids /\ undone \subseteq Ids /\ lost \in BOOLEAN
         /\ used_count \in Nat /\ Cardinality(usage) \in Nat
<1>1. Cardinality(usage) \in Nat
  BY FS_CardinalityType DEF IInv
<1>2. QED
  BY <1>1 DEF IInv, Types, TypeOK, Working, Row, PayRow

\* Opening a payment that is PENDING preserves the invariant.
LEMMA OpenIInv ==
  ASSUME IInv, NEW s \in Sessions, NEW p \in Ids, Open(s, p) \/ RejectOpen(s, p)
  PROVE  IInv'
<1>1. PICK x \in {"first", "inquire", "reject"} :
        sess' = [sess EXCEPT ![s] = [Idle EXCEPT !.p = p, !.seen = pay[p].status,
                                                 !.pc = x]]
  BY DEF Open, RejectOpen
<1> DEFINE r == [Idle EXCEPT !.p = p, !.seen = pay[p].status, !.pc = x]
<1>2. pay[p].status = "pending"
  BY DEF Open, RejectOpen
<1>3. UNCHANGED <<Committed, fsm, told, undone, stale, lost>>
  BY DEF Open, RejectOpen
<1>4. sess' = [sess EXCEPT ![s] = r]
  BY <1>1
<1>5. r \in SessRow
  <2>1. p \in 0..MaxPayments /\ x \in Pcs /\ pay[p].status \in Status
    BY <1>2, MaxPaymentsIsNat DEF Ids, Pcs, Status
  <2>2. QED
    BY <2>1, IdleType DEF SessRow
<1>6. r.pc = x /\ r.p = p /\ r.seen = "pending" /\ r.reward = FALSE
  BY <1>2 DEF Idle
<1>7. x \notin PaymentHeld \cup UsageHeld \cup CodeHeld \cup OwnerHeld \cup {"reward"}
  BY DEF PaymentHeld, UsageHeld, CodeHeld, OwnerHeld
<1> HIDE DEF r
<1>8. MayEnter(s, r)
  BY <1>2, <1>5, <1>6, <1>7 DEF MayEnter
<1>9. stale' \subseteq Ids /\ undone' \subseteq Ids /\ lost' \in BOOLEAN
  BY <1>3 DEF IInv, Types, TypeOK
<1>10. MayLeave(s, r)
  BY DEF Open, RejectOpen, At, MayLeave
<1>11. QED
  BY <1>3, <1>4, <1>8, <1>9, <1>10, SessionFrame

\* The steps of an approval up to its commit preserve the invariant.
LEMMA ApprovalIInv ==
  ASSUME IInv, NEW s \in Sessions,
         \/ InquirePaid(s) \/ ReadFirst(s) \/ FlushApproved(s) \/ RecordUsage(s)
         \/ CountUsage(s) \/ Credit(s) \/ Reward(s)
         \/ \E positive \in BOOLEAN : ReadReferral(s, positive)
  PROVE  IInv'
<1> DEFINE To(pc) == [sess[s] EXCEPT !.pc = pc]
<1>1. UNCHANGED <<Committed, fsm, told, undone>>
  BY DEF InquirePaid, ReadFirst, FlushApproved, RecordUsage, CountUsage, Credit,
         Reward, ReadReferral
<1>2. sess[s].pc # "idle" /\ \A r : MayLeave(s, r)
  BY DEF InquirePaid, ReadFirst, FlushApproved, RecordUsage, CountUsage, Credit,
         Reward, ReadReferral, At, MayLeave
<1>3. /\ sess \in [Sessions -> SessRow] /\ sess[s] \in SessRow
      /\ sess[s].p \in Ids /\ Row(s) = pay[sess[s].p]
      /\ Row(s) \in PayRow /\ Row(s).status # "absent"
      /\ sess[s].seen = "pending"
      /\ sess[s].reward => sess[s].pc \in {"finish", "told"}
      /\ stale \subseteq Ids /\ undone \subseteq Ids /\ lost \in BOOLEAN
      /\ used_count \in Nat /\ Cardinality(usage) \in Nat
  BY <1>2, SessionFacts
<1>4. ASSUME NEW pc \in Pcs
      PROVE  /\ To(pc) \in SessRow /\ To(pc).pc = pc
             /\ To(pc).p = sess[s].p /\ To(pc).seen = sess[s].seen
             /\ To(pc).reward = sess[s].reward /\ To(pc).count = sess[s].count
  BY <1>3 DEF SessRow
<1>5. ASSUME NEW pc \in Pcs, Goto(s, pc)
      PROVE  sess' = [sess EXCEPT ![s] = To(pc)]
  BY <1>3, <1>5 DEF Goto, SessRow
<1>6. CASE InquirePaid(s)
  <2>1. sess[s].pc = "inquire" /\ Goto(s, "first") /\ UNCHANGED <<stale, lost>>
    BY <1>6 DEF InquirePaid, At
  <2>2. MayEnter(s, To("first"))
    BY <1>3, <1>4, <2>1 DEF MayEnter, Pcs, PaymentHeld, UsageHeld, CodeHeld, OwnerHeld
  <2>3. QED
    BY <1>1, <1>2, <1>3, <1>5, <2>1, <2>2, SessionFrame DEF Pcs
<1>7. CASE ReadFirst(s)
  <2> DEFINE first == \A q \in Ids \ {sess[s].p} :
                        pay[q].owner = Row(s).owner => pay[q].status # "approved"
             r == [sess[s] EXCEPT !.pc = "flush", !.first = first]
  <2>1. sess[s].pc = "first" /\ UNCHANGED <<stale, lost>>
    BY <1>7 DEF ReadFirst, At
  <2>2. sess' = [sess EXCEPT ![s].pc = "flush", ![s].first = first]
    BY <1>7, Zenon DEF ReadFirst
  <2>3. first \in BOOLEAN
    OBVIOUS
  <2> HIDE DEF first
  <2>4. sess' = [sess EXCEPT ![s] = r]
    BY <1>3, <2>2 DEF SessRow
  <2>5. /\ r \in SessRow /\ r.pc = "flush" /\ r.p = sess[s].p /\ r.seen = sess[s].seen
        /\ r.reward = sess[s].reward
    BY <1>3, <2>3 DEF SessRow, Pcs
  <2> HIDE DEF r
  <2>6. MayEnter(s, r)
    BY <1>3, <2>1, <2>5 DEF MayEnter, PaymentHeld, UsageHeld, CodeHeld, OwnerHeld
  <2>7. QED
    BY <1>1, <1>2, <1>3, <2>1, <2>4, <2>6, SessionFrame
<1>8. CASE FlushApproved(s)
  <2> DEFINE pc == IF Row(s).code THEN "usage" ELSE "credit"
  <2>1. /\ sess[s].pc = "flush" /\ Goto(s, pc) /\ UNCHANGED lost
        /\ \A t \in Others(s) : ~(sess[t].pc \in PaymentHeld /\ sess[t].p = sess[s].p)
    BY <1>8 DEF FlushApproved, At, HoldsPayment, PaymentHeld
  <2>2. /\ stale \subseteq stale' /\ stale' \subseteq Ids
        /\ Row(s).status = "pending" \/ sess[s].p \in stale'
    BY <1>3, <1>8 DEF FlushApproved
  <2>3. /\ pc \in Pcs /\ pc \notin OwnerHeld \cup {"idle", "reward", "told"}
        /\ pc \in UsageHeld \cup CodeHeld => ~Row(s).code
    BY DEF Pcs, UsageHeld, CodeHeld, OwnerHeld
  <2> HIDE DEF pc
  <2>4. MayEnter(s, To(pc))
    <3>1. /\ To(pc) \in SessRow /\ To(pc).pc = pc
          /\ To(pc).p = sess[s].p /\ To(pc).seen = sess[s].seen
          /\ To(pc).reward = sess[s].reward
      BY <1>4, <2>3
    <3> HIDE DEF To
    <3>2. QED
      BY <1>3, <2>1, <2>2, <2>3, <3>1 DEF MayEnter
  <2>5. QED
    BY <1>1, <1>2, <1>3, <1>5, <2>1, <2>2, <2>3, <2>4, SessionFrame
<1>9. CASE RecordUsage(s)
  <2> DEFINE r == [sess[s] EXCEPT !.pc = "count", !.count = used_count]
  <2>1. /\ sess[s].pc = "usage" /\ UNCHANGED <<stale, lost>>
        /\ sess' = [sess EXCEPT ![s] = IF Row(s).owner \in usage THEN Idle ELSE r]
        /\ \A t \in Others(s) : ~(/\ sess[t].pc \in UsageHeld
                                  /\ Row(t).code /\ Row(t).owner = Row(s).owner)
    BY <1>9 DEF RecordUsage, At, HoldsUsage, UsageHeld
  <2>2. CASE Row(s).owner \in usage
    BY <1>1, <1>2, <1>3, <2>1, <2>2, RollBack
  <2>3. CASE Row(s).owner \notin usage
    <3>1. /\ r \in SessRow /\ r.pc = "count" /\ r.p = sess[s].p /\ r.seen = sess[s].seen
          /\ r.reward = sess[s].reward /\ r.count = used_count
      BY <1>3 DEF SessRow, Pcs
    <3> HIDE DEF r
    <3>2. /\ "count" \in PaymentHeld /\ "count" \in UsageHeld
          /\ "count" \notin CodeHeld \cup OwnerHeld
          /\ sess[s].pc \in PaymentHeld
      BY <2>1 DEF PaymentHeld, UsageHeld, CodeHeld, OwnerHeld
    <3>3. Row(s).status = "pending" \/ sess[s].p \in stale
      BY <3>2 DEF IInv, HeldIsPending
    <3>4. \A t \in Others(s) : ~(sess[t].pc \in PaymentHeld /\ sess[s].p = sess[t].p)
      BY <3>2 DEF IInv, Exclusive, Others
    <3>5. used_count <= Cardinality(usage)
      BY DEF IInv, UsedCountUnlessLost
    <3>6. MayEnter(s, r)
      BY <1>3, <2>1, <2>3, <3>1, <3>2, <3>3, <3>4, <3>5 DEF MayEnter
    <3>7. QED
      BY <1>1, <1>2, <1>3, <2>1, <2>3, <3>6, SessionFrame
  <2>4. QED
    BY <2>2, <2>3
<1>10. ASSUME sess[s].pc \in PaymentHeld
       PROVE  /\ Row(s).status = "pending" \/ sess[s].p \in stale
              /\ \A t \in Others(s) :
                   /\ ~(sess[t].pc \in PaymentHeld /\ sess[s].p = sess[t].p)
                   /\ sess[s].pc \in UsageHeld =>
                        ~(/\ sess[t].pc \in UsageHeld /\ Row(s).code
                          /\ Row(t).code /\ Row(s).owner = Row(t).owner)
                   /\ sess[s].pc \in CodeHeld =>
                        ~(sess[t].pc \in CodeHeld /\ Row(s).code /\ Row(t).code)
                   /\ sess[s].pc \in OwnerHeld =>
                        ~(sess[t].pc \in OwnerHeld /\ Row(s).owner = Row(t).owner)
              /\ sess[s].pc \in UsageHeld /\ Row(s).code =>
                   /\ Row(s).owner \notin usage
                   /\ sess[s].count <= Cardinality(usage)
                   /\ sess[s].pc \in CodeHeld /\ ~lost => sess[s].count = used_count
  BY <1>10 DEF IInv, HeldIsPending, Exclusive, Others, UseIsNew, CountIsRead
<1>11. CASE CountUsage(s)
  <2>1. /\ sess[s].pc = "count" /\ Goto(s, "credit") /\ UNCHANGED stale
        /\ lost' = (lost \/ sess[s].count # used_count)
        /\ \A t \in Others(s) : ~(sess[t].pc \in CodeHeld /\ Row(t).code)
    BY <1>11 DEF CountUsage, At, HoldsCode, CodeHeld
  <2>2. /\ "credit" \in Pcs /\ "credit" \in PaymentHeld /\ "credit" \in UsageHeld
        /\ "credit" \in CodeHeld /\ "credit" \notin OwnerHeld
        /\ sess[s].pc \in PaymentHeld /\ sess[s].pc \in UsageHeld
    BY <2>1 DEF Pcs, PaymentHeld, UsageHeld, CodeHeld, OwnerHeld
  <2>3. MayEnter(s, To("credit"))
    <3>1. /\ To("credit") \in SessRow /\ To("credit").pc = "credit"
          /\ To("credit").p = sess[s].p /\ To("credit").seen = sess[s].seen
          /\ To("credit").reward = sess[s].reward /\ To("credit").count = sess[s].count
      BY <1>4, <2>2
    <3> HIDE DEF To
    <3>2. QED
      BY <1>3, <1>10, <2>1, <2>2, <3>1 DEF MayEnter
  <2>4. QED
    BY <1>1, <1>2, <1>3, <1>5, <2>1, <2>2, <2>3, SessionFrame
<1>12. CASE Credit(s)
  <2> DEFINE pc == IF sess[s].first THEN "referral" ELSE "finish"
  <2>1. /\ sess[s].pc = "credit" /\ Goto(s, pc) /\ UNCHANGED <<stale, lost>>
        /\ \A t \in Others(s) : ~(sess[t].pc \in OwnerHeld /\ Row(t).owner = Row(s).owner)
    BY <1>12 DEF Credit, At, HoldsOwner, OwnerHeld
  <2>2. /\ pc \in Pcs /\ pc \in PaymentHeld /\ pc \in UsageHeld
        /\ pc \in CodeHeld /\ pc \in OwnerHeld /\ pc \notin {"reward", "told"}
        /\ sess[s].pc \in PaymentHeld /\ sess[s].pc \in UsageHeld /\ sess[s].pc \in CodeHeld
    BY <2>1 DEF Pcs, PaymentHeld, UsageHeld, CodeHeld, OwnerHeld
  <2> HIDE DEF pc
  <2>3. MayEnter(s, To(pc))
    <3>1. /\ To(pc) \in SessRow /\ To(pc).pc = pc
          /\ To(pc).p = sess[s].p /\ To(pc).seen = sess[s].seen
          /\ To(pc).reward = sess[s].reward /\ To(pc).count = sess[s].count
      BY <1>4, <2>2
    <3> HIDE DEF To
    <3>2. QED
      BY <1>3, <1>10, <2>1, <2>2, <3>1 DEF MayEnter
  <2>4. QED
    BY <1>1, <1>2, <1>3, <1>5, <2>1, <2>2, <2>3, SessionFrame
<1>13. CASE \E positive \in BOOLEAN : ReadReferral(s, positive)
  <2>1. PICK pc \in {"reward", "finish"} :
          /\ sess[s].pc = "referral" /\ Goto(s, pc) /\ UNCHANGED <<stale, lost>>
          /\ pc = "reward" => Row(s).owner \in pending
    BY <1>13 DEF ReadReferral, At
  <2>2. /\ pc \in Pcs /\ pc \in PaymentHeld /\ pc \in UsageHeld
        /\ pc \in CodeHeld /\ pc \in OwnerHeld
        /\ sess[s].pc \in PaymentHeld /\ sess[s].pc \in UsageHeld /\ sess[s].pc \in CodeHeld
        /\ sess[s].pc \in OwnerHeld
    BY <2>1 DEF Pcs, PaymentHeld, UsageHeld, CodeHeld, OwnerHeld
  <2>3. MayEnter(s, To(pc))
    <3>1. /\ To(pc) \in SessRow /\ To(pc).pc = pc
          /\ To(pc).p = sess[s].p /\ To(pc).seen = sess[s].seen
          /\ To(pc).reward = sess[s].reward /\ To(pc).count = sess[s].count
      BY <1>4, <2>2
    <3> HIDE DEF To
    <3>2. QED
      BY <1>3, <1>10, <2>1, <2>2, <3>1 DEF MayEnter
  <2>4. QED
    BY <1>1, <1>2, <1>3, <1>5, <2>1, <2>2, <2>3, SessionFrame
<1>14. CASE Reward(s)
  <2> DEFINE r == [sess[s] EXCEPT !.pc = "finish", !.reward = TRUE]
  <2>1. sess[s].pc = "reward" /\ UNCHANGED <<stale, lost>>
    BY <1>14 DEF Reward, At
  <2>2. Row(s).owner \in pending
    BY <2>1 DEF IInv, ReferralIsPending
  <2>3. sess' = [sess EXCEPT ![s] = r]
    BY <1>3, <1>14 DEF Reward, SessRow
  <2>4. /\ r \in SessRow /\ r.pc = "finish" /\ r.p = sess[s].p /\ r.seen = sess[s].seen
        /\ r.count = sess[s].count
    BY <1>3 DEF SessRow, Pcs
  <2> HIDE DEF r
  <2>5. /\ sess[s].pc \in PaymentHeld /\ sess[s].pc \in UsageHeld
        /\ sess[s].pc \in CodeHeld /\ sess[s].pc \in OwnerHeld
        /\ "finish" \in PaymentHeld /\ "finish" \in UsageHeld
        /\ "finish" \in CodeHeld /\ "finish" \in OwnerHeld
    BY <2>1 DEF PaymentHeld, UsageHeld, CodeHeld, OwnerHeld
  <2>6. MayEnter(s, r)
    BY <1>3, <1>10, <2>1, <2>2, <2>4, <2>5 DEF MayEnter
  <2>7. QED
    BY <1>1, <1>2, <1>3, <2>1, <2>3, <2>6, SessionFrame
<1>15. QED
  BY <1>6, <1>7, <1>8, <1>9, <1>11, <1>12, <1>13, <1>14

\* A callback's commit, the message before a button's commit, that commit, and
\* its rollback when a referrer was to be rewarded preserve the invariant.
LEMMA FinishIInv ==
  ASSUME IInv, NEW s \in Sessions, FinishOnline(s) \/ TellCard(s) \/ FinishCard(s)
  PROVE  IInv'
<1>1. CASE FinishOnline(s)
  <2>1. told' \subseteq told \cup {sess[s].p}
    BY <1>1 DEF FinishOnline
  <2>2. QED
    BY <1>1, <2>1, CommitFrame DEF FinishOnline, At
<1>2. CASE TellCard(s)
  <2> DEFINE r == [sess[s] EXCEPT !.pc = "told"]
  <2>1. /\ sess[s].pc = "finish" /\ Row(s).method = "card"
        /\ UNCHANGED <<Committed, fsm, undone, stale, lost>>
        /\ told' = told \cup {sess[s].p}
    BY <1>2 DEF TellCard, At
  <2>2. /\ sess \in [Sessions -> SessRow] /\ sess[s] \in SessRow
        /\ sess[s].p \in Ids /\ Row(s) = pay[sess[s].p]
        /\ Row(s).status # "absent" /\ sess[s].seen = "pending"
        /\ stale \subseteq Ids /\ undone \subseteq Ids /\ lost \in BOOLEAN
    BY <2>1, SessionFacts
  <2>3. sess' = [sess EXCEPT ![s] = r]
    BY <1>2, <2>2 DEF TellCard, Goto, SessRow
  <2>4. /\ r \in SessRow /\ r.pc = "told" /\ r.p = sess[s].p /\ r.seen = sess[s].seen
        /\ r.count = sess[s].count /\ r.reward = sess[s].reward
    BY <2>2 DEF SessRow, Pcs
  <2> HIDE DEF r
  <2>5. /\ sess[s].pc \in PaymentHeld /\ sess[s].pc \in UsageHeld
        /\ sess[s].pc \in CodeHeld /\ sess[s].pc \in OwnerHeld
        /\ "told" \in PaymentHeld /\ "told" \in UsageHeld
        /\ "told" \in CodeHeld /\ "told" \in OwnerHeld
    BY <2>1 DEF PaymentHeld, UsageHeld, CodeHeld, OwnerHeld
  <2>6. \A t \in Others(s) :
          /\ ~(sess[t].pc \in PaymentHeld /\ sess[s].p = sess[t].p)
          /\ ~(/\ sess[t].pc \in UsageHeld /\ Row(s).code /\ Row(t).code
               /\ Row(s).owner = Row(t).owner)
          /\ ~(sess[t].pc \in CodeHeld /\ Row(s).code /\ Row(t).code)
          /\ ~(sess[t].pc \in OwnerHeld /\ Row(s).owner = Row(t).owner)
    BY <2>5 DEF IInv, Exclusive, Others
  <2>7. /\ Row(s).status = "pending" \/ sess[s].p \in stale
        /\ Row(s).code => /\ Row(s).owner \notin usage
                          /\ sess[s].count <= Cardinality(usage)
                          /\ ~lost => sess[s].count = used_count
        /\ sess[s].reward => Row(s).owner \in pending
    BY <2>5 DEF IInv, HeldIsPending, UseIsNew, CountIsRead, ReferralIsPending
  <2>8. MayEnter(s, r)
    BY <2>1, <2>2, <2>4, <2>5, <2>6, <2>7 DEF MayEnter
  <2>9. MayLeave(s, r)
    BY <2>1 DEF MayLeave
  <2>10. QED
    <3>1. \A p \in told' : p \in told \/ (r.pc = "told" /\ p = r.p)
      BY <2>1, <2>4
    <3>2. /\ undone \subseteq undone' /\ undone' \subseteq Ids
          /\ stale \subseteq stale' /\ stale' \subseteq Ids
          /\ lost' \in BOOLEAN /\ (lost => lost')
          /\ UNCHANGED <<Committed, fsm>>
      BY <2>1, <2>2
    <3>3. QED
      BY <2>3, <2>8, <2>9, <3>1, <3>2, SessionFrame
<1>3. CASE FinishCard(s)
  <2>1. /\ sess[s].pc = "told" /\ sess' = [sess EXCEPT ![s] = Idle]
        /\ UNCHANGED <<fsm, told, undone, stale, lost>>
    BY <1>3 DEF FinishCard, At
  <2>2. CASE CommitApproval(s)
    BY <2>1, <2>2, CommitFrame
  <2>3. CASE sess[s].reward /\ UNCHANGED Committed
    <3>1. Row(s).owner \in DOMAIN Referrer
      BY <2>3 DEF IInv, ReferralIsPending, Types, TypeOK
    <3>2. MayLeave(s, Idle) /\ undone \subseteq Ids
      BY <3>1 DEF MayLeave, IInv, Types, TypeOK
    <3>3. QED
      BY <2>1, <2>3, <3>2, RollBack
  <2>4. QED
    BY <1>3, <2>2, <2>3 DEF FinishCard
<1>4. QED
  BY <1>1, <1>2, <1>3

\* A failure, before or after the message, preserves the invariant.
LEMMA FailIInv ==
  ASSUME IInv, NEW s \in Sessions, Fail(s)
  PROVE  IInv'
<1>1. sess[s].p \in Ids /\ undone \subseteq Ids
  BY SessionFacts DEF Fail, At
<1>2. /\ undone \subseteq undone' /\ undone' \subseteq Ids
      /\ sess[s].pc = "told" => sess[s].p \in undone'
  BY <1>1 DEF Fail, At
<1>3. QED
  BY <1>2, RollBack DEF Fail, MayLeave

\* Every step preserves the invariant.
LEMMA NextIInv == IInv /\ [Next]_vars => IInv'
<1> SUFFICES ASSUME IInv, [Next]_vars PROVE IInv'
  OBVIOUS
<1>1. CASE (\E o \in Owners : OwnerStep(o)) \/ (\E p \in Ids : PayOnline(p))
  BY <1>1, OwnerIInv
<1>2. CASE \E s \in Sessions, p \in Ids : Open(s, p) \/ RejectOpen(s, p)
  BY <1>2, OpenIInv
<1>3. ASSUME NEW s \in Sessions, SessionStep(s)
      PROVE  IInv'
  <2>1. CASE InquireFails(s)
    <3>1. MayLeave(s, Idle) /\ undone \subseteq Ids
      BY <2>1 DEF InquireFails, At, MayLeave, IInv, Types, TypeOK
    <3>2. QED
      BY <2>1, <3>1, RollBack DEF InquireFails
  <2>2. CASE FinishOnline(s) \/ TellCard(s) \/ FinishCard(s)
    BY <2>2, FinishIInv
  <2>3. CASE Reject(s)
    BY <2>3, RejectIInv
  <2>4. QED
    BY <1>3, <2>1, <2>2, <2>3, ApprovalIInv DEF SessionStep
<1>4. ASSUME NEW s \in Sessions, Fail(s)
      PROVE  IInv'
  BY <1>4, FailIInv
<1>5. CASE UNCHANGED vars
  <2>1. UNCHANGED OwnerOnly /\ UNCHANGED <<pay, fsm>>
    BY <1>5 DEF vars, OwnerOnly
  <2>2. TypeOK'
    BY <2>1 DEF IInv, Types, TypeOK, OwnerOnly
  <2>3. QED
    BY <2>1, <2>2, OwnerFrame
<1>6. QED
  BY <1>1, <1>2, <1>3, <1>4, <1>5 DEF Next

-----------------------------------------------------------------------------
\* Theorems.

\* The invariant holds in every reachable state.
THEOREM SpecIInv == Spec => []IInv
BY InitIInv, NextIInv, PTL DEF Spec

\* Rows, conversations and sessions keep their types.
THEOREM SpecTypeOK == Spec => []TypeOK
<1>1. IInv => TypeOK
  BY DEF IInv, Types
<1>2. QED
  BY <1>1, SpecIInv, PTL

\* A payment is credited exactly when it is approved, and once, unless a session
\* overwrote a status that it had read before it changed: mark_approved does not
\* look at the status again when it writes it.
THEOREM SpecCreditedUnlessStale == Spec => []CreditedUnlessStale
<1>1. IInv => CreditedUnlessStale
  BY DEF IInv
<1>2. QED
  BY <1>1, SpecIInv, PTL

\* The unique constraint on discount_code_usages lets one payment with the code
\* be credited to an owner, whatever the order of the approvals.
THEOREM SpecOneCreditPerCode == Spec => []OneCreditPerCode
<1>1. IInv => OneCreditPerCode
  BY DEF IInv
<1>2. QED
  BY <1>1, SpecIInv, PTL

\* A referrer is rewarded once for an owner: the owner's row, updated before the
\* referral is read, serialises the approvals.
THEOREM SpecRewardedOnce == Spec => []RewardedOnce
<1>1. IInv => RewardedOnce
  BY DEF IInv
<1>2. QED
  BY <1>1, SpecIInv, PTL

\* used_count never exceeds the number of uses, and is that number as long as no
\* increment was overwritten.
THEOREM SpecUsedCountUnlessLost == Spec => []UsedCountUnlessLost
<1>1. IInv => UsedCountUnlessLost
  BY DEF IInv
<1>2. QED
  BY <1>1, SpecIInv, PTL

\* An approval that is announced is made, or its session is about to commit, or it
\* is a card payment's whose session failed after the message or whose owner was
\* referred; what a callback announces is always made.
THEOREM SpecToldUnlessUndone == Spec => []ToldUnlessUndone
<1>1. IInv => ToldUnlessUndone
  BY DEF IInv
<1>2. QED
  BY <1>1, SpecIInv, PTL
=============================================================================
