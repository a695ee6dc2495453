------------------------------ MODULE Payments ------------------------------
(***************************************************************************)
(* Wallet top-ups: from the owner's conversation with the bot to the       *)
(* approval of the payment by an admin (card to card), by Zarinpal's       *)
(* redirect or by Bale's webhook, with everything the approval does in one *)
(* transaction: the payment's status, the use of the discount code, the    *)
(* charge of the wallet and the reward of the referrer.                    *)
(*                                                                         *)
(* Approvals and rejections run in sessions of their own, several at a     *)
(* time, READ COMMITTED. A session writes what it has prepared when it     *)
(* commits; from its first UPDATE of a row to its end it holds that row.   *)
(* What a session holds follows from how far it has come, see Holds*.      *)
(*                                                                         *)
(* Abstracted data: amounts are left out (every top-up is positive); there *)
(* is one discount code, whose is_active and expires_at can only refuse.   *)
(***************************************************************************)
EXTENDS Integers, FiniteSets

CONSTANTS
  MaxPayments,  \* payments have the ids 1..MaxPayments
  Owners,       \* shop owners
  Referrer,     \* referred owner -> the owner who referred it
  Sessions,     \* sessions that approve or reject
  MaxUses       \* max_uses of the discount code

ASSUME MaxPaymentsIsNat == MaxPayments \in Nat
ASSUME OwnersExist == Owners # {}
ASSUME ReferrersAreOwners ==
  /\ DOMAIN Referrer \subseteq Owners
  /\ \A o \in DOMAIN Referrer : Referrer[o] \in Owners \ {o}
ASSUME MaxUsesIsNat == MaxUses \in Nat

VARIABLES
  pay,        \* payments: id -> row
  fsm,        \* owner -> where its conversation about a top-up stands
  used_count, \* of the discount code
  usage,      \* discount_code_usages: the owners that have used the code
  pending,    \* referrals with reward_status "pending": the referred owners
  credits,    \* wallet_charges: payment id -> number of charges made for it
  rewards,    \* referred owner -> number of rewards its referrer was given
  sess,       \* session -> what it is doing
  told,       \* history: payments whose owner was told "approved"
  undone,     \* history: payments whose approval failed between the message
              \* to the owner and the commit
  stale,      \* history: payments written by a session that read them PENDING
              \* when they were not any more
  lost        \* history: an increment of used_count was overwritten

vars == <<pay, fsm, used_count, usage, pending, credits, rewards, sess, told,
          undone, stale, lost>>

-----------------------------------------------------------------------------
Ids == 1..MaxPayments
Methods == {"card", "online"}   \* online: Zarinpal or Bale
Status == {"absent", "pending", "approved", "rejected"}

NoPayment ==
  [status |-> "absent", owner |-> CHOOSE o \in Owners : TRUE,
   method |-> "card", code |-> FALSE, paid |-> FALSE, receipt |-> FALSE]

NoTopup == [step |-> "none", code |-> FALSE, card |-> 0]

Idle ==
  [pc |-> "idle", p |-> 0, seen |-> "absent", first |-> FALSE, count |-> 0,
   reward |-> FALSE]

Init ==
  /\ pay = [p \in Ids |-> NoPayment]
  /\ fsm = [o \in Owners |-> NoTopup]
  /\ used_count = 0 /\ usage = {}
  /\ pending = DOMAIN Referrer
  /\ credits = [p \in Ids |-> 0]
  /\ rewards = [o \in DOMAIN Referrer |-> 0]
  /\ sess = [s \in Sessions |-> Idle]
  /\ told = {} /\ undone = {} /\ stale = {} /\ lost = FALSE

-----------------------------------------------------------------------------
\* The owner's conversation with the main bot.

OwnerOnly ==
  <<used_count, usage, pending, credits, rewards, sess, told, undone, stale, lost>>

\* cb_topup_amount, topup_custom_amount_received: a new amount, no code. (The
\* bound MaxPayments: no more top-ups are begun than there are ids left.)
ChooseAmount(o) ==
  /\ Cardinality({x \in Owners \ {o} : fsm[x].step = "topup"}) <
       Cardinality({p \in Ids : pay[p].status = "absent"})
  /\ fsm[o] # [NoTopup EXCEPT !.step = "topup"]
  /\ fsm' = [fsm EXCEPT ![o] = [NoTopup EXCEPT !.step = "topup"]]
  /\ UNCHANGED <<pay, OwnerOnly>>

\* validate_code: the code has uses left, and the owner has not used it.
ValidCode(o) == used_count < MaxUses /\ o \notin usage

\* payment_discount_code.
EnterCode(o) ==
  /\ fsm[o].step = "topup" /\ ~fsm[o].code
  /\ ValidCode(o)
  /\ fsm' = [fsm EXCEPT ![o].code = TRUE]
  /\ UNCHANGED <<pay, OwnerOnly>>

\* The next id, and the row inserted under it. The code is not validated again.
NewPayment(o, p, m) ==
  /\ fsm[o].step # "none"
  /\ pay[p].status = "absent"
  /\ \A q \in Ids : q < p => pay[q].status # "absent"
  /\ pay' = [pay EXCEPT ![p] = [NoPayment EXCEPT !.status = "pending",
               !.owner = o, !.method = m, !.code = fsm[o].code]]

\* cb_payment_method_card: the conversation waits for the receipt; the button
\* may be pressed again.
CreateCard(o, p) ==
  /\ NewPayment(o, p, "card")
  /\ fsm' = [fsm EXCEPT ![o].step = "receipt", ![o].card = p]
  /\ UNCHANGED OwnerOnly

\* cb_payment_method_zarinpal, cb_payment_method_bale.
CreateOnline(o, p) ==
  /\ NewPayment(o, p, "online")
  /\ fsm' = [fsm EXCEPT ![o] = NoTopup]
  /\ UNCHANGED OwnerOnly

\* payment_receipt_received: every admin gets the receipt with two buttons.
SendReceipt(o) ==
  /\ fsm[o].step = "receipt"
  /\ pay' = [pay EXCEPT ![fsm[o].card].receipt = TRUE]
  /\ fsm' = [fsm EXCEPT ![o] = NoTopup]
  /\ UNCHANGED OwnerOnly

\* A menu button in the middle of it (MenuButtonEscapeMiddleware).
Abandon(o) ==
  /\ fsm[o].step # "none"
  /\ fsm' = [fsm EXCEPT ![o] = NoTopup]
  /\ UNCHANGED <<pay, OwnerOnly>>

\* The owner pays at Zarinpal, or at Bale, which asks before it takes the
\* money (_handle_bale_pre_checkout: only for a payment that is PENDING).
PayOnline(p) ==
  /\ pay[p].status = "pending" /\ pay[p].method = "online" /\ ~pay[p].paid
  /\ pay' = [pay EXCEPT ![p].paid = TRUE]
  /\ UNCHANGED <<fsm, OwnerOnly>>

-----------------------------------------------------------------------------
\* Sessions. Steps of an approval, in the order of its statements:
\*   inquire - first - flush - usage - count - credit - referral - reward - finish
\* and, for a card payment, whose owner is told before the commit, - told.

Row(s) == pay[sess[s].p]
At(s, pcs) == sess[s].pc \in pcs
Goto(s, pc) == sess' = [sess EXCEPT ![s].pc = pc]

\* Rows that session s has written and not committed.
HoldsPayment(s, p) ==
  /\ sess[s].p = p
  /\ At(s, {"usage", "count", "credit", "referral", "reward", "finish", "told"})

HoldsUsage(s, o) ==
  /\ At(s, {"count", "credit", "referral", "reward", "finish", "told"})
  /\ Row(s).code /\ Row(s).owner = o

HoldsCode(s) ==
  At(s, {"credit", "referral", "reward", "finish", "told"}) /\ Row(s).code

HoldsOwner(s, o) ==
  \/ At(s, {"referral", "reward", "finish", "told"}) /\ Row(s).owner = o
  \/ sess[s].reward /\ Referrer[Row(s).owner] = o

Others(s) == Sessions \ {s}

Committed == <<pay, used_count, usage, pending, credits, rewards>>

\* Mutant: the status is not looked at.
OpenAnyStatus(s, p) ==
  /\ At(s, {"idle"})
  /\ pay[p].status # "absent"
  /\ pay[p].method = "card" => pay[p].receipt
  /\ sess' = [sess EXCEPT ![s] = [Idle EXCEPT !.p = p, !.seen = pay[p].status,
                !.pc = IF pay[p].method = "card" THEN "first" ELSE "inquire"]]
  /\ UNCHANGED <<Committed, fsm, told, undone, stale, lost>>

\* An admin presses "approve", Zarinpal redirects the owner or Bale calls the
\* webhook, once or repeatedly. Anything but a PENDING payment is left alone.
Open(s, p) ==
  /\ At(s, {"idle"})
  /\ pay[p].status = "pending"
  /\ pay[p].method = "card" => pay[p].receipt
  /\ sess' = [sess EXCEPT ![s] = [Idle EXCEPT !.p = p, !.seen = pay[p].status,
                !.pc = IF pay[p].method = "card" THEN "first" ELSE "inquire"]]
  /\ UNCHANGED <<Committed, fsm, told, undone, stale, lost>>

\* verify_payment, inquire_transaction: the provider confirms as often as it
\* is asked, within the HTTP timeout ...
InquirePaid(s) ==
  /\ At(s, {"inquire"})
  /\ Row(s).paid
  /\ Goto(s, "first")
  /\ UNCHANGED <<Committed, fsm, told, undone, stale, lost>>

\* Mutant: the inquiry is repeated until the payment is there.
InquireAgain(s) ==
  /\ At(s, {"inquire"}) /\ Row(s).paid
  /\ sess' = [sess EXCEPT ![s] = Idle]
  /\ UNCHANGED <<Committed, fsm, told, undone, stale, lost>>

\* ... or denies or cannot be reached: nothing happens, to a paid payment too.
InquireFails(s) ==
  /\ At(s, {"inquire"})
  /\ sess' = [sess EXCEPT ![s] = Idle]
  /\ UNCHANGED <<Committed, fsm, told, undone, stale, lost>>

\* _is_first_approved_payment: committed approvals only.
ReadFirst(s) ==
  /\ At(s, {"first"})
  /\ sess' = [sess EXCEPT ![s].pc = "flush",
                ![s].first = \A q \in Ids \ {sess[s].p} :
                  pay[q].owner = Row(s).owner => pay[q].status # "approved"]
  /\ UNCHANGED <<Committed, fsm, told, undone, stale, lost>>

\* payment.status = APPROVED is flushed: the row is locked, its status not
\* looked at again.
FlushApproved(s) ==
  /\ At(s, {"flush"})
  /\ \A t \in Others(s) : ~HoldsPayment(t, sess[s].p)
  /\ stale' = IF Row(s).status = sess[s].seen THEN stale ELSE stale \cup {sess[s].p}
  /\ Goto(s, IF Row(s).code THEN "usage" ELSE "credit")
  /\ UNCHANGED <<Committed, fsm, told, undone, lost>>

\* Mutant: no unique constraint on (discount_code_id, shop_owner_id).
RecordUsageTwice(s) ==
  /\ At(s, {"usage"})
  /\ sess' = [sess EXCEPT ![s].pc = "count", ![s].count = used_count]
  /\ UNCHANGED <<Committed, fsm, told, undone, stale, lost>>

\* record_usage inserts (code, owner), which is unique: the insertion waits
\* for a session that has inserted it, and raises if it is there. Otherwise
\* the code's row is read.
RecordUsage(s) ==
  /\ At(s, {"usage"})
  /\ \A t \in Others(s) : ~HoldsUsage(t, Row(s).owner)
  /\ sess' = [sess EXCEPT ![s] = IF Row(s).owner \in usage THEN Idle
                ELSE [sess[s] EXCEPT !.pc = "count", !.count = used_count]]
  /\ UNCHANGED <<Committed, fsm, told, undone, stale, lost>>

\* discount.used_count += 1 is flushed.
CountUsage(s) ==
  /\ At(s, {"count"})
  /\ \A t \in Others(s) : ~HoldsCode(t)
  /\ lost' = (lost \/ sess[s].count # used_count)
  /\ Goto(s, "credit")
  /\ UNCHANGED <<Committed, fsm, told, undone, stale>>

\* Mutant: a use is counted whether or not the payment had a code.
CommitCountingAll(s) ==
  LET p == sess[s].p
      o == Row(s).owner
  IN
  /\ pay' = [pay EXCEPT ![p].status = "approved"]
  /\ credits' = [credits EXCEPT ![p] = @ + 1]
  /\ usage' = IF Row(s).code THEN usage \cup {o} ELSE usage
  /\ used_count' = sess[s].count + 1
  /\ UNCHANGED <<pending, rewards>>

\* Mutant: approvals of one owner do not wait for each other.
CreditUnlocked(s) ==
  /\ At(s, {"credit"})
  /\ Goto(s, IF sess[s].first THEN "referral" ELSE "finish")
  /\ UNCHANGED <<Committed, fsm, told, undone, stale, lost>>

\* _apply_payment_effect / add_charge: the owner's row is updated.
Credit(s) ==
  /\ At(s, {"credit"})
  /\ \A t \in Others(s) : ~HoldsOwner(t, Row(s).owner)
  /\ Goto(s, IF sess[s].first THEN "referral" ELSE "finish")
  /\ UNCHANGED <<Committed, fsm, told, undone, stale, lost>>

\* process_referral_reward: nothing without a pending referral, or when the
\* percentage of the amount comes to nothing (the admin may set it to zero) ...
ReadReferral(s, positive) ==
  /\ At(s, {"referral"})
  /\ Goto(s, IF Row(s).owner \in pending /\ positive THEN "reward" ELSE "finish")
  /\ UNCHANGED <<Committed, fsm, told, undone, stale, lost>>

\* ... otherwise the referrer's row is updated.
Reward(s) ==
  /\ At(s, {"reward"})
  /\ \A t \in Others(s) : ~HoldsOwner(t, Referrer[Row(s).owner])
  /\ sess' = [sess EXCEPT ![s].pc = "finish", ![s].reward = TRUE]
  /\ UNCHANGED <<Committed, fsm, told, undone, stale, lost>>

\* Everything the session has written becomes visible.
CommitApproval(s) ==
  LET p == sess[s].p
      o == Row(s).owner
  IN
  /\ pay' = [pay EXCEPT ![p].status = "approved"]
  /\ credits' = [credits EXCEPT ![p] = @ + 1]
  /\ IF Row(s).code
     THEN usage' = usage \cup {o} /\ used_count' = sess[s].count + 1
     ELSE UNCHANGED <<usage, used_count>>
  /\ IF sess[s].reward
     THEN /\ pending' = pending \ {o}
          /\ rewards' = [rewards EXCEPT ![o] = @ + 1]
     ELSE UNCHANGED <<pending, rewards>>

\* Mutant: the callbacks notify inside session_scope, as the button does.
TellInScope(s) ==
  /\ At(s, {"finish"}) /\ Row(s).method = "online"
  /\ told' = told \cup {sess[s].p}
  /\ Goto(s, "told")
  /\ UNCHANGED <<Committed, fsm, undone, stale, lost>>

\* zarinpal_callback, _handle_bale_successful_payment: the session is committed,
\* then the owner is told, unless the process ends in between. (A message that
\* Telegram refuses is logged; told has what was to be sent.)
FinishOnline(s) ==
  /\ At(s, {"finish"}) /\ Row(s).method = "online"
  /\ CommitApproval(s)
  /\ told' \in {told, told \cup {sess[s].p}}
  /\ sess' = [sess EXCEPT ![s] = Idle]
  /\ UNCHANGED <<fsm, undone, stale, lost>>

\* cb_admin_approve_payment tells the owner with the session still open ...
TellCard(s) ==
  /\ At(s, {"finish"}) /\ Row(s).method = "card"
  /\ told' = told \cup {sess[s].p}
  /\ Goto(s, "told")
  /\ UNCHANGED <<Committed, fsm, undone, stale, lost>>

\* ... and DbSessionMiddleware commits it. If a referrer was rewarded there is
\* more to tell: reward_info["referred_telegram_id"] raises KeyError, and the
\* session is rolled back.
FinishCard(s) ==
  /\ At(s, {"told"})
  /\ IF sess[s].reward THEN UNCHANGED Committed ELSE CommitApproval(s)
  /\ sess' = [sess EXCEPT ![s] = Idle]
  /\ UNCHANGED <<fsm, told, undone, stale, lost>>

\* An exception elsewhere (edit_caption's, the commit's), or the end of the
\* process: rolled back, whether or not the owner was told.
Fail(s) ==
  /\ ~At(s, {"idle"})
  /\ undone' = IF At(s, {"told"}) THEN undone \cup {sess[s].p} ELSE undone
  /\ sess' = [sess EXCEPT ![s] = Idle]
  /\ UNCHANGED <<Committed, fsm, told, stale, lost>>

-----------------------------------------------------------------------------
\* cb_admin_reject_payment: read, then written and committed.
RejectOpen(s, p) ==
  /\ At(s, {"idle"})
  /\ pay[p].status = "pending" /\ pay[p].method = "card" /\ pay[p].receipt
  /\ sess' = [sess EXCEPT ![s] = [Idle EXCEPT !.p = p, !.pc = "reject",
                                        !.seen = pay[p].status]]
  /\ UNCHANGED <<Committed, fsm, told, undone, stale, lost>>

Reject(s) ==
  /\ At(s, {"reject"})
  /\ \A t \in Others(s) : ~HoldsPayment(t, sess[s].p)
  /\ stale' = IF Row(s).status = sess[s].seen THEN stale ELSE stale \cup {sess[s].p}
  /\ pay' = [pay EXCEPT ![sess[s].p].status = "rejected"]
  /\ sess' = [sess EXCEPT ![s] = Idle]
  /\ UNCHANGED <<fsm, used_count, usage, pending, credits, rewards, told, undone,
                 lost>>

-----------------------------------------------------------------------------
OwnerStep(o) ==
  \/ ChooseAmount(o)
  \/ EnterCode(o)
  \/ \E p \in Ids : CreateCard(o, p)
  \/ \E p \in Ids : CreateOnline(o, p)
  \/ SendReceipt(o)
  \/ Abandon(o)

\* The steps of a session that has begun.
SessionStep(s) ==
  \/ InquirePaid(s)
  \/ InquireFails(s)
  \/ ReadFirst(s)
  \/ FlushApproved(s)
  \/ RecordUsage(s)
  \/ CountUsage(s)
  \/ Credit(s)
  \/ \E positive \in BOOLEAN : ReadReferral(s, positive)
  \/ Reward(s)
  \/ FinishOnline(s)
  \/ TellCard(s)
  \/ FinishCard(s)
  \/ Reject(s)

Next ==
  \/ \E o \in Owners : OwnerStep(o)
  \/ \E p \in Ids : PayOnline(p)
  \/ \E s \in Sessions, p \in Ids : Open(s, p)
  \/ \E s \in Sessions, p \in Ids : RejectOpen(s, p)
  \/ \E s \in Sessions : SessionStep(s)
  \/ \E s \in Sessions : Fail(s)

Spec == Init /\ [][Next]_vars

\* Providers answer or time out, and the database grants a row's lock in the
\* order of arrival. Nothing makes owners pay or admins decide.
FairSpec == Spec /\ \A s \in Sessions : SF_vars(SessionStep(s))

-----------------------------------------------------------------------------
\* Rows and sessions keep their types; a conversation that waits for a receipt
\* knows the payment it is for.
TypeOK ==
  /\ pay \in [Ids -> [status : Status, owner : Owners, method : Methods,
                      code : BOOLEAN, paid : BOOLEAN, receipt : BOOLEAN]]
  /\ fsm \in [Owners -> [step : {"none", "topup", "receipt"}, code : BOOLEAN,
                         card : 0..MaxPayments]]
  /\ \A o \in Owners : fsm[o].step = "receipt" <=> fsm[o].card \in Ids
  /\ used_count \in Nat
  /\ usage \subseteq Owners
  /\ pending \subseteq DOMAIN Referrer
  /\ credits \in [Ids -> Nat]
  /\ rewards \in [DOMAIN Referrer -> Nat]
  /\ told \subseteq Ids /\ undone \subseteq Ids /\ stale \subseteq Ids
  /\ lost \in BOOLEAN
  /\ \A s \in Sessions : sess[s].p \in 0..MaxPayments

\* A payment is credited exactly once if it is approved and not at all if it
\* is not, however callbacks and admins overlap, unless a session overwrote a
\* status that had changed since it read it.
CreditedUnlessStale ==
  \A p \in Ids \ stale :
    credits[p] = IF pay[p].status = "approved" THEN 1 ELSE 0

\* The comment in _handle_bale_successful_payment: a webhook that is repeated
\* finds the payment processed and does nothing. No online payment is credited
\* twice.
CreditedOnce == \A p \in Ids : pay[p].method = "online" => credits[p] <= 1

\* An owner gets the credit of at most one payment with the code, although the
\* code is validated long before the payment is approved and several payments
\* may be made with it: the unique constraint rolls back the other approvals.
OneCreditPerCode ==
  \A p, q \in Ids :
    /\ pay[p].code /\ pay[q].code /\ pay[p].owner = pay[q].owner
    /\ credits[p] > 0 /\ credits[q] > 0
    => p = q /\ credits[p] = 1

\* A referrer is rewarded at most once for each owner it referred, although
\* several approvals may each find that theirs is the first: the update of the
\* owner's row makes the second read the referral after the first's commit.
RewardedOnce ==
  \A o \in DOMAIN Referrer :
    rewards[o] = IF o \in pending THEN 0 ELSE 1

\* used_count is the number of uses, unless two approvals incremented the same
\* value; then it is too small, so that the code lives longer than max_uses.
UsedCountUnlessLost ==
  /\ used_count <= Cardinality(usage)
  /\ ~lost => used_count = Cardinality(usage)

\* The admin's guide: on the admin's approval the amount goes to the wallet. What
\* is announced is credited, or about to be, with two exceptions, both of card
\* payments, whose owner is told before the commit: the process or the commit
\* failed in between, or the owner was referred (KeyError). Callbacks announce
\* nothing that a failure could take back.
ToldUnlessUndone ==
  \A p \in told :
    \/ credits[p] > 0
    \/ \E s \in Sessions : At(s, {"told"}) /\ sess[s].p = p
    \/ /\ pay[p].method = "card"
       /\ p \in undone \/ pay[p].owner \in DOMAIN Referrer

\* Every approval and rejection comes to an end: rows are locked in one order,
\* payment, code, owner, referrer.
SessionEnds == \A s \in Sessions : sess[s].pc # "idle" ~> sess[s].pc = "idle"
=============================================================================
