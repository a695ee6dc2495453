------------------------------- MODULE Wallet -------------------------------
(***************************************************************************)
(* One shop owner's wallet: the charges (bundles of credit with an expiry  *)
(* date), the balance cached on the owner's row, the ledger of wallet      *)
(* transactions, and the database sessions that work on them at the same   *)
(* time:                                                                   *)
(*   - debits: a customer's message (chat, photo, voice, order detection)  *)
(*     that is answered first and billed afterwards, or a correction by    *)
(*     the admin;                                                          *)
(*   - credits: a top-up, gift, trial, reward or correction;               *)
(*   - the periodic job, which expires stale charges and sends reminders.  *)
(*                                                                         *)
(* The database runs READ COMMITTED. A debit locks the charges it selects  *)
(* (FOR UPDATE), one by one, and re-checks each after waiting for it; then *)
(* it updates the owner's row, which it keeps until its commit. The job    *)
(* reads the stale charges WITHOUT a lock, updates the owner's row, then   *)
(* writes the charges. A session that has the owner's row and needs        *)
(* nothing more commits in the same step.                                  *)
(*                                                                         *)
(* A charge is named by the day it expires: c is stale once c <= now.      *)
(***************************************************************************)
EXTENDS Integers, FiniteSetsExt, Functions

CONSTANTS
  Charges,      \* ids of charges, which are also their days of expiry
  Debits,       \* database sessions that debit
  Job,          \* the periodic job's session
  NoTask,       \* nobody (holds a row lock)
  Amounts,      \* amounts of credit
  Costs,        \* costs of a message; 0 for a feature made free by the admin
  Thresholds,   \* days before the expiry at which a reminder is due
  LowBalance,   \* wallet_low_balance_warning_toman
  MaxTime,      \* last day
  MaxFailures   \* how many debits an exception may roll back

ASSUME ChargesArePositive == Charges \subseteq Nat \ {0}
ASSUME ChargesAreFinite == IsFiniteSet(Charges)
ASSUME AmountsArePositive == Amounts \subseteq Nat \ {0}
ASSUME CostsAreNat == Costs \subseteq Nat
ASSUME ThresholdsAreNat == Thresholds \subseteq Nat
ASSUME LowBalanceIsInt == LowBalance \in Int
ASSUME TasksDiffer == Job \notin Debits /\ NoTask \notin Debits \cup {Job}
ASSUME BoundsAreNat == MaxTime \in Nat /\ MaxFailures \in Nat

VARIABLES
  charge,   \* wallet_charges: id -> row
  owner,    \* the owner's row: cached balance and the two notice flags
  ledger,   \* wallet_transactions: charge -> sum of its amounts
  lock,     \* charge -> the session that holds its row lock
  deb,      \* debit session -> what it is doing
  credit,   \* the open credit session: which flags it has loaded as set
  job,      \* the job: what it is doing
  now,      \* today
  failures, \* debits rolled back by an exception so far
  billed,   \* history: total of the debits that succeeded
  raced,    \* history: the job wrote a charge that had changed since its read
  told,     \* history: charge -> the last reminder sent for it, 0 if none
  again,    \* history: a reminder was not nearer than the one before it
  lost,     \* history: the job was rolled back after it had sent a reminder
  crossed   \* history: a notice flag crossed with a credit

vars == <<charge, owner, ledger, lock, deb, credit, job, now, failures,
          billed, raced, told, again, lost, crossed>>

-----------------------------------------------------------------------------
\* Rows.

NoCharge == [amount |-> 0, remaining |-> 0, is_expired |-> FALSE, sent |-> {}]

Present(c) == charge[c].amount > 0

\* A notice flag: never sent or cleared, sent, sent long enough ago.
Flag == {"none", "recent", "old"}

Claimable(f) == f # "recent"

\* The WHERE clause of deduct, and of expire_stale_charges.
Live(row) == ~row.is_expired /\ row.remaining > 0

Stale(c) == Live(charge[c]) /\ c <= now

Remaining(S) == SumFunctionOnSet([c \in Charges |-> charge[c].remaining], S)

AtLeastZero(n) == IF n >= 0 THEN n ELSE 0

\* Mutant: forgets that a nearer reminder may have been sent.
UnsentThresholds(c) == {d \in Thresholds : c - now <= d /\ d \notin charge[c].sent}

\* The thresholds that find_charges_needing_reminder considers for charge c.
DueReminders(c) ==
  {d \in Thresholds : /\ c - now <= d
                      /\ \A e \in charge[c].sent : e > d}

NeedsReminder(c) == Live(charge[c]) /\ c > now /\ DueReminders(c) # {}

-----------------------------------------------------------------------------
\* Sessions.

IdleDebit ==
  [pc |-> "idle", low |-> FALSE, quiet |-> FALSE, cost |-> 0, todo |-> {},
   got |-> <<>>]

IdleJob ==
  [pc |-> "idle", owner |-> FALSE, seen |-> <<>>, todo |-> {}, due |-> <<>>,
   marks |-> <<>>]

NoCredit == [open |-> FALSE, empty_set |-> FALSE, low_set |-> FALSE]

\* Only the job keeps the owner's row over several steps.
OwnerRowFree == ~job.owner

\* All locks of session t are released by its commit or rollback.
Release(t) == [c \in Charges |-> IF lock[c] = t THEN NoTask ELSE lock[c]]

Init ==
  /\ charge = [c \in Charges |-> NoCharge]
  /\ owner = [balance |-> 0, empty_at |-> "none", low_at |-> "none"]
  /\ ledger = [c \in Charges |-> 0]
  /\ lock = [c \in Charges |-> NoTask]
  /\ deb = [d \in Debits |-> IdleDebit]
  /\ credit = NoCredit
  /\ job = IdleJob
  /\ now = 0 /\ failures = 0 /\ billed = 0
  /\ raced = FALSE /\ again = FALSE /\ lost = FALSE /\ crossed = FALSE
  /\ told = [c \in Charges |-> 0]

history == <<billed, raced, told, again, lost, crossed>>

-----------------------------------------------------------------------------
\* Credit: add_charge, in a session that has loaded the owner before.

CreditOpen ==
  /\ ~credit.open
  /\ \E c \in Charges : ~Present(c) /\ c > now
  /\ credit' = [open      |-> TRUE,
                empty_set |-> owner.empty_at # "none",
                low_set   |-> owner.low_at # "none"]
  /\ UNCHANGED <<charge, owner, ledger, lock, deb, job, now, failures, history>>

\* Mutant: add_charge does not touch the flags.
KeepFlag(loaded_set, current) == current

\* Setting a flag to None writes the column only if it was loaded as set.
ClearFlag(loaded_set, current) == IF loaded_set THEN "none" ELSE current

CreditCommit(c, a) ==
  /\ credit.open
  /\ OwnerRowFree
  /\ ~Present(c) /\ c > now
  /\ charge' = [charge EXCEPT ![c] = [NoCharge EXCEPT !.amount = a, !.remaining = a]]
  /\ owner' = [balance  |-> owner.balance + a,
               empty_at |-> ClearFlag(credit.empty_set, owner.empty_at),
               low_at   |-> ClearFlag(credit.low_set, owner.low_at)]
  /\ ledger' = [ledger EXCEPT ![c] = @ + a]
  /\ crossed' = (crossed \/ (~credit.empty_set /\ owner.empty_at # "none"))
  /\ credit' = NoCredit
  /\ UNCHANGED <<lock, deb, job, now, failures, billed, raced, told, again, lost>>

-----------------------------------------------------------------------------
\* Debit.

\* _check_access, _generate_and_send_reply, customer_photo, customer_voice,
\* _detect_and_notify_order: the balance is read, the AI is asked.
DebitStart(d) ==
  /\ deb[d].pc = "idle"
  /\ owner.balance > 0
  /\ deb' = [deb EXCEPT ![d].pc = "calling",
                        ![d].low = owner.balance < LowBalance]
  /\ UNCHANGED <<charge, owner, ledger, lock, credit, job, now, failures, history>>

\* _check_access on an empty wallet: the customer is turned away ...
DebitDeny(d) ==
  /\ deb[d].pc = "idle"
  /\ owner.balance <= 0 /\ Claimable(owner.empty_at)
  /\ deb' = [deb EXCEPT ![d].pc = "denied"]
  /\ UNCHANGED <<charge, owner, ledger, lock, credit, job, now, failures, history>>

\* ... and the owner told, by whoever claims the notice first
\* (try_claim_empty_notification re-evaluates its WHERE on the locked row).
DebitClaimEmpty(d) ==
  /\ deb[d].pc = "denied"
  /\ Claimable(owner.empty_at) => OwnerRowFree
  /\ owner' = [owner EXCEPT !.empty_at = "recent"]
  /\ crossed' = (crossed \/ owner.balance > 0)
  /\ deb' = [deb EXCEPT ![d] = IdleDebit]
  /\ UNCHANGED <<charge, ledger, lock, credit, job, now, failures,
                 billed, raced, told, again, lost>>

\* The rows that deduct's SELECT ... FOR UPDATE finds, before it locks them.
SelectLive == {c \in Charges : Live(charge[c])}

\* The AI has answered, the reply is sent, deduct begins. A free message is
\* not billed at all.
DebitSelect(d, k) ==
  /\ deb[d].pc = "calling"
  /\ deb' = [deb EXCEPT ![d].pc = IF k = 0 THEN "notify" ELSE "locking",
                        ![d].cost = k,
                        ![d].todo = IF k = 0 THEN {} ELSE SelectLive]
  /\ UNCHANGED <<charge, owner, ledger, lock, credit, job, now, failures, history>>

\* A negative correction by the admin: no look at the balance, no notice.
AdminSelect(d, k) ==
  /\ deb[d].pc = "idle"
  /\ k > 0
  /\ deb' = [deb EXCEPT ![d].pc = "locking", ![d].cost = k, ![d].quiet = TRUE,
                        ![d].todo = SelectLive]
  /\ UNCHANGED <<charge, owner, ledger, lock, credit, job, now, failures, history>>

\* The row as the SELECT returns it to debit d, if it returns it.
GotWith(d, c) ==
  IF Live(charge[c])
  THEN [x \in DOMAIN deb[d].got \cup {c} |->
          IF x = c THEN charge[c].remaining ELSE deb[d].got[x]]
  ELSE deb[d].got

\* Mutant: no FOR UPDATE, the rows are only read.
DebitReadOnly(d) ==
  LET c == Min(deb[d].todo) IN
  /\ deb[d].pc = "locking" /\ deb[d].todo # {}
  /\ deb' = [deb EXCEPT ![d].todo = @ \ {c}, ![d].got = GotWith(d, c)]
  /\ UNCHANGED <<charge, owner, ledger, lock, credit, job, now, failures, history>>

\* The next row in the order of expiry is locked; it counts, with the value it
\* has by then, if it still satisfies the WHERE clause.
DebitLock(d) ==
  LET c == Min(deb[d].todo) IN
  /\ deb[d].pc = "locking" /\ deb[d].todo # {}
  /\ lock[c] = NoTask
  /\ lock' = [lock EXCEPT ![c] = d]
  /\ deb' = [deb EXCEPT ![d].todo = @ \ {c}, ![d].got = GotWith(d, c)]
  /\ UNCHANGED <<charge, owner, ledger, credit, job, now, failures, history>>

AllLocked(d) == deb[d].pc = "locking" /\ deb[d].todo = {}

Enough(d) == SumFunction(deb[d].got) >= deb[d].cost

\* Mutant: the early return of a refused correction leaves the session open.
RefuseKeepingLocks(d) ==
  /\ AllLocked(d) /\ ~Enough(d)
  /\ deb' = [deb EXCEPT ![d] = IF deb[d].quiet THEN IdleDebit
                               ELSE [deb[d] EXCEPT !.pc = "notify"]]
  /\ UNCHANGED <<charge, owner, ledger, lock, credit, job, now, failures, history>>

\* Not enough: nothing is deducted, the reply stays free.
DebitRefuse(d) ==
  /\ AllLocked(d) /\ ~Enough(d)
  /\ IF deb[d].quiet
     THEN /\ deb' = [deb EXCEPT ![d] = IdleDebit]
          /\ lock' = Release(d)
     ELSE /\ deb' = [deb EXCEPT ![d].pc = "notify"]
          /\ UNCHANGED lock
  /\ UNCHANGED <<charge, owner, ledger, credit, job, now, failures, history>>

\* The loop of deduct: k is taken from the charges it got, oldest first.
TakesOldestFirst(take, got, k) ==
  /\ \A c \in DOMAIN got : take[c] <= got[c]
  /\ SumFunction(take) = k
  /\ \A c, e \in DOMAIN got : e < c /\ take[c] > 0 => take[e] = got[e]

\* _deduct_and_notify on the owner's row: the claims of the two notices.
Notices(row) ==
  IF row.balance <= 0
  THEN [row EXCEPT !.empty_at = "recent"]
  ELSE IF row.balance < LowBalance THEN [row EXCEPT !.low_at = "recent"] ELSE row

\* Enough: the charges and the balance go down together, the owner is told
\* if little or nothing is left, the session commits. The balance is changed
\* by a database expression, the charges to values computed in Python.
DebitCommit(d) ==
  LET got == deb[d].got
      k   == deb[d].cost
      row == [owner EXCEPT !.balance = @ - k]
  IN
  /\ AllLocked(d) /\ Enough(d)
  /\ OwnerRowFree
  /\ \E take \in [DOMAIN got -> 0..k] :
       /\ TakesOldestFirst(take, got, k)
       /\ charge' = [c \in Charges |-> IF c \in DOMAIN got /\ take[c] > 0
                       THEN [charge[c] EXCEPT !.remaining = got[c] - take[c]]
                       ELSE charge[c]]
       /\ ledger' = [c \in Charges |-> IF c \in DOMAIN got
                       THEN ledger[c] - take[c] ELSE ledger[c]]
  /\ owner' = IF deb[d].quiet THEN row ELSE Notices(row)
  /\ deb' = [deb EXCEPT ![d] = IdleDebit]
  /\ lock' = Release(d)
  /\ billed' = billed + k
  /\ UNCHANGED <<credit, job, now, failures, raced, told, again, lost, crossed>>

\* A debit that deducted nothing looks at the balance it read at its start.
ClaimsLow(d) == deb[d].low /\ Claimable(owner.low_at)

DebitNotify(d) ==
  /\ deb[d].pc = "notify"
  /\ ClaimsLow(d) => OwnerRowFree
  /\ owner' = IF ClaimsLow(d) THEN [owner EXCEPT !.low_at = "recent"] ELSE owner
  /\ deb' = [deb EXCEPT ![d] = IdleDebit]
  /\ lock' = Release(d)
  /\ UNCHANGED <<charge, ledger, credit, job, now, failures, history>>

\* The AI call or anything later raises: the session is rolled back.
DebitFail(d) ==
  /\ deb[d].pc # "idle"
  /\ failures < MaxFailures
  /\ failures' = failures + 1
  /\ deb' = [deb EXCEPT ![d] = IdleDebit]
  /\ lock' = Release(d)
  /\ UNCHANGED <<charge, owner, ledger, credit, job, now, history>>

-----------------------------------------------------------------------------
\* The job: process_wallet_expiry_and_reminders.

\* Mutant: expires_at < now instead of <=.
JobSelectLate ==
  /\ job.pc = "idle"
  /\ LET S == {c \in Charges : Live(charge[c]) /\ c < now} IN
     /\ S # {}
     /\ job' = [job EXCEPT !.pc = "selected", !.todo = S,
                           !.seen = [c \in S |-> charge[c].remaining]]
  /\ UNCHANGED <<charge, owner, ledger, lock, deb, credit, now, failures, history>>

\* expire_stale_charges reads the stale charges, locking nothing.
JobSelect ==
  /\ job.pc = "idle"
  /\ \E c \in Charges : Stale(c) \/ NeedsReminder(c)
  /\ LET S == {c \in Charges : Stale(c)} IN
     job' = [job EXCEPT !.pc = IF S = {} THEN "locking" ELSE "selected",
                        !.seen = [c \in S |-> charge[c].remaining],
                        !.todo = S]
  /\ UNCHANGED <<charge, owner, ledger, lock, deb, credit, now, failures, history>>

\* It updates the owner's row ...
JobOwner ==
  /\ job.pc = "selected"
  /\ job' = [job EXCEPT !.pc = "locking", !.owner = TRUE]
  /\ UNCHANGED <<charge, owner, ledger, lock, deb, credit, now, failures, history>>

\* ... and writes the charges.
JobLock(c) ==
  /\ job.pc = "locking" /\ c \in job.todo
  /\ lock[c] = NoTask
  /\ lock' = [lock EXCEPT ![c] = Job]
  /\ job' = [job EXCEPT !.todo = @ \ {c}]
  /\ UNCHANGED <<charge, owner, ledger, deb, credit, now, failures, history>>

\* find_charges_needing_reminder: the nearest threshold for each charge.
JobDue ==
  /\ job.pc = "locking" /\ job.todo = {}
  /\ LET S == {c \in Charges \ DOMAIN job.seen : NeedsReminder(c)} IN
     job' = [job EXCEPT !.pc = "reminding",
                        !.due = [c \in S |-> Min(DueReminders(c))]]
  /\ UNCHANGED <<charge, owner, ledger, lock, deb, credit, now, failures, history>>

\* A reminder is sent ...
JobSend(c) ==
  /\ job.pc = "reminding" /\ c \in DOMAIN job.due
  /\ again' = (again \/ (told[c] # 0 /\ job.due[c] >= told[c]))
  /\ told' = [told EXCEPT ![c] = job.due[c]]
  /\ job' = [job EXCEPT !.pc = "marking", !.todo = {c}]
  /\ UNCHANGED <<charge, owner, ledger, lock, deb, credit, now, failures,
                 billed, raced, lost, crossed>>

\* ... or fails (TelegramAPIError): it will be due again.
JobSendFails(c) ==
  /\ job.pc = "reminding" /\ c \in DOMAIN job.due
  /\ job' = [job EXCEPT !.due = Restrict(@, DOMAIN @ \ {c})]
  /\ UNCHANGED <<charge, owner, ledger, lock, deb, credit, now, failures, history>>

\* mark_reminder_sent writes the charge's row.
JobMark(c) ==
  /\ job.pc = "marking" /\ c \in job.todo
  /\ lock[c] = NoTask
  /\ lock' = [lock EXCEPT ![c] = Job]
  /\ job' = [job EXCEPT !.pc = "reminding", !.todo = {},
               !.due = Restrict(@, DOMAIN @ \ {c}),
               !.marks = [x \in DOMAIN @ \cup {c} |->
                            IF x = c THEN job.due[c] ELSE @[x]]]
  /\ UNCHANGED <<charge, owner, ledger, deb, credit, now, failures, history>>

\* Mutant: closes the charge but leaves its credit.
ExpireKeepingCredit(c) ==
  IF c \in DOMAIN job.seen THEN [charge[c] EXCEPT !.is_expired = TRUE] ELSE charge[c]

\* What the job writes to one charge: zero and expired, or the reminder flag.
\* Either way only the columns it changed.
ChargeAfterJob(c) ==
  IF c \in DOMAIN job.seen
  THEN [charge[c] EXCEPT !.remaining = 0, !.is_expired = TRUE]
  ELSE IF c \in DOMAIN job.marks
  THEN [charge[c] EXCEPT !.sent = @ \cup {job.marks[c]}]
  ELSE charge[c]

\* UPDATE ... SET balance = greatest(0, balance - expired_amount), once for
\* each charge, with the amounts read at the beginning.
BalanceAfterJob ==
  AtLeastZero(owner.balance - SumFunctionOnSet(job.seen, DOMAIN job.seen))

JobCommit ==
  /\ job.pc = "reminding" /\ DOMAIN job.due = {}
  /\ charge' = [c \in Charges |-> ChargeAfterJob(c)]
  /\ owner' = [owner EXCEPT !.balance = IF job.owner THEN BalanceAfterJob ELSE @]
  /\ ledger' = [c \in Charges |-> IF c \in DOMAIN job.seen
                                  THEN ledger[c] - job.seen[c] ELSE ledger[c]]
  /\ raced' = (raced \/ \E c \in DOMAIN job.seen :
                          job.seen[c] # charge[c].remaining)
  /\ lock' = Release(Job)
  /\ job' = IdleJob
  /\ UNCHANGED <<deb, credit, now, failures, billed, told, again, lost, crossed>>

-----------------------------------------------------------------------------
\* Locks: who waits for whom, and the database's deadlock detection.

DebitWaitsForOwner(d) ==
  \/ deb[d].pc = "denied" /\ Claimable(owner.empty_at)
  \/ AllLocked(d) /\ Enough(d)
  \/ deb[d].pc = "notify" /\ ClaimsLow(d)

WaitsFor(t, u) ==
  IF t = Job
  THEN /\ job.pc \in {"locking", "marking"} /\ job.todo # {}
       /\ \A c \in job.todo : lock[c] # NoTask
       /\ \E c \in job.todo : lock[c] = u
  ELSE \/ u = Job /\ job.owner /\ DebitWaitsForOwner(t)
       \/ /\ deb[t].pc = "locking" /\ deb[t].todo # {}
          /\ lock[Min(deb[t].todo)] = u

InCycle(t) ==
  \E S \in SUBSET (Debits \cup {Job}) :
    /\ t \in S
    /\ \A x \in S : /\ \E y \in S : WaitsFor(x, y)
                    /\ \E y \in S : WaitsFor(y, x)

\* Some session of a cycle is rolled back.
DebitVictim(d) ==
  /\ InCycle(d)
  /\ deb' = [deb EXCEPT ![d] = IdleDebit]
  /\ lock' = Release(d)
  /\ UNCHANGED <<charge, owner, ledger, credit, job, now, failures, history>>

JobVictim ==
  /\ InCycle(Job)
  /\ job' = IdleJob
  /\ lock' = Release(Job)
  /\ lost' = (lost \/ job.pc = "marking" \/ DOMAIN job.marks # {})
  /\ UNCHANGED <<charge, owner, ledger, deb, credit, now, failures,
                 billed, raced, told, again, crossed>>

-----------------------------------------------------------------------------
\* Time: days, and the hours after which a notice may be repeated.
Tick ==
  /\ now < MaxTime
  /\ now' = now + 1
  /\ UNCHANGED <<charge, owner, ledger, lock, deb, credit, job, failures, history>>

AgeNotice(f) ==
  /\ owner[f] = "recent"
  /\ owner' = [owner EXCEPT ![f] = "old"]
  /\ UNCHANGED <<charge, ledger, lock, deb, credit, job, now, failures, history>>

-----------------------------------------------------------------------------
\* The steps of a debit that has begun, and of the job.
DebitStep(d) ==
  \/ DebitClaimEmpty(d)
  \/ \E k \in Costs : DebitSelect(d, k)
  \/ DebitLock(d)
  \/ DebitRefuse(d)
  \/ DebitCommit(d)
  \/ DebitNotify(d)

JobStep ==
  \/ JobSelect
  \/ JobOwner
  \/ \E c \in Charges : JobLock(c)
  \/ JobDue
  \/ \E c \in Charges : JobSend(c) \/ JobSendFails(c)
  \/ \E c \in Charges : JobMark(c)
  \/ JobCommit

Victim == JobVictim \/ \E d \in Debits : DebitVictim(d)

Next ==
  \/ CreditOpen
  \/ \E c \in Charges, a \in Amounts : CreditCommit(c, a)
  \/ \E d \in Debits : DebitStart(d)
  \/ \E d \in Debits : DebitDeny(d)
  \/ \E d \in Debits, k \in Costs : AdminSelect(d, k)
  \/ \E d \in Debits : DebitStep(d)
  \/ \E d \in Debits : DebitFail(d)
  \/ JobStep
  \/ Victim
  \/ Tick
  \/ \E f \in {"empty_at", "low_at"} : AgeNotice(f)

Spec == Init /\ [][Next]_vars

\* Every AI call ends (by its timeout if not otherwise), the scheduler's loop
\* calls the job again and again (assumed: no task before it raises in every
\* pass), and the database breaks every deadlock and
\* grants a row's lock in the order of arrival, so a session that waits for a
\* row that is free again and again gets it (strong fairness). Nothing makes
\* customers write, owners pay or exceptions happen.
FairSpec ==
  /\ Spec
  /\ \A d \in Debits : SF_vars(DebitStep(d))
  /\ SF_vars(JobStep)
  /\ WF_vars(Victim)

-----------------------------------------------------------------------------
\* Rows and sessions keep their types.
TypeOK ==
  /\ charge \in [Charges -> [amount : Nat, remaining : Nat,
                             is_expired : BOOLEAN, sent : SUBSET Thresholds]]
  /\ owner \in [balance : Int, empty_at : Flag, low_at : Flag]
  /\ ledger \in [Charges -> Int]
  /\ lock \in [Charges -> Debits \cup {Job, NoTask}]
  /\ \A d \in Debits : deb[d].todo \cup DOMAIN deb[d].got \subseteq Charges
  /\ DOMAIN job.seen \subseteq Charges /\ job.todo \subseteq Charges
  /\ now \in 0..MaxTime /\ failures \in 0..MaxFailures

\* wallet_service.py and models.py: the cached balance equals the sum of the
\* remaining credit, and the sum of the ledger.
InStep ==
  /\ owner.balance = Remaining(Charges)
  /\ \A c \in Charges : ledger[c] = charge[c].remaining

\* The one cause of a difference is a debit that commits between the job's
\* read of a stale charge and its write (expire_stale_charges). Even then the
\* cached balance never promises more than the charges hold, and the ledger
\* never says more than the balance: the errors fall on the owner's side.
InStepUnlessRaced ==
  /\ ~raced => InStep
  /\ SumFunction(ledger) <= owner.balance
  /\ owner.balance <= Remaining(Charges)

\* No credit is spent twice: what was billed and what is left never exceed
\* what was charged, although every debit reads, waits and writes.
NoOverspend ==
  billed + Remaining(Charges) <=
    SumFunction([c \in Charges |-> charge[c].amount])

\* add_charge clears the notice flags so that the next time the wallet runs
\* empty the owner is told: a wallet with credit has no "empty" flag, unless
\* the flag was set between a credit's read of the owner and its commit, or a
\* customer was turned away just before the credit came.
EmptyFlagUnlessCrossed ==
  owner.balance > 0 /\ owner.empty_at # "none" => crossed

\* Reminders of a charge come nearer and nearer to its expiry and none is
\* repeated, unless the job was rolled back after sending.
RemindersComeNearer == again => lost

\* Every debit comes to an end, although debits lock the charges before the
\* owner and the job the owner before the charges.
DebitEnds == \A d \in Debits : deb[d].pc # "idle" ~> deb[d].pc = "idle"

\* A stale charge does not stay usable for ever, unless the job is the victim
\* of one deadlock after the other: each pass starts again from nothing, and
\* debits lock in the opposite order.
StaleExpires ==
  \/ []<><<JobVictim>>_vars
  \/ \A c \in Charges : Stale(c) ~> ~Live(charge[c])
=============================================================================
