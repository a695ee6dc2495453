# A TLA+ model of kasb-o-kar-hoshmand

The repository is a platform of Telegram bots. A shop owner talks to the *main
bot*: registers, pays into a wallet, enters products. Each owner has a *shop
bot* that answers the shop's customers with the help of an AI model, bills the
owner's wallet for every answer, and recognises orders in the conversation.
Everything runs in one asyncio process on one PostgreSQL database. Every update
of a bot, every HTTP callback, every background task and every periodic task
has a database session of its own; sessions overlap at every `await`.

This directory models the parts of it in which a mistake costs somebody money
or stock (orders and reservations, the wallet, payments), then the conversation
that everything begins with (chat, AI providers), and what surrounds it: the
shop's bot, registration, the forms of the panels, the periodic tasks.

## 1. Inventory

| Part | State | Operations | Talks to |
|---|---|---|---|
| Orders (`order_service`, `order_expiry_service`, handlers in `customer.py`, `panel.py`) | rows of `orders_consultations`, `reserved_quantity` and `stock_quantity` of `products` | detect, customer confirms or cancels, owner confirms, rejects, advances; job expires candidates and reservations | products (same rows), customers and owners (buttons that stay in the chat) |
| Products (`product_service`, `products.py`) | rows of `products` | add, edit a field, delete softly | orders |
| Wallet (`wallet_service`, `wallet_expiry_service`) | `wallet_charges`, cached balance and notice flags on `shop_owners`, ledger `wallet_transactions` | add_charge, deduct, expire, remind, claim a notice | chat (debits), payments, trial, admin (credits) |
| Payments (`payment_service`, `main.py`, `admin.py`, `panel.py`) | `payments`, the owner's conversation state | create, receipt, callback, approve, reject | Zarinpal, Bale, wallet, discounts, referrals |
| Discount codes, referrals | `discount_codes`, `discount_code_usages`, `referrals` | validate, record a use; reward | payments |
| Chat pipeline (`customer.py`) | debounce buffers and tasks, rate-limit windows, `conversation_messages` | buffer, flush, answer, detect | AI, wallet, orders |
| Webhook entry points (`main.py`) | `_seen_update_ids` (memory, 2000 ids) | deduplicate, dispatch | both dispatchers |
| AI providers (`ai_service`, `ai_pool_service`) | circuit breakers (memory), key pool | call with retry, fall back, open and close the breaker | chat |
| Shop bot manager (`bot_manager`) | running bots and their secrets (memory), `is_active` | register, unregister, load all | admin (suspension), owners |
| Registration (`start.py`, `otp_service`, channel gate) | conversation state, one-time codes, membership cache | gate, ask, verify, complete, trial | wallet |
| Scheduler | a loop | five tasks in turn every 30 minutes | wallet, orders, reports, grace, retention |
| Legacy subscriptions, grace period | `subscriptions` | nothing in the bots reaches them | payments |
| Moderation, audit log, statistics, reports, Excel, texts, mail, SMS, encryption, admin forms | tables, files | text processing, forms over single rows | - |

What is hard in this system:

- **overlapping sessions**: under READ COMMITTED, what a handler read may have
  changed when it writes. Some code locks (`deduct`), some uses database
  expressions (`_apply_balance_delta`), most does neither (orders, payments);
- **external answers in the middle of a transaction**: the AI call before a
  debit, the inquiry before an approval, Telegram messages before a commit;
- **repetition**: callbacks and webhooks come twice, old buttons stay, every
  admin has the same buttons;
- **time**: reservations, candidates and charges end only when the job says so;
- **locks in different orders**: debits lock charges, then the owner; the job
  the owner, then charges.

- **memory beside the database**: debounce buffers, seen updates, running bots
  and aiogram's forms change at once, are not rolled back with a session and are
  gone after a restart.

What makes each part correct: an order holds units only while PENDING and they
are in stock, nobody's units are given away by somebody else's release, orders
only move forward, every reservation ends; no credit is spent twice, balance,
charges and ledger agree, every debit and every stale charge ends; a payment is
credited exactly once and only if paid, a code and a referral count once, who
is told has the money; a customer's message is concluded once, however the
updates come, and is answered knowing what the customer said before; a call of the AI
service ends and a broken key is tried again; the bots that run are the active
ones; an address counts as verified only by a code sent to it, a referral is not
lost, a trial is given once; a form misses no answer and saves once;
reports come once a period and nobody expires unannounced.

`PROJECT.json` lists the hazards at their lines, with the properties that are
about them.

## 2. Modules

| Module | Models | State |
|---|---|---|
| `OrderOps` | rows and what each function of `order_service.py` makes of them: pure operators | - |
| `Orders` | the handlers one at a time | `ord`, `prod` |
| `OrdersRC` | the same operators in overlapping sessions | `Orders`' and each session's loaded and changed rows |
| `Wallet` | one owner's wallet with row locks and deadlocks | `charge`, `owner`, `ledger`, `lock`, sessions |
| `Payments` | top-ups from conversation to credit | `pay`, `fsm`, code, referrals, sessions |
| `Inbox` | what a shop bot promises a customer: the abstract specification of `ShopChat` | `inbox`, `hurt` |
| `ShopChat` | the way of a customer's messages from Telegram to the saved turn | Telegram's side, seen updates, handlers, the customer's row, debounce, bursts |
| `Throttle` | rate limiter, debounce and AI calls with their time | window, buffer's age and delay, calls, circuits |
| `ShopBots` | a shop's bot in the database, in `ShopBotManager` and at Telegram | row and its lock, `_bots`, `_polling_tasks`, webhooks, handlers |
| `Registration` | one new user of the main bot | form, owner's row, codes, trial charges, keyboards, handlers |
| `Desk` | the forms of the panel and of the admin | state and data of the form, keyboards, handlers, what was saved |
| `Jobs` | the scheduler's loop, reports, subscription | position in the pass, rows, renewals |
| `OrdersProofs`, `WalletProofs`, `PaymentsProofs`, `ShopChatProofs`, `ShopBotsProofs`, `RegistrationProofs`, `DeskProofs`, `JobsProofs` | proofs about the module of that name, and in the first about `OrdersRC`, in the fourth about `Throttle` (section 4) | - |
| `MC*` | instances for TLC | - |

### Orders, OrdersRC

`Orders` has one action per handler, from its first read to its commit:
`Detect` (`_detect_and_notify_order`, the classifier's answer is an input),
`CustomerConfirm`, `CustomerCancel`, `OwnerConfirm`, `OwnerReject`,
`OwnerAdvance`, the job's `ExpireCandidate` and `ExpireReservation`, the owner's
`EditStock` and `SoftDelete`. The owner's buttons are sent by
`cb_customer_confirm_order`, and only for an order of a product
(`OwnerHasButtons`). A consequence: an order without a product never leaves
PENDING, no button and no job ends it. Deadlines are left open: the job may find
any candidate or reservation due. `override` is history: products whose owner
typed a stock or confirmed an order without reservation, after which nothing is
promised about the stock.

`OrdersRC` extends `Orders`, whose `Init` and `Next` are what a handler does
alone; its own are `RCInit` and `RCNext`. It splits each handler: `BeginHandler`, `BeginExpiry`, `BeginDetect`,
`BeginEdit*` load rows; `Process` loads the product (once per session: the
identity map, `ProductSeen`) and computes; `Commit` writes the changed columns
(`Flush`) or `Rollback` drops them. The computation is the same operators of
`OrderOps`. `stale` is history: some session committed over rows that had
changed since it read them. The abstract specification is `Orders`:
`SerialUnlessStale` says that each step of `OrdersRC` is a step of `Orders`, a
stutter, or one pass of the job over several orders (`ExpirePass`), until the
first stale commit. So all that is shown of `Orders`, for every number of
orders, carries over exactly as far as that (`RCSpecKept`); and what fails
afterwards is due to stale commits alone. `NeverReopened` holds even then.

### Wallet

One owner, whose charges are named by their day of expiry. A debit: balance read
(`DebitStart`, or `DebitDeny`), AI called, `DebitSelect` finds the live charges,
`DebitLock` takes them one by one in the order of expiry and re-checks each,
`DebitCommit` or `DebitRefuse` and `DebitNotify`. A credit loads the owner
(`CreditOpen`) and commits later, so its clearing of the notice flags can cross
with a claim. The job reads without locks (`JobSelect`), takes the owner's row,
then the charges, sends and marks reminders, commits. `WaitsFor` and `InCycle`
are the database's view of the locks; `DebitVictim` and `JobVictim` its
deadlock detection. `raced`, `crossed`, `lost`, `told`, `again`, `billed` are
history. The constants are any finite set of charges, positive amounts, natural
costs and thresholds, and an integer threshold for the low-balance notice.

### Payments

The conversation (`ChooseAmount`, `EnterCode`, `CreateCard`, `CreateOnline`,
`SendReceipt`, `Abandon`), the payer (`PayOnline`), and sessions that approve or
reject: `Open`, inquiry, `ReadFirst`, `FlushApproved`, `RecordUsage`,
`CountUsage`, `Credit`, `ReadReferral`, `Reward`, `FinishOnline` or
`TellCard` and `FinishCard`; `Fail` may end it anywhere. What a session has locked
follows from its position (`HoldsPayment`, `HoldsUsage`, `HoldsCode`,
`HoldsOwner`). Amounts are left out. A callback commits and then tells
(`FinishOnline`); the admin's button tells (`TellCard`, `admin.py:103`) and then
commits (`FinishCard`, in `DbSessionMiddleware`), so that a failure in between
takes back what was announced (`undone`, history), and when a referrer is rewarded
the handler itself raises there. `ToldUnlessUndone` says that there is no other
way; its mutant lets the callbacks tell before they commit.

### Inbox, ShopChat

`Inbox` is what a customer may rely on: a message that is taken is held until it
is concluded, with its burst (answered, turned away with a notice, or ignored by
a suspended shop), once; it is lost or repeated only if a fault has met it, and
it is not held for ever (`Inbox!Safe` is the same without this last promise).
`ShopChat` implements it (`KeepsPromise`, by the mapping `Stage`): `Repeated` and `Delivered` are `webhook_shop` with
`_is_duplicate_update`; `Admit`, `TurnAway`, `Enter`, `EnterMedia`,
`FinishPhoto`, `Transcribed`, `NotTranscribed` the handlers; `Schedule`, `Fire`,
`Prepare`, `Unserved`, `GivenUp`, `Reply`, `Settle` the debounce and its task;
`NothingToAsk` and `AskBack` the order detection that follows it;
`InsertTwice`, `HandlerRaises`, `TaskRaises`, `Reregistered`, `Restart` what goes
wrong: the last two set the webhook with `drop_pending_updates` (`DropPending`),
which loses updates that were not acknowledged or not yet sent.
`get_or_create_customer` updates the customer's row in every session that calls
it, so the sessions hold that row (`row.holder`) until they commit; this, and
not the debounce, is what keeps overlapping bursts in order (`HistoryMissesNoText`;
its mutant drops it). The order detection saves its question to the customer as a
turn of its own (`AskBack`, `customer.py:417`) and does not hold the row: that turn,
the only one without a text of the customer, may come between another burst's
reading and saving. The detection is taken to go on after its burst's commit, since
it calls the AI service first. `hurt` is history: a message whose handler or task raised
or was cut off by a restart, or whose id fell out of the bounded set while
Telegram could still repeat it. It can: the webhook's 200 may get lost or come
after Telegram's time limit (`Answer200`, counted as a fault), so that an update
is repeated whose handling is long over. A task that is about to fire waits
until the last one started by the same message is done, a bound on the model's
state that only matters after such a repetition. The set is marked before the handling: an update
whose handler raises is answered with 500 and then acknowledged as a duplicate,
which `Inbox` allows for hurt messages only. Settings, balance, moderation and
rate limiter may give any answer here; prices are `Wallet`'s and detection
`Orders`'.

### Throttle

Time passes in ticks. `Arrive` and `Refuse` are `check_and_record` (whose
deque loses entries from the front, `Fresh`) and
`_schedule_debounced_processing`; `TakeBuffer` ends its wait and starts a call along
one of the plans `build_ai_service` can make of the keys (`OwnPlans`,
`PoolPlans`); `Retry`, `Fail`, `Succeed` are `_post_chat`, `FallbackAiService`
and `PooledAiService._run` with the shared circuits. `BufferWaitBounded` needs
both brakes: the delay is capped from `MAX_BUFFER_WAIT_SECONDS` on, but never
below 0.3 s, so each admitted text still adds that much.

### ShopBots

`Begin`, `Flush`, then the manager's steps (`Unregister`, `Register`,
`DeleteWebhook`, `Install`, `SetWebhook`), then `Commit`: each await of
`cb_owner_suspend`, `cb_owner_unsuspend`, `save_shop_bot_token` is a point where
others run. A handler that changes the row holds its lock; one that finds the
row as it wants it writes nothing, holds none, and may interleave with the
manager's calls of another. `crossed` and `broken` are history: two handlers met
that way, or one failed after the manager had acted (the database is rolled
back, the manager is not). `Restart` (`load_all`) clears both: it repairs what
they stand for.

### Registration

`CmdStart`, `CheckChannels`, the form (`BeginForm` to `CodeGiven`), `SendCode`,
`CodeRefused`, `CodeRaises`, `CodeAccepted`, `CompleteUnverified`,
`ActivateTrial`, and the ways out (`MenuButton`, `CmdPanel`, `CmdCancel`,
`Restart`). `CmdStart` keeps any argument as the link, an owner's code (`Links`) or
nobody's (`Strays`); `GatePassed` reads the form after the calls of the gate, and
`Insert` finds the referrer (`Referrer`). A handler reads the form when it begins
and the row when it gets there, and writes at its `Commit`; the form changes at
once and survives a `Raise`. `hist` is history: by what the user came and whether
that was lost before there was a row, with the form ("wiped") or to a later
argument that is nobody's code ("strayed"), whether an address was given while a code was under way to another, whether two handlers gave the trial at
once.

### Desk

The eighteen forms are records of one shape (`Forms`): their steps, each free
text, checked, or a press; whether opening one keeps a target; who it belongs to;
what its end does. The dispatcher chooses a handler by the state at arrival
(`RawState`: `MenuButtonEscapeMiddleware`, `Text`, `Press`); the handler then
refuses, stores, or at the last step writes, clears, answers and commits.
`GetsThrough` is the routers' order: where /cancel and the two buttons that
`_KNOWN_MENU_BUTTONS` lacks are taken for an answer.
`excused` is history: runs of a form whose handlers overlapped, of which a
keyboard was pressed in a later run, or whose broadcast broke off half-way. A
keyboard pressed in a later run excuses all the runs it may mix: its own, the
last one, and those whose answers are still kept. The forms of a payment are `Payments`' and those of the registration
`Registration`'s.

### Jobs

`Wake`, `GraceTask`, `Report` for each shop, `ReportsDone`, `OtherTask`: one pass
of `run_periodic_tasks`; `Break` is an exception anywhere in it, `Restart` begins
with a pass at once. `RenewRead` and `RenewCommit` are `purchase_or_renew` in the
session of an approval. Time is counted in passes, as ages.

## 3. Runs

| Run | Instance | Shows |
|---|---|---|
| `orders` | 2 orders, 2 customers, 1 product, units 1 and 2, stocks 1, 3 and unlimited | all safety of the serial life cycle, `StatusMovesForward`, and that reservations and candidates end |
| `orders_rc` | 2 sessions, 2 orders, 1 customer, stock 2, one unit each | `SerialUnlessStale`, `NeverReopened` |
| `wallet` | 2 charges of 2, costs 0, 2, 3, thresholds 1 and 2, one debit session | balance, charges and ledger in step and bounded (`InStepUnlessRaced`), notices, reminders |
| `wallet_pair` | 2 charges of 1, cost 1, two debit sessions, one exception | `NoOverspend`, `DebitEnds`, `StaleExpires` |
| `payments` | 2 payments, an owner and its referrer, 2 sessions, a code for 2 uses | credit, code, reward, use count, announcement, termination |
| `payments_twice` | 1 payment | refutes `CreditedOnce` (comment in `main.py`) |
| `chat` | 3 messages (text, voice, /start; or text, photo, /start), 2 updates remembered, 1 fault | `ShopChat` implements `Inbox`, liveness included; `HistoryMissesNoText`, `AnswersAreSaved` |
| `throttle` | 2 calls, an own key and a pool key, delays 1, 2, 3, 2 messages in 2 ticks, 1 retry, threshold 2 | `BufferWaitBounded`, `CircuitCloses`, `CallEnds` |
| `shop_bots` | 2 handlers, 2 tokens, 2 faults, both modes | `InStepWhenQuiet` |
| `registration` | 2 handlers, 2 addresses, 1 link, 1 stray argument, 2 codes, 1 fault, three modes | what a code proves, referral, trial |
| `desk` | 18 forms, 2 openings, 2 handlers, 1 fault | `NoGapUnlessExcused`, `OneRunUnlessExcused`, `OnceUnlessExcused` |
| `jobs` | 2 shops, 2 renewals, 2 faults, periods of 2 passes | reports, notices, renewals, `PassesComplete` |

A property whose name ends in "Unless..." states the promise together with the
one way in which the code breaks it, and says that there is no other. Five of
these exceptions contradict a comment or a guide; `PROJECT.json` quotes both
sides under "findings". `payments_twice` keeps one of them as a run that must
fail: the most expensive one, a payment credited twice.

`TypeOK` is a property of `orders` (where non-negative stock is at stake and it
is proved). The other modules that state one do so for the reader and for TLC
when a definition changes; their invariants imply what matters of it.

**Bounds.** Two orders suffice for every competition: each handler touches one
order and one product, and a conflict has two parties. Units 1 and 2 against
stocks 1 and 3 give "both fit", "one fits", "none fits" and a partial fit.
Unlike `orders`, `orders_rc` keeps to one unit per order and one customer, and
explores the owner's edits, the unlimited product and what follows a stale
commit with one order only (`Focus`): the question there is the interleaving, and
the proofs (section 4) know no such bound.
Two charges let a cost span charges and let one be stale while the other lives;
two debits and the job give every deadlock the lock order allows (debits among
themselves lock in one order). Two payments and two sessions give each pair of
approvals and each pair of callbacks; the referred owner "a" and its referrer
"b" may both pay. Two messages that are answered share a burst or make two that overlap, each with
its detection; a third one (/start) holds the row in between and, with a set of
two, pushes the id of a message at work out of it. Two calls and a threshold of two let a failure
of a call begun earlier arrive after the circuit has opened. Two openings let
every form meet an earlier run of itself or of any other; a third would only
repeat that. Two codes suffice to have one under way to each address, or two equal
ones. `MaxTime`, `MaxFailures`, `MaxFaults`, `MaxPayments`, `MaxBatch`,
`MaxCodes`, `MaxRuns` and `MaxLeft` bound time, exceptions and restarts, ids, a
pass of the job, codes, openings and how far ahead a subscription is paid.
Deadlock checking is off except in `shop_bots` and `jobs`: elsewhere ids are used
up and nobody has to act, so the system may stop; that sessions, calls and
messages do not hang for ever is stated as `DebitEnds`, `SessionEnds`,
`CallEnds` and in `KeepsPromise`.

**Fairness.** Orders: weak fairness of the job's two actions, since
`run_periodic_tasks` calls it every 30 minutes and every deadline passes. Wallet
and Payments: strong fairness of a session's steps, since every external call
has a timeout and PostgreSQL queues the waiters of a row; weak fairness of
deadlock detection. `StaleExpires` still needs its first disjunct: a pass of the
job that is the victim of a deadlock every time never expires anything. ShopChat:
weak fairness of each handler and each task, since the event loop serves all and
calls have time limits. Throttle: the same, and the clock runs. Jobs: weak
fairness of the loop and of a renewal's commit. `PassesComplete` is what the job
fairness of Orders and Wallet rests on: an exception costs one pass, and one that
comes back in every pass is excluded by the bound on faults. Customers, owners, admins and exceptions are under no fairness.

**Mutants.** For each property, a definition with a plausible mistake (marked
"Mutant" in the modules) under which TLC finds the property violated.

## 4. Proofs

TLC checks the instances of section 3; the theorems hold for every value of the
constants that the modules' assumptions allow: any numbers of orders, charges,
payments, sessions, messages, handlers, openings and faults. Every theorem has the
form `Spec => []P`, or `Spec => [][A]_vars`, from an inductive invariant `IInv` of its module that was first
checked by TLC on the run's instance. None of the properties is inductive as it
stands; what each `IInv` adds is the reason why the code is right.

**OrdersProofs.** Assumptions (`OrderOps`): there is a customer, quantities and
stocks are natural numbers, the two null values are no ids or numbers.

- `SpecTypeOK`, `SpecReservedOnlyWhilePending`, `SpecConfirmedInSync`: `IInv` is
  the types, the two properties, and "only inserted rows are recent". The guards
  of reject and expiry read the status, `confirm_order`'s reads the flag, and
  what they write depends on `stock_reserved`, so neither half is kept without
  the other. `IInv` is reduced to a property of one row (`RowInv`) that each
  operator of `OrderOps` keeps (`HandlersKeepRowInv`); `OneOrderStep` lifts it to
  the tables.
- `SpecReservationsBacked`: relative to `IInv`; `max(0, ...)` on both columns
  keeps reserved below stock because both go down by the same units.
- `SpecReservationsCovered`: relative to `IInv` and to "finitely many orders hold
  units" (which is proved, not assumed). A handler's write of `reserved_quantity`
  makes up for what its order begins or ceases to hold (`ReservedAfter`), and the
  sum over the holders changes by exactly that (`HeldAfter`).
- `SpecNoRecentDuplicates`, `SpecStatusMovesForward` (an action property):
  relative to `IInv`.

*OrdersRC*, for any number of sessions. Nothing but a session itself changes what
it has loaded, so `RCInv` says of each one, in terms of these values alone
(`Session`), that what it has computed is what its handler alone would make of
what it has read: a candidate's row (`Detected`), one column (`Edited`), the
handler's rows (`Handled`), or, for a pass of the job under way, that each product
has got back the sum of what the orders done so far held (`Passed`, by
`ReleaseTwice`: two releases are one of the sum, the `max(0, ...)` between them
included). Between sessions: the id a detection will insert is nobody else's
(`FreshIds`), others have ids with rows (`LoadedExist`), and until a stale commit
the owner only decides on orders whose buttons were sent (`ButtonsWereSent`).

- `RCSpecInv`, `RCSpecTypeOK`: all this holds whatever is committed; `Flush` mixes
  columns of three rows, and each stays of its type.
- `SpecNeverReopened`: no session writes AWAITING but a detection's, over an id
  without a row, and none clears `confirmed` (`SessionWrites`, `CommitRows`).
- `SpecSerialUnlessStale`: if the rows read are still those of the tables but for
  their age, `Flush` over them gives the computed rows (`FlushSame`,
  `FlushUnread`), and these are the rows of `Orders`' action (`CommitDetect`,
  `CommitEdit`, `CommitHandler`, `CommitPass`).
- `RCSpecKept`: `TypeOK`, `ReservedOnlyWhilePending`, `ConfirmedInSync`,
  `ReservationsCovered`, `ReservationsBacked` and `NoRecentDuplicates` hold of
  overlapping sessions until the first stale commit. Steps of `Orders` keep them
  by the lemmas above; a pass of the job does because the sum over the holders
  splits into those it expires and the others (`SumSplit`, `PassKeeps`).

**WalletProofs.** Assumptions (`Wallet`): finitely many charges, named by
positive days; amounts positive, costs and thresholds natural; the job's session
is no debit's. `SpecInStepUnlessRaced`, `SpecNoOverspend`,
`SpecEmptyFlagUnlessCrossed`, `SpecRemindersComeNearer`. `IInv` says who may write
a charge: what a debit got is locked by it and still as it read it
(`GotIsHeld`), so the value it computed in Python is right when it commits; what
the job has seen of a charge is *at least* what is left (`SeenIsEnough`), since
until the job's write others can only take from it. This inequality is what
makes the errors of a race fall on the owner's side. For the reminders, what was
sent is on the charge or on the job's list (`ToldIsNoted`), and what is due is
nearer (`DueIsNearer`).

**Sums.** Totals of credit and of held units are `SumFunctionOnSet` of the
community modules. Induction over a finite set is used in the form that a
non-empty set of counterexamples has a smallest member (`Minimal`, from the
well-foundedness of strict inclusion); from this follow the lemmas about sums
that both modules need: any member may be taken out (`SumRemove`), sums can be
added (`SumLinear`) and split (`SumSplit`), and a function that is nowhere above
another has no larger sum (`SumAtMost`).

**PaymentsProofs.** Assumptions: there is an owner, referrers are other owners.
`SpecCreditedUnlessStale`, `SpecOneCreditPerCode`, `SpecRewardedOnce`,
`SpecUsedCountUnlessLost`, `SpecToldUnlessUndone`, `SpecTypeOK`. The positions
at which a session holds the payment, the use, the code and the owner exclude
each other (`Exclusive`), and what was read before a lock is still so under it:
the payment PENDING unless stale, the use new, the referral pending. Only a card
payment's session gets to the point between message and commit.

**ShopChatProofs.** `SpecHistoryMissesNoText`: who is between reading the history
and saving the turn holds the customer's row (`RowIsHeld`), and turns saved without
it have no text. `SpecAnswersAreSaved`:
a message that no fault has met is at one place only, of its handler, the buffer,
one burst and one turn, and enters the first of them once (`Places`).
`SpecKeepsPromise`: with both, each step of `ShopChat` is a step of `Inbox` or
leaves its state alone, for any size of the memory of updates.

*Throttle*. Assumptions: the delays are ordered as in the code, limits are
positive, and a burst of `MaxMessages` texts `MinDelay` apart fits the limiter's
window. `SpecBufferWaitBounded`: the buffer is empty, or its age and the sleep
that is left are within `MaxWait` together, or some text that the limiter still
counts came when the buffer was at most `MaxWait` old and the n-th text since has
put the answer off by at most n times `MinDelay` (`WaitInv`). Such an entry is
young enough never to be dropped from the deque, and the deque is never longer
than `MaxMessages`: that is where the rate limiter is needed.

**DeskProofs.** `SpecNoGapUnlessExcused`, `SpecOneRunUnlessExcused`,
`SpecOnceUnlessExcused`. All that was asked before a state, or before the step of a
handler at work, is answered (`Gapless`); the answers below the step that a form has reached belong
to its last run, or both runs are excused; two handlers at work are both
excused; a run that has saved leaves neither state nor answers behind.

**RegistrationProofs.** Assumption: the modes are the three known ones.
`SpecVerifiedUnlessSwitched` (a code that may still be accepted was sent to the
address of the form), `SpecReferredUnlessLost` (the form has the link until
a row has it; links and stray arguments are disjoint), `SpecOneTrialUnlessRaced` (at most one handler is giving the trial).

**ShopBotsProofs.** `SpecInStepWhenQuiet`: without a crossing or failure one
handler acts at a time, on the row as it read it, and the manager is as far as
that handler's position says (`OneActs`, `Stage`).

**JobsProofs.** Assumption: the periods are positive. `SpecReportsSpacedUnlessBroken`
(`last_report_sent_at` is true unless a mark was rolled back), `SpecNoticeBeforeExpiry`,
`SpecRenewalsAddUpUnlessCrossed` (an open renewal has read the latest subscription).

**What the proofs found.** Two attempts failed for a reason in the model. In
`ShopChat` a handled update was always acknowledged, so the bounded memory of
updates could never matter; the lost answer (`Answer200`) was added. In `Desk` a
third run of the one form that does not check its state could save with answers
of two earlier runs, none excused; `Arrive` now excuses all of them. Neither shows
within the bounds that the runs had.

**Only model-checked.** All liveness (`ReservationEnds`, `CandidateEnds`,
`DebitEnds`, `StaleExpires`, `SessionEnds`, `CircuitCloses`, `CallEnds`,
`PassesComplete`, and that no message is held for ever in `KeepsPromise`), which is
outside the prover's reach. Every safety property of a passing run is proved.
`CreditedOnce` is refuted.

## 5. Not modelled

Mail, SMS and encryption (calls of external services and of a library), texts,
keyboards and validators (pure text; which buttons a message carries is modelled
where a handler depends on it). Inside the modelled components: wording, prices,
phone numbers; the amounts of payments (`_generate_unique_amount`, the
zero-amount case); what prompts say and how answers are parsed; the Excel format;
the membership cache of `ChannelGateMiddleware` (every answer is possible at any
time); the admin's switches and deletions that one press makes on one row; the
legacy `create_order`, `activate_trial` and `extend_by_days`, which nothing calls.
`purchase_or_renew` is modelled, but only a payment of the old purpose
SUBSCRIPTION reaches it. In `Payments` the conversation moves together with the
database; in `Registration` and `Desk` it does not, as in the code.

Approximations, each of which makes a model more regular than the code:

- `Orders`, `OrdersRC`: the owner's buttons count as sent when the customer's
  confirmation is committed. `customer.py:502` sends them before; a commit that
  fails then leaves them on an order still AWAITING, and if that is later CANCELLED,
  `confirm_order` (`order_service.py:248-251`) would accept it. `Rollback` has no
  such remains;
- `Wallet`, `Jobs`: a `TelegramAPIError` means not delivered
  (`wallet_expiry_service.py:35-38`, `report_service.py:38`). After a timeout the
  message may have arrived all the same, and it is sent again;
- `Throttle`: the rate check and the scheduling of a text are one step, though
  `_check_access` (`customer.py:80`) and the end of the handler (`:129`, `:356`) are
  some queries apart, at most a tick; that a full window of texts fits the limiter's
  window is an assumption that the default settings meet and an admin may break;
- `OrderOps`: an order's type is part of its customer (`Customers` are pairs of
  customer and type, the key of `get_recent_duplicate`).

Observations that no property is about:

- the docstring of `MenuButtonEscapeMiddleware` exempts the preview so that
  `preview_message` gets button texts, but handlers registered before it take
  them; `_KNOWN_MENU_BUTTONS` (`router.py:8-37`) lacks two buttons of the panel
  (`keyboards.py:56`, `:65`), which are therefore answers in an admin's form, and one
  of them is saved as AI instructions (`panel.py:167-174`);
- the states of the registration take any text, so that /panel becomes a name;
  in an admin's form /cancel is an answer (`GetsThrough`);
- a comment at `customer.py:414-416` says that the next classification sees the
  question that was asked back; a burst that had read its history before does not
  (the turn without a text of `HistoryMissesNoText`);
- `cmd_start` keeps any argument, so that a second /start with a mistyped code
  takes the first one's referral away without a word (`ReferredUnlessLost`);
- `cb_check_channels_membership` does not ask for `allow_new_registrations`
  (`start.py:104`), which `cmd_start` does and the admin guide promises
  (`docs/admin-guide.md:134`);
- keys in the pool alone do not make the chat work: `customer.py:220` asks for the
  settings' own key first;
- an order without a product never ends (section 2).

Differences between docs and code met on the way that no run is about: the
guides still describe a fixed reward for both sides of a referral
(`docs/admin-guide.md:181`, `docs/user-guide.md:79`), the code gives the
referrer a percentage; the admin guide says units are reserved when the AI
recognises the order (`docs/admin-guide.md:92`), the code reserves when the
customer confirms; a referral whose first payment falls in a time with
percentage zero is never rewarded; `max_uses` is checked only when a code is
typed.

## 6. Plan

1. (done) `OrderOps`, `Orders`, `OrdersRC`, `OrdersProofs`; `Wallet`; `Payments`.
2. (done) `ShopChat` with `Inbox`, `Throttle`; `ShopBots`, `Registration`, `Desk`,
   `Jobs`.
3. (done) Theorems for every safety property of the runs, the safety part of the
   refinement of `Inbox`, and the step from `Orders` to overlapping sessions.

Left: the amounts of payments and `_generate_unique_amount`, and the types of the
calls in `Throttle`, of which no run says anything.
