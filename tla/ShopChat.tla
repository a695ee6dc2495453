------------------------------ MODULE ShopChat ------------------------------
(***************************************************************************)
(* The shop bot's conversation with one customer: from Telegram's webhook  *)
(* through the guard against repeated updates, the checks of              *)
(* _check_access, the debounce buffer and its task, to the reply, its      *)
(* price and the saved turn, and on to the order detection that follows.   *)
(*                                                                         *)
(* Messages are delivered concurrently, and repeatedly. The dictionaries   *)
(* of customer.py and rate_limiter.py are keyed by shop and customer: one  *)
(* key is modelled.                                                        *)
(* get_or_create_customer writes the customer's row, so each session that  *)
(* calls it holds that row from there to its commit.                       *)
(*                                                                         *)
(* Time is left out: a task's sleep may be over at any moment, and the     *)
(* rate limiter may refuse any message. Throttle has both with their time. *)
(***************************************************************************)
EXTENDS Integers, Sequences, FiniteSets, Functions

CONSTANTS
  Messages,  \* the customer's messages
  NoMessage, \* none of them
  Kinds,     \* what they may be: functions from Messages to "text", ...
  MaxSeen,   \* _MAX_SEEN_UPDATES
  MaxFaults  \* how many exceptions, restarts and lost answers happen

ASSUME KindsAreKnown == Kinds \subseteq [Messages -> {"text", "voice", "photo", "start"}]
ASSUME NoMessageIsNone == NoMessage \notin Messages
ASSUME BoundsAreNat == MaxSeen \in Nat \ {0} /\ MaxFaults \in Nat

VARIABLES
  kind,     \* message -> its kind; never changes
  tg,       \* Telegram's side: message -> "unsent", "queued", "acked"
  seen,     \* _seen_update_ids, oldest first
  handler,  \* message -> where its handler stands
  row,      \* the customer's row: committed or not, and the session holding it
  buf,      \* _pending_buffers[key]
  asleep,   \* the tasks that sleep, named by the message that created them
  current,  \* _pending_tasks[key]; NoMessage: none
  burst,    \* task -> the processing it has begun
  turns,    \* conversation_messages: the turns saved
  told,     \* message -> what its sender was told: "none", or a conclusion
  hurt,     \* history: messages an exception, a restart or an eviction met
  faults    \* exceptions, restarts and lost answers so far

vars == <<kind, tg, seen, handler, row, buf, asleep, current, burst, turns, told,
          hurt, faults>>

-----------------------------------------------------------------------------
NoOne == <<"none", NoMessage>>
HandlerOf(m) == <<"handler", m>>
BurstOf(m) == <<"burst", m>>

\* A task that has done with its texts.
Ended(pc) == [pc |-> pc, texts |-> <<>>, history |-> 0]
NoBurst == Ended("none")

Init ==
  /\ kind \in Kinds
  /\ tg = [m \in Messages |-> "unsent"]
  /\ seen = <<>>
  /\ handler = [m \in Messages |-> "none"]
  /\ row = [saved |-> FALSE, holder |-> NoOne]
  /\ buf = <<>> /\ asleep = {} /\ current = NoMessage
  /\ burst = [m \in Messages |-> NoBurst]
  /\ turns = <<>>
  /\ told = [m \in Messages |-> "none"]
  /\ hurt = {} /\ faults = 0

\* Messages that somebody in the process still works on.
InBurst(m) ==
  \E b \in Messages : /\ burst[b].pc \in {"lock", "ai"}
                      /\ m \in Range(burst[b].texts)
Held(m) == handler[m] # "none" \/ m \in Range(buf) \/ InBurst(m)

\* Messages that a restart of the process meets.
Exposed ==
  {m \in Messages : \/ tg[m] = "queued" \/ Held(m)
                    \/ \E b \in Messages : m \in Range(burst[b].texts)}

Tell(ms, what) == told' = [m \in Messages |-> IF m \in ms THEN what ELSE told[m]]

Debouncing == <<buf, asleep, current>>
Unhurt == <<kind, hurt>>
Faultless == <<Unhurt, faults>>

-----------------------------------------------------------------------------
\* Telegram and the webhook.

\* _is_duplicate_update for an update it has not seen.
Remember(m) ==
  LET s == Append(seen, m)
  IN  IF Len(s) > MaxSeen THEN Tail(s) ELSE s

\* The webhook answers 200. The answer may not arrive, or come after Telegram's
\* time limit.
Answer200(m) ==
  \/ tg' = [tg EXCEPT ![m] = "acked"] /\ UNCHANGED faults
  \/ /\ faults < MaxFaults /\ faults' = faults + 1
     /\ tg' = [tg EXCEPT ![m] = IF @ = "acked" THEN "acked" ELSE "queued"]

\* webhook_shop: Telegram sends an update until it gets status 200, also while
\* an earlier request is still being handled. A repeated update is acknowledged.
\* (A bot that is not registered answers 404, which changes nothing.)
Repeated(m) ==
  /\ tg[m] = "queued"
  /\ m \in Range(seen)
  /\ Answer200(m)
  /\ UNCHANGED <<seen, handler, row, Debouncing, burst, turns, told, Unhurt>>

\* An update that was not seen before is remembered before it is handled. (Bound:
\* no update is forgotten and handled again while its handler still runs.)
Delivered(m) ==
  /\ tg[m] # "acked" /\ handler[m] = "none"
  /\ m \notin Range(seen)
  /\ seen' = Remember(m)
  /\ hurt' = hurt \cup (Exposed \cap (Range(seen) \ Range(Remember(m))))

-----------------------------------------------------------------------------
\* Handlers: customer_start, customer_message, customer_photo, customer_voice.
\* The settings, the wallet and the state of the shop are other components':
\* where the code reads one, every value is possible.

\* The checks pass (customer_start makes none), and the customer's row is looked
\* for.
Admit(m) ==
  /\ Delivered(m)
  /\ handler' = [handler EXCEPT ![m] = IF row.saved THEN "found" ELSE "missing"]
  /\ tg' = [tg EXCEPT ![m] = "queued"]
  /\ UNCHANGED <<row, Debouncing, burst, turns, told, kind, faults>>

\* _check_access: maintenance mode, an empty wallet or the rate limiter. The
\* customer is told.
TurnAway(m) ==
  /\ Delivered(m)
  /\ kind[m] # "start"
  /\ Answer200(m)
  /\ Tell({m}, "turned")
  /\ UNCHANGED <<handler, row, Debouncing, burst, turns, kind>>

\* The handler of m returns and the webhook answers 200.
Return(m) ==
  /\ handler' = [handler EXCEPT ![m] = "none"]
  /\ Answer200(m)

\* Mutant: the old task is cancelled, and its texts with it.
ScheduleAnew(m) ==
  /\ buf' = <<m>>
  /\ asleep' = (asleep \ {current}) \cup {m}
  /\ current' = m

\* _schedule_debounced_processing: the task that sleeps is cancelled (also one
\* whose sleep is over but that has not run yet), a new one is created.
Schedule(m) ==
  /\ buf' = Append(buf, m)
  /\ asleep' = (asleep \ {current}) \cup {m}
  /\ current' = m

\* get_or_create_customer wants the row: it waits for a session that holds it.
RowFree == row.holder = NoOne

\* ... and has lost the race for inserting it: IntegrityError, the handler
\* raises, the webhook answers 500.
InsertTwice(m) ==
  /\ handler[m] = "missing" /\ RowFree /\ row.saved
  /\ handler' = [handler EXCEPT ![m] = "none"]
  /\ hurt' = hurt \cup {m}
  /\ UNCHANGED <<tg, seen, row, Debouncing, burst, turns, told,
                 kind, faults>>

HasRow(m) ==
  /\ handler[m] \in {"found", "missing"} /\ RowFree
  /\ handler[m] = "found" <=> row.saved

\* customer_start and customer_message end at once and commit.
Enter(m) ==
  /\ HasRow(m)
  /\ kind[m] \in {"start", "text"}
  /\ row' = [row EXCEPT !.saved = TRUE]
  /\ IF kind[m] = "text"
     THEN Schedule(m) /\ UNCHANGED told
     ELSE Tell({m}, "answered") /\ UNCHANGED Debouncing
  /\ Return(m)
  /\ UNCHANGED <<seen, burst, turns, Unhurt>>

\* customer_photo and customer_voice keep the row through a download and a call
\* of the AI service.
EnterMedia(m) ==
  /\ HasRow(m)
  /\ kind[m] \in {"photo", "voice"}
  /\ row' = [row EXCEPT !.holder = HandlerOf(m)]
  /\ handler' = [handler EXCEPT ![m] = "ai"]
  /\ UNCHANGED <<tg, seen, Debouncing, burst, turns, told, Faultless>>

\* The session of this handler commits.
CommitMedia(m) ==
  /\ handler[m] = "ai"
  /\ row' = [saved |-> TRUE, holder |-> NoOne]
  /\ Return(m)
  /\ UNCHANGED <<seen, burst, turns, Unhurt>>

\* The photo goes to the owner, with the analysis if there is one; the customer
\* gets the same answer whether that worked or not.
FinishPhoto(m) ==
  /\ CommitMedia(m)
  /\ kind[m] = "photo"
  /\ Tell({m}, "answered")
  /\ UNCHANGED Debouncing

\* The transcript, paid for, goes where texts go; the balance may have run out,
\* or the call fail.
Transcribed(m) ==
  /\ CommitMedia(m)
  /\ kind[m] = "voice"
  /\ Schedule(m)
  /\ UNCHANGED told

NotTranscribed(m) ==
  /\ CommitMedia(m)
  /\ kind[m] = "voice"
  /\ Tell({m}, "turned")
  /\ UNCHANGED Debouncing

-----------------------------------------------------------------------------
\* The task: _wait_then_process and _generate_and_send_reply.

Texts(b) == Range(burst[b].texts)

\* The sleep is over: the task takes the buffer and looks at the shop and at the
\* moderation rules. A suspended shop says nothing; a text that a rule forbids
\* is turned away. (A rule that only warns lets the text pass. Bound: the task of
\* a message handled again does not run while its first burst is worked on, the
\* detection included.)
Fire(b) ==
  /\ b \in asleep /\ burst[b].pc = "none"
  /\ asleep' = asleep \ {b}
  /\ buf' = <<>> /\ current' = NoMessage
  /\ \/ /\ buf # <<>>
        /\ burst' = [burst EXCEPT ![b].pc = "lock", ![b].texts = buf]
        /\ UNCHANGED told
     \/ /\ burst' = burst
        /\ \E what \in {"ignored", "turned"} : Tell(Range(buf), what)
  /\ UNCHANGED <<tg, seen, handler, row, turns, Faultless>>

\* The rest of the process while a burst is worked on.
BurstOnly == <<tg, seen, handler, Debouncing, Faultless>>

\* The task ends with a notice, and its session commits.
TurnBurst(b) ==
  /\ burst' = [burst EXCEPT ![b] = NoBurst]
  /\ Tell(Texts(b), "turned")
  /\ row' = [saved |-> TRUE, holder |-> NoOne]
  /\ UNCHANGED <<turns, BurstOnly>>

\* Mutant: the burst does not write the customer's row, and so does not hold it.
PrepareWithoutRow(b) ==
  /\ burst[b].pc = "lock"
  /\ burst' = [burst EXCEPT ![b].pc = "ai", ![b].history = Len(turns)]
  /\ UNCHANGED <<row, turns, told, BurstOnly>>

\* The customer's row is written, the balance and the key are there, and the
\* history is read: the AI service is called.
Prepare(b) ==
  /\ burst[b].pc = "lock" /\ RowFree
  /\ burst' = [burst EXCEPT ![b].pc = "ai", ![b].history = Len(turns)]
  /\ row' = [row EXCEPT !.holder = BurstOf(b)]
  /\ UNCHANGED <<turns, told, BurstOnly>>

\* No balance, or no key.
Unserved(b) == burst[b].pc = "lock" /\ RowFree /\ TurnBurst(b)

\* The AI service gives up (AiServiceError, see Throttle).
GivenUp(b) == burst[b].pc = "ai" /\ TurnBurst(b)

\* It answers: the turn is flushed and the reply sent.
Reply(b) ==
  /\ burst[b].pc = "ai"
  /\ burst' = [burst EXCEPT ![b].pc = "sent"]
  /\ Tell(Texts(b), "answered")
  /\ UNCHANGED <<row, turns, BurstOnly>>

\* Mutant: the turn is not added to the session.
SettleUnsaved(b) ==
  /\ burst[b].pc = "sent"
  /\ burst' = [burst EXCEPT ![b] = Ended("detect")]
  /\ row' = [row EXCEPT !.holder = NoOne]
  /\ UNCHANGED <<turns, told, BurstOnly>>

\* The price is taken, the task of the order detection is created, and
\* session_scope commits. (The detection calls the AI service before it writes:
\* it is taken to go on only after this commit.)
Settle(b) ==
  /\ burst[b].pc = "sent"
  /\ burst' = [burst EXCEPT ![b] = Ended("detect")]
  /\ turns' = Append(turns, burst[b].texts)
  /\ row' = [row EXCEPT !.holder = NoOne]
  /\ UNCHANGED <<told, BurstOnly>>

-----------------------------------------------------------------------------
\* _detect_and_notify_order, in a session of its own that does not write the
\* customer's row. It concludes no message.

\* Nothing to ask: no key, no balance, no order, or one that becomes a candidate
\* (see Orders); or the question cannot be sent.
NothingToAsk(b) ==
  /\ burst[b].pc = "detect"
  /\ burst' = [burst EXCEPT ![b] = NoBurst]
  /\ UNCHANGED <<row, turns, told, BurstOnly>>

\* "unsure": the customer is asked, and the question saved as a turn without a
\* text of the customer.
AskBack(b) ==
  /\ burst[b].pc = "detect"
  /\ burst' = [burst EXCEPT ![b] = NoBurst]
  /\ turns' = Append(turns, <<>>)
  /\ UNCHANGED <<row, told, BurstOnly>>

-----------------------------------------------------------------------------
\* Faults and the rest of the world.

\* A handler raises (a message could not be sent, the database failed): its
\* session is rolled back and Telegram gets status 500.
HandlerRaises(m) ==
  /\ faults < MaxFaults /\ handler[m] # "none"
  /\ faults' = faults + 1
  /\ hurt' = hurt \cup {m}
  /\ handler' = [handler EXCEPT ![m] = "none"]
  /\ row' = IF row.holder = HandlerOf(m) THEN [row EXCEPT !.holder = NoOne] ELSE row
  /\ UNCHANGED <<tg, seen, Debouncing, burst, turns, told, kind>>

\* A task raises; the exception is logged and the session rolled back. When it is
\* the commit of an answer that fails, the detection has been started.
TaskRaises(b) ==
  /\ faults < MaxFaults /\ burst[b].pc # "none"
  /\ faults' = faults + 1
  /\ hurt' = hurt \cup Texts(b)
  /\ \/ burst' = [burst EXCEPT ![b] = NoBurst]
     \/ burst[b].pc = "sent" /\ burst' = [burst EXCEPT ![b] = Ended("detect")]
  /\ row' = IF row.holder = BurstOf(b) THEN [row EXCEPT !.holder = NoOne] ELSE row
  /\ UNCHANGED <<tg, seen, handler, Debouncing, turns, told, kind>>

\* set_webhook with drop_pending_updates, while a fault meets the messages S:
\* Telegram forgets the updates that were not acknowledged, and those it has not
\* sent yet.
DropPending(S) ==
  \E waiting \in SUBSET {m \in Messages : tg[m] = "unsent"} :
    /\ tg' = [m \in Messages |->
                IF tg[m] = "queued" \/ m \in waiting THEN "acked" ELSE tg[m]]
    /\ hurt' = hurt \cup S \cup waiting

\* register sets the webhook of a shop's bot anew (a suspension is lifted) while
\* the process goes on.
Reregistered ==
  /\ faults < MaxFaults
  /\ faults' = faults + 1
  /\ DropPending({m \in Messages : tg[m] = "queued" /\ m \notin Range(seen)})
  /\ UNCHANGED <<seen, handler, row, Debouncing, burst, turns, told, kind>>

\* The process stops and starts again: what was in memory is gone, and so are the
\* pending updates, unless setting the webhook fails.
Restart ==
  /\ faults < MaxFaults
  /\ faults' = faults + 1
  /\ (UNCHANGED tg /\ hurt' = hurt \cup Exposed) \/ DropPending(Exposed)
  /\ seen' = <<>> /\ buf' = <<>> /\ asleep' = {} /\ current' = NoMessage
  /\ handler' = [m \in Messages |-> "none"]
  /\ burst' = [m \in Messages |-> NoBurst]
  /\ row' = [row EXCEPT !.holder = NoOne]
  /\ UNCHANGED <<turns, told, kind>>

-----------------------------------------------------------------------------
Handle(m) ==
  \/ InsertTwice(m) \/ Enter(m) \/ EnterMedia(m)
  \/ FinishPhoto(m) \/ Transcribed(m) \/ NotTranscribed(m)

Process(b) ==
  \/ Fire(b) \/ Prepare(b) \/ Unserved(b) \/ GivenUp(b) \/ Reply(b) \/ Settle(b)
  \/ NothingToAsk(b) \/ AskBack(b)

Next ==
  \/ \E m \in Messages : \/ Repeated(m) \/ Admit(m) \/ TurnAway(m) \/ Handle(m)
                         \/ Process(m) \/ HandlerRaises(m) \/ TaskRaises(m)
  \/ Reregistered \/ Restart

Spec == Init /\ [][Next]_vars

\* The event loop serves every handler and task, every call of the AI service
\* ends (its session has a time limit). Nothing obliges
\* customers, Telegram or the admin.
Fairness == \A m \in Messages : WF_vars(Handle(m)) /\ WF_vars(Process(m))

FairSpec == Spec /\ Fairness

-----------------------------------------------------------------------------
TypeOK ==
  /\ kind \in Kinds
  /\ tg \in [Messages -> {"unsent", "queued", "acked"}]
  /\ seen \in Seq(Messages) /\ Len(seen) <= MaxSeen
  /\ handler \in [Messages -> {"none", "found", "missing", "ai"}]
  /\ row \in [saved : BOOLEAN,
              holder : {NoOne} \cup {HandlerOf(m) : m \in Messages}
                               \cup {BurstOf(m) : m \in Messages}]
  /\ buf \in Seq(Messages)
  /\ asleep \subseteq Messages /\ current \in Messages \cup {NoMessage}
  /\ burst \in [Messages -> [pc : {"none", "lock", "ai", "sent", "detect"},
                             texts : Seq(Messages), history : Nat]]
  /\ turns \in Seq(Seq(Messages))
  /\ told \in [Messages -> {"none", "answered", "turned", "ignored"}]
  /\ hurt \subseteq Messages
  /\ faults \in 0..MaxFaults

\* When a reply is sent, the history that the AI service was given held every
\* text answered so far: no turn with a text of this customer is saved between
\* the reading and the saving, although bursts overlap (the row that
\* get_or_create_customer writes). Only a question of the order detection, which
\* does not hold the row, may come between.
HistoryMissesNoText ==
  \A b \in Messages : burst[b].pc \in {"ai", "sent"} =>
    \A i \in DOMAIN turns : turns[i] # <<>> => i <= burst[b].history

\* Every answered text is in the saved history, or its session is about to save
\* it, unless an exception or a restart met it; and the saved history repeats
\* no text, with the same exception (save_turn, _is_duplicate_update).
AnswersAreSaved ==
  \A m \in Messages \ hurt :
    LET saved == {i \in DOMAIN turns : m \in Range(turns[i])}
    IN  /\ Cardinality(saved) <= 1
        /\ told[m] = "answered" /\ kind[m] \in {"text", "voice"} =>
             \/ saved # {}
             \/ \E b \in Messages : burst[b].pc = "sent" /\ m \in Texts(b)

-----------------------------------------------------------------------------
\* Where a message stands, for the customer.
Stage(m) ==
  IF Held(m) THEN "held"
  ELSE IF told[m] # "none" THEN told[m]
  ELSE IF tg[m] = "acked" THEN "lost" ELSE "new"

Promise == INSTANCE Inbox WITH inbox <- [m \in Messages |-> Stage(m)]

\* The bot keeps the promise of Inbox: a message is taken, then concluded once
\* with its burst, lost or repeated only after a fault has met it, and never
\* held for ever, whatever is cancelled, repeated, refused or overlapping.
KeepsPromise == Promise!Spec
=============================================================================
