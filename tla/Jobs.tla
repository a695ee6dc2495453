-------------------------------- MODULE Jobs --------------------------------
(***************************************************************************)
(* The periodic tasks: one loop runs five tasks in a fixed order, each in  *)
(* a session of its own, all of them in one try. The subscription of one   *)
(* owner and the reports of several shops are modelled here, with the      *)
(* renewals that overlap with the tasks; the wallet's and the orders'      *)
(* tasks are Wallet's and Orders', and are steps without a state here, as  *)
(* is the pruning of old conversations.                                    *)
(*                                                                         *)
(* Time is counted in intervals of the loop, and kept as ages: how long    *)
(* ago a report was sent, how long the subscription still lasts. A pass    *)
(* takes less than an interval, and so does the approval of a payment.     *)
(***************************************************************************)
EXTENDS Integers, FiniteSets

CONSTANTS
  Shops,     \* active shops
  Frequency, \* periodic_report_frequency_days
  Grace,     \* grace_period_hours
  Term,      \* how long a renewal lasts
  Renewals,  \* payments that renew the subscription
  MaxLeft,   \* bound: how far in the future the subscription may end
  MaxFaults  \* bound: exceptions and restarts

ASSUME TimesArePositive == {Frequency, Grace, Term, MaxLeft} \subseteq Nat \ {0}
ASSUME MaxFaultsIsNat == MaxFaults \in Nat

VARIABLES
  task,     \* the task at work; "wait": the loop waits
  sub,      \* the owner's latest subscription
  loaded,   \* grace task: the subscription it read is still the latest
  age,      \* shop -> age of last_report_sent_at, up to Frequency
  todo,     \* report task: shops not yet looked at
  marked,   \* report task: shops whose new last_report_sent_at is flushed
  renewal,  \* payment -> what its handler has read
  last,     \* history: shop -> age of the last report that was really sent
  early,    \* history: shops that got a report before it was due
  broken,   \* history: shops whose mark was rolled back
  unsent,   \* history: the notice for this subscription could not be sent
  fair,     \* history: what the subscription would last, had no renewals overlapped
  crossed,  \* history: two renewals overlapped
  faults    \* exceptions and restarts so far

vars == <<task, sub, loaded, age, todo, marked, renewal, last, early, broken,
          unsent, fair, crossed, faults>>

-----------------------------------------------------------------------------
NoRenewal == [open |-> FALSE, left |-> 0]

Open == {r \in Renewals : renewal[r].open}

\* A subscription that has ended while the process was down, and reports never sent.
Init ==
  /\ task = "grace"
  /\ sub \in [status : {"active"}, left : {-Grace, 1}, reminded : {FALSE}]
  /\ loaded = TRUE
  /\ age = [s \in Shops |-> Frequency] /\ last = [s \in Shops |-> Frequency]
  /\ todo = {} /\ marked = {}
  /\ renewal = [r \in Renewals |-> NoRenewal]
  /\ early = {} /\ broken = {} /\ unsent = FALSE
  /\ fair = sub.left /\ crossed = FALSE
  /\ faults = 0

AtLeastZero(n) == IF n >= 0 THEN n ELSE 0
Older(n, max) == IF n < max THEN n + 1 ELSE n
Shorter(n) == IF n > -Grace THEN n - 1 ELSE n

Subscription == <<sub, loaded, unsent, fair>>
Reports == <<age, todo, marked, last, early, broken>>
Renewing == <<renewal, crossed>>

-----------------------------------------------------------------------------
\* run_periodic_tasks: the interval is over. The grace task reads the latest
\* subscription.
Wake ==
  /\ task = "wait"
  /\ Open = {}
  /\ task' = "grace"
  /\ sub' = [sub EXCEPT !.left = Shorter(@)]
  /\ loaded' = TRUE
  /\ fair' = Shorter(fair)
  /\ age' = [s \in Shops |-> Older(age[s], Frequency)]
  /\ last' = [s \in Shops |-> Older(last[s], Frequency)]
  /\ UNCHANGED <<todo, marked, Renewing, early, broken, unsent, faults>>

\* Mutant: a subscription past its grace period expires whatever it was.
GoesAtOnce(s) ==
  CASE s.left + Grace <= 0 -> "expired"
    [] s.status = "active" /\ s.left <= 0 -> "grace"
    [] OTHER -> s.status

\* process_grace_transitions: one transition a pass.
Goes(s) ==
  CASE s.status = "active" /\ s.left <= 0 -> "grace"
    [] s.status = "grace" /\ s.left + Grace <= 0 -> "expired"
    [] OTHER -> s.status

\* The notice goes out with the first transition only. A renewal that came
\* meanwhile has a row of its own, which stays as it is.
GraceTask(delivered) ==
  /\ task = "grace"
  /\ LET notice == sub.status = "active" /\ Goes(sub) = "grace" /\ ~sub.reminded
     IN  IF ~loaded THEN UNCHANGED <<sub, unsent>>
         ELSE /\ sub' = [sub EXCEPT !.status = Goes(sub),
                                    !.reminded = @ \/ (notice /\ delivered)]
              /\ unsent' = (unsent \/ (notice /\ ~delivered))
  /\ task' = "report"
  /\ todo' = Shops
  /\ UNCHANGED <<loaded, fair, age, marked, last, early, broken, Renewing, faults>>

\* Mutant: a report is due whenever there has been one.
DueAlways(s) == TRUE

\* send_due_reports: when a shop's report is due.
Due(s) == age[s] = Frequency

\* A report that is due is sent and marked; one that cannot be sent is not marked.
Report(s, delivered) ==
  /\ task = "report" /\ s \in todo
  /\ todo' = todo \ {s}
  /\ IF Due(s) /\ delivered
     THEN /\ marked' = marked \cup {s}
          /\ early' = IF last[s] < Frequency THEN early \cup {s} ELSE early
          /\ last' = [last EXCEPT ![s] = 0]
     ELSE UNCHANGED <<marked, early, last>>
  /\ UNCHANGED <<task, Subscription, age, broken, Renewing, faults>>

ReportsDone ==
  /\ task = "report" /\ todo = {}
  /\ task' = "wallet"
  /\ age' = [s \in Shops |-> IF s \in marked THEN 0 ELSE age[s]]
  /\ marked' = {}
  /\ UNCHANGED <<Subscription, todo, last, early, broken, Renewing, faults>>

\* process_wallet_expiry_and_reminders, process_order_expiry, prune_old_messages.
OtherTask ==
  /\ task \in {"wallet", "orders", "prune"}
  /\ task' = CASE task = "wallet" -> "orders" [] task = "orders" -> "prune"
               [] task = "prune" -> "wait"
  /\ UNCHANGED <<Subscription, Reports, Renewing, faults>>

\* Mutant: the try is around the loop.
BreakOut ==
  /\ task # "wait" /\ faults < MaxFaults
  /\ task' = "stopped"
  /\ todo' = {} /\ marked' = {} /\ broken' = broken \cup marked
  /\ faults' = faults + 1
  /\ UNCHANGED <<Subscription, age, last, early, Renewing>>

\* An exception that the task does not expect: its session is rolled back, and the
\* tasks after it wait for the next pass.
Break ==
  /\ task # "wait" /\ faults < MaxFaults
  /\ task' = "wait"
  /\ todo' = {} /\ marked' = {} /\ broken' = broken \cup marked
  /\ faults' = faults + 1
  /\ UNCHANGED <<Subscription, age, last, early, Renewing>>

\* A restart begins with a pass at once. What was not committed is lost.
Restart ==
  /\ faults < MaxFaults
  /\ task' = "grace"
  /\ loaded' = TRUE
  /\ todo' = {} /\ marked' = {} /\ broken' = broken \cup marked
  /\ renewal' = [r \in Renewals |-> NoRenewal]
  /\ faults' = faults + 1
  /\ UNCHANGED <<sub, unsent, fair, age, last, early, crossed>>

-----------------------------------------------------------------------------
\* purchase_or_renew, in the session of a payment's approval: the latest
\* subscription is read ...
RenewRead(r) ==
  /\ r \notin Open
  /\ AtLeastZero(fair) + (Cardinality(Open) + 1) * Term <= MaxLeft
  /\ crossed' = (crossed \/ Open # {})
  /\ renewal' = [renewal EXCEPT ![r] = [open |-> TRUE, left |-> sub.left]]
  /\ UNCHANGED <<task, Subscription, Reports, faults>>

\* Mutant: the new term begins now.
StartsNow(r) == 0

\* ... the new one begins where it ends, or now.
StartsAt(r) == AtLeastZero(renewal[r].left)

RenewCommit(r) ==
  /\ r \in Open
  /\ sub' = [status |-> "active", left |-> StartsAt(r) + Term, reminded |-> FALSE]
  /\ loaded' = FALSE
  /\ fair' = AtLeastZero(fair) + Term
  /\ unsent' = FALSE
  /\ renewal' = [renewal EXCEPT ![r] = NoRenewal]
  /\ UNCHANGED <<task, Reports, crossed, faults>>

\* The payment's handler fails.
RenewFail(r) ==
  /\ r \in Open /\ faults < MaxFaults
  /\ renewal' = [renewal EXCEPT ![r] = NoRenewal]
  /\ faults' = faults + 1
  /\ UNCHANGED <<task, Subscription, Reports, crossed>>

-----------------------------------------------------------------------------
LoopStep ==
  \/ Wake \/ ReportsDone \/ OtherTask
  \/ \E delivered \in BOOLEAN :
       GraceTask(delivered) \/ \E s \in Shops : Report(s, delivered)

Next ==
  \/ LoopStep \/ Break \/ Restart
  \/ \E r \in Renewals : RenewRead(r) \/ RenewCommit(r) \/ RenewFail(r)

Spec == Init /\ [][Next]_vars

\* The loop's task runs, and handlers end.
FairSpec ==
  Spec /\ WF_vars(LoopStep) /\ \A r \in Renewals : WF_vars(RenewCommit(r))

-----------------------------------------------------------------------------
\* A shop gets one report a period, unless the pass that sent it broke off: one
\* shop's exception rolls back the marks of all shops before it
\* (report_service.py:34, scheduler.py:22).
ReportsSpacedUnlessBroken == early \subseteq broken

\* No subscription expires before its owner was told that its grace period began,
\* unless that message failed: it is not sent again (grace_period_service.py:31).
NoticeBeforeExpiry == sub.status = "expired" => sub.reminded \/ unsent

\* Renewals add up, also those of an expired subscription, unless two overlap: both
\* begin where the same subscription ended (subscription_service.py:47-50).
RenewalsAddUpUnlessCrossed == ~crossed => sub.left = fair

\* The last task of a pass runs again and again: an exception costs one pass
\* (scheduler.py:31).
PassesComplete == []<>(task = "prune")

=============================================================================
