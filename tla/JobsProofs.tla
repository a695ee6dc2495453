----------------------------- MODULE JobsProofs -----------------------------
(***************************************************************************)
(* Proofs about Jobs, for any shops, renewals, report frequency, grace     *)
(* period, term and number of faults. PassesComplete is about fairness and *)
(* is left to TLC.                                                         *)
(***************************************************************************)
EXTENDS Jobs, TLAPS

-----------------------------------------------------------------------------
\* The inductive invariant, in parts.

Tasks == {"wait", "grace", "report", "wallet", "orders", "prune"}

Types ==
  /\ task \in Tasks
  /\ sub \in [status : {"active", "grace", "expired"}, left : Int, reminded : BOOLEAN]
  /\ age \in [Shops -> 0..Frequency] /\ last \in [Shops -> 0..Frequency]
  /\ todo \subseteq Shops /\ marked \subseteq Shops
  /\ renewal \in [Renewals -> [open : BOOLEAN, left : Int]]
  /\ fair \in Int
  /\ {loaded, unsent, crossed} \subseteq BOOLEAN

\* Reports are marked only while the report task runs, each shop once; a shop
\* whose mark is not committed yet has just had its report.
MarksAreNew ==
  /\ marked # {} => task = "report"
  /\ todo # {} => task = "report"
  /\ todo \cap marked = {}
  /\ \A s \in marked : last[s] = 0

\* For a shop whose mark was never rolled back, last_report_sent_at tells when
\* the last report was really sent.
MarksAreTrue ==
  \A s \in Shops \ (broken \cup marked) : age[s] = last[s]

\* A subscription that is not active any more had its notice, or the notice failed.
NoticeWithGrace == sub.status # "active" => sub.reminded \/ unsent

\* As long as no renewals overlapped, the one that is open has read the latest
\* subscription.
OneRenewal ==
  ~crossed => /\ \A r \in Open : renewal[r].left = sub.left
              /\ \A r, q \in Open : r = q

IInv ==
  /\ Types
  /\ MarksAreNew /\ MarksAreTrue /\ ReportsSpacedUnlessBroken
  /\ NoticeWithGrace
  /\ OneRenewal /\ RenewalsAddUpUnlessCrossed

\* The invariant, one part per concern: an action of one concern leaves the
\* variables of the others alone.
ReportsInv == MarksAreNew /\ MarksAreTrue /\ ReportsSpacedUnlessBroken
RenewalsInv == OneRenewal /\ RenewalsAddUpUnlessCrossed

-----------------------------------------------------------------------------
\* Lemmas.

\* The constants are times.
LEMMA Times == /\ Frequency \in Nat /\ Frequency > 0 /\ Grace \in Nat /\ Term \in Nat
BY TimesArePositive

\* The invariant holds when the process starts.
LEMMA InitIInv == Init => IInv
<1> SUFFICES ASSUME Init PROVE IInv
  OBVIOUS
<1>1. Types
  <2>1. /\ sub \in [status : {"active", "grace", "expired"}, left : Int,
                    reminded : BOOLEAN]
        /\ fair \in Int
    <3> DEFINE l == -Grace
    <3>1. sub \in [status : {"active"}, left : {l, 1}, reminded : {FALSE}]
      BY DEF Init
    <3>2. l \in Int
      BY Times
    <3> HIDE DEF l
    <3>3. sub.left \in Int
      BY <3>1, <3>2
    <3>4. QED
      BY <3>1, <3>3 DEF Init
  <2>2. renewal \in [Renewals -> [open : BOOLEAN, left : Int]]
    BY DEF Init, NoRenewal
  <2>3. age \in [Shops -> 0..Frequency] /\ last \in [Shops -> 0..Frequency]
    BY Times DEF Init
  <2>4. QED
    BY <2>1, <2>2, <2>3 DEF Init, Types, Tasks
<1>2. /\ MarksAreNew /\ MarksAreTrue /\ ReportsSpacedUnlessBroken
  BY DEF Init, MarksAreNew, MarksAreTrue, ReportsSpacedUnlessBroken
<1>3. NoticeWithGrace /\ RenewalsAddUpUnlessCrossed
  BY DEF Init, NoticeWithGrace, RenewalsAddUpUnlessCrossed
<1>4. OneRenewal
  BY DEF Init, OneRenewal, Open, NoRenewal
<1>5. QED
  BY <1>1, <1>2, <1>3, <1>4 DEF IInv

\* What the reports' variables say, the steps of others do not change.
LEMMA ReportsFrame ==
  ASSUME ReportsInv, UNCHANGED Reports, task' = task \/ (marked = {} /\ todo = {})
  PROVE  ReportsInv'
BY DEF ReportsInv, MarksAreNew, MarksAreTrue, ReportsSpacedUnlessBroken, Reports

\* Rolling back a pass preserves what is said of the reports: the marks it had
\* made are known to be lost.
LEMMA ReportsBreak ==
  ASSUME ReportsInv, todo' = {}, marked' = {}, broken' = broken \cup marked,
         UNCHANGED <<age, last, early>>
  PROVE  ReportsInv'
BY DEF ReportsInv, MarksAreNew, MarksAreTrue, ReportsSpacedUnlessBroken

\* The steps of others change nothing of what is said of the renewals.
LEMMA RenewalsFrame ==
  ASSUME RenewalsInv, sub'.left = sub.left, UNCHANGED <<fair, Renewing>>
  PROVE  RenewalsInv'
BY DEF RenewalsInv, OneRenewal, RenewalsAddUpUnlessCrossed, Renewing, Open

\* Closing renewals that have not committed preserves what is said of the others.
LEMMA RenewalsClose ==
  ASSUME RenewalsInv, UNCHANGED <<sub, fair, crossed>>, Open' \subseteq Open,
         \A r \in Open' : renewal'[r] = renewal[r]
  PROVE  RenewalsInv'
<1>1. \A r, q \in Open' : ~crossed => r = q
  BY DEF RenewalsInv, OneRenewal
<1>2. \A r \in Open' : ~crossed => renewal'[r].left = sub'.left
  BY DEF RenewalsInv, OneRenewal
<1>3. QED
  BY <1>1, <1>2 DEF RenewalsInv, OneRenewal, RenewalsAddUpUnlessCrossed

\* The loop's steps preserve the invariant.
LEMMA LoopIInv ==
  ASSUME IInv, LoopStep
  PROVE  IInv'
<1> USE DEF IInv
<1>0. ReportsInv /\ RenewalsInv
  BY DEF ReportsInv, RenewalsInv
<1>1. CASE Wake
  <2>1. Types'
    BY <1>1, Times DEF Wake, Types, Tasks, Shorter, Older, Renewing
  <2>2. marked = {} /\ todo = {} /\ UNCHANGED <<marked, todo, broken, early>>
    BY <1>1 DEF Wake, MarksAreNew
  <2>3. MarksAreTrue'
    BY <1>1, <2>2 DEF Wake, MarksAreTrue
  <2>4. MarksAreNew' /\ ReportsSpacedUnlessBroken'
    BY <2>2 DEF MarksAreNew, ReportsSpacedUnlessBroken
  <2>5. NoticeWithGrace'
    BY <1>1 DEF Wake, NoticeWithGrace, Types
  <2>6. OneRenewal' /\ RenewalsAddUpUnlessCrossed'
    <3>1. Open' = {} /\ crossed' = crossed
      BY <1>1 DEF Wake, Open, Renewing
    <3>2. sub'.left = Shorter(sub.left) /\ fair' = Shorter(fair)
      BY <1>1 DEF Wake, Types
    <3>3. QED
      BY <3>1, <3>2 DEF OneRenewal, RenewalsAddUpUnlessCrossed
  <2>7. QED
    BY <2>1, <2>3, <2>4, <2>5, <2>6
<1>2. ASSUME NEW delivered \in BOOLEAN, GraceTask(delivered)
      PROVE  IInv'
  <2>1. /\ task = "grace" /\ task' = "report" /\ todo' = Shops /\ marked = {}
        /\ UNCHANGED <<age, marked, last, early, broken>>
    BY <1>2 DEF GraceTask, MarksAreNew
  <2>2. MarksAreNew' /\ MarksAreTrue' /\ ReportsSpacedUnlessBroken'
    BY <2>1 DEF MarksAreNew, MarksAreTrue, ReportsSpacedUnlessBroken
  <2>3. /\ Goes(sub) \in {"active", "grace", "expired"}
        /\ Goes(sub) # "active" /\ sub.status = "active" => Goes(sub) = "grace"
    BY DEF Goes, Types
  <2>4. Types' /\ sub'.left = sub.left /\ NoticeWithGrace'
    <3>1. CASE ~loaded
      BY <1>2, <2>1, <3>1 DEF GraceTask, Types, Tasks, NoticeWithGrace, Renewing
    <3>2. CASE loaded
      <4> DEFINE notice == sub.status = "active" /\ Goes(sub) = "grace" /\ ~sub.reminded
      <4>1. /\ sub' = [sub EXCEPT !.status = Goes(sub),
                                  !.reminded = @ \/ (notice /\ delivered)]
            /\ unsent' = (unsent \/ (notice /\ ~delivered))
        BY <1>2, <3>2 DEF GraceTask
      <4>2. notice \in BOOLEAN /\ sub.reminded \in BOOLEAN /\ unsent \in BOOLEAN
        BY DEF Types
      <4>3. /\ sub'.status = Goes(sub) /\ sub'.left = sub.left
            /\ sub'.reminded = (sub.reminded \/ (notice /\ delivered))
        BY <4>1 DEF Types
      <4>4. NoticeWithGrace'
        BY <2>3, <4>1, <4>2, <4>3 DEF NoticeWithGrace
      <4>5. sub' \in [status : {"active", "grace", "expired"}, left : Int,
                      reminded : BOOLEAN]
        BY <2>3, <4>1, <4>2 DEF Types
      <4>6. unsent' \in BOOLEAN
        BY <4>1, <4>2
      <4>7. Types'
        BY <1>2, <2>1, <4>5, <4>6 DEF GraceTask, Types, Tasks, Renewing
      <4>8. QED
        BY <4>3, <4>4, <4>7
    <3>3. QED
      BY <3>1, <3>2
  <2>5. OneRenewal' /\ RenewalsAddUpUnlessCrossed'
    BY <1>0, <1>2, <2>4, RenewalsFrame DEF GraceTask, RenewalsInv
  <2>6. QED
    BY <2>2, <2>4, <2>5
<1>3. ASSUME NEW s \in Shops, NEW delivered \in BOOLEAN, Report(s, delivered)
      PROVE  IInv'
  <2>1. /\ task = "report" /\ s \in todo /\ s \notin marked /\ todo' = todo \ {s}
        /\ UNCHANGED <<task, Subscription, age, broken, Renewing, faults>>
    BY <1>3 DEF Report, MarksAreNew
  <2>2. CASE Due(s) /\ delivered
    <3>1. /\ marked' = marked \cup {s} /\ last' = [last EXCEPT ![s] = 0]
          /\ early' = IF last[s] < Frequency THEN early \cup {s} ELSE early
      BY <1>3, <2>2 DEF Report
    <3>2. s \notin broken => last[s] = Frequency
      BY <2>1, <2>2 DEF Due, MarksAreTrue
    <3>3. ReportsSpacedUnlessBroken'
      BY <2>1, <3>1, <3>2, Times DEF ReportsSpacedUnlessBroken
    <3>4. MarksAreNew' /\ MarksAreTrue'
      BY <2>1, <3>1 DEF MarksAreNew, MarksAreTrue, Types
    <3>5. Types'
      BY <2>1, <3>1, Times DEF Types, Subscription, Renewing
    <3>6. QED
      BY <1>0, <2>1, <3>3, <3>4, <3>5, RenewalsFrame
         DEF RenewalsInv, NoticeWithGrace, Subscription
  <2>3. CASE ~(Due(s) /\ delivered)
    <3>1. UNCHANGED <<marked, early, last>>
      BY <1>3, <2>3 DEF Report
    <3>2. Types' /\ MarksAreNew' /\ MarksAreTrue' /\ ReportsSpacedUnlessBroken'
      BY <2>1, <3>1 DEF Types, MarksAreNew, MarksAreTrue, ReportsSpacedUnlessBroken,
                        Subscription, Renewing
    <3>3. QED
      BY <1>0, <2>1, <3>2, RenewalsFrame
         DEF RenewalsInv, NoticeWithGrace, Subscription
  <2>4. QED
    BY <2>2, <2>3
<1>4. CASE ReportsDone
  <2>1. /\ task = "report" /\ todo = {} /\ task' = "wallet" /\ marked' = {}
        /\ age' = [s \in Shops |-> IF s \in marked THEN 0 ELSE age[s]]
        /\ UNCHANGED <<Subscription, todo, last, early, broken, Renewing, faults>>
    BY <1>4 DEF ReportsDone
  <2>2. Types'
    BY <2>1, Times DEF Types, Tasks, Subscription, Renewing
  <2>3. MarksAreNew' /\ MarksAreTrue' /\ ReportsSpacedUnlessBroken'
    BY <2>1 DEF MarksAreNew, MarksAreTrue, ReportsSpacedUnlessBroken, Types
  <2>4. QED
    BY <1>0, <2>1, <2>2, <2>3, RenewalsFrame
       DEF RenewalsInv, NoticeWithGrace, Subscription
<1>5. CASE OtherTask
  <2>1. /\ task' \in Tasks /\ task # "report" /\ task' # "report"
        /\ UNCHANGED <<Subscription, Reports, Renewing, faults>>
    BY <1>5 DEF OtherTask, Tasks
  <2>2. Types'
    BY <2>1 DEF Types, Subscription, Reports, Renewing
  <2>3. ReportsInv'
    BY <1>0, <2>1, ReportsFrame DEF MarksAreNew
  <2>4. QED
    BY <1>0, <2>1, <2>2, <2>3, RenewalsFrame
       DEF ReportsInv, RenewalsInv, NoticeWithGrace, Subscription
<1>6. QED
  BY <1>1, <1>2, <1>3, <1>4, <1>5 DEF LoopStep

\* Exceptions, restarts and failed handlers preserve the invariant.
LEMMA FaultIInv ==
  ASSUME IInv, Break \/ Restart \/ \E r \in Renewals : RenewFail(r)
  PROVE  IInv'
<1> USE DEF IInv
<1>0. ReportsInv /\ RenewalsInv
  BY DEF ReportsInv, RenewalsInv
<1>1. CASE Break
  <2>1. Types'
    BY <1>1 DEF Break, Types, Tasks, Subscription, Renewing
  <2>2. ReportsInv'
    BY <1>0, <1>1, ReportsBreak DEF Break
  <2>3. RenewalsInv'
    BY <1>0, <1>1, RenewalsFrame DEF Break, Subscription
  <2>4. QED
    BY <1>1, <2>1, <2>2, <2>3
       DEF Break, ReportsInv, RenewalsInv, NoticeWithGrace, Subscription
<1>2. CASE Restart
  <2>1. Types'
    BY <1>2 DEF Restart, Types, Tasks, NoRenewal
  <2>2. ReportsInv'
    BY <1>0, <1>2, ReportsBreak DEF Restart
  <2>3. Open' = {}
    BY <1>2 DEF Restart, Open, NoRenewal
  <2>4. RenewalsInv'
    BY <1>0, <1>2, <2>3, RenewalsClose DEF Restart
  <2>5. QED
    BY <1>2, <2>1, <2>2, <2>4 DEF Restart, ReportsInv, RenewalsInv, NoticeWithGrace
<1>3. ASSUME NEW r \in Renewals, RenewFail(r)
      PROVE  IInv'
  <2>1. /\ renewal' = [renewal EXCEPT ![r] = NoRenewal]
        /\ UNCHANGED <<task, Subscription, Reports, crossed>>
    BY <1>3 DEF RenewFail
  <2>2. Types'
    BY <2>1 DEF Types, NoRenewal, Subscription, Reports
  <2>3. Open' = Open \ {r} /\ \A q \in Open' : renewal'[q] = renewal[q]
    BY <2>1 DEF Open, NoRenewal, Types
  <2>4. RenewalsInv'
    BY <1>0, <2>1, <2>3, RenewalsClose DEF Subscription
  <2>5. ReportsInv'
    BY <1>0, <2>1, ReportsFrame
  <2>6. QED
    BY <2>1, <2>2, <2>4, <2>5 DEF ReportsInv, RenewalsInv, NoticeWithGrace, Subscription
<1>4. QED
  BY <1>1, <1>2, <1>3

\* A renewal that reads the subscription, and one that commits, preserve the
\* invariant.
LEMMA RenewIInv ==
  ASSUME IInv, NEW r \in Renewals, RenewRead(r) \/ RenewCommit(r)
  PROVE  IInv'
<1> USE DEF IInv
<1>0. ReportsInv /\ RenewalsInv
  BY DEF ReportsInv, RenewalsInv
<1>1. CASE RenewRead(r)
  <2>1. /\ renewal' = [renewal EXCEPT ![r] = [open |-> TRUE, left |-> sub.left]]
        /\ crossed' = (crossed \/ Open # {}) /\ r \notin Open
        /\ UNCHANGED <<task, Subscription, Reports, faults>>
    BY <1>1 DEF RenewRead
  <2>2. Types'
    BY <2>1 DEF Types, Subscription, Reports
  <2>3. ReportsInv'
    BY <1>0, <2>1, ReportsFrame
  <2>4. Open' = Open \cup {r} /\ renewal'[r].left = sub.left
    BY <2>1 DEF Open, Types
  <2>5. ~crossed' => Open' = {r} /\ ~crossed
    BY <2>1, <2>4 DEF Types
  <2>6. OneRenewal' /\ RenewalsAddUpUnlessCrossed'
    BY <2>1, <2>4, <2>5 DEF OneRenewal, RenewalsAddUpUnlessCrossed, Subscription
  <2>7. QED
    BY <2>1, <2>2, <2>3, <2>6 DEF ReportsInv, NoticeWithGrace, Subscription
<1>2. CASE RenewCommit(r)
  <2>1. /\ r \in Open /\ renewal' = [renewal EXCEPT ![r] = NoRenewal]
        /\ sub' = [status |-> "active", left |-> StartsAt(r) + Term, reminded |-> FALSE]
        /\ loaded' = FALSE /\ unsent' = FALSE /\ fair' = AtLeastZero(fair) + Term
        /\ UNCHANGED <<task, Reports, crossed, faults>>
    BY <1>2 DEF RenewCommit
  <2>2. StartsAt(r) \in Int /\ AtLeastZero(fair) \in Int
    BY DEF StartsAt, AtLeastZero, Types
  <2>3. Types'
    <3>1. StartsAt(r) + Term \in Int /\ fair' \in Int
      BY <2>1, <2>2, Times
    <3>2. sub' \in [status : {"active", "grace", "expired"}, left : Int,
                    reminded : BOOLEAN]
      BY <2>1, <3>1
    <3>3. renewal' \in [Renewals -> [open : BOOLEAN, left : Int]]
      BY <2>1 DEF Types, NoRenewal
    <3>4. QED
      BY <2>1, <3>1, <3>2, <3>3 DEF Types, Reports
  <2>4. ReportsInv'
    BY <1>0, <2>1, ReportsFrame
  <2>5. Open' = Open \ {r}
    BY <2>1 DEF Open, NoRenewal, Types
  <2>6. ~crossed => Open' = {} /\ StartsAt(r) = AtLeastZero(fair)
    BY <2>1, <2>5 DEF OneRenewal, RenewalsAddUpUnlessCrossed, StartsAt
  <2>7. OneRenewal' /\ RenewalsAddUpUnlessCrossed'
    BY <2>1, <2>6 DEF OneRenewal, RenewalsAddUpUnlessCrossed
  <2>8. QED
    BY <2>1, <2>3, <2>4, <2>7 DEF ReportsInv, NoticeWithGrace
<1>3. QED
  BY <1>1, <1>2

\* Every step preserves the invariant.
LEMMA NextIInv == IInv /\ [Next]_vars => IInv'
<1> SUFFICES ASSUME IInv, [Next]_vars PROVE IInv'
  OBVIOUS
<1>1. CASE UNCHANGED vars
  BY <1>1 DEF vars, IInv, Types, MarksAreNew, MarksAreTrue, ReportsSpacedUnlessBroken,
              NoticeWithGrace, OneRenewal, Open, RenewalsAddUpUnlessCrossed
<1>2. QED
  BY <1>1, LoopIInv, FaultIInv, RenewIInv DEF Next

-----------------------------------------------------------------------------
\* Theorems.

\* The invariant holds in every reachable state.
THEOREM SpecIInv == Spec => []IInv
BY InitIInv, NextIInv, PTL DEF Spec

\* A shop gets a second report before it is due only if a pass that had marked it
\* was rolled back.
THEOREM SpecReportsSpacedUnlessBroken == Spec => []ReportsSpacedUnlessBroken
<1>1. IInv => ReportsSpacedUnlessBroken
  BY DEF IInv
<1>2. QED
  BY <1>1, SpecIInv, PTL

\* No subscription expires before its owner had the notice of its grace period,
\* or the notice failed: process_grace_transitions takes one transition a pass.
THEOREM SpecNoticeBeforeExpiry == Spec => []NoticeBeforeExpiry
<1>1. IInv => NoticeBeforeExpiry
  BY DEF IInv, NoticeWithGrace, NoticeBeforeExpiry
<1>2. QED
  BY <1>1, SpecIInv, PTL

\* Renewals that do not overlap add up: none shortens what was paid for.
THEOREM SpecRenewalsAddUpUnlessCrossed == Spec => []RenewalsAddUpUnlessCrossed
<1>1. IInv => RenewalsAddUpUnlessCrossed
  BY DEF IInv
<1>2. QED
  BY <1>1, SpecIInv, PTL
=============================================================================
