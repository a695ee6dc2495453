----------------------------- MODULE DeskProofs -----------------------------
(***************************************************************************)
(* What the forms save, for any number of handlers at once, of openings    *)
(* and of faults: all that was asked, the answers of one run, and once.    *)
(*                                                                         *)
(* The argument follows the answers. Those below the step a form has       *)
(* reached (by its state, by the last run's keyboard or by a handler at    *)
(* work) belong to the form's last run, or both that run and theirs are    *)
(* excused; two handlers at work are both excused, so whatever happens     *)
(* between a handler's arrival and its end is excused too; all that was    *)
(* asked before a state, or before a handler's step, is answered then; and *)
(* a run that has saved leaves neither state nor answers behind.           *)
(***************************************************************************)
EXTENDS Desk, TLAPS, SequenceTheorems, FiniteSetTheorems

-----------------------------------------------------------------------------
\* Types.

FormNames == DOMAIN Forms

PartRow == [form : FormNames, step : Nat, run : Nat]

WorkRow ==
  [pc : {"idle", "arrived", "written", "cleared"}, form : FormNames \cup {"none"},
   step : Nat, run : Nat, parts : SUBSET PartRow]

SavedRow == [form : FormNames, runs : SUBSET Nat]

Types ==
  /\ at \in [form : FormNames \cup {"none"}, step : Nat]
  /\ data \subseteq PartRow
  /\ runs \in Seq(FormNames)
  /\ prompts \subseteq Nat \X Nat
  /\ work \in [Handlers -> WorkRow]
  /\ saved \in Seq(SavedRow)
  /\ excused \subseteq Nat
  /\ faults \in Nat

-----------------------------------------------------------------------------
\* What fits together.

IsRun(f, r) == r \in DOMAIN runs /\ runs[r] = f

\* RunOf finds the last run of every form that was opened.
RunsHaveLast ==
  \A r \in DOMAIN runs : IsRun(runs[r], RunOf(runs[r])) /\ r <= RunOf(runs[r])

AtFits ==
  at # Nowhere => /\ at.form \in FormNames /\ at.step \in 1..LastStep(at.form)
                  /\ \E r \in DOMAIN runs : runs[r] = at.form

DataFits ==
  \A p \in data : /\ IsRun(p.form, p.run) /\ p.step < LastStep(p.form)
                  /\ p.step = 0 => Forms[p.form].target

PromptsFit ==
  \A r, i \in Nat : <<r, i>> \in prompts => r \in DOMAIN runs /\ i \in 2..LastStep(runs[r])

AtWork(h) == work[h].pc # "idle"

WorkFits ==
  \A h \in Handlers : AtWork(h) =>
    /\ work[h].form \in FormNames /\ IsRun(work[h].form, work[h].run)
    /\ work[h].step \in 1..LastStep(work[h].form)

\* What a handler has read and will save.
Wrote(h) == work[h].pc \in {"written", "cleared"}

\* What is saved of the run r, has a run of its own and only excused others.
MainRun(rs, r) == r \in rs /\ \A q \in rs : q = r \/ q \in excused

PartsFit ==
  \A h \in Handlers : Wrote(h) =>
    /\ MainRun({p.run : p \in work[h].parts}, work[h].run)
    /\ \A p \in work[h].parts : p.run \in DOMAIN runs
    /\ work[h].step = LastStep(work[h].form) /\ Forms[work[h].form].effect # "none"

SavedFits ==
  \A i \in DOMAIN saved :
    /\ saved[i].runs \subseteq DOMAIN runs
    /\ \E r \in saved[i].runs : MainRun(saved[i].runs, r)

-----------------------------------------------------------------------------
\* Whose answers are kept.

Same(q, r) == q = r \/ (q \in excused /\ r \in excused)

\* Two handlers at work are both excused.
Alone ==
  \A g, h \in Handlers : AtWork(g) /\ AtWork(h) /\ g # h => work[h].run \in excused

\* A handler works on the form's last run, unless both are excused.
OnLastRun ==
  \A h \in Handlers : AtWork(h) => Same(work[h].run, RunOf(work[h].form))

\* The step that form f has reached, by its state or by its last run's keyboard.
Reached(f, i) ==
  \/ at # Nowhere /\ at.form = f /\ at.step = i
  \/ (\E r \in DOMAIN runs : runs[r] = f) /\ <<RunOf(f), i>> \in prompts

AnswersOfLastRun ==
  \A p \in data : \A i \in Nat :
    Reached(p.form, i) /\ p.step < i => Same(p.run, RunOf(p.form))

AnswersOfWork ==
  \A h \in Handlers : work[h].pc \in {"arrived", "written"} =>
    \A p \in data : p.form = work[h].form /\ p.step < work[h].step =>
      Same(p.run, work[h].run)

-----------------------------------------------------------------------------
\* What was asked is answered.

\* The answers d have all that form f has asked before step k.
FilledIn(d, f, k) == \A i \in Asked(f, k) : \E p \in d : p.form = f /\ p.step = i

AtHasAll ==
  at # Nowhere /\ RunOf(at.form) \notin excused => FilledIn(data, at.form, at.step)

WorkHasAll ==
  \A h \in Handlers :
    work[h].pc \in {"arrived", "written"} /\ work[h].run \notin excused
      /\ Forms[work[h].form].guarded => FilledIn(data, work[h].form, work[h].step)

Gapless == AtHasAll /\ WorkHasAll

-----------------------------------------------------------------------------
\* A run that has saved.

SavedBy(r) == {i \in DOMAIN saved : r \in saved[i].runs}
Done(r) == SavedBy(r) # {}

IsSend(h) == Forms[work[h].form].effect = "send"

\* A broadcast of run r is sent, and its form not yet cleared.
Sending(r) ==
  \E h \in Handlers : work[h].pc = "written" /\ IsSend(h) /\ work[h].run = r

\* After the clearing, neither answers nor state of the run are left.
ClearedIsEmpty ==
  \A h \in Handlers : work[h].pc = "cleared" /\ work[h].run \notin excused =>
    /\ \A p \in data : p.run # work[h].run
    /\ at = Nowhere \/ at.form # work[h].form

SavedOnce(r) == \A i, j \in SavedBy(r) : i = j

\* A run that has saved cannot go on.
DoneLeavesNothing(r) ==
  Done(r) /\ ~Sending(r) =>
    /\ \A p \in data : p.run # r
    /\ at # Nowhere /\ at.form = runs[r] => RunOf(at.form) # r

DoneIsOver(r) ==
  Done(r) =>
    \A h \in Handlers : AtWork(h) /\ work[h].run = r =>
      \/ IsSend(h) /\ Wrote(h)
      \/ /\ ~Forms[work[h].form].guarded /\ work[h].pc = "arrived"
         /\ work[h].step = LastStep(work[h].form)

Once ==
  \A r \in DOMAIN runs : r \notin excused =>
    SavedOnce(r) /\ DoneLeavesNothing(r) /\ DoneIsOver(r)

Fits == RunsHaveLast /\ AtFits /\ DataFits /\ PromptsFit /\ WorkFits /\ PartsFit /\ SavedFits

Answers == Alone /\ OnLastRun /\ AnswersOfLastRun /\ AnswersOfWork

IInv == Types /\ Fits /\ Answers /\ Gapless /\ ClearedIsEmpty /\ Once

-----------------------------------------------------------------------------
\* The forms.

\* What the proofs need to know of a row of the table of forms.
Sound(F) ==
  /\ Len(F.steps) \in Nat \ {0}
  /\ F.effect = "none" => Len(F.steps) = 1
  /\ ~F.guarded => Len(F.steps) = 2 /\ F.effect = "write" /\ ~F.target /\ F.optional = {}

\* Every row of the table is sound.
LEMMA RowsAreSound ==
  /\ Sound(Preview) /\ Preview.effect = "none"
  /\ \A F \in {Broadcast, Channel, Plan, DiscountCode, Setting, RateLimit, Gift,
               Correction, ModerationRule, AiPoolEntry, Operator, Token, Instructions,
               Knowledge, NewProduct, Import, EditProduct} :
       Sound(F) /\ F.effect # "none"
BY DEF Sound, Panel, Admin, Broadcast, Channel, Plan, DiscountCode,
       Setting, RateLimit, Gift, Correction, ModerationRule, AiPoolEntry, Operator, Token,
       Instructions, Preview, Knowledge, NewProduct, Import, EditProduct

\* The table has these rows, and only the preview has no effect.
LEMMA FormFacts ==
  /\ "none" \notin FormNames
  /\ \A f \in FormNames :
       /\ LastStep(f) \in Nat \ {0}
       /\ Forms[f].effect = "none" <=> f = "preview"
       /\ Forms[f].effect = "none" => LastStep(f) = 1
       /\ ~Forms[f].guarded => /\ LastStep(f) = 2 /\ Forms[f].effect = "write"
                               /\ ~Forms[f].target /\ Forms[f].optional = {}
<1>1. FormNames = {"broadcast", "channel", "plan", "discount", "setting", "rateLimit",
                   "gift", "correction", "rule", "pool", "operator", "token",
                   "instructions", "preview", "knowledge", "product", "import", "edit"}
  BY DEF FormNames, Forms
<1>2. ASSUME NEW f \in FormNames
      PROVE  Sound(Forms[f]) /\ (Forms[f].effect = "none" <=> f = "preview")
  BY <1>1, RowsAreSound DEF Forms
<1>3. ASSUME NEW f \in FormNames
      PROVE  /\ LastStep(f) \in Nat \ {0}
             /\ Forms[f].effect = "none" => LastStep(f) = 1
             /\ ~Forms[f].guarded => /\ LastStep(f) = 2 /\ Forms[f].effect = "write"
                                     /\ ~Forms[f].target /\ Forms[f].optional = {}
  <2>1. Sound(Forms[f])
    BY <1>2
  <2> QED BY <2>1 DEF Sound, LastStep
<1>4. "none" \notin FormNames
  BY <1>1
<1> QED BY <1>2, <1>3, <1>4

\* A handler that is free.
LEMMA IdleFacts == Idle \in WorkRow /\ Idle.pc = "idle" /\ Idle.parts = {}
BY DEF Idle, WorkRow

-----------------------------------------------------------------------------
\* Steps by which nothing goes on: a handler ends without effect, a form is
\* left, the process starts again.

Quiet ==
  /\ UNCHANGED <<runs, prompts, saved>> /\ faults' \in Nat
  /\ excused \subseteq excused' /\ excused' \subseteq Nat
  /\ \/ UNCHANGED <<at, data>>
     \/ /\ at' = Nowhere /\ data' = {}
        /\ \A h \in Handlers : work'[h].pc # "idle" => work'[h].run \in excused'
  /\ work' \in [Handlers -> WorkRow]
  /\ \A h \in Handlers :
       \/ work'[h] = work[h]
       \/ /\ work'[h] = Idle
          /\ work[h].pc = "written" /\ IsSend(h) =>
               work[h].run \in excused' \/ (at' = Nowhere /\ data' = {})

\* Such a step keeps the invariant.
LEMMA QuietStep == IInv /\ Quiet => IInv'
<1> SUFFICES ASSUME IInv, Quiet PROVE IInv'
  OBVIOUS
<1>1. /\ UNCHANGED <<runs, prompts, saved>>
      /\ excused \subseteq excused'
      /\ data' \subseteq data /\ (at' = at \/ at' = Nowhere)
      /\ \A h \in Handlers : work'[h] = work[h] \/ work'[h].pc = "idle"
  BY IdleFacts DEF Quiet
<1>2. \A f : RunOf(f)' = RunOf(f)
  BY <1>1 DEF RunOf
<1>3. \A h \in Handlers : work'[h].pc # "idle" => work'[h] = work[h] /\ AtWork(h)
  BY <1>1 DEF AtWork
<1>t. Types'
  <2>1. at' \in [form : FormNames \cup {"none"}, step : Nat]
    BY <1>1 DEF IInv, Types, Nowhere
  <2> QED BY <1>1, <2>1 DEF IInv, Types, Quiet
<1>4. Fits'
  <2>1. RunsHaveLast' /\ PromptsFit'
    BY <1>1, <1>2 DEF IInv, Fits, RunsHaveLast, PromptsFit, IsRun
  <2>2. AtFits' /\ DataFits'
    BY <1>1 DEF IInv, Fits, AtFits, DataFits, IsRun
  <2>3. WorkFits' /\ PartsFit'
    BY <1>1, <1>3 DEF IInv, Fits, WorkFits, PartsFit, AtWork, Wrote, IsRun, MainRun
  <2>4. SavedFits'
    BY <1>1 DEF IInv, Fits, SavedFits, MainRun
  <2> QED BY <2>1, <2>2, <2>3, <2>4 DEF Fits
<1>5. Answers'
  <2>1. Alone' /\ OnLastRun'
    BY <1>1, <1>2, <1>3 DEF IInv, Answers, Alone, OnLastRun, AtWork, Same
  <2>2. \A f : \A i \in Nat : Reached(f, i)' => Reached(f, i)
    BY <1>1, <1>2 DEF Reached
  <2>3. AnswersOfLastRun'
    BY <1>1, <1>2, <2>2 DEF IInv, Answers, AnswersOfLastRun, Same
  <2>4. AnswersOfWork'
    BY <1>1, <1>3 DEF IInv, Answers, AnswersOfWork, Same, AtWork
  <2> QED BY <2>1, <2>3, <2>4 DEF Answers
<1>6. ClearedIsEmpty'
  BY <1>1, <1>3 DEF IInv, ClearedIsEmpty, AtWork
<1>7. Once'
  <2> SUFFICES ASSUME NEW r \in DOMAIN runs, r \notin excused'
               PROVE  SavedOnce(r)' /\ DoneLeavesNothing(r)' /\ DoneIsOver(r)'
    BY <1>1 DEF Once
  <2>1. SavedOnce(r) /\ DoneLeavesNothing(r) /\ DoneIsOver(r)
    BY <1>1 DEF IInv, Once
  <2>2. SavedBy(r)' = SavedBy(r) /\ (Done(r)' <=> Done(r))
    BY <1>1 DEF SavedBy, Done
  <2>3. SavedOnce(r)'
    BY <2>1, <2>2 DEF SavedOnce
  <2>4. DoneIsOver(r)'
    BY <1>1, <1>3, <2>1, <2>2 DEF DoneIsOver, AtWork, IsSend, Wrote
  <2>5. DoneLeavesNothing(r)'
    <3>1. CASE at' = Nowhere /\ data' = {}
      BY <3>1 DEF DoneLeavesNothing
    <3>2. CASE ~(at' = Nowhere /\ data' = {})
      <4>1. Sending(r) => Sending(r)'
        <5> SUFFICES ASSUME NEW h \in Handlers, work[h].pc = "written", IsSend(h), work[h].run = r
                     PROVE  Sending(r)'
          BY DEF Sending
        <5>1. work'[h] = work[h]
          BY <3>2 DEF Quiet
        <5> QED BY <5>1 DEF Sending, IsSend
      <4> QED BY <1>1, <1>2, <2>1, <2>2, <4>1 DEF DoneLeavesNothing
    <3> QED BY <3>1, <3>2
  <2> QED BY <2>3, <2>4, <2>5
<1>8. Gapless'
  <2>1. CASE UNCHANGED <<at, data>>
    BY <1>1, <1>2, <1>3, <2>1 DEF IInv, Gapless, AtHasAll, WorkHasAll
  <2>2. CASE at' = Nowhere /\ \A h \in Handlers : work'[h].pc # "idle" => work'[h].run \in excused'
    BY <2>2 DEF Gapless, AtHasAll, WorkHasAll
  <2> QED BY <2>1, <2>2 DEF Quiet
<1> QED BY <1>t, <1>4, <1>5, <1>6, <1>7, <1>8 DEF IInv

\* What is excused when handlers overlap.
LEMMA OverlapFacts ==
  ASSUME Types, NEW rs \in SUBSET Nat, Overlap(rs)
  PROVE  /\ excused \subseteq excused' /\ excused' \subseteq Nat
         /\ \A h \in Handlers : AtWork(h) => work[h].run \in excused' /\ rs \subseteq excused'
<1>1. BusyRuns \subseteq Nat
  BY DEF Types, BusyRuns, Busy, WorkRow
<1>2. \A h \in Handlers : AtWork(h) => work[h].run \in BusyRuns /\ Busy # {}
  BY DEF BusyRuns, Busy, AtWork
<1> QED BY <1>1, <1>2 DEF Overlap, Types

\* These steps are quiet.
LEMMA QuietSteps ==
  ASSUME IInv, \/ UNCHANGED vars \/ Leave \/ Restart
               \/ \E h \in Handlers : Refuse(h) \/ Missing(h) \/ Talk(h) \/ Raise(h)
  PROVE  Quiet
<1> USE DEF Quiet
<1>0. work \in [Handlers -> WorkRow] /\ Types /\ faults \in Nat /\ excused \subseteq Nat
  BY DEF IInv, Types
<1>1. CASE UNCHANGED vars
  BY <1>0, <1>1 DEF vars
<1>2. CASE Leave
  <2>1. /\ excused \subseteq excused' /\ excused' \subseteq Nat
        /\ \A h \in Handlers : work[h].pc # "idle" => work[h].run \in excused'
    BY <1>0, <1>2, OverlapFacts DEF Leave, AtWork
  <2> QED BY <1>0, <1>2, <2>1 DEF Leave
<1>3. CASE Restart
  BY <1>0, <1>3, IdleFacts DEF Restart
<1>4. ASSUME NEW h \in Handlers, Refuse(h) \/ Missing(h) \/ Talk(h) PROVE Quiet
  <2>1. /\ UNCHANGED <<runs, prompts, saved, excused, faults>> /\ work[h].pc = "arrived"
        /\ UNCHANGED <<at, data>> \/ (at' = Nowhere /\ data' = {})
        /\ Finish(h)
    BY <1>4 DEF Refuse, Missing, Talk
  <2>2. work' \in [Handlers -> WorkRow] /\ \A g \in Handlers : work'[g] = IF g = h THEN Idle ELSE work[g]
    BY <1>0, <2>1, IdleFacts DEF Finish
  <2>3. \A g \in Handlers : work'[g].pc # "idle" => work'[g].run \in excused'
    BY <2>1, <2>2, IdleFacts DEF IInv, Answers, Alone, AtWork
  <2> QED BY <1>0, <2>1, <2>2, <2>3
<1>5. ASSUME NEW h \in Handlers, Raise(h) PROVE Quiet
  <2>1. /\ UNCHANGED <<runs, prompts, saved, at, data>> /\ faults' = faults + 1
        /\ Finish(h)
    BY <1>5 DEF Raise
  <2>2. work' \in [Handlers -> WorkRow] /\ \A g \in Handlers : work'[g] = IF g = h THEN Idle ELSE work[g]
    BY <1>0, <2>1, IdleFacts DEF Finish
  <2>3. /\ excused \subseteq excused' /\ excused' \subseteq Nat
        /\ work[h].pc = "written" /\ IsSend(h) => work[h].run \in excused'
    BY <1>0, <1>5 DEF Raise, IsSend, WorkRow
  <2> QED BY <1>0, <2>1, <2>2, <2>3
<1> QED BY <1>1, <1>2, <1>3, <1>4, <1>5

-----------------------------------------------------------------------------
\* The dispatcher: a message or a press gets to a handler.

\* A handler begins on step i of form f, for run r.
Begins(h, f, i, r) ==
  /\ f \in FormNames /\ i \in 1..LastStep(f) /\ IsRun(f, r)
  /\ Arrive(h, f, i, r)
  /\ UNCHANGED <<at, data, runs, prompts, saved, faults>>
  /\ Reached(f, i) \/ r # RunOf(f)
  /\ \/ at # Nowhere /\ at.form = f /\ at.step = i
     \/ ~Forms[f].guarded /\ i = LastStep(f)

\* What an arrival does to the handlers and to what is excused.
LEMMA ArriveFacts ==
  ASSUME IInv, NEW h \in Handlers, NEW f \in FormNames, NEW i \in Nat, NEW r \in Nat,
         Arrive(h, f, i, r), IsRun(f, r)
  PROVE  /\ work' \in [Handlers -> WorkRow] /\ ~AtWork(h)
         /\ \A g \in Handlers : g # h => work'[g] = work[g]
         /\ work'[h].pc = "arrived" /\ work'[h].form = f /\ work'[h].step = i
         /\ work'[h].run = r /\ work'[h].parts = {}
         /\ excused \subseteq excused' /\ excused' \subseteq Nat
         /\ \A g \in Handlers : AtWork(g) => work[g].run \in excused'
         /\ r # RunOf(f) => /\ r \in excused' /\ RunOf(f) \in excused'
                            /\ \A p \in data : p.form = f => p.run \in excused'
         /\ (\E g \in Handlers : AtWork(g)) => r \in excused'
<1>0. work \in [Handlers -> WorkRow] /\ Types /\ data \subseteq PartRow
  BY DEF IInv, Types
<1> DEFINE w == [Idle EXCEPT !.pc = "arrived", !.form = f, !.step = i, !.run = r]
<1>1. /\ w \in WorkRow /\ w.pc = "arrived" /\ w.form = f /\ w.step = i /\ w.run = r
      /\ w.parts = {}
  BY DEF Idle, WorkRow
<1>2. work' = [work EXCEPT ![h] = w] /\ work[h] = Idle
  BY DEF Arrive
<1> HIDE DEF w
<1>3. /\ work' \in [Handlers -> WorkRow] /\ work'[h] = w
      /\ \A g \in Handlers : g # h => work'[g] = work[g]
  BY <1>0, <1>1, <1>2
<1>4. ~AtWork(h)
  BY <1>2, IdleFacts DEF AtWork
<1>5. /\ excused \subseteq excused' /\ excused' \subseteq Nat
      /\ \A g \in Handlers : AtWork(g) => work[g].run \in excused'
      /\ (\E g \in Handlers : AtWork(g)) => r \in excused'
      /\ r # RunOf(f) => /\ r \in excused' /\ RunOf(f) \in excused'
                         /\ \A p \in data : p.form = f => p.run \in excused'
  <2>1. CASE r = RunOf(f)
    <3>1. Overlap({r}) BY <2>1 DEF Arrive
    <3>2. {r} \in SUBSET Nat OBVIOUS
    <3> QED BY <1>0, <2>1, <3>1, <3>2, OverlapFacts
  <2>2. CASE r # RunOf(f)
    <3>1. excused' = excused \cup BusyRuns \cup {r, RunOf(f)} \cup {p.run : p \in Kept(f)}
      BY <2>2 DEF Arrive
    <3>2. BusyRuns \subseteq Nat /\ \A g \in Handlers : AtWork(g) => work[g].run \in BusyRuns
      BY <1>0 DEF BusyRuns, Busy, AtWork, WorkRow
    <3>3. {p.run : p \in Kept(f)} \subseteq Nat
      BY <1>0 DEF Kept, PartRow
    <3>4. RunOf(f) \in Nat
      <4>1. RunOf(f) \in DOMAIN runs
        BY DEF IInv, Fits, RunsHaveLast, IsRun
      <4>2. DOMAIN runs \subseteq Nat
        BY <1>0, LenProperties DEF Types
      <4> QED BY <4>1, <4>2
    <3>5. excused \subseteq Nat BY <1>0 DEF Types
    <3>6. \A p \in data : p.form = f => p.run \in excused'
      BY <3>1 DEF Kept
    <3> QED BY <3>1, <3>2, <3>3, <3>4, <3>5, <3>6
  <2> QED BY <2>1, <2>2
<1> QED BY <1>1, <1>3, <1>4, <1>5

\* An arrival keeps the invariant.
LEMMA BeginsStep ==
  ASSUME IInv, NEW h \in Handlers, NEW f \in FormNames, NEW i \in Nat, NEW r \in Nat,
         Begins(h, f, i, r)
  PROVE  IInv'
<1>0. /\ i \in 1..LastStep(f) /\ IsRun(f, r)
      /\ UNCHANGED <<at, data, runs, prompts, saved, faults>>
      /\ Reached(f, i) \/ r # RunOf(f)
      /\ \/ at # Nowhere /\ at.form = f /\ at.step = i
         \/ ~Forms[f].guarded /\ i = LastStep(f)
  BY DEF Begins
<1>1. /\ work' \in [Handlers -> WorkRow] /\ ~AtWork(h)
      /\ \A g \in Handlers : g # h => work'[g] = work[g]
      /\ work'[h].pc = "arrived" /\ work'[h].form = f /\ work'[h].step = i
      /\ work'[h].run = r /\ work'[h].parts = {}
      /\ excused \subseteq excused' /\ excused' \subseteq Nat
      /\ \A g \in Handlers : AtWork(g) => work[g].run \in excused'
      /\ r # RunOf(f) => /\ r \in excused' /\ RunOf(f) \in excused'
                         /\ \A p \in data : p.form = f => p.run \in excused'
      /\ (\E g \in Handlers : AtWork(g)) => r \in excused'
  BY <1>0, ArriveFacts DEF Begins
<1>2. \A g : RunOf(g)' = RunOf(g)
  BY <1>0 DEF RunOf
<1>t. Types'
  BY <1>0, <1>1 DEF IInv, Types
<1>4. Fits'
  <2>1. RunsHaveLast' /\ PromptsFit' /\ AtFits' /\ DataFits'
    BY <1>0, <1>2 DEF IInv, Fits, RunsHaveLast, PromptsFit, AtFits, DataFits, IsRun
  <2>2. WorkFits'
    BY <1>0, <1>1 DEF IInv, Fits, WorkFits, AtWork, IsRun
  <2>3. PartsFit'
    BY <1>0, <1>1 DEF IInv, Fits, PartsFit, Wrote, MainRun
  <2>4. SavedFits'
    BY <1>0, <1>1 DEF IInv, Fits, SavedFits, MainRun
  <2> QED BY <2>1, <2>2, <2>3, <2>4 DEF Fits
<1>5. Answers'
  <2>1. Alone'
    BY <1>1 DEF IInv, Answers, Alone, AtWork
  <2>2. OnLastRun'
    BY <1>1, <1>2 DEF IInv, Answers, OnLastRun, AtWork, Same
  <2>3. \A g : \A j \in Nat : Reached(g, j)' => Reached(g, j)
    BY <1>0, <1>2 DEF Reached
  <2>4. AnswersOfLastRun'
    BY <1>0, <1>1, <1>2, <2>3 DEF IInv, Answers, AnswersOfLastRun, Same
  <2>5. ASSUME NEW g \in Handlers, work'[g].pc \in {"arrived", "written"},
               NEW p \in data, p.form = work'[g].form, p.step < work'[g].step
        PROVE  p.run = work'[g].run \/ (p.run \in excused' /\ work'[g].run \in excused')
    <3>1. CASE g # h
      BY <1>1, <2>5, <3>1 DEF IInv, Answers, AnswersOfWork, Same
    <3>2. CASE g = h /\ r # RunOf(f)
      BY <1>1, <2>5, <3>2 DEF Same
    <3>3. CASE g = h /\ r = RunOf(f)
      <4>1. Reached(f, i) /\ p.form = f /\ p.step < i
        BY <1>0, <1>1, <2>5, <3>3
      <4>2. Same(p.run, RunOf(f))
        BY <4>1 DEF IInv, Answers, AnswersOfLastRun
      <4> QED BY <1>1, <3>3, <4>2 DEF Same
    <3> QED BY <3>1, <3>2, <3>3
  <2>6. AnswersOfWork'
    BY <1>0, <2>5 DEF AnswersOfWork, Same
  <2> QED BY <2>1, <2>2, <2>4, <2>6 DEF Answers
<1>6. ClearedIsEmpty'
  BY <1>0, <1>1 DEF IInv, ClearedIsEmpty
<1>7. Once'
  <2> SUFFICES ASSUME NEW q \in DOMAIN runs, q \notin excused'
               PROVE  SavedOnce(q)' /\ DoneLeavesNothing(q)' /\ DoneIsOver(q)'
    BY <1>0 DEF Once
  <2>1. SavedOnce(q) /\ DoneLeavesNothing(q) /\ DoneIsOver(q)
    BY <1>1 DEF IInv, Once
  <2>2. SavedBy(q)' = SavedBy(q) /\ (Done(q)' <=> Done(q))
    BY <1>0 DEF SavedBy, Done
  <2>3. SavedOnce(q)'
    BY <2>1, <2>2 DEF SavedOnce
  <2>4. Sending(q) => Sending(q)'
    BY <1>1 DEF Sending, IsSend, AtWork
  <2>5. DoneLeavesNothing(q)'
    BY <1>0, <1>2, <2>1, <2>2, <2>4 DEF DoneLeavesNothing
  <2>6. DoneIsOver(q)'
    <3> SUFFICES ASSUME Done(q), NEW g \in Handlers, work'[g].pc # "idle", work'[g].run = q
                 PROVE  \/ (IsSend(g) /\ Wrote(g))'
                        \/ /\ ~Forms[work'[g].form].guarded /\ work'[g].pc = "arrived"
                           /\ work'[g].step = LastStep(work'[g].form)
      BY <2>2 DEF DoneIsOver, AtWork
    <3>1. CASE g # h
      BY <1>1, <2>1, <3>1 DEF DoneIsOver, AtWork, IsSend, Wrote
    <3>2. CASE g = h
      <4>1. q = r /\ r = RunOf(f) /\ ~Sending(q)
        BY <1>1, <3>2 DEF Sending, AtWork
      <4>2. ~(at # Nowhere /\ at.form = f)
        BY <1>0, <2>1, <4>1 DEF DoneLeavesNothing, IsRun
      <4> QED BY <1>0, <1>1, <3>2, <4>2
    <3> QED BY <3>1, <3>2
  <2> QED BY <2>3, <2>5, <2>6
<1>8. Gapless'
  <2>1. AtHasAll'
    BY <1>0, <1>1, <1>2 DEF IInv, Gapless, AtHasAll
  <2>2. WorkHasAll'
    <3> SUFFICES ASSUME NEW g \in Handlers, work'[g].pc \in {"arrived", "written"},
                        work'[g].run \notin excused', Forms[work'[g].form].guarded
                 PROVE  FilledIn(data, work'[g].form, work'[g].step)
      BY <1>0 DEF WorkHasAll
    <3>1. CASE g # h
      BY <1>1, <3>1 DEF IInv, Gapless, WorkHasAll
    <3>2. CASE g = h
      <4>1. /\ r = RunOf(f) /\ r \notin excused /\ Forms[f].guarded
            /\ at # Nowhere /\ at.form = f /\ at.step = i
        BY <1>0, <1>1, <3>2
      <4> QED BY <1>1, <3>2, <4>1 DEF IInv, Gapless, AtHasAll
    <3> QED BY <3>1, <3>2
  <2> QED BY <2>1, <2>2 DEF Gapless
<1> QED BY <1>t, <1>4, <1>5, <1>6, <1>7, <1>8 DEF IInv

\* A text and a press are arrivals.
LEMMA TextBegins ==
  ASSUME IInv, NEW h \in Handlers, NEW word \in {"answer", "menu", "cancel", "stray"}, Text(h, word)
  PROVE  IInv'
<1>1. at # Nowhere /\ RawState(word) = at /\ (word = "menu" => at.form = "preview")
  BY DEF Text, RawState
<1>2. /\ at.form \in FormNames /\ at.step \in 1..LastStep(at.form)
      /\ \E r \in DOMAIN runs : runs[r] = at.form
  BY <1>1 DEF IInv, Fits, AtFits
<1>3. IsRun(at.form, RunOf(at.form))
  BY <1>2 DEF IInv, Fits, RunsHaveLast
<1>4. RunOf(at.form) \in Nat /\ at.step \in Nat
  BY <1>2, <1>3, LenProperties DEF IInv, Types, IsRun
<1>6. /\ Arrive(h, at.form, at.step, RunOf(at.form))
      /\ UNCHANGED <<at, data, runs, prompts, saved, faults>>
  BY <1>1 DEF Text
<1>7. Begins(h, at.form, at.step, RunOf(at.form))
  BY <1>1, <1>2, <1>3, <1>6 DEF Begins, Reached
<1> QED BY <1>2, <1>4, <1>7, BeginsStep

\* A keyboard is pressed.
LEMMA PressBegins ==
  ASSUME IInv, NEW h \in Handlers, NEW k \in prompts, Press(h, k[1], k[2])
  PROVE  IInv'
<1> DEFINE r == k[1]
           i == k[2]
           f == runs[r]
<1>1. r \in Nat /\ i \in Nat /\ <<r, i>> \in prompts
  BY DEF IInv, Types, Press
<1>2. r \in DOMAIN runs /\ i \in 2..LastStep(f)
  BY <1>1 DEF IInv, Fits, PromptsFit
<1>3. f \in FormNames /\ IsRun(f, r)
  BY <1>2, ElementOfSeq, LenProperties DEF IInv, Types, IsRun
<1>4. /\ Arrive(h, f, i, r)
      /\ UNCHANGED <<at, data, runs, prompts, saved, faults>>
      /\ Forms[f].guarded => at = [form |-> f, step |-> i]
  BY DEF Press
<1>5. LastStep(f) \in Nat \ {0} /\ (~Forms[f].guarded => LastStep(f) = 2)
  BY <1>3, FormFacts
<1>6. \/ at # Nowhere /\ at.form = f /\ at.step = i
      \/ ~Forms[f].guarded /\ i = LastStep(f)
  <2>1. CASE Forms[f].guarded
    <3>1. at.form = f /\ at.step = i /\ f # "none" /\ Nowhere.form = "none"
      BY <1>3, <1>4, <2>1, FormFacts DEF Nowhere
    <3> QED BY <3>1
  <2>2. CASE ~Forms[f].guarded
    BY <1>2, <1>5, <2>2
  <2> QED BY <2>1, <2>2
<1>7. Reached(f, i) \/ r # RunOf(f)
  BY <1>1, <1>2 DEF Reached
<1>8. i \in 1..LastStep(f)
  BY <1>2, <1>5
<1>9. Begins(h, f, i, r)
  BY <1>3, <1>4, <1>6, <1>7, <1>8 DEF Begins
<1> HIDE DEF r, i, f
<1> QED BY <1>1, <1>3, <1>9, BeginsStep

-----------------------------------------------------------------------------
\* The handlers that go on.

\* A handler at work, what it is at and that another one at work excuses both.
LEMMA WorkFacts ==
  ASSUME IInv, NEW h \in Handlers, AtWork(h)
  PROVE  /\ work[h] \in WorkRow /\ work[h].form \in FormNames
         /\ work[h].run \in DOMAIN runs /\ runs[work[h].run] = work[h].form
         /\ work[h].run \in Nat /\ work[h].step \in Nat
         /\ 1 <= work[h].step /\ work[h].step <= LastStep(work[h].form)
         /\ LastStep(work[h].form) \in Nat
         /\ Same(work[h].run, RunOf(work[h].form))
         /\ \A g \in Handlers : AtWork(g) /\ g # h =>
              work[g].run \in excused /\ work[h].run \in excused
<1>1. /\ work[h].form \in FormNames /\ IsRun(work[h].form, work[h].run)
      /\ work[h].step \in 1..LastStep(work[h].form)
  BY DEF IInv, Fits, WorkFits
<1>2. Same(work[h].run, RunOf(work[h].form))
  BY DEF IInv, Answers, OnLastRun
<1>3. \A g \in Handlers : AtWork(g) /\ g # h => work[g].run \in excused /\ work[h].run \in excused
  BY DEF IInv, Answers, Alone
<1>4. work[h] \in WorkRow
  BY DEF IInv, Types
<1>5. LastStep(work[h].form) \in Nat
  BY <1>1, FormFacts
<1>6. /\ work[h].run \in Nat /\ work[h].step \in Nat
      /\ 1 <= work[h].step /\ work[h].step <= LastStep(work[h].form)
  BY <1>1, <1>4, <1>5 DEF WorkRow
<1> QED BY <1>1, <1>2, <1>3, <1>4, <1>5, <1>6 DEF IsRun

\* A handler that ends.
LEMMA FinishFacts ==
  ASSUME Types, NEW h \in Handlers, Finish(h)
  PROVE  /\ work' \in [Handlers -> WorkRow]
         /\ \A g \in Handlers : work'[g].pc # "idle" => g # h /\ work'[g] = work[g] /\ AtWork(g)
         /\ \A g \in Handlers : g # h => work'[g] = work[g]
<1>1. work' = [work EXCEPT ![h] = Idle] /\ work \in [Handlers -> WorkRow]
  BY DEF Finish, Types
<1>2. work' \in [Handlers -> WorkRow] /\ \A g \in Handlers : work'[g] = IF g = h THEN Idle ELSE work[g]
  BY <1>1, IdleFacts
<1> QED BY <1>2, IdleFacts DEF AtWork

\* What is not about the handlers' progress stays as it is, while no run is
\* opened and nobody is excused.
LEMMA FitsFrame ==
  ASSUME IInv, UNCHANGED <<runs, excused>>,
         \A h \in Handlers : work'[h].pc # "idle" => work'[h] = work[h] /\ AtWork(h)
  PROVE  /\ RunsHaveLast' /\ WorkFits' /\ PartsFit'
         /\ Alone' /\ OnLastRun'
         /\ \A f : RunOf(f)' = RunOf(f)
         /\ \A q, r : Same(q, r)' <=> Same(q, r)
<1>1. \A f : RunOf(f)' = RunOf(f)
  BY DEF RunOf
<1>2. RunsHaveLast'
  BY <1>1 DEF IInv, Fits, RunsHaveLast, IsRun
<1>3. WorkFits' /\ PartsFit'
  BY DEF IInv, Fits, WorkFits, PartsFit, AtWork, Wrote, IsRun, MainRun
<1>4. Alone' /\ OnLastRun'
  BY <1>1 DEF IInv, Answers, Alone, OnLastRun, AtWork, Same
<1> QED BY <1>1, <1>2, <1>3, <1>4 DEF Same

\* An answer is kept and the form moves on.
LEMMA StoreStep ==
  ASSUME IInv, NEW h \in Handlers, Store(h)
  PROVE  IInv'
<1> DEFINE f == work[h].form
           i == work[h].step
           r == work[h].run
           P == Part(f, i, r)
<1>1. /\ work[h].pc = "arrived" /\ i < LastStep(f)
      /\ data' = {p \in data : p.form # f \/ p.step # i} \cup {P}
      /\ at' = (IF Forms[f].guarded THEN [form |-> f, step |-> i + 1] ELSE at)
      /\ prompts \subseteq prompts' /\ prompts' \subseteq prompts \cup {<<r, i + 1>>}
      /\ Finish(h) /\ UNCHANGED <<runs, saved, excused, faults>>
  <2>1. /\ work[h].pc = "arrived" /\ i < LastStep(f) /\ data' = Keep(P)
        /\ at' = (IF Forms[f].guarded THEN [form |-> f, step |-> i + 1] ELSE at)
        /\ prompts' = (IF Forms[f].steps[i + 1] = "press"
                       THEN prompts \cup {<<r, i + 1>>} ELSE prompts)
        /\ Finish(h) /\ UNCHANGED <<runs, saved, excused, faults>>
    BY DEF Store
  <2>2. data' = {p \in data : p.form # f \/ p.step # i} \cup {P}
    BY <2>1 DEF Keep, Part
  <2>3. prompts \subseteq prompts' /\ prompts' \subseteq prompts \cup {<<r, i + 1>>}
    BY <2>1
  <2> QED BY <2>1, <2>2, <2>3
<1>2. AtWork(h)
  BY <1>1 DEF AtWork
<1>3. /\ work[h] \in WorkRow /\ f \in FormNames /\ r \in DOMAIN runs /\ runs[r] = f
      /\ r \in Nat /\ i \in Nat /\ 1 <= i /\ LastStep(f) \in Nat
      /\ Same(r, RunOf(f))
      /\ \A g \in Handlers : AtWork(g) /\ g # h => work[g].run \in excused /\ r \in excused
  BY <1>2, WorkFacts
<1>5. P \in PartRow /\ P.form = f /\ P.step = i /\ P.run = r
  BY <1>3 DEF Part, PartRow, WorkRow
<1>6. /\ work' \in [Handlers -> WorkRow]
      /\ \A g \in Handlers : work'[g].pc # "idle" => g # h /\ work'[g] = work[g] /\ AtWork(g)
      /\ \A g \in Handlers : g # h => work'[g] = work[g]
  BY <1>1, FinishFacts DEF IInv
<1>7. /\ RunsHaveLast' /\ WorkFits' /\ PartsFit' /\ Alone' /\ OnLastRun'
      /\ \A g : RunOf(g)' = RunOf(g)
      /\ \A q, s : Same(q, s)' <=> Same(q, s)
  BY <1>1, <1>6, FitsFrame
<1>8. \A p \in data' : p = P \/ (p \in data /\ (p.form # f \/ p.step # i))
  BY <1>1
<1> HIDE DEF f, i, r, P
<1>t. Types'
  <2>1. at' \in [form : FormNames \cup {"none"}, step : Nat]
    BY <1>1, <1>3 DEF IInv, Types
  <2>2. data' \subseteq PartRow
    BY <1>5, <1>8 DEF IInv, Types
  <2>3. prompts' \subseteq Nat \X Nat
    BY <1>1, <1>3 DEF IInv, Types
  <2> QED BY <1>1, <1>6, <2>1, <2>2, <2>3 DEF IInv, Types
<1>9. Fits'
  <2>1. AtFits'
    <3>1. i + 1 \in 1..LastStep(f)
      BY <1>1, <1>3
    <3> QED BY <1>1, <1>3, <3>1 DEF IInv, Fits, AtFits
  <2>2. DataFits'
    BY <1>1, <1>3, <1>5, <1>8 DEF IInv, Fits, DataFits, IsRun
  <2>3. PromptsFit'
    <3>1. i + 1 \in 2..LastStep(f)
      BY <1>1, <1>3
    <3> QED BY <1>1, <1>3, <3>1 DEF IInv, Fits, PromptsFit
  <2>4. SavedFits'
    BY <1>1 DEF IInv, Fits, SavedFits, MainRun
  <2> QED BY <1>7, <2>1, <2>2, <2>3, <2>4 DEF Fits
<1>10. Answers'
  <2>1. ASSUME NEW p \in data', NEW j \in Nat, Reached(p.form, j)', p.step < j
        PROVE  Same(p.run, RunOf(p.form))
    <3>1. CASE p = P
      BY <1>3, <1>5, <3>1
    <3>2. CASE p \in data /\ Reached(p.form, j)
      BY <2>1, <3>2 DEF IInv, Answers, AnswersOfLastRun
    <3>3. CASE p # P /\ ~Reached(p.form, j)
      <4>1. p \in data /\ (p.form # f \/ p.step # i) /\ p.step \in Nat
        BY <1>8, <3>3 DEF IInv, Types, PartRow
      <4>2. p.form = f /\ j = i + 1
        <5>1. CASE at' # Nowhere /\ at'.form = p.form /\ at'.step = j
          BY <1>1, <1>3, <3>3, <5>1 DEF Reached
        <5>2. CASE (\E q \in DOMAIN runs : runs[q] = p.form) /\ <<RunOf(p.form), j>> \in prompts'
          <6>1. IsRun(p.form, RunOf(p.form))
            BY <5>2 DEF IInv, Fits, RunsHaveLast
          <6>2. <<RunOf(p.form), j>> = <<r, i + 1>>
            BY <1>1, <3>3, <5>2 DEF Reached
          <6> QED BY <1>3, <6>1, <6>2 DEF IsRun
        <5> QED BY <1>1, <1>7, <2>1, <5>1, <5>2 DEF Reached
      <4>3. p.step < i
        BY <1>3, <2>1, <4>1, <4>2
      <4>4. Same(p.run, r)
        BY <1>1, <4>1, <4>2, <4>3 DEF IInv, Answers, AnswersOfWork, f, i, r
      <4> QED BY <1>3, <4>2, <4>4 DEF Same
    <3> QED BY <1>8, <3>1, <3>2, <3>3
  <2>2. AnswersOfLastRun'
    BY <1>7, <2>1 DEF AnswersOfLastRun
  <2>3. AnswersOfWork'
    <3> SUFFICES ASSUME NEW g \in Handlers, work'[g].pc \in {"arrived", "written"},
                        NEW p \in data', p.form = work'[g].form, p.step < work'[g].step
                 PROVE  Same(p.run, work'[g].run)
      BY <1>7 DEF AnswersOfWork
    <3>1. /\ g # h /\ work'[g] = work[g] /\ AtWork(g)
          /\ work[g].run \in excused /\ r \in excused
      BY <1>3, <1>6
    <3>2. CASE p = P
      BY <1>5, <3>1, <3>2 DEF Same
    <3>3. CASE p \in data
      BY <3>1, <3>3 DEF IInv, Answers, AnswersOfWork
    <3> QED BY <1>8, <3>2, <3>3
  <2> QED BY <1>7, <2>2, <2>3 DEF Answers
<1>11. ClearedIsEmpty'
  BY <1>1, <1>3, <1>6 DEF ClearedIsEmpty
<1>12. Once'
  <2> SUFFICES ASSUME NEW q \in DOMAIN runs, q \notin excused
               PROVE  SavedOnce(q)' /\ DoneLeavesNothing(q)' /\ DoneIsOver(q)'
    BY <1>1 DEF Once
  <2>1. SavedOnce(q) /\ DoneLeavesNothing(q) /\ DoneIsOver(q)
    BY DEF IInv, Once
  <2>2. SavedBy(q)' = SavedBy(q) /\ (Done(q)' <=> Done(q))
    BY <1>1 DEF SavedBy, Done
  <2>3. SavedOnce(q)'
    BY <2>1, <2>2 DEF SavedOnce
  <2>4. Sending(q) => Sending(q)'
    BY <1>1, <1>6 DEF Sending, IsSend
  <2>5. Done(q) => q # r
    BY <1>1, <1>2, <1>3, <2>1 DEF DoneIsOver, Wrote, f, i, r
  <2>6. DoneLeavesNothing(q)'
    BY <1>1, <1>3, <1>5, <1>7, <1>8, <2>1, <2>2, <2>4, <2>5 DEF DoneLeavesNothing, Same
  <2>7. DoneIsOver(q)'
    BY <1>6, <2>1, <2>2 DEF DoneIsOver, AtWork, IsSend, Wrote
  <2> QED BY <2>3, <2>6, <2>7
<1>13. Gapless'
  <2>1. \A g, k : FilledIn(data, g, k) => FilledIn(data', g, k)
    <3>1. \A p \in data : \E q \in data' : q.form = p.form /\ q.step = p.step
      BY <1>1, <1>5
    <3> QED BY <3>1 DEF FilledIn
  <2>2. AtHasAll'
    <3>1. CASE ~Forms[f].guarded
      BY <1>1, <1>7, <2>1, <3>1 DEF IInv, Gapless, AtHasAll
    <3>2. CASE Forms[f].guarded
      <4>1. at'.form = f /\ at'.step = i + 1
        BY <1>1, <3>2
      <4> SUFFICES ASSUME RunOf(f) \notin excused PROVE FilledIn(data', f, i + 1)
        BY <1>1, <1>7, <4>1 DEF AtHasAll
      <4>2. FilledIn(data, f, i)
        BY <1>1, <1>3, <3>2 DEF IInv, Gapless, WorkHasAll, Same, f, i, r
      <4>3. \A j \in Asked(f, i + 1) : j \in Asked(f, i) \/ j = i
        BY <1>3 DEF Asked
      <4>4. P \in data'
        BY <1>1
      <4> QED BY <1>5, <2>1, <4>2, <4>3, <4>4 DEF FilledIn
    <3> QED BY <3>1, <3>2
  <2>3. WorkHasAll'
    BY <1>1, <1>6, <2>1 DEF IInv, Gapless, WorkHasAll
  <2> QED BY <2>2, <2>3 DEF Gapless
<1> QED BY <1>t, <1>9, <1>10, <1>11, <1>12, <1>13 DEF IInv

\* What a record of these answers holds.
LEMMA RecordFacts ==
  ASSUME NEW h \in Handlers, NEW parts \in SUBSET PartRow, work[h].form \in FormNames
  PROVE  LET R == Record(h, parts)
         IN  R.form = work[h].form /\ R.runs = {p.run : p \in parts} /\ R \in SavedRow
<1> DEFINE rs == {p.run : p \in parts}
<1>1. rs \subseteq Nat
  BY DEF PartRow
<1>2. Record(h, parts) = [form |-> work[h].form, runs |-> rs]
  BY DEF Record
<1> HIDE DEF rs
<1>3. LET R == Record(h, parts)
      IN  R.form = work[h].form /\ R.runs = rs /\ R \in SavedRow
  BY <1>1, <1>2 DEF SavedRow
<1> QED BY <1>3 DEF rs

\* A record is added to what is saved.
LEMMA SavedMore ==
  ASSUME Types, NEW R \in SavedRow, saved' = Append(saved, R)
  PROVE  /\ saved' \in Seq(SavedRow) /\ Len(saved) + 1 \notin DOMAIN saved
         /\ DOMAIN saved' = DOMAIN saved \cup {Len(saved) + 1}
         /\ \A i \in DOMAIN saved : saved'[i] = saved[i]
         /\ saved'[Len(saved) + 1] = R
         /\ \A q : SavedBy(q)' = SavedBy(q) \cup (IF q \in R.runs THEN {Len(saved) + 1} ELSE {})
<1>1. saved \in Seq(SavedRow)
  BY DEF Types
<1>2. /\ saved' \in Seq(SavedRow) /\ Len(saved) + 1 \notin DOMAIN saved
      /\ DOMAIN saved' = DOMAIN saved \cup {Len(saved) + 1}
      /\ \A i \in DOMAIN saved : saved'[i] = saved[i]
      /\ saved'[Len(saved) + 1] = R
  BY <1>1, AppendProperties, LenProperties
<1> QED BY <1>2 DEF SavedBy

\* The last step writes what is kept.
LEMMA WriteStep ==
  ASSUME IInv, NEW h \in Handlers, Write(h)
  PROVE  IInv'
<1> DEFINE f == work[h].form
           i == work[h].step
           r == work[h].run
           P == Part(f, i, r)
           parts == Kept(f) \cup {P}
           R == Record(h, parts)
<1>1. /\ work[h].pc = "arrived" /\ i = LastStep(f) /\ Forms[f].effect # "none"
      /\ HasNeeded(f)
      /\ work' = [work EXCEPT ![h].pc = "written", ![h].parts = parts]
      /\ saved' = (IF Forms[f].effect = "send" THEN Append(saved, R) ELSE saved)
      /\ UNCHANGED <<at, data, runs, prompts, excused, faults>>
  BY DEF Write
<1>2. AtWork(h)
  BY <1>1 DEF AtWork
<1>3. /\ work[h] \in WorkRow /\ f \in FormNames /\ r \in DOMAIN runs /\ runs[r] = f
      /\ r \in Nat /\ i \in Nat /\ 1 <= i /\ LastStep(f) \in Nat
      /\ \A g \in Handlers : AtWork(g) /\ g # h => work[g].run \in excused /\ r \in excused
  BY <1>1, <1>2, WorkFacts
<1>4. P \in PartRow /\ P.run = r
  BY <1>3 DEF Part, PartRow, WorkRow
<1>5. parts \subseteq PartRow /\ P \in parts /\ \A p \in parts : p = P \/ (p \in data /\ p.form = f)
  BY <1>4 DEF Kept, IInv, Types
<1>6. ASSUME NEW p \in data, p.form = f
      PROVE  Same(p.run, r) /\ p.run \in DOMAIN runs
  <2>1. IsRun(f, p.run) /\ p.step < i
    BY <1>1, <1>6 DEF IInv, Fits, DataFits
  <2>2. Same(p.run, r)
    BY <1>1, <1>6, <2>1 DEF IInv, Answers, AnswersOfWork
  <2> QED BY <2>1, <2>2 DEF IsRun
<1>7. /\ MainRun({p.run : p \in parts}, r)
      /\ \A p \in parts : p.run \in DOMAIN runs
  <2>1. \A p \in parts : p.run = r \/ p.run \in excused
    BY <1>4, <1>5, <1>6 DEF Same
  <2>2. \A p \in parts : p.run \in DOMAIN runs
    BY <1>3, <1>4, <1>5, <1>6
  <2> QED BY <1>4, <1>5, <2>1, <2>2 DEF MainRun
<1>8. R.form = f /\ R.runs = {p.run : p \in parts} /\ R \in SavedRow
  BY <1>3, <1>5, RecordFacts
<1> HIDE DEF f, i, r, P, parts, R
<1>9. /\ work' \in [Handlers -> WorkRow]
      /\ \A g \in Handlers : g # h => work'[g] = work[g]
      /\ work'[h].pc = "written" /\ work'[h].parts = parts
      /\ work'[h].form = f /\ work'[h].step = i /\ work'[h].run = r
  <2>1. work \in [Handlers -> WorkRow]
    BY DEF IInv, Types
  <2> QED BY <1>1, <1>5, <2>1 DEF WorkRow, f, i, r
<1>10. \A g : RunOf(g)' = RunOf(g)
  BY <1>1 DEF RunOf
<1>11. Forms[f].effect # "send" => saved' = saved
  BY <1>1
<1>12. Forms[f].effect = "send" =>
         /\ saved' \in Seq(SavedRow) /\ Len(saved) + 1 \notin DOMAIN saved
         /\ DOMAIN saved' = DOMAIN saved \cup {Len(saved) + 1}
         /\ \A j \in DOMAIN saved : saved'[j] = saved[j]
         /\ saved'[Len(saved) + 1] = R
         /\ \A q : SavedBy(q)' = SavedBy(q) \cup (IF q \in R.runs THEN {Len(saved) + 1} ELSE {})
  BY <1>1, <1>8, SavedMore DEF IInv
<1>t. Types'
  BY <1>1, <1>9, <1>11, <1>12 DEF IInv, Types
<1>13. Fits'
  <2>1. RunsHaveLast' /\ PromptsFit' /\ AtFits' /\ DataFits'
    BY <1>1, <1>10 DEF IInv, Fits, RunsHaveLast, PromptsFit, AtFits, DataFits, IsRun
  <2>2. WorkFits'
    BY <1>1, <1>2, <1>9 DEF IInv, Fits, WorkFits, AtWork, IsRun, f, i, r
  <2>3. PartsFit'
    BY <1>1, <1>7, <1>9 DEF IInv, Fits, PartsFit, Wrote, MainRun
  <2>4. SavedFits'
    <3>1. CASE Forms[f].effect # "send"
      BY <1>1, <1>11, <3>1 DEF IInv, Fits, SavedFits, MainRun
    <3>2. CASE Forms[f].effect = "send"
      <4>1. R.runs \subseteq DOMAIN runs /\ MainRun(R.runs, r) /\ r \in R.runs
        BY <1>7, <1>8 DEF MainRun
      <4> QED BY <1>1, <1>12, <3>2, <4>1 DEF IInv, Fits, SavedFits, MainRun
    <3> QED BY <3>1, <3>2
  <2> QED BY <2>1, <2>2, <2>3, <2>4 DEF Fits
<1>14. Answers'
  <2>1. Alone' /\ OnLastRun'
    BY <1>1, <1>2, <1>9, <1>10 DEF IInv, Answers, Alone, OnLastRun, AtWork, Same, f, r
  <2>2. AnswersOfLastRun'
    BY <1>1, <1>10 DEF IInv, Answers, AnswersOfLastRun, Reached, Same
  <2>3. AnswersOfWork'
    BY <1>1, <1>9 DEF IInv, Answers, AnswersOfWork, Same, f, i, r
  <2> QED BY <2>1, <2>2, <2>3 DEF Answers
<1>15. ClearedIsEmpty'
  BY <1>1, <1>9 DEF IInv, ClearedIsEmpty
<1>16. ASSUME r \notin excused PROVE ~Done(r)
  <2> SUFFICES ASSUME Done(r) PROVE FALSE
    OBVIOUS
  <2>1. DoneLeavesNothing(r) /\ DoneIsOver(r)
    BY <1>3, <1>16 DEF IInv, Once
  <2>2. ~Forms[f].guarded
    BY <1>1, <1>2, <2>1 DEF DoneIsOver, Wrote, f, i, r
  <2>3. LastStep(f) = 2 /\ Forms[f].effect = "write" /\ ~Forms[f].target
    BY <1>3, <2>2, FormFacts
  <2>4. ~Sending(r)
    BY <1>3, <2>3 DEF Sending, IsSend, IInv, Fits, WorkFits, AtWork, IsRun
  <2>5. 1 \in Asked(f, LastStep(f)) \ Forms[f].optional
    BY <1>3, <2>2, <2>3, FormFacts DEF Asked
  <2>6. PICK p \in data : p.form = f
    BY <1>1, <2>5 DEF Kept, HasNeeded
  <2>7. p.run = r
    BY <1>6, <1>16, <2>6 DEF Same
  <2> QED BY <2>1, <2>4, <2>7 DEF DoneLeavesNothing
<1>17. Once'
  <2> SUFFICES ASSUME NEW q \in DOMAIN runs, q \notin excused
               PROVE  SavedOnce(q)' /\ DoneLeavesNothing(q)' /\ DoneIsOver(q)'
    BY <1>1 DEF Once
  <2>1. SavedOnce(q) /\ DoneLeavesNothing(q) /\ DoneIsOver(q)
    BY DEF IInv, Once
  <2>2. Sending(q) => Sending(q)'
    BY <1>1, <1>9 DEF Sending, IsSend
  <2>3. CASE SavedBy(q)' = SavedBy(q)
    <3>1. Done(q)' <=> Done(q)
      BY <2>3 DEF Done
    <3>2. SavedOnce(q)'
      BY <2>1, <2>3 DEF SavedOnce
    <3>3. DoneLeavesNothing(q)'
      BY <1>1, <1>10, <2>1, <2>2, <3>1 DEF DoneLeavesNothing
    <3>4. DoneIsOver(q)'
      BY <1>9, <1>16, <2>1, <3>1 DEF DoneIsOver, AtWork, IsSend, Wrote
    <3> QED BY <3>2, <3>3, <3>4
  <2>4. CASE Forms[f].effect = "send" /\ q \in R.runs
    <3>1. q = r
      BY <1>7, <1>8, <2>4 DEF MainRun
    <3>2. SavedBy(q)' = {Len(saved) + 1}
      BY <1>12, <1>16, <2>4, <3>1 DEF Done
    <3>3. SavedOnce(q)'
      BY <3>2 DEF SavedOnce
    <3>4. IsSend(h)' /\ Wrote(h)'
      BY <1>9, <2>4 DEF IsSend, Wrote
    <3>5. Sending(q)'
      BY <1>9, <3>1, <3>4 DEF Sending
    <3>6. DoneLeavesNothing(q)'
      BY <3>5 DEF DoneLeavesNothing
    <3>7. \A g \in Handlers : AtWork(g)' /\ work'[g].run = q => g = h
      BY <1>3, <1>9, <3>1 DEF AtWork
    <3>8. DoneIsOver(q)'
      BY <3>4, <3>7 DEF DoneIsOver
    <3> QED BY <3>3, <3>6, <3>8
  <2>5. SavedBy(q)' = SavedBy(q) \/ (Forms[f].effect = "send" /\ q \in R.runs)
    <3>1. Forms[f].effect # "send" => SavedBy(q)' = SavedBy(q)
      BY <1>11 DEF SavedBy
    <3> QED BY <1>12, <3>1, ZenonT(40)
  <2> QED BY <2>3, <2>4, <2>5
<1>18. Gapless'
  <2>1. AtHasAll'
    BY <1>1, <1>10 DEF IInv, Gapless, AtHasAll
  <2>2. WorkHasAll'
    BY <1>1, <1>9 DEF IInv, Gapless, WorkHasAll, f, i, r
  <2> QED BY <2>1, <2>2 DEF Gapless
<1> QED BY <1>t, <1>13, <1>14, <1>15, <1>17, <1>18 DEF IInv

\* A correction that is refused asks for the amount again.
LEMMA AskAgainStep ==
  ASSUME IInv, NEW h \in Handlers, AskAgain(h)
  PROVE  IInv'
<1> DEFINE f == work[h].form
           r == work[h].run
<1>1. /\ work[h].pc = "written" /\ Forms[f].effect = "retry"
      /\ at' = [form |-> f, step |-> 1]
      /\ Finish(h) /\ UNCHANGED <<data, runs, prompts, saved, excused, faults>>
  BY DEF AskAgain
<1>2. AtWork(h) /\ Wrote(h)
  BY <1>1 DEF AtWork, Wrote
<1>3. /\ f \in FormNames /\ r \in DOMAIN runs /\ runs[r] = f
      /\ LastStep(f) \in Nat \ {0} /\ Same(r, RunOf(f))
      /\ \A g \in Handlers : AtWork(g) /\ g # h => work[g].run \in excused /\ r \in excused
  BY <1>2, WorkFacts, FormFacts
<1>4. work[h].step = LastStep(f)
  BY <1>2 DEF IInv, Fits, PartsFit
<1>6. /\ work' \in [Handlers -> WorkRow]
      /\ \A g \in Handlers : work'[g].pc # "idle" => g # h /\ work'[g] = work[g] /\ AtWork(g)
      /\ \A g \in Handlers : g # h => work'[g] = work[g]
  BY <1>1, FinishFacts DEF IInv
<1>7. /\ RunsHaveLast' /\ WorkFits' /\ PartsFit' /\ Alone' /\ OnLastRun'
      /\ \A g : RunOf(g)' = RunOf(g)
      /\ \A q, s : Same(q, s)' <=> Same(q, s)
  BY <1>1, <1>6, FitsFrame
<1> HIDE DEF f, r
<1>t. Types'
  <2>1. at' \in [form : FormNames \cup {"none"}, step : Nat]
    BY <1>1, <1>3
  <2> QED BY <1>1, <1>6, <2>1 DEF IInv, Types
<1>9. Fits'
  <2>1. AtFits'
    <3>1. 1 \in 1..LastStep(f)
      BY <1>3
    <3> QED BY <1>1, <1>3, <3>1 DEF AtFits
  <2>2. DataFits' /\ PromptsFit'
    BY <1>1 DEF IInv, Fits, DataFits, PromptsFit, IsRun
  <2>3. SavedFits'
    BY <1>1 DEF IInv, Fits, SavedFits, MainRun
  <2> QED BY <1>7, <2>1, <2>2, <2>3 DEF Fits
<1>10. Answers'
  <2>1. ASSUME NEW p \in data, NEW j \in Nat, Reached(p.form, j)', p.step < j
        PROVE  Same(p.run, RunOf(p.form))
    <3>1. CASE Reached(p.form, j)
      BY <2>1, <3>1 DEF IInv, Answers, AnswersOfLastRun
    <3>2. CASE ~Reached(p.form, j)
      <4>1. p.form = f
        BY <1>1, <1>7, <2>1, <3>2 DEF Reached
      <4>2. p.step < work[h].step
        BY <1>4, <4>1 DEF IInv, Fits, DataFits
      <4>3. Same(p.run, r)
        BY <1>1, <4>1, <4>2 DEF IInv, Answers, AnswersOfWork, f, r
      <4> QED BY <1>3, <4>1, <4>3 DEF Same
    <3> QED BY <3>1, <3>2
  <2>2. AnswersOfLastRun'
    BY <1>1, <1>7, <2>1 DEF AnswersOfLastRun
  <2>3. AnswersOfWork'
    BY <1>1, <1>6, <1>7 DEF IInv, Answers, AnswersOfWork
  <2> QED BY <1>7, <2>2, <2>3 DEF Answers
<1>11. ClearedIsEmpty'
  BY <1>1, <1>3, <1>6 DEF ClearedIsEmpty
<1>12. Once'
  <2> SUFFICES ASSUME NEW q \in DOMAIN runs, q \notin excused
               PROVE  SavedOnce(q)' /\ DoneLeavesNothing(q)' /\ DoneIsOver(q)'
    BY <1>1 DEF Once
  <2>1. SavedOnce(q) /\ DoneLeavesNothing(q) /\ DoneIsOver(q)
    BY DEF IInv, Once
  <2>2. SavedBy(q)' = SavedBy(q) /\ (Done(q)' <=> Done(q))
    BY <1>1 DEF SavedBy, Done
  <2>3. SavedOnce(q)'
    BY <2>1, <2>2 DEF SavedOnce
  <2>4. Sending(q) => Sending(q)'
    BY <1>1, <1>6 DEF Sending, IsSend, f
  <2>5. Done(q) => q # r
    BY <1>1, <1>2, <2>1 DEF DoneIsOver, IsSend, f, r
  <2>6. DoneLeavesNothing(q)'
    BY <1>1, <1>3, <1>7, <2>1, <2>2, <2>4, <2>5 DEF DoneLeavesNothing, Same
  <2>7. DoneIsOver(q)'
    BY <1>6, <2>1, <2>2 DEF DoneIsOver, AtWork, IsSend, Wrote
  <2> QED BY <2>3, <2>6, <2>7
<1>13. Gapless'
  <2>1. AtHasAll'
    <3> SUFFICES ASSUME RunOf(f) \notin excused PROVE FilledIn(data, f, 1)
      BY <1>1, <1>7 DEF AtHasAll
    <3>1. Forms[f].guarded
      BY <1>1, <1>3, FormFacts
    <3>2. FilledIn(data, f, LastStep(f))
      BY <1>1, <1>3, <1>4, <3>1 DEF IInv, Gapless, WorkHasAll, Same, f, r
    <3>3. Asked(f, 1) \subseteq Asked(f, LastStep(f))
      BY <1>3 DEF Asked
    <3> QED BY <3>2, <3>3 DEF FilledIn
  <2>2. WorkHasAll'
    BY <1>1, <1>6 DEF IInv, Gapless, WorkHasAll
  <2> QED BY <2>1, <2>2 DEF Gapless
<1> QED BY <1>t, <1>9, <1>10, <1>11, <1>12, <1>13 DEF IInv

\* The form is cleared.
LEMMA ClearStep ==
  ASSUME IInv, NEW h \in Handlers, Clear(h)
  PROVE  IInv'
<1>1. /\ work[h].pc = "written" /\ at' = Nowhere /\ data' = {}
      /\ work' = [work EXCEPT ![h].pc = "cleared"]
      /\ UNCHANGED <<runs, prompts, saved, excused, faults>>
  BY DEF Clear
<1>2. /\ work' \in [Handlers -> WorkRow]
      /\ \A g \in Handlers : g # h => work'[g] = work[g]
      /\ work'[h].pc = "cleared" /\ work'[h].parts = work[h].parts
      /\ work'[h].form = work[h].form /\ work'[h].step = work[h].step
      /\ work'[h].run = work[h].run
  <2>1. work \in [Handlers -> WorkRow]
    BY DEF IInv, Types
  <2> QED BY <1>1, <2>1 DEF WorkRow
<1>3. \A g : RunOf(g)' = RunOf(g)
  BY <1>1 DEF RunOf
<1>t. Types'
  BY <1>1, <1>2 DEF IInv, Types, Nowhere
<1>4. Fits'
  <2>1. RunsHaveLast' /\ PromptsFit' /\ AtFits' /\ DataFits'
    BY <1>1, <1>3 DEF IInv, Fits, RunsHaveLast, PromptsFit, AtFits, DataFits, IsRun
  <2>2. WorkFits'
    BY <1>1, <1>2 DEF IInv, Fits, WorkFits, AtWork, IsRun
  <2>3. PartsFit'
    BY <1>1, <1>2 DEF IInv, Fits, PartsFit, Wrote, MainRun
  <2>4. SavedFits'
    BY <1>1 DEF IInv, Fits, SavedFits, MainRun
  <2> QED BY <2>1, <2>2, <2>3, <2>4 DEF Fits
<1>5. Answers'
  <2>1. Alone' /\ OnLastRun'
    BY <1>1, <1>2, <1>3 DEF IInv, Answers, Alone, OnLastRun, AtWork, Same
  <2>2. AnswersOfLastRun' /\ AnswersOfWork'
    BY <1>1 DEF AnswersOfLastRun, AnswersOfWork
  <2> QED BY <2>1, <2>2 DEF Answers
<1>6. ClearedIsEmpty'
  BY <1>1 DEF ClearedIsEmpty
<1>7. Once'
  <2> SUFFICES ASSUME NEW q \in DOMAIN runs, q \notin excused
               PROVE  SavedOnce(q)' /\ DoneLeavesNothing(q)' /\ DoneIsOver(q)'
    BY <1>1 DEF Once
  <2>1. SavedOnce(q) /\ DoneIsOver(q)
    BY DEF IInv, Once
  <2>2. SavedBy(q)' = SavedBy(q) /\ (Done(q)' <=> Done(q))
    BY <1>1 DEF SavedBy, Done
  <2>3. SavedOnce(q)' /\ DoneLeavesNothing(q)'
    BY <1>1, <2>1, <2>2 DEF SavedOnce, DoneLeavesNothing
  <2>4. DoneIsOver(q)'
    BY <1>1, <1>2, <2>1, <2>2 DEF DoneIsOver, AtWork, IsSend, Wrote
  <2> QED BY <2>3, <2>4
<1>8. Gapless'
  <2>1. \A g \in Handlers : work'[g].pc \in {"arrived", "written"} => work'[g].run \in excused
    BY <1>1, <1>2 DEF IInv, Answers, Alone, AtWork
  <2> QED BY <1>1, <2>1 DEF Gapless, AtHasAll, WorkHasAll
<1> QED BY <1>t, <1>4, <1>5, <1>6, <1>7, <1>8 DEF IInv

\* What was written is committed.
LEMMA CommitStep ==
  ASSUME IInv, NEW h \in Handlers, Commit(h)
  PROVE  IInv'
<1> DEFINE f == work[h].form
           r == work[h].run
           parts == work[h].parts
           R == Record(h, parts)
<1>1. /\ work[h].pc = "cleared"
      /\ saved' = (IF Forms[f].effect = "send" THEN saved ELSE Append(saved, R))
      /\ Finish(h) /\ UNCHANGED <<at, data, runs, prompts, excused, faults>>
  BY DEF Commit
<1>2. AtWork(h) /\ Wrote(h)
  BY <1>1 DEF AtWork, Wrote
<1>3. /\ work[h] \in WorkRow /\ f \in FormNames /\ r \in DOMAIN runs /\ runs[r] = f
      /\ \A g \in Handlers : AtWork(g) /\ g # h => work[g].run \in excused /\ r \in excused
  BY <1>2, WorkFacts
<1>4. /\ MainRun({p.run : p \in parts}, r) /\ parts \in SUBSET PartRow
      /\ \A p \in parts : p.run \in DOMAIN runs
  BY <1>2, <1>3 DEF IInv, Fits, PartsFit, WorkRow
<1>5. R.form = f /\ R.runs = {p.run : p \in parts} /\ R \in SavedRow
  BY <1>3, <1>4, RecordFacts
<1>6. /\ work' \in [Handlers -> WorkRow]
      /\ \A g \in Handlers : work'[g].pc # "idle" => g # h /\ work'[g] = work[g] /\ AtWork(g)
      /\ \A g \in Handlers : g # h => work'[g] = work[g]
  BY <1>1, FinishFacts DEF IInv
<1>7. /\ RunsHaveLast' /\ WorkFits' /\ PartsFit' /\ Alone' /\ OnLastRun'
      /\ \A g : RunOf(g)' = RunOf(g)
      /\ \A q, s : Same(q, s)' <=> Same(q, s)
  BY <1>1, <1>6, FitsFrame
<1> HIDE DEF f, r, parts, R
<1>8. Forms[f].effect = "send" => saved' = saved
  BY <1>1
<1>9. Forms[f].effect # "send" =>
        /\ saved' \in Seq(SavedRow) /\ Len(saved) + 1 \notin DOMAIN saved
        /\ DOMAIN saved' = DOMAIN saved \cup {Len(saved) + 1}
        /\ \A j \in DOMAIN saved : saved'[j] = saved[j]
        /\ saved'[Len(saved) + 1] = R
        /\ \A q : SavedBy(q)' = SavedBy(q) \cup (IF q \in R.runs THEN {Len(saved) + 1} ELSE {})
  BY <1>1, <1>5, SavedMore DEF IInv
<1>t. Types'
  BY <1>1, <1>6, <1>8, <1>9 DEF IInv, Types
<1>10. Fits'
  <2>1. PromptsFit' /\ AtFits' /\ DataFits'
    BY <1>1 DEF IInv, Fits, PromptsFit, AtFits, DataFits, IsRun
  <2>2. SavedFits'
    <3>1. CASE Forms[f].effect = "send"
      BY <1>1, <1>8, <3>1 DEF IInv, Fits, SavedFits, MainRun
    <3>2. CASE Forms[f].effect # "send"
      <4>1. R.runs \subseteq DOMAIN runs /\ MainRun(R.runs, r) /\ r \in R.runs
        BY <1>4, <1>5 DEF MainRun
      <4> QED BY <1>1, <1>9, <3>2, <4>1 DEF IInv, Fits, SavedFits, MainRun
    <3> QED BY <3>1, <3>2
  <2> QED BY <1>7, <2>1, <2>2 DEF Fits
<1>11. Answers'
  <2>1. AnswersOfLastRun'
    BY <1>1, <1>7 DEF IInv, Answers, AnswersOfLastRun, Reached
  <2>2. AnswersOfWork'
    BY <1>1, <1>6, <1>7 DEF IInv, Answers, AnswersOfWork
  <2> QED BY <1>7, <2>1, <2>2 DEF Answers
<1>12. ClearedIsEmpty'
  BY <1>1, <1>6 DEF IInv, ClearedIsEmpty
<1>13. Once'
  <2> SUFFICES ASSUME NEW q \in DOMAIN runs, q \notin excused
               PROVE  SavedOnce(q)' /\ DoneLeavesNothing(q)' /\ DoneIsOver(q)'
    BY <1>1 DEF Once
  <2>1. SavedOnce(q) /\ DoneLeavesNothing(q) /\ DoneIsOver(q)
    BY DEF IInv, Once
  <2>2. Sending(q) => Sending(q)'
    BY <1>1, <1>6 DEF Sending, IsSend
  <2>3. CASE SavedBy(q)' = SavedBy(q)
    <3>1. Done(q)' <=> Done(q)
      BY <2>3 DEF Done
    <3>2. SavedOnce(q)'
      BY <2>1, <2>3 DEF SavedOnce
    <3>3. DoneLeavesNothing(q)'
      BY <1>1, <1>7, <2>1, <2>2, <3>1 DEF DoneLeavesNothing
    <3>4. DoneIsOver(q)'
      BY <1>6, <2>1, <3>1 DEF DoneIsOver, AtWork, IsSend, Wrote
    <3> QED BY <3>2, <3>3, <3>4
  <2>4. CASE Forms[f].effect # "send" /\ q \in R.runs
    <3>1. q = r
      BY <1>4, <1>5, <2>4 DEF MainRun
    <3>2. ~Done(q)
      BY <1>1, <1>2, <2>1, <2>4, <3>1 DEF DoneIsOver, IsSend, f, r
    <3>3. SavedBy(q)' = {Len(saved) + 1}
      BY <1>9, <2>4, <3>2 DEF Done
    <3>4. SavedOnce(q)'
      BY <3>3 DEF SavedOnce
    <3>5. (\A p \in data : p.run # q) /\ (at = Nowhere \/ at.form # f)
      BY <1>1, <3>1 DEF IInv, ClearedIsEmpty, f, r
    <3>6. DoneLeavesNothing(q)'
      BY <1>1, <1>3, <3>1, <3>5 DEF DoneLeavesNothing
    <3>7. DoneIsOver(q)'
      BY <1>3, <1>6, <3>1 DEF DoneIsOver, AtWork
    <3> QED BY <3>4, <3>6, <3>7
  <2>5. SavedBy(q)' = SavedBy(q) \/ (Forms[f].effect # "send" /\ q \in R.runs)
    <3>1. Forms[f].effect = "send" => SavedBy(q)' = SavedBy(q)
      BY <1>8 DEF SavedBy
    <3> QED BY <1>9, <3>1
  <2> QED BY <2>3, <2>4, <2>5
<1>14. Gapless'
  BY <1>1, <1>6, <1>7 DEF IInv, Gapless, AtHasAll, WorkHasAll
<1> QED BY <1>t, <1>10, <1>11, <1>12, <1>13, <1>14 DEF IInv

-----------------------------------------------------------------------------
\* A form is opened.

LastIn(s, f) == CHOOSE r \in DOMAIN s : s[r] = f /\ \A q \in DOMAIN s : s[q] = f => q <= r

\* There is one last run.
LEMMA OneLast ==
  ASSUME NEW s \in Seq(FormNames), NEW f, NEW r \in DOMAIN s, s[r] = f,
         \A q \in DOMAIN s : s[q] = f => q <= r
  PROVE  LastIn(s, f) = r
<1>1. /\ LastIn(s, f) \in DOMAIN s /\ s[LastIn(s, f)] = f
      /\ \A q \in DOMAIN s : s[q] = f => q <= LastIn(s, f)
  BY DEF LastIn
<1>2. DOMAIN s \subseteq Nat
  BY LenProperties
<1>3. r <= LastIn(s, f) /\ LastIn(s, f) <= r /\ r \in Nat /\ LastIn(s, f) \in Nat
  BY <1>1, <1>2
<1> QED BY <1>3

\* The opened run is the form's last, and the other forms' last runs are the same.
LEMMA OpenFacts ==
  ASSUME IInv, NEW f \in FormNames, runs' = Append(runs, f)
  PROVE  /\ runs' \in Seq(FormNames) /\ Len(runs) + 1 \in Nat
         /\ Len(runs) + 1 \notin DOMAIN runs
         /\ DOMAIN runs' = DOMAIN runs \cup {Len(runs) + 1}
         /\ \A r \in DOMAIN runs : runs'[r] = runs[r]
         /\ runs'[Len(runs) + 1] = f
         /\ RunOf(f)' = Len(runs) + 1
         /\ \A r \in DOMAIN runs : r <= Len(runs) + 1
         /\ \A r \in DOMAIN runs : runs[r] # f => RunOf(runs[r])' = RunOf(runs[r])
<1>1. runs \in Seq(FormNames)
  BY DEF IInv, Types
<1>2. /\ runs' \in Seq(FormNames) /\ Len(runs) + 1 \in Nat
      /\ Len(runs) + 1 \notin DOMAIN runs
      /\ DOMAIN runs' = DOMAIN runs \cup {Len(runs) + 1}
      /\ \A r \in DOMAIN runs : runs'[r] = runs[r]
      /\ runs'[Len(runs) + 1] = f
      /\ \A r \in DOMAIN runs : r <= Len(runs) + 1
  BY <1>1, AppendProperties, LenProperties
<1>3. \A g : RunOf(g)' = LastIn(runs', g)
  BY DEF RunOf, LastIn
<1>4. LastIn(runs', f) = Len(runs) + 1
  <2>1. \A q \in DOMAIN runs' : q <= Len(runs) + 1
    BY <1>2
  <2> QED BY <1>2, <2>1, OneLast
<1>5. ASSUME NEW r \in DOMAIN runs, runs[r] # f
      PROVE  LastIn(runs', runs[r]) = RunOf(runs[r])
  <2>1. /\ RunOf(runs[r]) \in DOMAIN runs /\ runs[RunOf(runs[r])] = runs[r]
        /\ \A q \in DOMAIN runs : runs[q] = runs[r] => q <= RunOf(runs[r])
    BY DEF IInv, Fits, RunsHaveLast, IsRun
  <2>2. /\ RunOf(runs[r]) \in DOMAIN runs' /\ runs'[RunOf(runs[r])] = runs[r]
        /\ \A q \in DOMAIN runs' : runs'[q] = runs[r] => q <= RunOf(runs[r])
    BY <1>2, <1>5, <2>1
  <2> QED BY <1>2, <2>2, OneLast
<1> QED BY <1>2, <1>3, <1>4, <1>5

\* An opening keeps the invariant.
LEMMA OpenStep ==
  ASSUME IInv, NEW f \in FormNames, Open(f)
  PROVE  IInv'
<1> DEFINE N == Len(runs) + 1
           P == Part(f, 0, N)
<1>1. /\ runs' = Append(runs, f) /\ Overlap({N})
      /\ at' = [form |-> f, step |-> 1]
      /\ UNCHANGED <<prompts, work, saved, faults>>
  BY DEF Open
<1>2. /\ runs' \in Seq(FormNames) /\ N \in Nat /\ N \notin DOMAIN runs
      /\ DOMAIN runs' = DOMAIN runs \cup {N}
      /\ \A r \in DOMAIN runs : runs'[r] = runs[r]
      /\ runs'[N] = f /\ RunOf(f)' = N
      /\ \A r \in DOMAIN runs : r <= N
      /\ \A r \in DOMAIN runs : runs[r] # f => RunOf(runs[r])' = RunOf(runs[r])
  BY <1>1, OpenFacts
<1>3. /\ excused \subseteq excused' /\ excused' \subseteq Nat
      /\ \A h \in Handlers : AtWork(h) => work[h].run \in excused' /\ N \in excused'
  <2>1. {N} \in SUBSET Nat /\ Types
    BY <1>2 DEF IInv
  <2> QED BY <1>1, <2>1, OverlapFacts
<1>4. P \in PartRow /\ P.form = f /\ P.step = 0 /\ P.run = N
  BY <1>2 DEF Part, PartRow
<1>5. \A p \in data' : \/ p = P /\ Forms[f].target
                       \/ p \in data /\ (Forms[f].target => p.form # f \/ p.step # 0)
  <2> DEFINE old == IF Forms[f].menu /\ at.form \notin {"none", "preview"} THEN {} ELSE data
  <2>1. data' = IF Forms[f].target THEN {p \in old : p.form # f \/ p.step # 0} \cup {P} ELSE old
    BY DEF Open
  <2>2. old \subseteq data
    OBVIOUS
  <2> HIDE DEF old, P
  <2> QED BY <2>1, <2>2
<1> HIDE DEF N, P
<1>6. f # "none" /\ LastStep(f) \in Nat \ {0}
  BY FormFacts
<1>t. Types'
  <2>1. at' \in [form : FormNames \cup {"none"}, step : Nat]
    BY <1>1
  <2>2. data' \subseteq PartRow
    BY <1>4, <1>5 DEF IInv, Types
  <2> QED BY <1>1, <1>2, <1>3, <2>1, <2>2 DEF IInv, Types
<1>7. Fits'
  <2>1. RunsHaveLast'
    BY <1>2 DEF IInv, Fits, RunsHaveLast, IsRun
  <2>2. AtFits'
    <3>1. 1 \in 1..LastStep(f)
      BY <1>6
    <3> QED BY <1>1, <1>2, <3>1 DEF AtFits
  <2>3. DataFits'
    <3> SUFFICES ASSUME NEW p \in data'
                 PROVE  /\ IsRun(p.form, p.run)' /\ p.step < LastStep(p.form)
                        /\ p.step = 0 => Forms[p.form].target
      BY DEF DataFits
    <3>1. CASE p \in data
      BY <1>2, <3>1 DEF IInv, Fits, DataFits, IsRun
    <3>2. CASE p = P /\ Forms[f].target
      BY <1>2, <1>4, <1>6, <3>2 DEF IsRun
    <3> QED BY <1>5, <3>1, <3>2
  <2>4. PromptsFit'
    BY <1>1, <1>2 DEF IInv, Fits, PromptsFit
  <2>5. WorkFits' /\ PartsFit'
    BY <1>1, <1>2, <1>3 DEF IInv, Fits, WorkFits, PartsFit, AtWork, Wrote, IsRun, MainRun
  <2>6. SavedFits'
    BY <1>1, <1>2, <1>3 DEF IInv, Fits, SavedFits, MainRun
  <2> QED BY <2>1, <2>2, <2>3, <2>4, <2>5, <2>6 DEF Fits
<1>8. \A q, s : Same(q, s) => Same(q, s)'
  BY <1>3 DEF Same
<1>9. \A q, s : q \in excused' /\ s \in excused' => Same(q, s)'
  BY DEF Same
<1>10. Answers'
  <2>1. Alone'
    BY <1>1, <1>3 DEF IInv, Answers, Alone, AtWork
  <2>2. OnLastRun'
    <3> SUFFICES ASSUME NEW h \in Handlers, AtWork(h)
                 PROVE  Same(work[h].run, RunOf(work[h].form))'
      BY <1>1 DEF OnLastRun, AtWork
    <3>1. CASE work[h].form = f
      BY <1>1, <1>2, <1>3, <3>1 DEF Same
    <3>2. CASE work[h].form # f
      <4>1. /\ work[h].run \in DOMAIN runs /\ runs[work[h].run] = work[h].form
            /\ Same(work[h].run, RunOf(work[h].form))
        BY WorkFacts
      <4> QED BY <1>1, <1>2, <1>3, <3>2, <4>1 DEF Same
    <3> QED BY <3>1, <3>2
  <2>3. AnswersOfLastRun'
    <3> SUFFICES ASSUME NEW p \in data', NEW j \in Nat, Reached(p.form, j)', p.step < j
                 PROVE  p.run = RunOf(p.form)' \/ (p.run \in excused' /\ RunOf(p.form)' \in excused')
      BY DEF AnswersOfLastRun, Same
    <3>1. CASE p = P
      BY <1>2, <1>4, <3>1
    <3>2. CASE p \in data /\ p.form = f /\ (Forms[f].target => p.step # 0)
      <4>1. p.step # 0 /\ p.step \in Nat
        BY <3>2 DEF IInv, Types, PartRow, Fits, DataFits
      <4>2. <<N, j>> \notin prompts
        BY <1>2 DEF IInv, Fits, PromptsFit
      <4>3. j = 1
        BY <1>1, <1>2, <3>2, <4>2 DEF Reached
      <4> QED BY <4>1, <4>3
    <3>3. CASE p \in data /\ p.form # f
      <4>1. p.run \in DOMAIN runs /\ runs[p.run] = p.form
        BY <3>3 DEF IInv, Fits, DataFits, IsRun
      <4>2. RunOf(p.form)' = RunOf(p.form)
        BY <1>2, <3>3, <4>1
      <4>3. Reached(p.form, j)
        BY <1>1, <3>3, <4>1, <4>2 DEF Reached
      <4>4. Same(p.run, RunOf(p.form))
        BY <3>3, <4>3 DEF IInv, Answers, AnswersOfLastRun
      <4> QED BY <1>3, <4>2, <4>4 DEF Same
    <3> QED BY <1>5, <3>1, <3>2, <3>3
  <2>4. AnswersOfWork'
    <3> SUFFICES ASSUME NEW h \in Handlers, work[h].pc \in {"arrived", "written"},
                        NEW p \in data', p.form = work[h].form, p.step < work[h].step
                 PROVE  p.run = work[h].run \/ (p.run \in excused' /\ work[h].run \in excused')
      BY <1>1 DEF AnswersOfWork, Same
    <3>1. CASE p = P
      BY <1>3, <1>4, <3>1 DEF AtWork
    <3>2. CASE p \in data
      BY <1>3, <3>2 DEF IInv, Answers, AnswersOfWork, Same
    <3> QED BY <1>5, <3>1, <3>2
  <2> QED BY <2>1, <2>2, <2>3, <2>4 DEF Answers
<1>11. ClearedIsEmpty'
  BY <1>1, <1>3 DEF ClearedIsEmpty, AtWork
<1>12. Once'
  <2> SUFFICES ASSUME NEW q \in DOMAIN runs', q \notin excused'
               PROVE  SavedOnce(q)' /\ DoneLeavesNothing(q)' /\ DoneIsOver(q)'
    BY DEF Once
  <2>1. SavedBy(q)' = SavedBy(q) /\ (Done(q)' <=> Done(q)) /\ (Sending(q)' <=> Sending(q))
    BY <1>1 DEF SavedBy, Done, Sending, IsSend
  <2>2. DoneIsOver(q)'
    BY <1>1, <1>3 DEF DoneIsOver, AtWork
  <2>3. CASE q = N
    <3>1. SavedBy(q) = {}
      BY <1>2, <2>3 DEF SavedBy, IInv, Fits, SavedFits
    <3> QED BY <2>1, <2>2, <3>1 DEF SavedOnce, DoneLeavesNothing, Done
  <2>4. CASE q \in DOMAIN runs
    <3>1. SavedOnce(q) /\ DoneLeavesNothing(q) /\ q # N
      BY <1>2, <1>3, <2>4 DEF IInv, Once
    <3>2. SavedOnce(q)'
      BY <2>1, <3>1 DEF SavedOnce
    <3>3. DoneLeavesNothing(q)'
      BY <1>1, <1>2, <1>4, <1>5, <2>1, <3>1 DEF DoneLeavesNothing
    <3> QED BY <2>2, <3>2, <3>3
  <2> QED BY <1>2, <2>3, <2>4
<1>13. Gapless'
  <2>1. AtHasAll'
    <3>1. FilledIn(data', f, 1)
      <4>1. \A j \in Asked(f, 1) : j = 0 /\ Forms[f].target
        BY DEF Asked
      <4>2. Forms[f].target => P \in data'
        BY DEF Open, N, P
      <4> QED BY <1>4, <4>1, <4>2 DEF FilledIn
    <3> QED BY <1>1, <3>1 DEF AtHasAll
  <2>2. WorkHasAll'
    BY <1>1, <1>3 DEF WorkHasAll, AtWork
  <2> QED BY <2>1, <2>2 DEF Gapless
<1> QED BY <1>t, <1>7, <1>10, <1>11, <1>12, <1>13 DEF IInv

-----------------------------------------------------------------------------
\* The invariant.

\* At first nothing is filled in, so the invariant holds.
LEMMA InitIInv == Init => IInv
<1> SUFFICES ASSUME Init PROVE IInv
  OBVIOUS
<1>1. /\ at = Nowhere /\ data = {} /\ runs = <<>> /\ prompts = {}
      /\ work = [h \in Handlers |-> Idle] /\ saved = <<>> /\ excused = {} /\ faults = 0
  BY DEF Init
<1>2. work \in [Handlers -> WorkRow] /\ \A h \in Handlers : work[h].pc = "idle"
  BY <1>1, IdleFacts
<1>3. DOMAIN runs = {} /\ DOMAIN saved = {} /\ runs \in Seq(FormNames) /\ saved \in Seq(SavedRow)
  BY <1>1
<1>4. Types
  BY <1>1, <1>2, <1>3 DEF Types, Nowhere
<1>5. Fits
  BY <1>1, <1>2, <1>3 DEF Fits, RunsHaveLast, AtFits, DataFits, PromptsFit, WorkFits,
                          PartsFit, SavedFits, AtWork, Wrote
<1>6. Answers
  BY <1>1, <1>2 DEF Answers, Alone, OnLastRun, AnswersOfLastRun, AnswersOfWork, AtWork
<1>7. ClearedIsEmpty /\ Once
  BY <1>2, <1>3 DEF ClearedIsEmpty, Once
<1>8. Gapless
  BY <1>1, <1>2 DEF Gapless, AtHasAll, WorkHasAll
<1> QED BY <1>4, <1>5, <1>6, <1>7, <1>8 DEF IInv

\* Every step keeps the invariant.
LEMMA NextIInv == IInv /\ [Next]_vars => IInv'
<1> SUFFICES ASSUME IInv, [Next]_vars PROVE IInv'
  OBVIOUS
<1>1. CASE \/ UNCHANGED vars \/ Leave \/ Restart
           \/ \E h \in Handlers : Refuse(h) \/ Missing(h) \/ Talk(h) \/ Raise(h)
  BY <1>1, QuietSteps, QuietStep
<1>2. CASE \E f \in FormNames : Open(f)
  BY <1>2, OpenStep
<1>3. CASE \E h \in Handlers, word \in {"answer", "menu", "cancel", "stray"} : Text(h, word)
  BY <1>3, TextBegins
<1>4. CASE \E h \in Handlers, k \in prompts : Press(h, k[1], k[2])
  BY <1>4, PressBegins
<1>5. CASE \E h \in Handlers : Store(h)
  BY <1>5, StoreStep
<1>6. CASE \E h \in Handlers : Write(h)
  BY <1>6, WriteStep
<1>7. CASE \E h \in Handlers : AskAgain(h)
  BY <1>7, AskAgainStep
<1>8. CASE \E h \in Handlers : Clear(h)
  BY <1>8, ClearStep
<1>9. CASE \E h \in Handlers : Commit(h)
  BY <1>9, CommitStep
<1> QED BY <1>1, <1>2, <1>3, <1>4, <1>5, <1>6, <1>7, <1>8, <1>9 DEF Next, FormNames

-----------------------------------------------------------------------------
\* The theorems.

\* The invariant holds throughout.
THEOREM SpecIInv == Spec => []IInv
BY InitIInv, NextIInv, PTL DEF Spec

\* No form asks a question, and no handler gets an answer, while an earlier answer
\* of the form is missing, for any number of handlers at once, of openings and of
\* faults, unless handlers overlapped or an old keyboard was pressed: so no step of
\* such a run meets a KeyError.
THEOREM SpecNoGapUnlessExcused == Spec => []NoGapUnlessExcused
<1>1. IInv => NoGapUnlessExcused
  BY DEF IInv, Gapless, AtHasAll, WorkHasAll, FilledIn, HasAll, Kept, NoGapUnlessExcused
<1> QED BY <1>1, SpecIInv, PTL

\* What a form saves was answered in one run of it, unless handlers overlapped or
\* an old keyboard was pressed: the answers that earlier runs left in the data are
\* never read, since a form's steps store before the last one reads.
THEOREM SpecOneRunUnlessExcused == Spec => []OneRunUnlessExcused
<1>1. ASSUME NEW rs, NEW r \in rs, MainRun(rs, r)
      PROVE  Cardinality(rs) = 1 \/ rs \cap excused # {}
  <2>1. CASE rs = {r}
    BY <2>1, FS_Singleton, Zenon
  <2>2. CASE rs # {r}
    BY <1>1, <2>2 DEF MainRun
  <2> QED BY <2>1, <2>2
<1>2. IInv => OneRunUnlessExcused
  BY <1>1 DEF IInv, Fits, SavedFits, OneRunUnlessExcused, Saved
<1> QED BY <1>2, SpecIInv, PTL

\* A run of a form saves at most once, whatever is pressed or sent again after it
\* and after an exception or a restart, unless its handlers overlapped, an old
\* keyboard was pressed or its broadcast broke off.
THEOREM SpecOnceUnlessExcused == Spec => []OnceUnlessExcused
<1>1. ASSUME NEW S, \A i, j \in S : i = j PROVE Cardinality(S) <= 1
  <2>1. CASE S = {}
    <3>1. Cardinality(S) = 0
      BY <2>1, FS_EmptySet, Zenon
    <3> QED BY <3>1
  <2>2. CASE S # {}
    <3>1. PICK i \in S : S = {i}
      BY <1>1, <2>2
    <3>2. Cardinality(S) = 1
      BY <3>1, FS_Singleton, Zenon
    <3> QED BY <3>2
  <2> QED BY <2>1, <2>2
<1>2. IInv => OnceUnlessExcused
  <2> SUFFICES ASSUME IInv, NEW r \in DOMAIN runs \ excused
               PROVE  Cardinality({i \in DOMAIN saved : r \in saved[i].runs}) <= 1
    BY DEF OnceUnlessExcused
  <2>1. SavedOnce(r)
    BY DEF IInv, Once
  <2> QED BY <1>1, <2>1 DEF SavedOnce, SavedBy
<1> QED BY <1>2, SpecIInv, PTL
=============================================================================
