-------------------------------- MODULE Desk --------------------------------
(***************************************************************************)
(* The forms of the main bot: what an admin and a shop owner fill in, step *)
(* by step, in the bot's panels, and how the dispatcher leads their        *)
(* messages to the form's handlers. One person is modelled, who may be     *)
(* both; aiogram keeps one form's state and one set of data for a person.  *)
(*                                                                         *)
(* Each opening of a form is a run of it. A handler is chosen by the state *)
(* the person is in when the message comes; it then checks the answer (a   *)
(* query, a call to Telegram), and stores it and moves the state on,       *)
(* whatever happened meanwhile. The last step reads the data, writes,      *)
(* clears the form, answers and commits. The keyboards of earlier runs     *)
(* stay in the chat and can still be pressed.                              *)
(***************************************************************************)
EXTENDS Naturals, Sequences, FiniteSets

CONSTANTS
  Handlers,  \* handlers at work
  MaxRuns,   \* bound: openings of forms
  MaxFaults  \* bound: exceptions and restarts

ASSUME BoundsAreNat == MaxRuns \in Nat \ {0} /\ MaxFaults \in Nat

VARIABLES
  at,       \* the person's state: a form and a step
  data,     \* the person's data: the answers kept
  runs,     \* run -> its form, in the order they were opened
  prompts,  \* the keyboards in the chat: <<run, step>>
  work,     \* handler -> what it is doing
  saved,    \* what the forms wrote (or sent), in the order it was done
  excused,  \* history: runs of which a handler overlapped with another one or
            \* sent only half, or of which a keyboard was pressed in a later run,
            \* that later run, and the runs whose answers were kept by then
  faults    \* exceptions and restarts so far

vars == <<at, data, runs, prompts, work, saved, excused, faults>>

-----------------------------------------------------------------------------
(***************************************************************************)
(* The forms. A step takes free text, something that is checked (a number, *)
(* a photo, a file, a proof of ownership), or a press of the keyboard that *)
(* the step before has shown. target: opening the form keeps what it is    *)
(* about. menu: a button of the menu opens it. optional: the last step     *)
(* reads these answers with .get. An admin's forms are in the routers      *)
(* before the panel's, where /cancel is.                                   *)
(***************************************************************************)
Panel == [desk |-> "panel", steps |-> <<>>, target |-> FALSE, menu |-> FALSE,
          optional |-> {}, guarded |-> TRUE, effect |-> "write"]
Admin == [Panel EXCEPT !.desk = "admin"]

\* broadcast_start, broadcast_message_entered, broadcast_confirmed
Broadcast == [Admin EXCEPT !.steps = <<"text", "press">>, !.menu = TRUE, !.effect = "send"]

\* cb_channel_add, channel_add_name, channel_add_proof, channel_add_primary_choice
Channel == [Admin EXCEPT !.steps = <<"text", "checked", "press">>]

\* cb_plan_add, plan_duration_entered, plan_price_entered
Plan == [Admin EXCEPT !.steps = <<"checked", "checked">>]

\* cb_discount_add, discount_code_entered, discount_type_chosen,
\* discount_value_entered, discount_max_uses_entered
DiscountCode == [Admin EXCEPT !.steps = <<"checked", "press", "checked", "checked">>]

\* cb_setting_edit, setting_value_entered
Setting == [Admin EXCEPT !.steps = <<"text">>, !.target = TRUE]

\* rate_limit_max_entered, rate_limit_window_entered
RateLimit == [Admin EXCEPT !.steps = <<"checked", "checked">>]

\* cb_owner_gift_start, owner_gift_amount_entered
Gift == [Admin EXCEPT !.steps = <<"checked">>, !.target = TRUE]

\* cb_owner_wallet_correction_start and the two steps after it; a debit that the
\* balance does not cover asks for the amount again.
Correction == [Admin EXCEPT !.steps = <<"checked", "text">>, !.target = TRUE,
                            !.effect = "retry"]

\* cb_moderation_rule_add, moderation_pattern_received, cb_moderation_rule_action,
\* which asks for no state
ModerationRule == [Admin EXCEPT !.steps = <<"text", "press">>, !.guarded = FALSE]

\* cb_ai_pool_add, ai_pool_entry_received
AiPoolEntry == [Admin EXCEPT !.steps = <<"checked">>]

\* cb_admin_role_add, admin_role_telegram_id_received
Operator == [Admin EXCEPT !.steps = <<"checked">>]

\* open_shop_bot_token, save_shop_bot_token
Token == [Panel EXCEPT !.steps = <<"checked">>, !.menu = TRUE]

\* open_ai_instructions, save_ai_instructions
Instructions == [Panel EXCEPT !.steps = <<"text">>, !.menu = TRUE]

\* start_preview, preview_message, end_preview: nothing is saved, and the form
\* stays until it is left.
Preview == [Panel EXCEPT !.steps = <<"text">>, !.menu = TRUE, !.effect = "none"]

\* cb_choose_knowledge_bot, channel_knowledge_proof
Knowledge == [Panel EXCEPT !.steps = <<"checked">>, !.target = TRUE]

\* cb_product_add and the five steps after it
NewProduct == [Panel EXCEPT !.steps = <<"text", "text", "checked", "checked", "checked">>,
                            !.optional = {2, 4}]

\* cb_product_bulk_import, receive_import_file, cb_product_bulk_import_confirm,
\* which takes missing rows for none
Import == [Panel EXCEPT !.steps = <<"checked", "press">>, !.effect = "lenient"]

\* cb_product_edit_field, edit_product_value_photo, edit_product_value_text
EditProduct == [Panel EXCEPT !.steps = <<"text">>, !.target = TRUE]

Forms ==
  [broadcast |-> Broadcast, channel |-> Channel, plan |-> Plan,
   discount |-> DiscountCode, setting |-> Setting, rateLimit |-> RateLimit,
   gift |-> Gift, correction |-> Correction, rule |-> ModerationRule,
   pool |-> AiPoolEntry, operator |-> Operator, token |-> Token,
   instructions |-> Instructions, preview |-> Preview, knowledge |-> Knowledge,
   product |-> NewProduct, import |-> Import, edit |-> EditProduct]

Nowhere == [form |-> "none", step |-> 0]
Idle == [pc |-> "idle", form |-> "none", step |-> 0, run |-> 0, parts |-> {}]

Init ==
  /\ at = Nowhere /\ data = {}
  /\ runs = <<>> /\ prompts = {}
  /\ work = [h \in Handlers |-> Idle]
  /\ saved = <<>> /\ excused = {} /\ faults = 0

-----------------------------------------------------------------------------
LastStep(f) == Len(Forms[f].steps)

\* What the step takes.
Kind(p) == Forms[p.form].steps[p.step]

\* The form's last run.
RunOf(f) == CHOOSE r \in DOMAIN runs :
              runs[r] = f /\ \A q \in DOMAIN runs : runs[q] = f => q <= r

Busy == {h \in Handlers : work[h].pc # "idle"}
BusyRuns == {work[h].run : h \in Busy}

\* state.update_data
Keep(part) ==
  {p \in data : p.form # part.form \/ p.step # part.step} \cup {part}

Part(f, i, r) == [form |-> f, step |-> i, run |-> r]

\* The answers of the form that are kept.
Kept(f) == {p \in data : p.form = f}

\* Handlers are at work while these runs' handlers are: both are excused.
Overlap(rs) == excused' = excused \cup BusyRuns \cup (IF Busy = {} THEN {} ELSE rs)

\* A handler begins, for a message of this run or for a keyboard of an earlier one.
Arrive(h, f, i, r) ==
  /\ work[h] = Idle
  /\ work' = [work EXCEPT ![h] = [Idle EXCEPT !.pc = "arrived", !.form = f,
                !.step = i, !.run = r]]
  /\ IF r = RunOf(f) THEN Overlap({r})
     ELSE excused' = excused \cup BusyRuns \cup {r, RunOf(f)} \cup {p.run : p \in Kept(f)}

-----------------------------------------------------------------------------
\* The dispatcher.

\* A form is opened: its state is set, and no data is cleared, unless the menu's
\* button is one that MenuButtonEscapeMiddleware has cleared the form for.
Open(f) ==
  /\ Len(runs) < MaxRuns
  /\ LET r == Len(runs) + 1
         old == IF Forms[f].menu /\ at.form \notin {"none", "preview"} THEN {} ELSE data
     IN  /\ runs' = Append(runs, f)
         /\ data' = IF Forms[f].target
                    THEN {p \in old : p.form # f \/ p.step # 0}
                           \cup {Part(f, 0, r)}
                    ELSE old
         /\ Overlap({r})
  /\ at' = [form |-> f, step |-> 1]
  /\ UNCHANGED <<prompts, work, saved, faults>>

\* Mutant: the middleware clears the form and leaves data["raw_state"] as it was.
RawStateKept(word) == at

\* The state by which the handler is chosen: MenuButtonEscapeMiddleware takes it
\* away for a button of the menu that it knows, but not in a preview.
RawState(word) ==
  IF word = "menu" /\ at.form # "preview" THEN Nowhere ELSE at

\* Text that is not meant as an answer and gets to a form's step nonetheless:
\* /cancel is taken by the panel's router, after the admin's forms; the two buttons
\* of the panel's keyboard that _KNOWN_MENU_BUTTONS lacks ("stray") are taken by
\* open_tenant_mode and by open_products, the second one after the panel's forms.
GetsThrough(word, f) ==
  /\ word = "cancel" => Forms[f].desk = "admin"
  /\ word = "stray" => Forms[f].desk = "admin" \/ f \in {"instructions", "preview"}

\* A text that the step's handler gets: any text at a step that takes one; a step
\* that checks refuses what is no answer.
Text(h, word) ==
  LET raw == RawState(word)
  IN  /\ raw # Nowhere /\ Kind(raw) # "press"
      /\ word = "answer" \/ Kind(raw) = "text"
      /\ GetsThrough(word, raw.form)
      /\ Arrive(h, raw.form, raw.step, RunOf(raw.form))
      /\ IF word = "menu" /\ at.form # "preview"
         THEN at' = Nowhere /\ data' = {}
         ELSE UNCHANGED <<at, data>>
      /\ UNCHANGED <<runs, prompts, saved, faults>>

\* The form is left: a known button of the menu, a menu that clears the state,
\* /cancel and open_products (where they are not taken for an answer),
\* broadcast_cancelled, cb_product_bulk_import_cancel, end_preview.
Leave ==
  /\ at # Nowhere
  /\ at' = Nowhere /\ data' = {}
  /\ Overlap({})
  /\ UNCHANGED <<runs, prompts, work, saved, faults>>

\* A press of a keyboard, which may be an earlier run's.
Press(h, r, i) ==
  /\ <<r, i>> \in prompts
  /\ Forms[runs[r]].guarded => at = [form |-> runs[r], step |-> i]
  /\ Arrive(h, runs[r], i, r)
  /\ UNCHANGED <<at, data, runs, prompts, saved, faults>>

-----------------------------------------------------------------------------
\* The handlers.

Finish(h) == work' = [work EXCEPT ![h] = Idle]

\* The answer is refused, or what it is about is gone.
Refuse(h) ==
  /\ work[h].pc = "arrived"
  /\ \/ UNCHANGED <<at, data>>
     \/ at' = Nowhere /\ data' = {} /\ work[h].step = LastStep(work[h].form)
  /\ Finish(h)
  /\ UNCHANGED <<runs, prompts, saved, excused, faults>>

\* Mutant: an answer that the data already has is not replaced.
StoreFirst(h) ==
  LET w == work[h]
  IN  /\ w.pc = "arrived" /\ w.step < LastStep(w.form)
      /\ data' = IF \E p \in data : p.form = w.form /\ p.step = w.step THEN data
                 ELSE Keep(Part(w.form, w.step, w.run))
      /\ at' = IF Forms[w.form].guarded THEN [form |-> w.form, step |-> w.step + 1] ELSE at
      /\ prompts' = IF Forms[w.form].steps[w.step + 1] = "press"
                    THEN prompts \cup {<<w.run, w.step + 1>>} ELSE prompts
      /\ Finish(h)
      /\ UNCHANGED <<runs, saved, excused, faults>>

\* An answer is kept and the form moves on (moderation_pattern_received leaves
\* the state as it is).
Store(h) ==
  LET w == work[h]
  IN  /\ w.pc = "arrived" /\ w.step < LastStep(w.form)
      /\ data' = Keep(Part(w.form, w.step, w.run))
      /\ at' = IF Forms[w.form].guarded THEN [form |-> w.form, step |-> w.step + 1] ELSE at
      /\ prompts' = IF Forms[w.form].steps[w.step + 1] = "press"
                    THEN prompts \cup {<<w.run, w.step + 1>>} ELSE prompts
      /\ Finish(h)
      /\ UNCHANGED <<runs, saved, excused, faults>>

\* What the form has asked before step k, what it is about included.
Asked(f, k) == (IF Forms[f].target THEN {0} ELSE {}) \cup 1 .. (k - 1)

\* The answers that the form's last step needs are kept.
HasNeeded(f) == Asked(f, LastStep(f)) \ Forms[f].optional \subseteq {p.step : p \in Kept(f)}

\* The last step reads the data: an answer that is missing is a KeyError.
Missing(h) ==
  LET w == work[h]
  IN  /\ w.pc = "arrived" /\ w.step = LastStep(w.form)
      /\ ~HasNeeded(w.form)
      /\ IF Forms[w.form].effect = "lenient"
         THEN at' = Nowhere /\ data' = {} ELSE UNCHANGED <<at, data>>
      /\ Finish(h)
      /\ UNCHANGED <<runs, prompts, saved, excused, faults>>

Record(h, parts) == [form |-> work[h].form, runs |-> {p.run : p \in parts}]

\* ... and writes. What a broadcast sends is sent.
Write(h) ==
  LET w == work[h]
      parts == Kept(w.form) \cup {Part(w.form, w.step, w.run)}
  IN  /\ w.pc = "arrived" /\ w.step = LastStep(w.form)
      /\ Forms[w.form].effect # "none"
      /\ HasNeeded(w.form)
      /\ work' = [work EXCEPT ![h].pc = "written", ![h].parts = parts]
      /\ saved' = IF Forms[w.form].effect = "send"
                  THEN Append(saved, Record(h, parts)) ELSE saved
      /\ UNCHANGED <<at, data, runs, prompts, excused, faults>>

\* preview_message answers; the preview goes on.
Talk(h) ==
  /\ work[h].pc = "arrived" /\ Forms[work[h].form].effect = "none"
  /\ Finish(h)
  /\ UNCHANGED <<at, data, runs, prompts, saved, excused, faults>>

\* wallet_service.deduct refuses a correction: the amount is asked for again.
AskAgain(h) ==
  /\ work[h].pc = "written" /\ Forms[work[h].form].effect = "retry"
  /\ at' = [form |-> work[h].form, step |-> 1]
  /\ Finish(h)
  /\ UNCHANGED <<data, runs, prompts, saved, excused, faults>>

\* Mutant: only the state is cleared.
ClearStateOnly(h) ==
  /\ work[h].pc = "written"
  /\ at' = Nowhere
  /\ work' = [work EXCEPT ![h].pc = "cleared"]
  /\ UNCHANGED <<data, runs, prompts, saved, excused, faults>>

\* state.clear(), and then the answer to the person.
Clear(h) ==
  /\ work[h].pc = "written"
  /\ at' = Nowhere /\ data' = {}
  /\ work' = [work EXCEPT ![h].pc = "cleared"]
  /\ UNCHANGED <<runs, prompts, saved, excused, faults>>

Commit(h) ==
  /\ work[h].pc = "cleared"
  /\ saved' = IF Forms[work[h].form].effect = "send" THEN saved
              ELSE Append(saved, Record(h, work[h].parts))
  /\ Finish(h)
  /\ UNCHANGED <<at, data, runs, prompts, excused, faults>>

\* An exception: the session is rolled back, the form is not, nor what was sent.
Raise(h) ==
  /\ faults < MaxFaults /\ work[h].pc # "idle"
  /\ Finish(h)
  /\ faults' = faults + 1
  /\ excused' = IF Forms[work[h].form].effect = "send" /\ work[h].pc = "written"
                THEN excused \cup {work[h].run} ELSE excused
  /\ UNCHANGED <<at, data, runs, prompts, saved>>

\* Forms are memory; keyboards are not.
Restart ==
  /\ faults < MaxFaults
  /\ at' = Nowhere /\ data' = {}
  /\ work' = [h \in Handlers |-> Idle]
  /\ faults' = faults + 1
  /\ UNCHANGED <<runs, prompts, saved, excused>>

Next ==
  \/ \E f \in DOMAIN Forms : Open(f)
  \/ Leave \/ Restart
  \/ \E h \in Handlers :
       \/ \E word \in {"answer", "menu", "cancel", "stray"} : Text(h, word)
       \/ \E p \in prompts : Press(h, p[1], p[2])
       \/ Refuse(h) \/ Store(h) \/ Missing(h) \/ Write(h) \/ Talk(h)
       \/ AskAgain(h) \/ Clear(h) \/ Commit(h) \/ Raise(h)

Spec == Init /\ [][Next]_vars

-----------------------------------------------------------------------------
Saved == {saved[i] : i \in DOMAIN saved}

\* Whatever the form has asked before step k is answered.
HasAll(f, k) == \A i \in Asked(f, k) : \E p \in Kept(f) : p.step = i

\* A form never asks a question, and no handler gets an answer to one, while the
\* answer to an earlier question is missing: though handlers are chosen by a cached
\* state (middlewares.py:55), though they set the state whatever happened since, and
\* though any form's end, any way out and any restart clears the data of all. So a
\* run whose handlers did not overlap, and of which no old keyboard was pressed,
\* meets no KeyError, in the middle (admin.py:561) or at its end (admin.py:590).
\* cb_moderation_rule_action, which asks for no state, is left out.
NoGapUnlessExcused ==
  /\ at # Nowhere /\ RunOf(at.form) \notin excused => HasAll(at.form, at.step)
  /\ \A h \in Handlers :
       /\ work[h].pc = "arrived" /\ work[h].run \notin excused
       /\ Forms[work[h].form].guarded
       => HasAll(work[h].form, work[h].step)

\* What a form saves was answered in one run of it, though data of earlier runs is
\* not cleared; unless handlers overlapped, or an old keyboard was pressed.
OneRunUnlessExcused ==
  \A s \in Saved : Cardinality(s.runs) = 1 \/ s.runs \cap excused # {}

\* A run of a form saves once, whatever is pressed or sent again afterwards and
\* after a failure, unless its handlers overlapped or a broadcast broke off.
OnceUnlessExcused ==
  \A r \in DOMAIN runs \ excused :
    Cardinality({i \in DOMAIN saved : r \in saved[i].runs}) <= 1

=============================================================================
