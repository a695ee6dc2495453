---------------------------- MODULE Registration ----------------------------
(***************************************************************************)
(* One user of the main bot: /start with a referral link, the gate of the  *)
(* mandatory channels, the registration form, its one-time codes and the   *)
(* trial credit.                                                           *)
(*                                                                         *)
(* The form is memory (aiogram's MemoryStorage): it changes at once, is    *)
(* not rolled back when a handler fails, and is lost at a restart. The     *)
(* owner's row, codes and charges are the database's: they change when the *)
(* handler's session commits. Updates are handled concurrently, so a       *)
(* user's handlers overlap.                                                *)
(*                                                                         *)
(* Of the form's answers the model keeps the address that the code is sent *)
(* to: the phone number, or the e-mail with AUTH_MODE=email.               *)
(***************************************************************************)
EXTENDS Naturals, Sequences, FiniteSets

CONSTANTS
  Addresses, \* phone numbers, or e-mails
  NoAddress, \* none of them
  Links,     \* referral codes of other owners
  Strays,    \* arguments of /start that are nobody's code
  NoLink,    \* none of them
  Handlers,  \* handlers at work
  Modes,     \* the values of AUTH_MODE
  MaxCodes,  \* bound: codes generated
  MaxFaults  \* bound: exceptions and restarts

ASSUME NonesAreNone ==
  NoAddress \notin Addresses /\ NoLink \notin Links \cup Strays
ASSUME StraysAreNobodys == Links \cap Strays = {}
ASSUME ModesAreKnown == Modes \subseteq {"test", "sms", "email"}
ASSUME BoundsAreNat == MaxCodes \in Nat /\ MaxFaults \in Nat

VARIABLES
  mode,     \* AUTH_MODE; never changes
  step,     \* the form's state; "none": no form
  data,     \* the form's data: the link followed and the address given
  owner,    \* the owner's row
  codes,    \* otp_codes, in the order of their ids
  charges,  \* how many trial charges there are
  shown,    \* the inline keyboards the user has: "gate", "trial"
  work,     \* handler -> what it is doing
  hist,     \* history: came: by the first /start, "linked" or "plain" (before the
            \* row was committed, "strayed": a later /start brought nobody's code,
            \* "wiped": the form was lost); switched: an address
            \* was given while a code was under way to another; raced: two
            \* handlers gave the trial at once
  faults    \* exceptions and restarts so far

vars == <<mode, step, data, owner, codes, charges, shown, work, hist, faults>>

-----------------------------------------------------------------------------
NoData == [link |-> NoLink, address |-> NoAddress]

\* Of a completed registration the row keeps whether the accepted code had been
\* sent to the address the row now has, or to another one.
NoOwner == [exists |-> FALSE, link |-> NoLink, completed |-> FALSE, proof |-> "none"]

Idle == [pc |-> "idle", then |-> "none", link |-> NoLink, address |-> NoAddress,
         inserted |-> FALSE, code |-> 0]

Init ==
  /\ mode \in Modes
  /\ step = "none" /\ data = NoData
  /\ owner = NoOwner /\ codes = <<>> /\ charges = 0
  /\ shown = {}
  /\ work = [h \in Handlers |-> Idle]
  /\ hist = [came |-> "not", switched |-> FALSE, raced |-> FALSE]
  /\ faults = 0

At(h, pc) == work[h].pc = pc
Goto(h, pc) == work' = [work EXCEPT ![h].pc = pc]
Finish(h) == work' = [work EXCEPT ![h] = Idle]

\* get_or_create_shop_owner finds the row, or goes on to insert it.
LookForRow(w) ==
  IF owner.exists THEN [w EXCEPT !.pc = w.then, !.link = NoLink]
  ELSE [w EXCEPT !.pc = "insert"]

Form == <<step, data>>
Rows == <<owner, codes, charges>>

\* state.clear(): the state and the data go.
Forget ==
  /\ step' = "none" /\ data' = NoData
  /\ hist' = [hist EXCEPT !.came =
                IF data.link # NoLink /\ ~owner.exists THEN "wiped" ELSE @]

\* A code that is neither consumed nor past its time.
Live(i) == codes[i].live

\* Addresses that a code is under way to: sent and live, or being sent.
UnderWay ==
  {codes[i].address : i \in {j \in DOMAIN codes : Live(j)}} \cup
  {work[h].address : h \in {g \in Handlers : At(g, "send") \/ work[g].then = "send"}}

-----------------------------------------------------------------------------
\* The channels' gate. Whether channels exist, whether the user is a member of
\* them (a call that fails counts as a missing membership) and whether
\* registrations are allowed may change at any moment: where the code asks, every
\* answer is possible.

\* _show_gate_or_continue refuses: the gate is shown.
ShowGate ==
  /\ shown' = shown \cup {"gate"}
  /\ UNCHANGED work

\* The gate is passed: the form is read for the link, and the row is looked for.
PassGate(h) ==
  work' = [work EXCEPT ![h] = LookForRow([Idle EXCEPT !.then = "form", !.link = data.link])]

\* cmd_start: its argument is kept as the link, whoever's code it is and whatever
\* the gate says, in the place of an earlier one.
CmdStart(h, link) ==
  /\ At(h, "idle")
  /\ data' = IF link = NoLink THEN data ELSE [data EXCEPT !.link = link]
  /\ hist' = [hist EXCEPT !.came =
                IF @ = "not" THEN IF link \in Links THEN "linked" ELSE "plain"
                ELSE IF @ = "linked" /\ link \in Strays /\ ~owner.exists THEN "strayed"
                ELSE @]
  /\ \/ ShowGate
     \/ work' = [work EXCEPT ![h] = [Idle EXCEPT !.pc = "gate"]] /\ UNCHANGED shown
  /\ UNCHANGED <<step, Rows, mode, faults>>

\* ... once the user is a member, unless there is no row and registrations are
\* closed. The form is read now: it may have changed since.
GatePassed(h) ==
  /\ At(h, "gate")
  /\ PassGate(h) \/ (~owner.exists /\ Finish(h))
  /\ UNCHANGED <<Form, Rows, mode, shown, hist, faults>>

\* cb_check_channels_membership, once the user is a member.
CheckChannels(h) ==
  /\ At(h, "idle") /\ "gate" \in shown
  /\ PassGate(h)
  /\ UNCHANGED <<Form, Rows, mode, shown, hist, faults>>

-----------------------------------------------------------------------------
\* get_or_create_shop_owner, as each of the handlers calls it.

\* Handlers that inserted the owner's row and have not committed.
Inserting == {h \in Handlers : work[h].inserted}

\* Mutant: the link is only looked up when the form is complete.
InsertBare(h) ==
  /\ At(h, "insert") /\ ~owner.exists /\ Inserting = {}
  /\ work' = [work EXCEPT ![h].pc = work[h].then, ![h].inserted = TRUE, ![h].link = NoLink]
  /\ UNCHANGED <<Form, Rows, mode, shown, hist, faults>>

\* get_by_referral_code: a code that is nobody's is dropped.
Referrer(link) == IF link \in Links THEN link ELSE NoLink

\* The row and the referral are flushed: telegram_id is unique, so another
\* handler's flush waits for this one's commit.
Insert(h) ==
  /\ At(h, "insert") /\ ~owner.exists /\ Inserting = {}
  /\ work' = [work EXCEPT ![h].pc = work[h].then, ![h].inserted = TRUE,
                          ![h].link = Referrer(work[h].link)]
  /\ UNCHANGED <<Form, Rows, mode, shown, hist, faults>>

\* Another handler's commit came between the query and the flush: IntegrityError.
InsertTwice(h) ==
  /\ At(h, "insert") /\ owner.exists
  /\ Finish(h)
  /\ UNCHANGED <<Form, Rows, mode, shown, hist, faults>>

-----------------------------------------------------------------------------
\* The form.

\* The rest of cmd_start and of cb_check_channels_membership: the form begins, its
\* old data kept, or a registered user gets the panel or the trial's offer.
BeginForm(h) ==
  /\ At(h, "form")
  /\ Goto(h, "reply")
  /\ IF owner.completed
     THEN /\ Forget
          /\ shown' = IF charges = 0 THEN shown \cup {"trial"} ELSE shown
     ELSE step' = "names" /\ UNCHANGED <<data, hist, shown>>
  /\ UNCHANGED <<Rows, mode, faults>>

\* The step that asks for the address.
AddressStep == IF mode = "sms" THEN "phone" ELSE "email"

\* reg_first_name and reg_last_name (one step here), and reg_phone_* where the
\* phone is not the address. These states take any text: "/panel" is a name too.
Answer ==
  /\ step \in {"names", "phone"} \ {AddressStep}
  /\ step' = IF step = "names" THEN "phone" ELSE "email"
  /\ UNCHANGED <<data, Rows, mode, shown, work, hist, faults>>

NotesSwitch(a) ==
  hist' = [hist EXCEPT !.switched = @ \/ UnderWay \ {a} # {}]

\* _handle_phone_input with a valid number, where the code goes to the phone.
PhoneGiven(a) ==
  /\ step = "phone" /\ AddressStep = "phone"
  /\ data' = [data EXCEPT !.address = a]
  /\ step' = "email"
  /\ NotesSwitch(a)
  /\ UNCHANGED <<Rows, mode, shown, work, faults>>

\* reg_email with a valid e-mail: the form is read, and the row is looked for.
\* The form keeps its state until the code is sent.
EmailGiven(h, a) ==
  /\ At(h, "idle") /\ step = "email"
  /\ a = data.address \/ AddressStep = "email"
  /\ Len(codes) + Cardinality({g \in Handlers : work[g].then = "send"}) < MaxCodes
  /\ data' = [data EXCEPT !.address = a]
  /\ work' = [work EXCEPT ![h] = LookForRow([Idle EXCEPT !.address = a, !.link = data.link,
                !.then = IF mode = "test" THEN "complete" ELSE "send"])]
  /\ NotesSwitch(a)
  /\ UNCHANGED <<step, Rows, mode, shown, faults>>

\* _send_phone_otp, _send_email_otp: the code is flushed and sent (one that cannot
\* be sent is shown in the chat, which is not told apart). Then the form waits for
\* it, whatever became of the form meanwhile.
SendCode(h) ==
  /\ At(h, "send")
  /\ Goto(h, "reply")
  /\ step' = "otp"
  /\ UNCHANGED <<data, Rows, mode, shown, hist, faults>>

\* reg_phone_otp, reg_email_otp: the form is read, and the row is looked for.
CodeGiven(h, i) ==
  /\ At(h, "idle") /\ step = "otp"
  /\ work' = [work EXCEPT ![h] = LookForRow([Idle EXCEPT !.then = "verify",
                !.address = data.address, !.link = data.link, !.code = i])]
  /\ UNCHANGED <<Form, Rows, mode, shown, hist, faults>>

\* Mutant: neither consumed nor expires_at is looked at.
MatchesEver(i) == TRUE

\* verify_otp's query finds the code. The purpose is the mode's.
Matches(i) == Live(i)

\* verify_otp finds nothing; the user may try again.
CodeRefused(h) ==
  /\ At(h, "verify") /\ ~Matches(work[h].code)
  /\ work' = [work EXCEPT ![h].pc = "reply", ![h].then = "none"]
  /\ UNCHANGED <<Form, Rows, mode, shown, hist, faults>>

\* verify_otp finds two codes that happen to be equal (scalar_one_or_none raises),
\* or the form has lost its data (KeyError).
CodeRaises(h) ==
  /\ At(h, "verify") /\ Matches(work[h].code)
  /\ \/ \E i \in DOMAIN codes \ {work[h].code} : Matches(i)
     \/ work[h].address = NoAddress
  /\ Finish(h)
  /\ UNCHANGED <<Form, Rows, mode, shown, hist, faults>>

\* verify_otp, complete_registration; the form is cleared, then the answers go
\* out, with the trial's offer.
CodeAccepted(h) ==
  /\ At(h, "verify") /\ work[h].address # NoAddress
  /\ Matches(work[h].code)
  /\ Goto(h, "reply")
  /\ Forget
  /\ shown' = IF charges = 0 THEN shown \cup {"trial"} ELSE shown
  /\ UNCHANGED <<Rows, mode, faults>>

\* _complete_registration_test_mode.
CompleteUnverified(h) ==
  /\ At(h, "complete")
  /\ Goto(h, "reply")
  /\ Forget
  /\ shown' = IF charges = 0 THEN shown \cup {"trial"} ELSE shown
  /\ UNCHANGED <<Rows, mode, faults>>

-----------------------------------------------------------------------------
\* Ways out of the form.

\* MenuButtonEscapeMiddleware: a known menu button clears the form.
MenuButton ==
  /\ step # "none"
  /\ Forget
  /\ UNCHANGED <<Rows, mode, shown, work, faults>>

\* cmd_panel: reached without a form only, for the form's states come first.
CmdPanel ==
  /\ step = "none"
  /\ Forget
  /\ shown' = IF owner.completed /\ charges = 0 THEN shown \cup {"trial"} ELSE shown
  /\ UNCHANGED <<Rows, mode, work, faults>>

\* cmd_cancel, when ChannelGateMiddleware lets the user through.
CmdCancel ==
  /\ Forget
  /\ UNCHANGED <<Rows, mode, shown, work, faults>>

-----------------------------------------------------------------------------
\* cb_activate_trial.

\* Mutant: the wallet's history is not asked for.
TrialCheckedNever(h) ==
  /\ At(h, "idle") /\ "trial" \in shown /\ owner.exists
  /\ work' = [work EXCEPT ![h] = [Idle EXCEPT !.pc = "reply", !.then = "trial"]]
  /\ hist' = [hist EXCEPT !.raced = @ \/ \E g \in Handlers : work[g].then = "trial"]
  /\ UNCHANGED <<Form, Rows, mode, shown, faults>>

\* has_ever_had_wallet_activity sees what is committed; the charge is added and
\* committed with the handler.
ActivateTrial(h) ==
  /\ At(h, "idle") /\ "trial" \in shown /\ owner.exists
  /\ charges = 0
  /\ work' = [work EXCEPT ![h] = [Idle EXCEPT !.pc = "reply", !.then = "trial"]]
  /\ hist' = [hist EXCEPT !.raced = @ \/ \E g \in Handlers : work[g].then = "trial"]
  /\ UNCHANGED <<Form, Rows, mode, shown, faults>>

-----------------------------------------------------------------------------
\* The end of a handler, DbSessionMiddleware's.

\* What the handler wrote to the owner's row.
Written(h) ==
  LET made == IF work[h].inserted
              THEN [NoOwner EXCEPT !.exists = TRUE, !.link = work[h].link]
              ELSE owner
  IN  CASE work[h].then = "verify" ->
             [made EXCEPT !.completed = TRUE,
                          !.proof = IF codes[work[h].code].address = work[h].address
                                    THEN "sent" ELSE "other"]
        [] work[h].then = "complete" -> [made EXCEPT !.completed = TRUE]
        [] OTHER -> made

Commit(h) ==
  /\ At(h, "reply")
  /\ owner' = Written(h)
  /\ codes' = CASE work[h].then = "send" ->
                     Append(codes, [address |-> work[h].address, live |-> TRUE])
                [] work[h].then = "verify" -> [codes EXCEPT ![work[h].code].live = FALSE]
                [] OTHER -> codes
  /\ charges' = IF work[h].then = "trial" THEN charges + 1 ELSE charges
  /\ Finish(h)
  /\ UNCHANGED <<Form, mode, shown, hist, faults>>

\* A message cannot be sent, or the database fails: all is rolled back but the form.
Raise(h) ==
  /\ work[h].pc # "idle" /\ faults < MaxFaults
  /\ Finish(h)
  /\ faults' = faults + 1
  /\ UNCHANGED <<Form, Rows, mode, shown, hist>>

Restart ==
  /\ faults < MaxFaults
  /\ Forget
  /\ work' = [h \in Handlers |-> Idle]
  /\ faults' = faults + 1
  /\ UNCHANGED <<Rows, mode, shown>>

-----------------------------------------------------------------------------
\* expires_at passes.
Expire(i) ==
  /\ Live(i)
  /\ codes' = [codes EXCEPT ![i].live = FALSE]
  /\ UNCHANGED <<Form, owner, charges, mode, shown, work, hist, faults>>

Next ==
  \/ \E h \in Handlers :
       \/ \E link \in Links \cup Strays \cup {NoLink} : CmdStart(h, link)
       \/ GatePassed(h) \/ CheckChannels(h)
       \/ Insert(h) \/ InsertTwice(h)
       \/ BeginForm(h)
       \/ \E a \in Addresses : EmailGiven(h, a)
       \/ SendCode(h)
       \/ \E i \in DOMAIN codes : CodeGiven(h, i)
       \/ CodeRefused(h) \/ CodeRaises(h) \/ CodeAccepted(h) \/ CompleteUnverified(h)
       \/ ActivateTrial(h) \/ Commit(h) \/ Raise(h)
  \/ Answer \/ \E a \in Addresses : PhoneGiven(a)
  \/ MenuButton \/ CmdPanel \/ CmdCancel \/ Restart
  \/ \E i \in DOMAIN codes : Expire(i)

Spec == Init /\ [][Next]_vars

-----------------------------------------------------------------------------
\* An owner's address is only taken as verified on a code that was sent to it (or
\* shown in the chat, when it could not be sent). The one way around is to give
\* another address while a code is under way to the first: verify_otp does not
\* know which address a code was for (otp_service.py:27, start.py:213).
VerifiedUnlessSwitched ==
  ~hist.switched => owner.proof # "other"

\* A user whose first /start followed an owner's link is that owner's, or another
\* whose link came later, through the gate, a failed handler and an overlapping
\* /start. Until there is a row the link can be lost in two ways: with the form,
\* or to a later /start whose argument is nobody's code, for cmd_start keeps any
\* (start.py:67, :81, shop_owner_service.py:35).
ReferredUnlessLost ==
  (owner.exists /\ hist.came = "linked") => owner.link # NoLink

\* The trial is given once, unless two presses of its button overlap: the check
\* and the charge are not one step (start.py:248-254).
OneTrialUnlessRaced == ~hist.raced => charges <= 1

=============================================================================
