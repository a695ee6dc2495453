------------------------- MODULE RegistrationProofs -------------------------
(***************************************************************************)
(* Proofs about Registration, for any addresses, links, handlers, modes,   *)
(* codes and faults: whose address is verified, whose referral is kept and *)
(* how often the trial is given, however a user's handlers overlap.        *)
(***************************************************************************)
EXTENDS Registration, TLAPS, SequenceTheorems

-----------------------------------------------------------------------------
\* The inductive invariant, in parts.

Arguments == Links \cup Strays \cup {NoLink}
DataRow == [link : Arguments, address : Addresses \cup {NoAddress}]
OwnerRow == [exists : BOOLEAN, link : Arguments, completed : BOOLEAN,
             proof : {"none", "sent", "other"}]
CodeRow == [address : Addresses, live : BOOLEAN]
Thens == {"none", "form", "send", "complete", "verify", "trial"}
Pcs == {"idle", "gate", "insert", "reply", "form", "send", "complete", "verify"}
WorkRow == [pc : Pcs, then : Thens, link : Arguments,
            address : Addresses \cup {NoAddress}, inserted : BOOLEAN, code : Nat]
HistRow == [came : {"not", "plain", "linked", "strayed", "wiped"}, switched : BOOLEAN,
            raced : BOOLEAN]

Types ==
  /\ step \in {"none", "names", "phone", "email", "otp"}
  /\ data \in DataRow
  /\ owner \in OwnerRow
  /\ codes \in Seq(CodeRow)
  /\ charges \in Nat
  /\ shown \subseteq {"gate", "trial"}
  /\ work \in [Handlers -> WorkRow]
  /\ hist \in HistRow

\* What is known of a handler that is at w:
\*   - the row that it inserts has the link of a user who came by one;
\*   - the code that it sends goes to the address of the form, if there is one;
\*   - the code that it was given is for the address it found in the form, as long
\*     as the code is live, and for good once it is accepted.
Fits(w) ==
  /\ w.pc \in {"idle", "gate"} => ~w.inserted /\ w.then = "none"
  /\ w.pc = "insert" => w.then \in {"form", "send", "complete", "verify"}
  /\ w.pc \in {"form", "send", "complete", "verify"} => w.then = w.pc
  /\ (w.pc = "insert" \/ w.inserted) /\ hist.came = "linked" => w.link \in Links
  /\ w.then = "send" =>
       /\ w.address \in Addresses
       /\ ~hist.switched => data.address \in {w.address, NoAddress}
  /\ w.then = "verify" =>
       /\ w.code \in DOMAIN codes
       /\ ~hist.switched =>
            /\ w.pc = "reply" => codes[w.code].address = w.address
            /\ Live(w.code) => codes[w.code].address = w.address \/ w.address = NoAddress

HandlersFit == \A h \in Handlers : Fits(work[h])

\* A code that may still be accepted was sent to the address of the form.
CodesFit ==
  \A i \in DOMAIN codes :
    Live(i) /\ ~hist.switched => data.address \in {codes[i].address, NoAddress}

\* The form has the link until there is a row that has it.
LinkKept == ~owner.exists /\ hist.came = "linked" => data.link \in Links

\* Before the first /start there is nothing.
NothingBefore ==
  hist.came = "not" =>
    /\ \A h \in Handlers : work[h].pc = "idle"
    /\ step = "none" /\ shown = {} /\ data.link = NoLink
    /\ ~owner.exists /\ ~owner.completed

\* As long as no presses of the button overlapped, at most one handler is giving
\* the trial, and only if none was given before.
OneGiver ==
  ~hist.raced =>
    /\ \A h \in Handlers : work[h].then = "trial" => charges = 0
    /\ \A g, h \in Handlers : work[g].then = "trial" /\ work[h].then = "trial" => g = h

IInv ==
  /\ Types
  /\ HandlersFit /\ CodesFit /\ LinkKept /\ NothingBefore /\ OneGiver
  /\ VerifiedUnlessSwitched /\ ReferredUnlessLost /\ OneTrialUnlessRaced

-----------------------------------------------------------------------------
\* Lemmas.

\* The empty form, the missing row and the idle handler have their types.
LEMMA EmptyTypes ==
  /\ NoData \in DataRow /\ NoOwner \in OwnerRow /\ Idle \in WorkRow
  /\ NoData.link = NoLink /\ NoData.address = NoAddress
  /\ NoOwner.exists = FALSE /\ NoOwner.completed = FALSE /\ NoOwner.proof = "none"
  /\ Idle.pc = "idle" /\ Idle.then = "none" /\ Idle.inserted = FALSE
BY DEF NoData, NoOwner, Idle, DataRow, OwnerRow, WorkRow, Pcs, Thens, Arguments

\* An idle handler fits, whatever the state.
LEMMA IdleFits == Fits(Idle) /\ Fits(Idle)'
<1>1. /\ Idle.pc = "idle" /\ Idle.then = "none" /\ Idle.inserted = FALSE
  BY EmptyTypes
<1>2. QED
  BY <1>1 DEF Fits, Idle

\* The invariant holds before the user's first message.
LEMMA InitIInv == Init => IInv
<1> SUFFICES ASSUME Init PROVE IInv
  OBVIOUS
<1>1. Types
  <2>1. hist \in HistRow
    BY DEF Init, HistRow
  <2>2. codes \in Seq(CodeRow)
    BY DEF Init
  <2>3. QED
    BY <2>1, <2>2, EmptyTypes DEF Init, Types
<1>2. \A h \in Handlers : work[h] = Idle
  BY DEF Init
<1>3. HandlersFit
  BY <1>2, IdleFits DEF HandlersFit
<1>4. CodesFit
  BY DEF Init, CodesFit
<1>5. LinkKept /\ NothingBefore
  BY <1>2, EmptyTypes DEF Init, LinkKept, NothingBefore
<1>6. OneGiver
  BY <1>2, EmptyTypes DEF OneGiver
<1>7. VerifiedUnlessSwitched /\ ReferredUnlessLost /\ OneTrialUnlessRaced
  BY EmptyTypes DEF Init, VerifiedUnlessSwitched, ReferredUnlessLost,
                    OneTrialUnlessRaced
<1>8. QED
  BY <1>1, <1>3, <1>4, <1>5, <1>6, <1>7 DEF IInv

\* A step that leaves the database alone preserves the invariant if the form gets
\* no address that a code is not under way to (or the switch is noted), loses no
\* link unnoticed, and each handler it moves fits where it goes.
LEMMA Frame ==
  ASSUME IInv, Types', UNCHANGED Rows,
         hist.switched => hist'.switched, hist.raced => hist'.raced,
         \/ data'.address \in {data.address, NoAddress}
         \/ ~hist'.switched => UnderWay \subseteq {data'.address},
         hist'.came = "linked" => hist.came \in {"linked", "not"},
         LinkKept', NothingBefore',
         \A g \in Handlers : work'[g] = work[g] \/ Fits(work[g])',
         \A g \in Handlers : work'[g].then = "trial" =>
           \/ work[g].then = "trial"
           \/ /\ charges = 0
              /\ ~hist'.raced => \A k \in Handlers \ {g} : work'[k].then # "trial"
  PROVE  IInv'
<1>1. \A g \in Handlers : Fits(work[g])
  BY DEF IInv, HandlersFit
<1>2. hist \in HistRow /\ hist' \in HistRow /\ data \in DataRow /\ data' \in DataRow
  BY DEF IInv, Types
<1>3. \A g \in Handlers : work[g].then = "send" /\ ~hist'.switched =>
        data'.address \in {work[g].address, NoAddress}
  <2> SUFFICES ASSUME NEW g \in Handlers, work[g].then = "send", ~hist'.switched
               PROVE  data'.address \in {work[g].address, NoAddress}
    OBVIOUS
  <2>1. work[g].address \in UnderWay
    BY DEF UnderWay
  <2>2. data.address \in {work[g].address, NoAddress}
    BY <1>1 DEF Fits
  <2>3. QED
    BY <2>1, <2>2
<1>4. ASSUME NEW g \in Handlers, work'[g] = work[g]
      PROVE  Fits(work[g])'
  <2>1. hist'.came = "linked" /\ hist.came # "linked" => work[g].pc = "idle"
    BY DEF IInv, NothingBefore
  <2>2. (work[g].pc = "insert" \/ work[g].inserted) /\ hist'.came = "linked" =>
          work[g].link \in Links
    BY <1>1, <2>1 DEF Fits
  <2>3. UNCHANGED codes
    BY DEF Rows
  <2>4. QED
    BY <1>1, <1>3, <1>4, <2>2, <2>3 DEF Fits, Live
<1>5. HandlersFit'
  BY <1>4 DEF HandlersFit
<1>6. CodesFit'
  <2> SUFFICES ASSUME NEW i \in DOMAIN codes, Live(i), ~hist'.switched
               PROVE  data'.address \in {codes[i].address, NoAddress}
    BY DEF CodesFit, Rows, Live
  <2>1. codes[i].address \in UnderWay
    BY DEF UnderWay
  <2>2. data.address \in {codes[i].address, NoAddress}
    BY DEF IInv, CodesFit
  <2>3. QED
    BY <2>1, <2>2
<1>7. OneGiver'
  BY DEF IInv, OneGiver, Rows
<1>8. VerifiedUnlessSwitched' /\ OneTrialUnlessRaced'
  BY DEF IInv, VerifiedUnlessSwitched, OneTrialUnlessRaced, Rows
<1>9. ReferredUnlessLost'
  BY DEF IInv, ReferredUnlessLost, NothingBefore, Rows
<1>10. QED
  BY <1>5, <1>6, <1>7, <1>8, <1>9 DEF IInv

\* What state.clear() does to the form and to the history.
LEMMA ForgetFacts ==
  ASSUME IInv, Forget
  PROVE  /\ step' = "none" /\ data' = NoData /\ data' \in DataRow
         /\ data'.address = NoAddress /\ data'.link = NoLink
         /\ hist' \in HistRow
         /\ hist'.switched = hist.switched /\ hist'.raced = hist.raced
         /\ hist'.came = "linked" => hist.came = "linked"
         /\ hist'.came = "not" <=> hist.came = "not"
         /\ owner' = owner => LinkKept'
<1>1. hist \in HistRow
  BY DEF IInv, Types
<1>2. hist' = [hist EXCEPT !.came =
                 IF data.link # NoLink /\ ~owner.exists THEN "wiped" ELSE @]
  BY DEF Forget
<1>3. /\ hist' \in HistRow
      /\ hist'.switched = hist.switched /\ hist'.raced = hist.raced
      /\ hist'.came = IF data.link # NoLink /\ ~owner.exists THEN "wiped" ELSE hist.came
  BY <1>1, <1>2 DEF HistRow
<1>4. data' = NoData /\ step' = "none"
  BY DEF Forget
<1>5. hist'.came = "not" <=> hist.came = "not"
  BY <1>3 DEF IInv, NothingBefore
<1>6. owner' = owner => LinkKept'
  BY <1>3, NonesAreNone DEF IInv, LinkKept
<1>7. QED
  BY <1>3, <1>4, <1>5, <1>6, EmptyTypes

\* A step of one handler that leaves the database alone and gives no trial.
LEMMA HandlerFrame ==
  ASSUME IInv, NEW h \in Handlers, NEW w \in WorkRow,
         work' = [work EXCEPT ![h] = w], Fits(work[h])',
         w.then = "trial" => work[h].then = "trial",
         UNCHANGED Rows,
         step' \in {"none", "names", "phone", "email", "otp"}, data' \in DataRow,
         shown' \subseteq {"gate", "trial"}, hist' \in HistRow,
         hist.switched => hist'.switched, hist.raced => hist'.raced,
         \/ data'.address \in {data.address, NoAddress}
         \/ ~hist'.switched => UnderWay \subseteq {data'.address},
         hist'.came = "linked" => hist.came \in {"linked", "not"},
         LinkKept', hist'.came # "not"
  PROVE  IInv'
<1>1. work \in [Handlers -> WorkRow]
  BY DEF IInv, Types
<1>2. work'[h] = w /\ \A g \in Handlers \ {h} : work'[g] = work[g]
  BY <1>1
<1>3. Types'
  <2>1. work' \in [Handlers -> WorkRow]
    BY <1>1
  <2>2. QED
    BY <2>1 DEF IInv, Types, Rows
<1>4. NothingBefore'
  BY DEF NothingBefore
<1>5. \A g \in Handlers : work'[g] = work[g] \/ Fits(work[g])'
  BY <1>2
<1>6. \A g \in Handlers : work'[g].then = "trial" => work[g].then = "trial"
  BY <1>2
<1>7. QED
  BY <1>3, <1>4, <1>5, <1>6, Frame

\* Nor does a step that only changes the form and the keyboards.
LEMMA FormFrame ==
  ASSUME IInv, UNCHANGED <<work, Rows>>,
         step' \in {"none", "names", "phone", "email", "otp"}, data' \in DataRow,
         shown' \subseteq {"gate", "trial"}, hist' \in HistRow,
         hist.switched => hist'.switched, hist.raced => hist'.raced,
         \/ data'.address \in {data.address, NoAddress}
         \/ ~hist'.switched => UnderWay \subseteq {data'.address},
         hist'.came = "linked" => hist.came \in {"linked", "not"},
         LinkKept', NothingBefore'
  PROVE  IInv'
<1>1. Types'
  BY DEF IInv, Types, Rows
<1>2. QED
  BY <1>1, Frame

\* A handler that ends without a commit.
LEMMA FinishIInv ==
  ASSUME IInv, NEW h \in Handlers, Finish(h), work[h].pc # "idle",
         UNCHANGED <<Form, Rows, shown, hist>>
  PROVE  IInv'
<1>1. hist.came # "not"
  BY DEF IInv, NothingBefore
<1>2. /\ step' = step /\ data' = data /\ shown' = shown /\ hist' = hist /\ owner' = owner
  BY DEF Form, Rows
<1>3. /\ step \in {"none", "names", "phone", "email", "otp"} /\ data \in DataRow
      /\ shown \subseteq {"gate", "trial"} /\ hist \in HistRow
      /\ work \in [Handlers -> WorkRow]
  BY DEF IInv, Types
<1>4. LinkKept'
  BY <1>2 DEF IInv, LinkKept
<1>5. work' = [work EXCEPT ![h] = Idle] /\ work'[h] = Idle
  BY <1>3 DEF Finish
<1>6. Fits(work[h])'
  BY <1>5, EmptyTypes DEF Fits
<1>7. QED
  BY <1>1, <1>2, <1>3, <1>4, <1>5, <1>6, EmptyTypes, HandlerFrame

\* LookForRow, for a handler that begins: a row that is there is used, and a
\* missing one is inserted with the form's link.
LEMMA LookForRowFits ==
  ASSUME IInv, NEW h \in Handlers, NEW w \in WorkRow,
         w.then \in {"form", "send", "complete", "verify"}, ~w.inserted,
         hist'.came = "linked" /\ ~owner.exists => w.link \in Links,
         w.then = "send" => /\ w.address \in Addresses
                            /\ ~hist'.switched => data'.address \in {w.address, NoAddress},
         w.then = "verify" =>
           /\ w.code \in DOMAIN codes
           /\ ~hist'.switched /\ Live(w.code) =>
                codes[w.code].address = w.address \/ w.address = NoAddress,
         work' = [work EXCEPT ![h] = LookForRow(w)], UNCHANGED codes
  PROVE  /\ LookForRow(w) \in WorkRow
         /\ LookForRow(w).then # "trial"
         /\ Fits(work[h])'
<1>1. LookForRow(w) = IF owner.exists THEN [w EXCEPT !.pc = w.then, !.link = NoLink]
                      ELSE [w EXCEPT !.pc = "insert"]
  BY DEF LookForRow
<1>2. w.then \in Pcs /\ "insert" \in Pcs /\ NoLink \in Arguments
  BY DEF Pcs, Arguments
<1>3. LookForRow(w) \in WorkRow
  BY <1>1, <1>2 DEF WorkRow
<1>4. work'[h] = LookForRow(w)
  BY DEF IInv, Types
<1>5. /\ LookForRow(w).then = w.then /\ LookForRow(w).inserted = w.inserted
      /\ LookForRow(w).address = w.address /\ LookForRow(w).code = w.code
  BY <1>1 DEF WorkRow
<1>6. /\ LookForRow(w).pc = IF owner.exists THEN w.then ELSE "insert"
      /\ ~owner.exists => LookForRow(w).link = w.link
  BY <1>1 DEF WorkRow
<1>7. Fits(work[h])'
  BY <1>4, <1>5, <1>6 DEF Fits, Live
<1>8. QED
  BY <1>3, <1>5, <1>7

\* The types of the variables, for the steps below.
LEMMA TypeFacts ==
  ASSUME IInv
  PROVE  /\ step \in {"none", "names", "phone", "email", "otp"}
         /\ data \in DataRow /\ owner \in OwnerRow /\ codes \in Seq(CodeRow)
         /\ charges \in Nat /\ shown \subseteq {"gate", "trial"}
         /\ work \in [Handlers -> WorkRow] /\ hist \in HistRow
         /\ \A h \in Handlers : Fits(work[h])
         /\ \A h \in Handlers : work[h].pc # "idle" => hist.came # "not"
BY DEF IInv, Types, HandlersFit, NothingBefore

\* /start, with or without an argument.
LEMMA CmdStartIInv ==
  ASSUME IInv, NEW h \in Handlers, NEW link \in Arguments, CmdStart(h, link)
  PROVE  IInv'
<1>1. /\ data' = IF link = NoLink THEN data ELSE [data EXCEPT !.link = link]
      /\ hist' = [hist EXCEPT !.came =
                IF @ = "not" THEN IF link \in Links THEN "linked" ELSE "plain"
                ELSE IF @ = "linked" /\ link \in Strays /\ ~owner.exists THEN "strayed"
                ELSE @]
      /\ UNCHANGED <<step, Rows>>
  BY DEF CmdStart
<1>2. data' \in DataRow /\ data'.address = data.address
      /\ data'.link = IF link = NoLink THEN data.link ELSE link
  BY <1>1, TypeFacts DEF DataRow
<1>3. /\ hist' \in HistRow /\ hist'.switched = hist.switched /\ hist'.raced = hist.raced
      /\ hist'.came = IF hist.came = "not" THEN IF link \in Links THEN "linked" ELSE "plain"
                      ELSE IF hist.came = "linked" /\ link \in Strays /\ ~owner.exists
                      THEN "strayed" ELSE hist.came
  BY <1>1, TypeFacts DEF HistRow
<1>4. hist'.came # "not" /\ (hist'.came = "linked" => hist.came \in {"linked", "not"})
  BY <1>3
<1>5. LinkKept'
  <2> SUFFICES ASSUME ~owner.exists, hist'.came = "linked" PROVE data'.link \in Links
    BY <1>1 DEF LinkKept, Rows
  <2>1. CASE hist.came = "not"
    <3>1. link \in Links
      BY <1>3, <2>1
    <3>2. QED
      BY <1>2, <3>1, NonesAreNone
  <2>2. CASE hist.came # "not"
    <3>1. hist.came = "linked" /\ link \notin Strays /\ data.link \in Links
      BY <1>3, <2>2 DEF IInv, LinkKept
    <3>2. QED
      BY <1>2, <3>1 DEF Arguments
  <2>3. QED
    BY <2>1, <2>2
<1>6. NothingBefore'
  BY <1>4 DEF NothingBefore
<1>7. CASE UNCHANGED work /\ shown' \subseteq shown \cup {"gate"}
  BY <1>1, <1>2, <1>3, <1>4, <1>5, <1>6, <1>7, TypeFacts, FormFrame
<1>8. CASE work' = [work EXCEPT ![h] = [Idle EXCEPT !.pc = "gate"]] /\ UNCHANGED shown
  <2> DEFINE w == [Idle EXCEPT !.pc = "gate"]
  <2>1. w \in WorkRow
    BY EmptyTypes DEF WorkRow, Pcs
  <2>2. w.pc = "gate" /\ w.then = "none" /\ w.inserted = FALSE
    BY DEF Idle
  <2>3. work' = [work EXCEPT ![h] = w]
    BY <1>8
  <2> HIDE DEF w
  <2>4. work'[h] = w
    BY <2>3, TypeFacts
  <2>5. Fits(work[h])'
    BY <2>2, <2>4 DEF Fits
  <2>6. QED
    BY <1>1, <1>2, <1>3, <1>4, <1>5, <1>8, <2>1, <2>2, <2>3, <2>5, TypeFacts, HandlerFrame
<1>9. QED
  BY <1>7, <1>8 DEF CmdStart, ShowGate

\* The gate is passed, by /start or by its button: the form is read, and the row
\* is looked for.
LEMMA PassGateIInv ==
  ASSUME IInv, NEW h \in Handlers, PassGate(h), hist.came # "not",
         UNCHANGED <<Form, Rows, shown, hist>>
  PROVE  IInv'
<1> DEFINE w == [Idle EXCEPT !.then = "form", !.link = data.link]
<1>1. /\ work' = [work EXCEPT ![h] = LookForRow(w)]
      /\ UNCHANGED <<step, data, Rows, shown, hist>>
  BY DEF PassGate, Form
<1>2. w \in WorkRow
  BY TypeFacts, EmptyTypes DEF WorkRow, DataRow, Thens
<1>3. w.then = "form" /\ w.inserted = FALSE /\ w.link = data.link
  BY DEF Idle
<1> HIDE DEF w
<1>4. hist'.came = "linked" /\ ~owner.exists => w.link \in Links
  BY <1>1, <1>3 DEF IInv, LinkKept
<1>5. UNCHANGED <<codes, owner>>
  BY <1>1 DEF Rows
<1>6. LookForRow(w) \in WorkRow /\ LookForRow(w).then # "trial" /\ Fits(work[h])'
  BY <1>1, <1>2, <1>3, <1>4, <1>5, LookForRowFits
<1>7. LinkKept'
  BY <1>1, <1>5 DEF IInv, LinkKept
<1>8. QED
  BY <1>1, <1>6, <1>7, TypeFacts, HandlerFrame

\* The gate's button, and the rest of /start behind the gate.
LEMMA GateIInv ==
  ASSUME IInv, NEW h \in Handlers, CheckChannels(h) \/ GatePassed(h)
  PROVE  IInv'
<1>1. hist.came # "not" /\ UNCHANGED <<Form, Rows, shown, hist>>
  BY DEF CheckChannels, GatePassed, At, IInv, NothingBefore
<1>2. CASE PassGate(h)
  BY <1>1, <1>2, PassGateIInv
<1>3. CASE At(h, "gate") /\ Finish(h)
  BY <1>1, <1>3, FinishIInv DEF At
<1>4. QED
  BY <1>2, <1>3 DEF CheckChannels, GatePassed

\* The user enters a code.
LEMMA CodeGivenIInv ==
  ASSUME IInv, NEW h \in Handlers, NEW i \in DOMAIN codes, CodeGiven(h, i)
  PROVE  IInv'
<1> DEFINE w == [Idle EXCEPT !.then = "verify", !.address = data.address,
                             !.link = data.link, !.code = i]
<1>1. /\ work' = [work EXCEPT ![h] = LookForRow(w)] /\ step = "otp"
      /\ UNCHANGED <<step, data, Rows, shown, hist>>
  BY DEF CodeGiven, Form
<1>2. i \in Nat
  BY TypeFacts
<1>3. w \in WorkRow
  BY <1>2, TypeFacts, EmptyTypes DEF WorkRow, DataRow, Thens
<1>4. /\ w.then = "verify" /\ w.inserted = FALSE /\ w.link = data.link
      /\ w.address = data.address /\ w.code = i
  BY DEF Idle
<1> HIDE DEF w
<1>5. hist'.came = "linked" /\ ~owner.exists => w.link \in Links
  BY <1>1, <1>4 DEF IInv, LinkKept
<1>6. ~hist'.switched /\ Live(i) => codes[i].address = w.address \/ w.address = NoAddress
  BY <1>1, <1>4 DEF IInv, CodesFit
<1>7. UNCHANGED <<codes, owner>>
  BY <1>1 DEF Rows
<1>8. LookForRow(w) \in WorkRow /\ LookForRow(w).then # "trial" /\ Fits(work[h])'
  BY <1>1, <1>3, <1>4, <1>5, <1>6, <1>7, LookForRowFits
<1>9. LinkKept' /\ hist.came # "not"
  BY <1>1, <1>7 DEF IInv, LinkKept, NothingBefore
<1>10. QED
  BY <1>1, <1>8, <1>9, TypeFacts, HandlerFrame

\* The address is given: a code on its way to another one is noted.
LEMMA NotesSwitchFacts ==
  ASSUME IInv, NEW a \in Addresses, NotesSwitch(a)
  PROVE  /\ hist' \in HistRow /\ hist'.raced = hist.raced /\ hist'.came = hist.came
         /\ hist.switched => hist'.switched
         /\ ~hist'.switched => UnderWay \subseteq {a}
<1>1. hist \in HistRow
  BY TypeFacts
<1>2. hist' = [hist EXCEPT !.switched = @ \/ UnderWay \ {a} # {}]
  BY DEF NotesSwitch
<1>3. /\ hist' \in HistRow /\ hist'.raced = hist.raced /\ hist'.came = hist.came
      /\ hist'.switched = (hist.switched \/ UnderWay \ {a} # {})
  BY <1>1, <1>2 DEF HistRow
<1>4. QED
  BY <1>3

\* reg_email.
LEMMA EmailGivenIInv ==
  ASSUME IInv, NEW h \in Handlers, NEW a \in Addresses, EmailGiven(h, a)
  PROVE  IInv'
<1> DEFINE then == IF mode = "test" THEN "complete" ELSE "send"
           w == [Idle EXCEPT !.address = a, !.link = data.link, !.then = then]
<1>1. /\ work' = [work EXCEPT ![h] = LookForRow(w)] /\ step = "email"
      /\ data' = [data EXCEPT !.address = a] /\ NotesSwitch(a)
      /\ UNCHANGED <<step, Rows, shown>>
  BY DEF EmailGiven
<1>2. then \in {"complete", "send"} /\ then \in Thens
  BY DEF Thens
<1> HIDE DEF then
<1>3. data' \in DataRow /\ data'.address = a /\ data'.link = data.link
  BY <1>1, TypeFacts DEF DataRow
<1>4. w \in WorkRow
  BY <1>2, TypeFacts, EmptyTypes DEF WorkRow, DataRow
<1>5. /\ w.then = then /\ w.inserted = FALSE /\ w.link = data.link /\ w.address = a
  BY DEF Idle
<1> HIDE DEF w
<1>6. /\ hist' \in HistRow /\ hist'.raced = hist.raced /\ hist'.came = hist.came
      /\ hist.switched => hist'.switched
      /\ ~hist'.switched => UnderWay \subseteq {a}
  BY <1>1, NotesSwitchFacts
<1>7. hist'.came = "linked" /\ ~owner.exists => w.link \in Links
  BY <1>5, <1>6 DEF IInv, LinkKept
<1>8. UNCHANGED <<codes, owner>>
  BY <1>1 DEF Rows
<1>9. LookForRow(w) \in WorkRow /\ LookForRow(w).then # "trial" /\ Fits(work[h])'
  BY <1>1, <1>2, <1>3, <1>4, <1>5, <1>7, <1>8, LookForRowFits
<1>10. LinkKept' /\ hist'.came # "not"
  BY <1>1, <1>3, <1>6, <1>8 DEF IInv, LinkKept, NothingBefore
<1>11. QED
  BY <1>1, <1>3, <1>6, <1>9, <1>10, TypeFacts, HandlerFrame

\* _handle_phone_input.
LEMMA PhoneGivenIInv ==
  ASSUME IInv, NEW a \in Addresses, PhoneGiven(a)
  PROVE  IInv'
<1>1. /\ data' = [data EXCEPT !.address = a] /\ NotesSwitch(a)
      /\ step = "phone" /\ step' = "email"
      /\ UNCHANGED <<work, Rows, shown>>
  BY DEF PhoneGiven
<1>2. data' \in DataRow /\ data'.address = a /\ data'.link = data.link
  BY <1>1, TypeFacts DEF DataRow
<1>3. /\ hist' \in HistRow /\ hist'.raced = hist.raced /\ hist'.came = hist.came
      /\ hist.switched => hist'.switched
      /\ ~hist'.switched => UnderWay \subseteq {a}
  BY <1>1, NotesSwitchFacts
<1>4. owner' = owner
  BY <1>1 DEF Rows
<1>5. LinkKept' /\ NothingBefore'
  BY <1>1, <1>2, <1>3, <1>4 DEF IInv, LinkKept, NothingBefore
<1>6. QED
  BY <1>1, <1>2, <1>3, <1>5, TypeFacts, FormFrame

\* Steps that only move their handler on: the row is inserted, a code refused.
LEMMA MoveIInv ==
  ASSUME IInv, NEW h \in Handlers, Insert(h) \/ CodeRefused(h)
  PROVE  IInv'
<1>1. /\ work \in [Handlers -> WorkRow] /\ work[h] \in WorkRow /\ Fits(work[h])
      /\ work[h].pc # "idle" /\ hist.came # "not"
      /\ UNCHANGED <<step, data, Rows, shown, hist>> /\ UNCHANGED <<codes, owner>>
  BY TypeFacts DEF Insert, CodeRefused, At, Form, Rows
<1>2. LinkKept'
  BY <1>1 DEF IInv, LinkKept
<1>3. CASE Insert(h)
  <2> DEFINE link == Referrer(work[h].link)
             w == [work[h] EXCEPT !.pc = work[h].then, !.inserted = TRUE, !.link = link]
  <2>1. work[h].pc = "insert" /\ work[h].then \in {"form", "send", "complete", "verify"}
    BY <1>1, <1>3 DEF Insert, At, Fits
  <2>2. work' = [work EXCEPT ![h] = w]
    BY <1>1, <1>3 DEF Insert, WorkRow
  <2>3. work[h].then \in Pcs /\ link \in Arguments
        /\ (work[h].link \in Links => link \in Links)
    BY <2>1 DEF Pcs, Referrer, Arguments
  <2> HIDE DEF link
  <2>4. w \in WorkRow
    BY <1>1, <2>3 DEF WorkRow
  <2>5. /\ w.pc = work[h].then /\ w.then = work[h].then /\ w.link = link
        /\ w.address = work[h].address /\ w.code = work[h].code
    BY <1>1 DEF WorkRow
  <2> HIDE DEF w
  <2>6. work'[h] = w
    BY <1>1, <2>2
  <2>7. Fits(work[h])'
    BY <1>1, <2>1, <2>3, <2>5, <2>6 DEF Fits, Live
  <2>8. QED
    BY <1>1, <1>2, <2>1, <2>2, <2>4, <2>5, <2>7, TypeFacts, HandlerFrame
<1>4. CASE CodeRefused(h)
  <2> DEFINE w == [work[h] EXCEPT !.pc = "reply", !.then = "none"]
  <2>1. work' = [work EXCEPT ![h] = w]
    BY <1>1, <1>4 DEF CodeRefused, WorkRow
  <2>2. w \in WorkRow
    BY <1>1 DEF WorkRow, Pcs, Thens
  <2>3. /\ w.pc = "reply" /\ w.then = "none" /\ w.link = work[h].link
        /\ w.inserted = work[h].inserted
    BY <1>1 DEF WorkRow
  <2> HIDE DEF w
  <2>4. work'[h] = w
    BY <1>1, <2>1
  <2>5. Fits(work[h])'
    BY <1>1, <2>3, <2>4 DEF Fits
  <2>6. QED
    BY <1>1, <1>2, <2>1, <2>2, <2>3, <2>5, TypeFacts, HandlerFrame
<1>5. QED
  BY <1>3, <1>4

\* Steps after which a handler has only to answer and to commit: the form begins
\* or is cleared, a code is sent or accepted.
LEMMA ReplyIInv ==
  ASSUME IInv, NEW h \in Handlers,
         BeginForm(h) \/ SendCode(h) \/ CodeAccepted(h) \/ CompleteUnverified(h)
  PROVE  IInv'
<1> DEFINE w == [work[h] EXCEPT !.pc = "reply"]
<1>1. /\ work \in [Handlers -> WorkRow] /\ work[h] \in WorkRow /\ Fits(work[h])
      /\ work[h].pc \in {"form", "send", "complete", "verify"} /\ hist.came # "not"
      /\ work[h].then = work[h].pc
  BY TypeFacts DEF BeginForm, SendCode, CodeAccepted, CompleteUnverified, At, Fits
<1>2. /\ Goto(h, "reply") /\ UNCHANGED Rows /\ UNCHANGED <<codes, owner>>
      /\ shown' \subseteq {"gate", "trial"}
  BY TypeFacts DEF BeginForm, SendCode, CodeAccepted, CompleteUnverified, Rows
<1>3. \/ Forget
      \/ step' \in {"names", "otp"} /\ UNCHANGED <<data, hist>>
  BY DEF BeginForm, SendCode, CodeAccepted, CompleteUnverified
<1>4. /\ step' \in {"none", "names", "phone", "email", "otp"} /\ data' \in DataRow
      /\ hist' \in HistRow
      /\ hist'.switched = hist.switched /\ hist'.raced = hist.raced
      /\ data'.address \in {data.address, NoAddress}
      /\ hist'.came = "linked" => hist.came = "linked"
      /\ hist'.came # "not" /\ LinkKept'
  <2>1. CASE Forget
    BY <1>1, <1>2, <2>1, ForgetFacts
  <2>2. CASE step' \in {"names", "otp"} /\ UNCHANGED <<data, hist>>
    BY <1>1, <1>2, <2>2, TypeFacts DEF IInv, LinkKept
  <2>3. QED
    BY <1>3, <2>1, <2>2
<1>5. work' = [work EXCEPT ![h] = w]
  BY <1>1, <1>2 DEF Goto, WorkRow
<1>6. /\ w \in WorkRow /\ w.pc = "reply" /\ w.then = work[h].then /\ w.link = work[h].link
      /\ w.address = work[h].address /\ w.code = work[h].code
      /\ w.inserted = work[h].inserted
  BY <1>1 DEF WorkRow, Pcs
<1> HIDE DEF w
<1>7. work'[h] = w
  BY <1>1, <1>5
<1>8. work[h].then = "verify" => Live(work[h].code) /\ work[h].address # NoAddress
  BY <1>1 DEF BeginForm, SendCode, CodeAccepted, CompleteUnverified, At, Matches
<1>9. Fits(work[h])'
  BY <1>1, <1>2, <1>4, <1>6, <1>7, <1>8 DEF Fits, Live
<1>10. QED
  BY <1>1, <1>2, <1>4, <1>5, <1>6, <1>9, HandlerFrame

\* Steps of the user that no handler of the model stands for.
LEMMA FormIInv ==
  ASSUME IInv, Answer \/ MenuButton \/ CmdPanel \/ CmdCancel
  PROVE  IInv'
<1>1. UNCHANGED <<work, Rows>> /\ UNCHANGED owner
  BY DEF Answer, MenuButton, CmdPanel, CmdCancel, Rows
<1>2. CASE Answer
  <2>1. /\ step # "none" /\ step' \in {"phone", "email"} /\ UNCHANGED <<data, shown, hist>>
    BY <1>2 DEF Answer
  <2>2. LinkKept' /\ NothingBefore'
    BY <1>1, <2>1 DEF IInv, LinkKept, NothingBefore
  <2>3. QED
    BY <1>1, <2>1, <2>2, TypeFacts, FormFrame
<1>3. CASE Forget /\ (shown' = shown \/ (owner.completed /\ shown' = shown \cup {"trial"}))
  <2>1. shown' \subseteq {"gate", "trial"}
    BY <1>3, TypeFacts
  <2>2. NothingBefore'
    BY <1>1, <1>3, ForgetFacts DEF IInv, NothingBefore
  <2>3. QED
    BY <1>1, <1>3, <2>1, <2>2, ForgetFacts, FormFrame
<1>4. QED
  BY <1>2, <1>3 DEF MenuButton, CmdPanel, CmdCancel

\* A restart: every handler ends, and the form is lost.
LEMMA RestartIInv ==
  ASSUME IInv, Restart
  PROVE  IInv'
<1>1. /\ Forget /\ UNCHANGED <<Rows, shown>> /\ UNCHANGED owner
      /\ work' = [g \in Handlers |-> Idle] /\ \A g \in Handlers : work'[g] = Idle
  BY DEF Restart, Rows
<1>2. Types'
  BY <1>1, ForgetFacts, EmptyTypes DEF IInv, Types, Rows
<1>3. NothingBefore'
  BY <1>1, ForgetFacts, EmptyTypes DEF IInv, NothingBefore
<1>4. \A g \in Handlers : Fits(work[g])' /\ work'[g].then # "trial"
  BY <1>1, EmptyTypes DEF Fits
<1>5. QED
  BY <1>1, <1>2, <1>3, <1>4, ForgetFacts, Frame

\* The trial's button.
LEMMA ActivateTrialIInv ==
  ASSUME IInv, NEW h \in Handlers, ActivateTrial(h)
  PROVE  IInv'
<1> DEFINE w == [Idle EXCEPT !.pc = "reply", !.then = "trial"]
           some == \E g \in Handlers : work[g].then = "trial"
<1>1. /\ work' = [work EXCEPT ![h] = w] /\ charges = 0 /\ shown # {}
      /\ UNCHANGED <<step, data, Rows, shown>> /\ UNCHANGED <<owner, codes, charges>>
      /\ hist' = [hist EXCEPT !.raced = @ \/ some]
  BY DEF ActivateTrial, Form, Rows
<1>2. w \in WorkRow
  BY EmptyTypes DEF WorkRow, Pcs, Thens
<1>3. w.pc = "reply" /\ w.then = "trial" /\ w.inserted = FALSE
  BY DEF Idle
<1> HIDE DEF w
<1>4. work'[h] = w /\ \A g \in Handlers \ {h} : work'[g] = work[g]
  BY <1>1, TypeFacts
<1>5. /\ hist' \in HistRow /\ hist'.switched = hist.switched /\ hist'.came = hist.came
      /\ hist'.raced = (hist.raced \/ some)
  BY <1>1, TypeFacts DEF HistRow
<1>6. Types'
  <2>1. work' \in [Handlers -> WorkRow]
    BY <1>1, <1>2, TypeFacts
  <2>2. QED
    BY <1>1, <1>5, <2>1 DEF IInv, Types
<1>7. Fits(work[h])'
  BY <1>3, <1>4 DEF Fits
<1>8. LinkKept' /\ NothingBefore'
  BY <1>1, <1>5 DEF IInv, LinkKept, NothingBefore
<1>9. ~hist'.raced => \A k \in Handlers \ {h} : work'[k].then # "trial"
  BY <1>4, <1>5
<1>10. QED
  BY <1>1, <1>4, <1>5, <1>6, <1>7, <1>8, <1>9, Frame

\* What becomes of the codes: none gets another address, none lives again, and a
\* new one is for the address of the form.
CodesGrow(new) ==
  /\ new \in Seq(CodeRow)
  /\ \A i \in DOMAIN codes :
       /\ i \in DOMAIN new /\ new[i].address = codes[i].address
       /\ new[i].live => codes[i].live
  /\ \A i \in DOMAIN new \ DOMAIN codes :
       ~hist.switched => data.address \in {new[i].address, NoAddress}

\* A step that lets the codes grow so preserves what is said of codes and handlers.
LEMMA CodesFrame ==
  ASSUME IInv, CodesGrow(codes'), UNCHANGED <<data, hist>>,
         \A g \in Handlers : work'[g] = work[g] \/ work'[g] = Idle
  PROVE  CodesFit' /\ HandlersFit'
<1>1. CodesFit'
  BY DEF IInv, CodesFit, CodesGrow, Live
<1>2. ASSUME NEW g \in Handlers, work'[g] = work[g]
      PROVE  Fits(work[g])'
  <2>1. Fits(work[g])
    BY DEF IInv, HandlersFit
  <2>2. QED
    BY <1>2, <2>1 DEF Fits, CodesGrow, Live
<1>3. ASSUME NEW g \in Handlers, work'[g] = Idle
      PROVE  Fits(work[g])'
  BY <1>3, EmptyTypes DEF Fits
<1>4. QED
  BY <1>1, <1>2, <1>3 DEF HandlersFit

\* A code that is made dead.
LEMMA KillCode ==
  ASSUME IInv, NEW i \in DOMAIN codes
  PROVE  CodesGrow([codes EXCEPT ![i].live = FALSE])
<1>1. codes \in Seq(CodeRow)
  BY TypeFacts
<1>2. [codes EXCEPT ![i].live = FALSE] \in Seq(CodeRow)
  <2> DEFINE c == [codes[i] EXCEPT !.live = FALSE]
  <2>1. i \in 1..Len(codes) /\ codes[i] \in CodeRow
    BY <1>1
  <2>2. c \in CodeRow
    BY <2>1 DEF CodeRow
  <2>3. [codes EXCEPT ![i] = c] \in Seq(CodeRow)
    BY <1>1, <2>1, <2>2, ExceptSeq
  <2>4. QED
    BY <2>3
<1>3. QED
  BY <1>1, <1>2 DEF CodesGrow, CodeRow

\* A code's time is over.
LEMMA ExpireIInv ==
  ASSUME IInv, NEW i \in DOMAIN codes, Expire(i)
  PROVE  IInv'
<1>1. /\ codes' = [codes EXCEPT ![i].live = FALSE]
      /\ UNCHANGED <<step, data, owner, charges, shown, work, hist>>
  BY DEF Expire, Form
<1>2. CodesGrow(codes')
  BY <1>1, KillCode
<1>3. CodesFit' /\ HandlersFit'
  BY <1>1, <1>2, CodesFrame
<1>4. Types'
  BY <1>1, <1>2 DEF IInv, Types, CodesGrow
<1>5. QED
  BY <1>1, <1>3, <1>4 DEF IInv, LinkKept, NothingBefore, OneGiver, VerifiedUnlessSwitched,
                           ReferredUnlessLost, OneTrialUnlessRaced

\* The commit of a handler: an owner's row that it completes was verified on a
\* code for its address, a row that it inserts has the link.
LEMMA CommitIInv ==
  ASSUME IInv, NEW h \in Handlers, Commit(h)
  PROVE  IInv'
<1> DEFINE w == work[h]
           made == IF w.inserted
                   THEN [NoOwner EXCEPT !.exists = TRUE, !.link = w.link]
                   ELSE owner
<1>1. /\ work \in [Handlers -> WorkRow] /\ w \in WorkRow /\ Fits(w)
      /\ w.pc = "reply" /\ hist.came # "not"
  BY TypeFacts DEF Commit, At
<1>2. /\ work'[h] = Idle /\ \A g \in Handlers \ {h} : work'[g] = work[g]
      /\ work' \in [Handlers -> WorkRow]
  BY <1>1, EmptyTypes DEF Commit, Finish
<1>3. UNCHANGED <<step, data, shown, hist>>
  BY DEF Commit, Form
<1>4. /\ made \in OwnerRow
      /\ made.exists = IF w.inserted THEN TRUE ELSE owner.exists
      /\ made.link = IF w.inserted THEN w.link ELSE owner.link
      /\ made.proof = IF w.inserted THEN "none" ELSE owner.proof
  <2>1. CASE w.inserted
    <3>1. [NoOwner EXCEPT !.exists = TRUE, !.link = w.link] \in OwnerRow
      BY <1>1, EmptyTypes DEF OwnerRow, WorkRow
    <3>2. QED
      BY <2>1, <3>1, EmptyTypes DEF OwnerRow
  <2>2. CASE ~w.inserted
    BY <2>2, TypeFacts
  <2>3. QED
    BY <2>1, <2>2
<1>5. owner' = CASE w.then = "verify" ->
                      [made EXCEPT !.completed = TRUE,
                                   !.proof = IF codes[w.code].address = w.address
                                             THEN "sent" ELSE "other"]
                 [] w.then = "complete" -> [made EXCEPT !.completed = TRUE]
                 [] OTHER -> made
  BY DEF Commit, Written
<1> HIDE DEF made
<1>6. /\ owner' \in OwnerRow /\ owner'.exists = made.exists /\ owner'.link = made.link
      /\ owner'.proof = IF w.then = "verify"
                        THEN IF codes[w.code].address = w.address THEN "sent" ELSE "other"
                        ELSE made.proof
  BY <1>4, <1>5 DEF OwnerRow
<1>7. CodesGrow(codes')
  <2>1. CASE w.then = "send"
    <3> DEFINE c == [address |-> w.address, live |-> TRUE]
    <3>1. codes' = Append(codes, c)
      BY <2>1 DEF Commit
    <3>2. c \in CodeRow /\ c.address = w.address
      BY <1>1, <2>1 DEF Fits, CodeRow
    <3>3. ~hist.switched => data.address \in {w.address, NoAddress}
      BY <1>1, <2>1 DEF Fits
    <3> HIDE DEF c
    <3>4. codes \in Seq(CodeRow)
      BY TypeFacts
    <3>5. /\ codes' \in Seq(CodeRow)
          /\ \A i \in DOMAIN codes : i \in DOMAIN codes' /\ codes'[i] = codes[i]
          /\ \A i \in DOMAIN codes' \ DOMAIN codes : codes'[i] = c
      BY <3>1, <3>2, <3>4
    <3>6. QED
      BY <3>2, <3>3, <3>5 DEF CodesGrow
  <2>2. CASE w.then = "verify"
    <3>1. w.code \in DOMAIN codes
      BY <1>1, <2>2 DEF Fits
    <3>2. codes' = [codes EXCEPT ![w.code].live = FALSE]
      BY <2>2 DEF Commit
    <3>3. QED
      BY <3>1, <3>2, KillCode
  <2>3. CASE w.then \notin {"send", "verify"}
    <3>1. codes' = codes
      BY <2>3 DEF Commit
    <3>2. QED
      BY <3>1, TypeFacts DEF CodesGrow
  <2>4. QED
    BY <2>1, <2>2, <2>3
<1>8. CodesFit' /\ HandlersFit'
  BY <1>2, <1>3, <1>7, CodesFrame
<1>9. charges' = (IF w.then = "trial" THEN charges + 1 ELSE charges) /\ charges' \in Nat
  BY TypeFacts DEF Commit
<1>10. Types'
  BY <1>2, <1>3, <1>6, <1>7, <1>9 DEF IInv, Types, CodesGrow
<1>11. LinkKept' /\ NothingBefore'
  BY <1>1, <1>3, <1>4, <1>6 DEF IInv, LinkKept, NothingBefore
<1>12. ReferredUnlessLost'
  BY <1>1, <1>3, <1>4, <1>6, NonesAreNone DEF IInv, ReferredUnlessLost, Fits
<1>13. VerifiedUnlessSwitched'
  BY <1>1, <1>3, <1>4, <1>6 DEF IInv, VerifiedUnlessSwitched, Fits
<1>14. OneGiver' /\ OneTrialUnlessRaced'
  BY <1>2, <1>3, <1>9, EmptyTypes DEF IInv, OneGiver, OneTrialUnlessRaced
<1>15. QED
  BY <1>8, <1>10, <1>11, <1>12, <1>13, <1>14 DEF IInv

\* Every step preserves the invariant.
LEMMA NextIInv == IInv /\ [Next]_vars => IInv'
<1> SUFFICES ASSUME IInv, [Next]_vars PROVE IInv'
  OBVIOUS
<1>1. ASSUME NEW h \in Handlers, InsertTwice(h) \/ CodeRaises(h) \/ Raise(h)
      PROVE  IInv'
  BY <1>1, FinishIInv DEF InsertTwice, CodeRaises, Raise, At
<1>2. CASE UNCHANGED vars
  <2>1. UNCHANGED <<work, Rows>> /\ UNCHANGED <<step, data, shown, hist, owner>>
    BY <1>2 DEF vars, Rows
  <2>2. LinkKept' /\ NothingBefore'
    BY <1>2 DEF vars, IInv, LinkKept, NothingBefore
  <2>3. QED
    BY <2>1, <2>2, TypeFacts, FormFrame
<1>3. QED
  BY <1>1, <1>2, CmdStartIInv, GateIInv, CodeGivenIInv, EmailGivenIInv,
     PhoneGivenIInv, MoveIInv, ReplyIInv, FormIInv, RestartIInv, ActivateTrialIInv,
     CommitIInv, ExpireIInv DEF Next, Arguments

-----------------------------------------------------------------------------
\* Theorems.

\* The invariant holds in every reachable state.
THEOREM SpecIInv == Spec => []IInv
BY InitIInv, NextIInv, PTL DEF Spec

\* An address counts as verified on a code for another address only if an address
\* was given while a code was under way to another: verify_otp is not told which
\* address it verifies.
THEOREM SpecVerifiedUnlessSwitched == Spec => []VerifiedUnlessSwitched
<1>1. IInv => VerifiedUnlessSwitched
  BY DEF IInv
<1>2. QED
  BY <1>1, SpecIInv, PTL

\* Who first came by an owner's link has a referrer, unless the form was lost or a
\* later /start brought nobody's code before there was a row: no overlap of
\* handlers, no gate and no failure loses it.
THEOREM SpecReferredUnlessLost == Spec => []ReferredUnlessLost
<1>1. IInv => ReferredUnlessLost
  BY DEF IInv
<1>2. QED
  BY <1>1, SpecIInv, PTL

\* The trial is charged twice only if two presses of its button overlapped.
THEOREM SpecOneTrialUnlessRaced == Spec => []OneTrialUnlessRaced
<1>1. IInv => OneTrialUnlessRaced
  BY DEF IInv
<1>2. QED
  BY <1>1, SpecIInv, PTL
=============================================================================
