--------------------------- MODULE ShopBotsProofs ---------------------------
(***************************************************************************)
(* Proofs about ShopBots, for any tokens, sessions and number of faults,   *)
(* in both run modes.                                                      *)
(***************************************************************************)
EXTENDS ShopBots, TLAPS

-----------------------------------------------------------------------------
\* The inductive invariant, in parts.

Tokens0 == Tokens \cup {NoToken}
ShopRow == [token : Tokens0, active : BOOLEAN]
SessRow == [pc : {"idle", "read", "register", "unregister", "deleting",
                  "replacing", "install", "hooking", "commit"},
            op : Ops, token : Tokens0, saw : ShopRow, old : Tokens0]

\* Who acts for whom: an admin's handler has the token of the row it read, and the
\* way through the manager is its operation's.
Ways ==
  \A s \in Sessions :
    /\ sess[s].pc # "idle" =>
         /\ sess[s].token \in Tokens
         /\ sess[s].op # "token" => sess[s].token = sess[s].saw.token
    /\ sess[s].pc \in {"unregister", "deleting"} => sess[s].op = "suspend"
    /\ sess[s].pc \in {"register", "replacing", "install", "hooking"} =>
         sess[s].op # "suspend"

\* A row that has a token keeps one: only then may it be active.
HasToken ==
  /\ shop.active => shop.token \in Tokens
  /\ \A s \in Sessions : sess[s].saw.token \in Tokens => shop.token \in Tokens

\* The manager runs the bot of a row.
InStep(row) ==
  /\ Running = IF row.active THEN row.token ELSE NoToken
  /\ mode = "webhook" /\ row.active => row.token \in hook

\* How far the manager is, while s acts: as the row was when it was read, between
\* the two, and as s wants the row to be.
Stage(s) ==
  /\ sess[s].saw = shop
  /\ sess[s].pc \in {"register", "unregister"} => InStep(shop)
  /\ sess[s].pc = "deleting" => Running = NoToken
  /\ sess[s].pc = "hooking" => mode = "webhook" /\ bots = sess[s].token
  /\ sess[s].pc = "commit" => InStep(Wanted(s))

\* Without a crossing and without a failure one handler acts at a time, on the row
\* as it has read it; when none does, the manager runs what the row says.
OneActs ==
  ~crossed /\ ~broken =>
    /\ \A s, t \in Acting : s = t
    /\ \A s \in Acting : Stage(s)
    /\ Acting = {} => InStep(shop)

IInv ==
  /\ TypeOK /\ Ways /\ HasToken
  /\ mode = "webhook" => polling = NoToken
  /\ OneActs

-----------------------------------------------------------------------------
\* Lemmas.

\* An idle session has a session's type.
LEMMA IdleType ==
  Idle \in SessRow /\ Idle.pc = "idle" /\ Idle.saw.token \notin Tokens
BY NonesAreNone DEF Idle, SessRow, ShopRow, Tokens0, Ops

\* The sessions' part of TypeOK, and what follows from it.
LEMMA TypeFacts ==
  ASSUME IInv
  PROVE  /\ mode \in {"webhook", "polling"} /\ shop \in ShopRow
         /\ bots \in Tokens0 /\ polling \in Tokens0 /\ hook \subseteq Tokens
         /\ sess \in [Sessions -> SessRow]
         /\ lock \in Sessions \cup {NoSession}
         /\ faults \in 0..MaxFaults /\ crossed \in BOOLEAN /\ broken \in BOOLEAN
         /\ shop.active => shop.token \in Tokens
BY DEF IInv, TypeOK, HasToken, SessRow, ShopRow, Tokens0

\* The invariant holds when the process starts for the first time.
LEMMA InitIInv == Init => IInv
<1> SUFFICES ASSUME Init PROVE IInv
  OBVIOUS
<1>1. sess \in [Sessions -> SessRow] /\ \A s \in Sessions : sess[s].pc = "idle"
  BY IdleType DEF Init
<1>2. TypeOK
  <2>1. shop \in ShopRow
    BY DEF Init, ShopRow, Tokens0
  <2>2. faults \in 0..MaxFaults
    BY MaxFaultsIsNat DEF Init
  <2>3. QED
    BY <1>1, <2>1, <2>2 DEF Init, TypeOK, SessRow, ShopRow, Tokens0
<1>3. Ways /\ Acting = {}
  BY <1>1 DEF Ways, Acting
<1>4. HasToken
  BY IdleType DEF Init, HasToken
<1>5. InStep(shop)
  BY DEF Init, InStep, Running
<1>6. QED
  BY <1>2, <1>3, <1>4, <1>5 DEF Init, IInv, OneActs

\* A step of session s, of which the parts that every step has are done: the types,
\* the ways, and the one handler that acts.
LEMMA StepFrame ==
  ASSUME IInv, NEW s \in Sessions, NEW w \in SessRow,
         sess' = [sess EXCEPT ![s] = w],
         w.pc # "idle" => /\ w.token \in Tokens
                          /\ w.op # "token" => w.token = w.saw.token,
         w.pc \in {"unregister", "deleting"} => w.op = "suspend",
         w.pc \in {"register", "replacing", "install", "hooking"} => w.op # "suspend",
         w.saw.token \in Tokens => shop.token \in Tokens,
         shop'.token \in Tokens \cup {shop.token},
         shop'.active => shop'.token \in Tokens,
         shop' \in ShopRow, lock' \in Sessions \cup {NoSession},
         bots' \in Tokens0, polling' \in Tokens0, hook' \subseteq Tokens,
         faults' \in 0..MaxFaults, crossed' \in BOOLEAN, broken' \in BOOLEAN,
         UNCHANGED mode, mode = "webhook" => polling' = NoToken,
         OneActs'
  PROVE  IInv'
<1>1. /\ sess' \in [Sessions -> SessRow]
      /\ sess'[s] = w /\ \A t \in Sessions \ {s} : sess'[t] = sess[t]
  BY TypeFacts
<1>2. TypeOK'
  BY <1>1, TypeFacts DEF TypeOK, SessRow, ShopRow, Tokens0
<1>3. Ways'
  BY <1>1 DEF IInv, Ways
<1>4. HasToken'
  BY <1>1 DEF IInv, HasToken
<1>5. QED
  BY <1>2, <1>3, <1>4 DEF IInv

\* The handler that acts goes on acting.
LEMMA ActsOn ==
  ASSUME IInv, NEW s \in Acting, NEW w \in SessRow,
         sess' = [sess EXCEPT ![s] = w], w.pc \notin {"idle", "read"},
         UNCHANGED <<shop, crossed>>, broken => broken',
         ~crossed /\ ~broken' => Stage(s)'
  PROVE  OneActs'
<1>1. s \in Sessions /\ sess'[s] = w /\ \A t \in Sessions \ {s} : sess'[t] = sess[t]
  BY TypeFacts DEF Acting
<1>2. Acting' = Acting
  BY <1>1 DEF Acting
<1>3. ~crossed /\ ~broken => Acting = {s}
  BY DEF IInv, OneActs
<1>4. QED
  BY <1>2, <1>3 DEF OneActs

\* The handler that acts ends.
LEMMA ActsNoMore ==
  ASSUME IInv, NEW s \in Acting, sess' = [sess EXCEPT ![s] = Idle],
         UNCHANGED crossed, broken => broken',
         ~crossed /\ ~broken' => InStep(shop)'
  PROVE  OneActs'
<1>1. s \in Sessions /\ sess'[s] = Idle /\ \A t \in Sessions \ {s} : sess'[t] = sess[t]
  BY TypeFacts DEF Acting
<1>2. Acting' = Acting \ {s}
  BY <1>1, IdleType DEF Acting
<1>3. ~crossed /\ ~broken => Acting = {s}
  BY DEF IInv, OneActs
<1>4. QED
  BY <1>2, <1>3 DEF OneActs

\* A handler that does not act begins or ends beside those that do.
LEMMA ActsBeside ==
  ASSUME IInv, NEW s \in Sessions, NEW w \in SessRow,
         sess[s].pc \in {"idle", "read"}, w.pc \in {"idle", "read"},
         sess' = [sess EXCEPT ![s] = w],
         UNCHANGED <<mode, shop, bots, polling, hook, crossed, broken>>
  PROVE  OneActs'
<1>1. sess'[s] = w /\ \A t \in Sessions \ {s} : sess'[t] = sess[t]
  BY TypeFacts
<1>2. Acting' = Acting /\ \A t \in Acting : t # s /\ sess'[t] = sess[t]
  BY <1>1 DEF Acting
<1>3. InStep(shop) <=> InStep(shop)'
  BY DEF InStep, Running
<1>4. ASSUME NEW t \in Acting, Stage(t)
      PROVE  Stage(t)'
  BY <1>2, <1>4 DEF Stage, InStep, Running, Wanted
<1>5. QED
  BY <1>2, <1>3, <1>4 DEF IInv, OneActs

\* The handlers read the row.
LEMMA BeginIInv ==
  ASSUME IInv, NEW s \in Sessions, NEW op \in Ops, NEW t \in Tokens, Begin(s, op, t)
  PROVE  IInv'
<1> DEFINE w == [Idle EXCEPT !.pc = "read", !.op = op, !.token = t, !.saw = shop]
<1>1. /\ sess' = [sess EXCEPT ![s] = w] /\ sess[s].pc = "idle"
      /\ op # "token" => t = shop.token
      /\ UNCHANGED <<mode, shop, lock, bots, polling, hook, faults, crossed, broken>>
  BY DEF Begin, At, History
<1>2. w \in SessRow
  BY IdleType, TypeFacts DEF SessRow, Tokens0
<1>3. w.pc = "read" /\ w.op = op /\ w.token = t /\ w.saw = shop
  BY DEF Idle
<1> HIDE DEF w
<1>4. OneActs'
  BY <1>1, <1>2, <1>3, ActsBeside
<1>5. mode = "webhook" => polling' = NoToken
  BY <1>1 DEF IInv
<1>6. QED
  BY <1>1, <1>2, <1>3, <1>4, <1>5, TypeFacts, StepFrame

\* The second of two first tokens is refused.
LEMMA InsertTwiceIInv ==
  ASSUME IInv, NEW s \in Sessions, InsertTwice(s)
  PROVE  IInv'
<1>1. /\ sess' = [sess EXCEPT ![s] = Idle] /\ sess[s].pc = "read"
      /\ UNCHANGED <<mode, shop, lock, bots, polling, hook, faults, crossed, broken>>
  BY DEF InsertTwice, At, History
<1>2. OneActs'
  BY <1>1, IdleType, ActsBeside
<1>3. mode = "webhook" => polling' = NoToken
  BY <1>1 DEF IInv
<1>4. QED
  BY <1>1, <1>2, <1>3, IdleType, TypeFacts, StepFrame

\* Facts about a handler that acts, used by each of its steps.
LEMMA ActorFacts ==
  ASSUME IInv, NEW s \in Acting
  PROVE  /\ s \in Sessions /\ sess[s] \in SessRow /\ sess[s].token \in Tokens
         /\ sess[s].op # "token" => sess[s].token = sess[s].saw.token
         /\ sess[s].pc \in {"unregister", "deleting"} => sess[s].op = "suspend"
         /\ sess[s].pc \in {"register", "replacing", "install", "hooking"} =>
              sess[s].op # "suspend"
         /\ sess[s].saw.token \in Tokens => shop.token \in Tokens
         /\ ~crossed /\ ~broken => Stage(s)
BY TypeFacts DEF IInv, Acting, Ways, HasToken, OneActs

\* Moving the acting handler to its next step.
LEMMA GotoFacts ==
  ASSUME IInv, NEW s \in Sessions,
         NEW pc \in {"register", "unregister", "deleting", "replacing", "install",
                     "hooking", "commit"}
  PROVE  LET w == [sess[s] EXCEPT !.pc = pc]
         IN  /\ w \in SessRow /\ w.pc = pc /\ w.op = sess[s].op /\ w.token = sess[s].token
             /\ w.saw = sess[s].saw /\ w.old = sess[s].old
             /\ Goto(s, pc) => sess' = [sess EXCEPT ![s] = w] /\ sess'[s] = w
BY TypeFacts DEF SessRow, Goto

\* The change is flushed.
LEMMA FlushIInv ==
  ASSUME IInv, NEW s \in Sessions, Flush(s)
  PROVE  IInv'
<1> DEFINE pc == IF sess[s].op = "suspend" THEN "unregister" ELSE "register"
           w == [sess[s] EXCEPT !.pc = pc]
<1>1. /\ sess[s].pc = "read" /\ Goto(s, pc)
      /\ crossed' = (crossed \/ sess[s].saw # shop \/ Acting # {})
      /\ lock' \in {s, lock}
      /\ UNCHANGED <<mode, shop, bots, polling, hook, faults, broken>>
  BY DEF Flush, At
<1>2. /\ pc \in {"unregister", "register"}
      /\ pc = "unregister" <=> sess[s].op = "suspend"
  OBVIOUS
<1> HIDE DEF pc
<1>3. /\ w \in SessRow /\ w.pc = pc /\ w.op = sess[s].op /\ w.token = sess[s].token
      /\ w.saw = sess[s].saw /\ sess' = [sess EXCEPT ![s] = w] /\ sess'[s] = w
  BY <1>1, <1>2, TypeFacts DEF Goto, SessRow
<1> HIDE DEF w
<1>4. Acting' = Acting \cup {s}
  BY <1>1, <1>2, <1>3, TypeFacts DEF Acting
<1>5. OneActs'
  <2> SUFFICES ASSUME ~crossed', ~broken'
               PROVE  Acting' = {s} /\ Stage(s)'
    BY DEF OneActs
  <2>1. ~crossed /\ ~broken /\ sess[s].saw = shop /\ Acting = {}
    BY <1>1, TypeFacts
  <2>2. InStep(shop)
    BY <2>1 DEF IInv, OneActs
  <2>3. InStep(shop)'
    BY <1>1, <2>2 DEF InStep, Running
  <2>4. Stage(s)'
    BY <1>1, <1>2, <1>3, <2>1, <2>3 DEF Stage
  <2>5. QED
    BY <1>4, <2>1, <2>4
<1>6. /\ w.token \in Tokens /\ (w.op # "token" => w.token = w.saw.token)
      /\ w.saw.token \in Tokens => shop.token \in Tokens
      /\ mode = "webhook" => polling' = NoToken
  BY <1>1, <1>3 DEF IInv, Ways, HasToken
<1>7. crossed' \in BOOLEAN /\ lock' \in Sessions \cup {NoSession}
  BY <1>1, TypeFacts
<1>8. QED
  BY <1>1, <1>2, <1>3, <1>5, <1>6, <1>7, TypeFacts, StepFrame

\* The older bot leaves the manager.
LEMMA PopIInv ==
  ASSUME IInv, NEW s \in Acting, NEW next \in {"deleting", "replacing"}, Pop(s, next),
         next = "deleting" <=> sess[s].op = "suspend"
  PROVE  IInv'
<1> DEFINE w == [sess[s] EXCEPT !.pc = next, !.old = bots]
<1>1. /\ bots' = NoToken /\ polling' = NoToken
      /\ sess' = [sess EXCEPT ![s].pc = next, ![s].old = bots]
      /\ UNCHANGED <<mode, shop, lock, hook, faults, crossed, broken>>
  BY DEF Pop, History
<1>2. /\ w \in SessRow /\ w.pc = next /\ w.op = sess[s].op /\ w.token = sess[s].token
      /\ w.saw = sess[s].saw
  BY ActorFacts, TypeFacts DEF SessRow
<1>3. sess' = [sess EXCEPT ![s] = w] /\ sess'[s] = w
  BY <1>1, ActorFacts, TypeFacts DEF SessRow
<1> HIDE DEF w
<1>4. ~crossed /\ ~broken => Stage(s)'
  BY <1>1, <1>2, <1>3, ActorFacts DEF Stage, Running
<1>5. OneActs'
  BY <1>1, <1>2, <1>3, <1>4, ActsOn
<1>6. NoToken \in Tokens0
  BY DEF Tokens0
<1>7. /\ s \in Sessions /\ w.token \in Tokens
      /\ w.op # "token" => w.token = w.saw.token
      /\ w.saw.token \in Tokens => shop.token \in Tokens
      /\ w.pc \in {"unregister", "deleting"} => w.op = "suspend"
      /\ w.pc \in {"register", "replacing", "install", "hooking"} => w.op # "suspend"
  BY <1>2, ActorFacts
<1>8. /\ bots' \in Tokens0 /\ polling' \in Tokens0
      /\ UNCHANGED <<mode, shop, lock, hook, faults, crossed, broken>>
      /\ mode = "webhook" => polling' = NoToken
  BY <1>1, <1>6
<1>9. QED
  BY <1>2, <1>3, <1>5, <1>7, <1>8, TypeFacts, StepFrame

\* unregister and register begin.
LEMMA ManagerIInv ==
  ASSUME IInv, NEW s \in Sessions, Unregister(s) \/ Register(s)
  PROVE  IInv'
<1>1. s \in Acting
  BY DEF Unregister, Register, At, Acting
<1>2. CASE Unregister(s)
  BY <1>1, <1>2, ActorFacts, PopIInv DEF Unregister, At
<1>3. CASE Register(s) /\ bots # NoToken
  BY <1>1, <1>3, ActorFacts, PopIInv DEF Register, At
<1>4. CASE Register(s) /\ bots = NoToken
  <2> DEFINE w == [sess[s] EXCEPT !.pc = "install"]
  <2>1. /\ Goto(s, "install") /\ sess[s].pc = "register"
        /\ UNCHANGED <<mode, shop, lock, bots, polling, hook, faults, crossed, broken>>
    BY <1>4 DEF Register, At, History
  <2>2. /\ w \in SessRow /\ w.pc = "install" /\ w.op = sess[s].op /\ w.token = sess[s].token
        /\ w.saw = sess[s].saw /\ sess' = [sess EXCEPT ![s] = w] /\ sess'[s] = w
    BY <2>1, GotoFacts
  <2> HIDE DEF w
  <2>3. ~crossed /\ ~broken => Stage(s)'
    BY <1>1, <2>1, <2>2, ActorFacts DEF Stage
  <2>4. OneActs'
    BY <1>1, <2>1, <2>2, <2>3, ActsOn
  <2>5. mode = "webhook" => polling' = NoToken
    BY <2>1 DEF IInv
  <2>6. QED
    BY <1>1, <2>1, <2>2, <2>4, <2>5, ActorFacts, TypeFacts, StepFrame
<1>5. QED
  BY <1>2, <1>3, <1>4

\* The older bot's webhook is deleted, or is not.
LEMMA DeleteWebhookIInv ==
  ASSUME IInv, NEW s \in Sessions, DeleteWebhook(s)
  PROVE  IInv'
<1> DEFINE pc == IF sess[s].pc = "deleting" THEN "commit" ELSE "install"
           w == [sess[s] EXCEPT !.pc = pc]
<1>1. /\ sess[s].pc \in {"deleting", "replacing"} /\ Goto(s, pc)
      /\ UNCHANGED <<mode, shop, lock, bots, polling, crossed, broken>>
      /\ hook' \subseteq hook
  BY DEF DeleteWebhook, At
<1>2. faults' \in 0..MaxFaults
  BY TypeFacts, MaxFaultsIsNat DEF DeleteWebhook
<1>3. /\ pc \in {"commit", "install"}
      /\ pc = "commit" <=> sess[s].pc = "deleting"
  OBVIOUS
<1> HIDE DEF pc
<1>4. s \in Acting
  BY <1>1 DEF Acting
<1>5. /\ w \in SessRow /\ w.pc = pc /\ w.op = sess[s].op /\ w.token = sess[s].token
      /\ w.saw = sess[s].saw /\ sess' = [sess EXCEPT ![s] = w] /\ sess'[s] = w
  BY <1>1, <1>3, TypeFacts DEF Goto, SessRow
<1> HIDE DEF w
<1>6. ~crossed /\ ~broken => Stage(s)'
  <2> SUFFICES ASSUME ~crossed, ~broken PROVE Stage(s)'
    OBVIOUS
  <2>1. Stage(s)
    BY <1>4, ActorFacts
  <2>2. pc = "commit" => Running' = NoToken /\ Wanted(s)'.active = FALSE
    BY <1>1, <1>3, <1>4, <1>5, <2>1, ActorFacts DEF Stage, Running, Wanted
  <2>3. pc = "commit" => InStep(Wanted(s))'
    BY <2>2 DEF InStep
  <2>4. QED
    BY <1>1, <1>3, <1>5, <2>1, <2>3 DEF Stage
<1>7. OneActs'
  BY <1>1, <1>3, <1>4, <1>5, <1>6, ActsOn
<1>8. hook' \subseteq Tokens /\ (mode = "webhook" => polling' = NoToken)
  BY <1>1, TypeFacts DEF IInv
<1>9. QED
  BY <1>1, <1>2, <1>3, <1>4, <1>5, <1>7, <1>8, ActorFacts, TypeFacts, StepFrame

\* The new bot is put into the manager's memory.
LEMMA InstallIInv ==
  ASSUME IInv, NEW s \in Sessions, Install(s)
  PROVE  IInv'
<1> DEFINE pc == IF mode = "webhook" THEN "hooking" ELSE "commit"
           w == [sess[s] EXCEPT !.pc = pc]
<1>1. /\ sess[s].pc = "install" /\ Goto(s, pc) /\ bots' = sess[s].token
      /\ polling' = IF mode = "polling" THEN sess[s].token ELSE polling
      /\ UNCHANGED <<mode, shop, lock, hook, faults, crossed, broken>>
  BY DEF Install, At, History
<1>2. /\ pc \in {"hooking", "commit"}
      /\ pc = "hooking" <=> mode = "webhook"
  OBVIOUS
<1> HIDE DEF pc
<1>3. s \in Acting
  BY <1>1 DEF Acting
<1>4. /\ w \in SessRow /\ w.pc = pc /\ w.op = sess[s].op /\ w.token = sess[s].token
      /\ w.saw = sess[s].saw /\ sess' = [sess EXCEPT ![s] = w] /\ sess'[s] = w
  BY <1>1, <1>2, TypeFacts DEF Goto, SessRow
<1> HIDE DEF w
<1>5. ~crossed /\ ~broken => Stage(s)'
  <2> SUFFICES ASSUME ~crossed, ~broken PROVE Stage(s)'
    OBVIOUS
  <2>1. sess[s].saw = shop /\ sess[s].op # "suspend"
    BY <1>1, <1>3, ActorFacts DEF Stage
  <2>2. pc = "commit" => /\ mode = "polling" /\ Running' = sess[s].token
                         /\ Wanted(s)' = [token |-> sess[s].token, active |-> TRUE]
    BY <1>1, <1>2, <1>4, <2>1, TypeFacts DEF Running, Wanted
  <2>3. pc = "commit" => InStep(Wanted(s))'
    BY <1>1, <2>2 DEF InStep
  <2>4. QED
    BY <1>1, <1>2, <1>4, <2>1, <2>3 DEF Stage
<1>6. OneActs'
  BY <1>1, <1>2, <1>3, <1>4, <1>5, ActsOn
<1>7. /\ bots' \in Tokens0 /\ polling' \in Tokens0
      /\ mode = "webhook" => polling' = NoToken
  BY <1>1, <1>3, ActorFacts, TypeFacts DEF IInv, Tokens0
<1>8. QED
  BY <1>1, <1>2, <1>3, <1>4, <1>6, <1>7, ActorFacts, TypeFacts, StepFrame

\* The webhook is set.
LEMMA SetWebhookIInv ==
  ASSUME IInv, NEW s \in Sessions, SetWebhook(s)
  PROVE  IInv'
<1> DEFINE w == [sess[s] EXCEPT !.pc = "commit"]
<1>1. /\ sess[s].pc = "hooking" /\ Goto(s, "commit") /\ hook' = hook \cup {sess[s].token}
      /\ UNCHANGED <<mode, shop, lock, bots, polling, faults, crossed, broken>>
  BY DEF SetWebhook, At, History
<1>2. s \in Acting
  BY <1>1 DEF Acting
<1>3. /\ w \in SessRow /\ w.pc = "commit" /\ w.op = sess[s].op /\ w.token = sess[s].token
      /\ w.saw = sess[s].saw /\ sess' = [sess EXCEPT ![s] = w] /\ sess'[s] = w
  BY <1>1, TypeFacts DEF Goto, SessRow
<1> HIDE DEF w
<1>4. ~crossed /\ ~broken => Stage(s)'
  <2> SUFFICES ASSUME ~crossed, ~broken PROVE Stage(s)'
    OBVIOUS
  <2>1. Stage(s) /\ sess[s].op # "suspend"
    BY <1>1, <1>2, ActorFacts
  <2>2. /\ mode = "webhook" /\ Running' = sess[s].token
        /\ Wanted(s)' = [token |-> sess[s].token, active |-> TRUE]
    BY <1>1, <1>3, <2>1 DEF Stage, Running, Wanted
  <2>3. InStep(Wanted(s))'
    BY <1>1, <2>2 DEF InStep
  <2>4. QED
    BY <1>1, <1>3, <2>1, <2>3 DEF Stage
<1>5. OneActs'
  BY <1>1, <1>2, <1>3, <1>4, ActsOn
<1>6. hook' \subseteq Tokens /\ (mode = "webhook" => polling' = NoToken)
  BY <1>1, <1>2, ActorFacts, TypeFacts DEF IInv
<1>7. QED
  BY <1>1, <1>2, <1>3, <1>5, <1>6, ActorFacts, TypeFacts, StepFrame

\* It cannot be set, or the answer cannot be sent.
LEMMA FailIInv ==
  ASSUME IInv, NEW s \in Sessions, SetWebhookFails(s) \/ Rollback(s)
  PROVE  IInv'
<1>1. /\ sess[s].pc \in {"hooking", "commit"} /\ broken' = TRUE
      /\ UNCHANGED <<mode, shop, bots, polling, hook, crossed>>
      /\ lock' \in {lock, NoSession}
  BY DEF SetWebhookFails, Rollback, At
<1>2. faults' \in 0..MaxFaults
  BY TypeFacts, MaxFaultsIsNat DEF SetWebhookFails, Rollback
<1>3. s \in Acting /\ OneActs'
  BY <1>1 DEF Acting, OneActs
<1>4. mode = "webhook" => polling' = NoToken
  BY <1>1 DEF IInv
<1>5. CASE sess' = [sess EXCEPT ![s] = Idle]
  BY <1>1, <1>2, <1>3, <1>4, <1>5, IdleType, TypeFacts, StepFrame
<1>6. CASE Goto(s, "commit")
  <2> DEFINE w == [sess[s] EXCEPT !.pc = "commit"]
  <2>1. /\ w \in SessRow /\ w.pc = "commit" /\ w.op = sess[s].op /\ w.token = sess[s].token
        /\ w.saw = sess[s].saw /\ sess' = [sess EXCEPT ![s] = w]
    BY <1>6, TypeFacts DEF Goto, SessRow
  <2> HIDE DEF w
  <2>2. QED
    BY <1>1, <1>2, <1>3, <1>4, <2>1, ActorFacts, TypeFacts, StepFrame
<1>7. QED
  BY <1>5, <1>6 DEF SetWebhookFails, Rollback

\* The row becomes what the manager runs already.
LEMMA CommitIInv ==
  ASSUME IInv, NEW s \in Sessions, Commit(s)
  PROVE  IInv'
<1>1. /\ sess[s].pc = "commit" /\ shop' = Written(s) /\ lock' \in {lock, NoSession}
      /\ sess' = [sess EXCEPT ![s] = Idle]
      /\ UNCHANGED <<mode, bots, polling, hook, faults, crossed, broken>>
  BY DEF Commit, At, History
<1>2. s \in Acting
  BY <1>1 DEF Acting
<1>3. /\ shop' \in ShopRow /\ shop'.token \in Tokens \cup {shop.token}
      /\ shop'.active => shop'.token \in Tokens
  <2>1. shop' \in ShopRow /\ shop'.token \in Tokens \cup {shop.token}
    BY <1>1, <1>2, ActorFacts, TypeFacts DEF Written, Wanted, ShopRow, Tokens0
  <2>2. shop'.token \in Tokens
    BY <1>1, <1>2, ActorFacts DEF Written
  <2>3. QED
    BY <2>1, <2>2
<1>4. ~crossed /\ ~broken => InStep(shop)'
  <2> SUFFICES ASSUME ~crossed, ~broken PROVE InStep(shop)'
    OBVIOUS
  <2>1. Stage(s)
    BY <1>2, ActorFacts
  <2>2. /\ shop'.token = Wanted(s).token
        /\ shop'.active = Wanted(s).active
    BY <1>1, <1>2, <2>1, ActorFacts, TypeFacts DEF Stage, Written, Wanted, ShopRow
  <2>3. InStep(Wanted(s))
    BY <1>1, <2>1 DEF Stage
  <2>4. QED
    BY <1>1, <2>2, <2>3 DEF InStep, Running
<1>5. OneActs'
  BY <1>1, <1>2, <1>4, ActsNoMore
<1>6. mode = "webhook" => polling' = NoToken
  BY <1>1 DEF IInv
<1>7. QED
  BY <1>1, <1>3, <1>5, <1>6, IdleType, TypeFacts, StepFrame

\* A token that was revoked.
LEMMA RevokedIInv ==
  ASSUME IInv, Revoked
  PROVE  IInv'
<1>1. /\ polling # NoToken /\ polling' = NoToken
      /\ \/ shop' = [shop EXCEPT !.active = FALSE] /\ UNCHANGED broken
         \/ broken' = TRUE /\ UNCHANGED shop
      /\ crossed' = (crossed \/ Acting # {})
      /\ UNCHANGED <<mode, lock, bots, hook, sess>>
  BY DEF Revoked
<1>2. mode = "polling"
  BY <1>1, TypeFacts DEF IInv
<1>3. faults' \in 0..MaxFaults
  BY TypeFacts, MaxFaultsIsNat DEF Revoked
<1>4. /\ shop' \in ShopRow /\ shop'.token = shop.token /\ broken' \in BOOLEAN
      /\ (shop'.active = FALSE /\ broken' = broken) \/ (broken' = TRUE /\ shop' = shop)
  BY <1>1, TypeFacts DEF ShopRow
<1>5. TypeOK'
  BY <1>1, <1>3, <1>4, TypeFacts DEF TypeOK, ShopRow, Tokens0, SessRow
<1>6. Ways' /\ HasToken'
  BY <1>1, <1>4, TypeFacts DEF IInv, Ways, HasToken, ShopRow
<1>7. Acting' = Acting /\ (broken' = TRUE \/ InStep(shop)')
  BY <1>1, <1>2, <1>4 DEF Acting, InStep, Running
<1>8. OneActs'
  BY <1>1, <1>4, <1>7, TypeFacts DEF OneActs
<1>9. QED
  BY <1>1, <1>5, <1>6, <1>8 DEF IInv

\* load_all, after a restart.
LEMMA RestartIInv ==
  ASSUME IInv, Restart
  PROVE  IInv'
<1>1. /\ bots' = IF shop.active THEN shop.token ELSE NoToken
      /\ polling' = IF mode = "polling" THEN bots' ELSE NoToken
      /\ sess' = [s \in Sessions |-> Idle] /\ lock' = NoSession
      /\ crossed' = FALSE /\ UNCHANGED <<mode, shop>>
  BY DEF Restart
<1>2. PICK kept \in {hook, hook \ {bots}}, sets \in BOOLEAN :
        /\ hook' = IF sets /\ mode = "webhook" /\ shop.active
                   THEN kept \cup {shop.token} ELSE kept
        /\ broken' = ~sets
  BY DEF Restart
<1>3. sess' \in [Sessions -> SessRow] /\ \A s \in Sessions : sess'[s].pc = "idle"
  BY <1>1, IdleType
<1>4. Ways' /\ HasToken' /\ Acting' = {}
  BY <1>1, <1>3, IdleType, TypeFacts DEF Ways, HasToken, Acting
<1>5. broken' = FALSE => InStep(shop)'
  BY <1>1, <1>2, TypeFacts DEF InStep, Running
<1>6. OneActs'
  BY <1>2, <1>4, <1>5 DEF OneActs
<1>7. faults' \in 0..MaxFaults
  BY TypeFacts, MaxFaultsIsNat DEF Restart
<1>8. TypeOK'
  BY <1>1, <1>2, <1>3, <1>7, TypeFacts DEF TypeOK, ShopRow, Tokens0, SessRow
<1>9. QED
  BY <1>1, <1>4, <1>6, <1>8 DEF IInv

\* Every step preserves the invariant.
LEMMA NextIInv == IInv /\ [Next]_vars => IInv'
<1> SUFFICES ASSUME IInv, [Next]_vars PROVE IInv'
  OBVIOUS
<1>1. CASE UNCHANGED vars
  BY <1>1 DEF vars, IInv, TypeOK, Ways, HasToken, OneActs, Acting, Stage, InStep, Running, Wanted
<1>2. ASSUME NEW s \in Sessions, Step(s)
      PROVE  IInv'
  BY <1>2, FlushIInv, InsertTwiceIInv, ManagerIInv, DeleteWebhookIInv, InstallIInv,
     SetWebhookIInv, FailIInv, CommitIInv DEF Step
<1>3. QED
  BY <1>1, <1>2, BeginIInv, RevokedIInv, RestartIInv DEF Next

-----------------------------------------------------------------------------
\* Theorems.

\* The invariant holds in every reachable state.
THEOREM SpecIInv == Spec => []IInv
BY InitIInv, NextIInv, PTL DEF Spec

\* When no handler is at work, the manager and Telegram run exactly the bot of an
\* active row, in both run modes, unless handlers crossed or one failed half way
\* since the last start.
THEOREM SpecInStepWhenQuiet == Spec => []InStepWhenQuiet
<1>1. IInv => InStepWhenQuiet
  BY DEF IInv, OneActs, Acting, Quiet, InStep, InStepWhenQuiet
<1>2. QED
  BY <1>1, SpecIInv, PTL
=============================================================================
