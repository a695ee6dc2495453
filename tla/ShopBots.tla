------------------------------ MODULE ShopBots ------------------------------
(***************************************************************************)
(* One shop's bot: its row in the database, the ShopBotManager's memory    *)
(* and Telegram's side (webhooks, or a polling task), changed by admins    *)
(* who suspend and unsuspend it, by its owner who saves a token, and by    *)
(* restarts.                                                               *)
(*                                                                         *)
(* A handler reads the row, flushes its change, lets the manager act and   *)
(* commits at its end; each await lets other handlers run. SQLAlchemy      *)
(* writes only columns whose value differs from the one loaded: a handler  *)
(* that finds the row as it wants it writes nothing and holds no lock.     *)
(***************************************************************************)
EXTENDS Naturals

CONSTANTS
  Tokens,    \* tokens, each of a bot of its own
  NoToken,   \* none of them
  Sessions,  \* handlers at work
  NoSession, \* none of them
  MaxFaults  \* how many calls fail and restarts happen

ASSUME NonesAreNone == NoToken \notin Tokens /\ NoSession \notin Sessions
ASSUME MaxFaultsIsNat == MaxFaults \in Nat

VARIABLES
  mode,     \* RUN_MODE; never changes
  shop,     \* the row: token (NoToken: no row), is_active
  lock,     \* the session that holds the row
  bots,     \* _bots[id]: the token of the bot registered
  polling,  \* _polling_tasks[id]: the token it polls
  hook,     \* Telegram: the tokens whose webhook is set
  sess,     \* session -> what it is doing
  faults,   \* faults so far
  crossed,  \* history: a handler acted on a row that was not as it had read it,
            \* or beside another one that held no lock
  broken    \* history: a handler or _mark_disabled failed, or a webhook was not set

vars == <<mode, shop, lock, bots, polling, hook, sess, faults, crossed, broken>>

-----------------------------------------------------------------------------
Ops == {"suspend", "unsuspend", "token"}

Idle == [pc |-> "idle", op |-> "suspend", token |-> NoToken,
         saw |-> [token |-> NoToken, active |-> FALSE], old |-> NoToken]

Init ==
  /\ mode \in {"webhook", "polling"}
  /\ shop = [token |-> NoToken, active |-> FALSE]
  /\ lock = NoSession
  /\ bots = NoToken /\ polling = NoToken /\ hook = {}
  /\ sess = [s \in Sessions |-> Idle]
  /\ faults = 0 /\ crossed = FALSE /\ broken = FALSE

Quiet == \A s \in Sessions : sess[s].pc = "idle"
At(s, pc) == sess[s].pc = pc
Goto(s, pc) == sess' = [sess EXCEPT ![s].pc = pc]
History == <<faults, crossed, broken>>

\* What the session wants the row to be.
Wanted(s) == [token  |-> sess[s].token,
              active |-> sess[s].op # "suspend"]

\* A token is encrypted anew each time and so always written.
Writes(s) == sess[s].op = "token" \/ Wanted(s).active # sess[s].saw.active

-----------------------------------------------------------------------------
\* Handlers: cb_owner_suspend, cb_owner_unsuspend, save_shop_bot_token.

\* The row is read. An admin needs a row; an owner brings a valid token, which
\* is no other shop's.
Begin(s, op, t) ==
  /\ At(s, "idle")
  /\ IF op = "token" THEN t \in Tokens ELSE shop.token # NoToken /\ t = shop.token
  /\ sess' = [sess EXCEPT ![s] = [Idle EXCEPT !.pc = "read", !.op = op,
                !.token = t, !.saw = shop]]
  /\ UNCHANGED <<mode, shop, lock, bots, polling, hook, History>>

\* Handlers between their flush and their end.
Acting == {s \in Sessions : sess[s].pc \notin {"idle", "read"}}

\* The change and the audit entry are flushed.
Flush(s) ==
  /\ At(s, "read")
  /\ Writes(s) => lock = NoSession
  /\ sess[s].saw.token = NoToken => shop.token = NoToken
  /\ lock' = IF Writes(s) THEN s ELSE lock
  /\ Goto(s, IF sess[s].op = "suspend" THEN "unregister" ELSE "register")
  /\ crossed' = (crossed \/ sess[s].saw # shop \/ Acting # {})
  /\ UNCHANGED <<mode, shop, bots, polling, hook, faults, broken>>

\* Two first tokens: the second INSERT violates the owner's uniqueness.
InsertTwice(s) ==
  /\ At(s, "read") /\ lock = NoSession
  /\ sess[s].saw.token = NoToken /\ shop.token # NoToken
  /\ sess' = [sess EXCEPT ![s] = Idle]
  /\ UNCHANGED <<mode, shop, lock, bots, polling, hook, History>>

\* unregister: the bot leaves the memory and its polling is cancelled, then
\* Telegram is asked to delete its webhook.
Pop(s, next) ==
  /\ bots' = NoToken /\ polling' = NoToken
  /\ sess' = [sess EXCEPT ![s].pc = next, ![s].old = bots]
  /\ UNCHANGED <<mode, shop, lock, hook, History>>

Unregister(s) == At(s, "unregister") /\ Pop(s, "deleting")

\* register: an older bot of this shop is unregistered first.
Register(s) ==
  /\ At(s, "register")
  /\ IF bots # NoToken
     THEN Pop(s, "replacing")
     ELSE /\ Goto(s, "install")
          /\ UNCHANGED <<mode, shop, lock, bots, polling, hook, History>>

\* The webhook is deleted; an error is ignored.
DeleteWebhook(s) ==
  /\ At(s, "deleting") \/ At(s, "replacing")
  /\ \/ hook' = hook \ {sess[s].old} /\ UNCHANGED faults
     \/ faults < MaxFaults /\ faults' = faults + 1 /\ UNCHANGED hook
  /\ Goto(s, IF At(s, "deleting") THEN "commit" ELSE "install")
  /\ UNCHANGED <<mode, shop, lock, bots, polling, crossed, broken>>

\* The new bot is put into the memory; a polling task is created at once.
Install(s) ==
  /\ At(s, "install")
  /\ bots' = sess[s].token
  /\ polling' = IF mode = "polling" THEN sess[s].token ELSE polling
  /\ Goto(s, IF mode = "webhook" THEN "hooking" ELSE "commit")
  /\ UNCHANGED <<mode, shop, lock, hook, History>>

\* Mutant: the older bot's webhook is deleted after the new one's is set.
SetWebhookFirst(s) ==
  /\ At(s, "hooking")
  /\ hook' = (hook \cup {sess[s].token}) \ {sess[s].old}
  /\ Goto(s, "commit")
  /\ UNCHANGED <<mode, shop, lock, bots, polling, History>>

SetWebhook(s) ==
  /\ At(s, "hooking")
  /\ hook' = hook \cup {sess[s].token}
  /\ Goto(s, "commit")
  /\ UNCHANGED <<mode, shop, lock, bots, polling, History>>

\* Setting it fails: the owner's handler logs it and goes on, the admin's raises.
SetWebhookFails(s) ==
  /\ At(s, "hooking") /\ faults < MaxFaults
  /\ faults' = faults + 1 /\ broken' = TRUE
  /\ IF sess[s].op = "token"
     THEN Goto(s, "commit") /\ UNCHANGED lock
     ELSE /\ sess' = [sess EXCEPT ![s] = Idle]
          /\ lock' = IF lock = s THEN NoSession ELSE lock
  /\ UNCHANGED <<mode, shop, bots, polling, hook, crossed>>

\* What the session has flushed: a column it loaded as it wants it stays as others
\* may have made it.
Written(s) ==
  [token  |-> IF sess[s].op = "token" THEN sess[s].token ELSE shop.token,
   active |-> IF Wanted(s).active # sess[s].saw.active THEN Wanted(s).active ELSE shop.active]

\* The answers are sent and the middleware commits.
Commit(s) ==
  /\ At(s, "commit")
  /\ shop' = Written(s)
  /\ lock' = IF lock = s THEN NoSession ELSE lock
  /\ sess' = [sess EXCEPT ![s] = Idle]
  /\ UNCHANGED <<mode, bots, polling, hook, History>>

\* An answer cannot be sent: the session is rolled back, the manager is not.
Rollback(s) ==
  /\ At(s, "commit") /\ faults < MaxFaults
  /\ faults' = faults + 1 /\ broken' = TRUE
  /\ lock' = IF lock = s THEN NoSession ELSE lock
  /\ sess' = [sess EXCEPT ![s] = Idle]
  /\ UNCHANGED <<mode, shop, bots, polling, hook, crossed>>

-----------------------------------------------------------------------------
\* _poll finds the token revoked: the row is disabled, unless _mark_disabled
\* fails, and the task ends; the bot stays in _bots.
Revoked ==
  /\ polling # NoToken
  /\ faults < MaxFaults /\ faults' = faults + 1
  /\ polling' = NoToken
  /\ \/ lock = NoSession /\ shop' = [shop EXCEPT !.active = FALSE] /\ UNCHANGED broken
     \/ broken' = TRUE /\ UNCHANGED shop
  /\ crossed' = (crossed \/ Acting # {})
  /\ UNCHANGED <<mode, lock, bots, hook, sess>>

\* on_startup, load_all: the active bots are registered; a failure is logged. (A
\* crash leaves the webhooks as they are, on_shutdown deletes them.)
Restart ==
  /\ faults < MaxFaults /\ faults' = faults + 1
  /\ sess' = [s \in Sessions |-> Idle]
  /\ lock' = NoSession
  /\ bots' = IF shop.active THEN shop.token ELSE NoToken
  /\ polling' = IF mode = "polling" THEN bots' ELSE NoToken
  /\ \E kept \in {hook, hook \ {bots}}, sets \in BOOLEAN :
       /\ hook' = IF sets /\ mode = "webhook" /\ shop.active THEN kept \cup {shop.token} ELSE kept
       /\ broken' = ~sets
  /\ crossed' = FALSE
  /\ UNCHANGED <<mode, shop>>

Step(s) ==
  \/ Flush(s) \/ InsertTwice(s) \/ Unregister(s) \/ Register(s)
  \/ DeleteWebhook(s) \/ Install(s) \/ SetWebhook(s) \/ SetWebhookFails(s)
  \/ Commit(s) \/ Rollback(s)

Next ==
  \/ \E s \in Sessions : Step(s) \/ \E op \in Ops, t \in Tokens : Begin(s, op, t)
  \/ Revoked \/ Restart

Spec == Init /\ [][Next]_vars

-----------------------------------------------------------------------------
TypeOK ==
  /\ mode \in {"webhook", "polling"}
  /\ shop \in [token : Tokens \cup {NoToken}, active : BOOLEAN]
  /\ lock \in Sessions \cup {NoSession}
  /\ bots \in Tokens \cup {NoToken} /\ polling \in Tokens \cup {NoToken}
  /\ hook \subseteq Tokens
  /\ sess \in [Sessions -> [pc : {"idle", "read", "register", "unregister", "deleting",
                                  "replacing", "install", "hooking", "commit"},
                            op : Ops, token : Tokens \cup {NoToken},
                            saw : [token : Tokens \cup {NoToken}, active : BOOLEAN],
                            old : Tokens \cup {NoToken}]]
  /\ faults \in 0..MaxFaults /\ crossed \in BOOLEAN /\ broken \in BOOLEAN

\* The bot that takes customers' messages.
Running == IF mode = "webhook" THEN bots ELSE polling

\* When no handler is at work, exactly the bot of an active row is running and,
\* in webhook mode, Telegram sends it its updates: suspended shops are off, the
\* others on. Handlers that overlap are serialised by the row they write; not so
\* when one has read the row before the other changed it, or finds nothing to
\* write, or fails half way: those are excepted, and a restart repairs them
\* (cb_owner_suspend, cb_owner_unsuspend, register, unregister, load_all).
InStepWhenQuiet ==
  Quiet /\ ~crossed /\ ~broken =>
    /\ Running = IF shop.active THEN shop.token ELSE NoToken
    /\ mode = "webhook" /\ shop.active => shop.token \in hook
=============================================================================
