------------------------------- MODULE Inbox -------------------------------
(***************************************************************************)
(* What a shop bot promises a customer who writes to it, seen from         *)
(* outside. A message the bot has taken is held until it is concluded,     *)
(* together with the messages that came close to it: answered, turned away *)
(* with a notice, or ignored (the shop is suspended). A message is         *)
(* concluded once and is never lost, unless a fault (a restart, an         *)
(* exception in its handling) has hurt it. And no message is held for      *)
(* ever.                                                                   *)
(***************************************************************************)
CONSTANT Messages

VARIABLES
  inbox,  \* message -> where it stands
  hurt    \* messages a fault has met

vars == <<inbox, hurt>>

Conclusions == {"answered", "turned", "ignored"}
Stages == {"new", "held", "lost"} \cup Conclusions

Init ==
  /\ inbox = [m \in Messages |-> "new"]
  /\ hurt = {}

\* The messages of S change to stage s together.
Move(S, s) == inbox' = [m \in Messages |-> IF m \in S THEN s ELSE inbox[m]]

In(s) == {m \in Messages : inbox[m] = s}

\* A message is taken, or turned away at the door. (Taking it, the bot may
\* forget that it has taken another: that one is hurt.)
Take(m) ==
  /\ m \in In("new")
  /\ Move({m}, "held") \/ Move({m}, "turned")
  /\ hurt \subseteq hurt'

\* Held messages that are concluded by one step are concluded alike.
Conclude ==
  /\ \E how \in Conclusions : \E S \in SUBSET In("held") : S # {} /\ Move(S, how)
  /\ UNCHANGED hurt

\* A fault meets messages: they go back to the sender, who may bring them again,
\* or are lost; one brought a second time keeps its first conclusion.
Fault ==
  /\ hurt \subseteq hurt'
  /\ \A m \in Messages :
       \/ inbox'[m] = inbox[m]
       \/ /\ m \in hurt' /\ inbox[m] \in {"new", "held"}
          /\ inbox'[m] \in {"new", "lost"}
       \/ m \in hurt /\ inbox[m] = "held" /\ inbox'[m] \in Conclusions

\* Later: a hurt message is given up by its sender, or brought a second time.
Aftermath(m) ==
  /\ m \in hurt
  /\ \/ m \in In("new") /\ Move({m}, "lost")
     \/ /\ inbox[m] \in Conclusions
        /\ Move({m}, "held") \/ Move({m}, "turned")
  /\ hurt \subseteq hurt'

Next == (\E m \in Messages : Take(m) \/ Aftermath(m)) \/ Conclude \/ Fault

\* What no step may do.
Safe == Init /\ [][Next]_vars

\* No message is held for ever.
NotHeldForEver == \A m \in Messages : inbox[m] = "held" ~> inbox[m] # "held"

Spec == Safe /\ NotHeldForEver
=============================================================================
