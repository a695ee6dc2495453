--------------------------- MODULE ShopChatProofs ---------------------------
(***************************************************************************)
(* What the bot keeps while it talks with a customer, for any messages, any *)
(* size of the memory of updates and any number of faults: the history an  *)
(* answer is based on misses no text, what was answered is saved, once,    *)
(* and every step is a step of Inbox.                                      *)
(*                                                                         *)
(* The argument has two halves. The customer's row: whoever is between     *)
(* reading the history and saving the turn holds it, so nobody else saves  *)
(* a text meanwhile. And the place of a message: as long as no fault has met *)
(* it, it is at one place only, of its handler, the buffer, one burst and  *)
(* one turn, and it enters the first of them once, for the update is       *)
(* remembered, or acknowledged, or was never sent.                         *)
(*                                                                         *)
(* The last part is about Throttle: how long a text waits for its answer   *)
(* to begin.                                                               *)
(***************************************************************************)
EXTENDS ShopChat, Throttle, TLAPS, SequenceTheorems, FiniteSetTheorems,
        WellFoundedInduction

-----------------------------------------------------------------------------
\* The inductive invariant.

\* Who works on the customer's history holds the customer's row.
RowIsHeld ==
  /\ \A b \in Messages : burst[b].pc \in {"ai", "sent"} => row.holder = BurstOf(b)
  /\ \A m \in Messages : handler[m] = "ai" => row.holder = HandlerOf(m)

\* A task that has done with its texts has none.
NothingIsEmpty ==
  \A b \in Messages : burst[b].pc \in {"none", "detect"} => Texts(b) = {}

\* An update that Telegram has not sent was not received.
NotSentNotSeen ==
  \A m \in Messages : tg[m] = "unsent" => m \notin Range(seen) /\ handler[m] = "none"

Written(m) == \E i \in DOMAIN turns : m \in Range(turns[i])

\* A message that went no further than its handler.
Untouched(m) ==
  /\ told[m] = "none" /\ m \notin Range(buf)
  /\ \A b \in Messages : m \notin Texts(b)
  /\ ~Written(m)

\* What comes to the door for the first time, is new.
FirstTime(m) ==
  tg[m] # "acked" /\ m \notin Range(seen) => Untouched(m) /\ handler[m] = "none"

HandledOnce(m) == handler[m] # "none" => Untouched(m)

BufferedOnce(m) ==
  m \in Range(buf) =>
    told[m] = "none" /\ ~Written(m) /\ \A b \in Messages : m \notin Texts(b)

InOneBurst(m) ==
  \A b \in Messages : m \in Texts(b) =>
    /\ ~Written(m)
    /\ \A c \in Messages : m \in Texts(c) => c = b
    /\ told[m] = IF burst[b].pc = "sent" THEN "answered" ELSE "none"

WrittenOnce(m) ==
  \A i, j \in DOMAIN turns : m \in Range(turns[i]) /\ m \in Range(turns[j]) => i = j

\* An answer to a text is saved, or will be with the commit of its session.
AnswerIsKept(m) ==
  told[m] = "answered" /\ kind[m] \in {"text", "voice"} =>
    Written(m) \/ \E b \in Messages : burst[b].pc = "sent" /\ m \in Texts(b)

\* What was received is worked on or concluded.
SeenIsServed(m) ==
  m \in Range(seen) /\ handler[m] = "none" => Held(m) \/ told[m] # "none"

Place(m) ==
  /\ FirstTime(m) /\ HandledOnce(m) /\ BufferedOnce(m) /\ InOneBurst(m)
  /\ WrittenOnce(m) /\ AnswerIsKept(m) /\ SeenIsServed(m)

Places == \A m \in Messages : m \notin hurt => Place(m)

IInv ==
  TypeOK /\ RowIsHeld /\ HistoryMissesNoText /\ NothingIsEmpty /\ NotSentNotSeen /\ Places

-----------------------------------------------------------------------------
\* Sequences: the members of the buffer, of the turns and of the memory.

\* The empty buffer holds nothing.
LEMMA RangeEmpty == Range(<<>>) = {} /\ <<>> \in Seq(Messages)
BY EmptySeq DEF Range

\* Appending adds one member.
LEMMA RangeAppend ==
  ASSUME NEW S, NEW s \in Seq(S), NEW e \in S
  PROVE  /\ Append(s, e) \in Seq(S) /\ Len(Append(s, e)) = Len(s) + 1
         /\ Range(Append(s, e)) = Range(s) \cup {e}
         /\ DOMAIN Append(s, e) = DOMAIN s \cup {Len(s) + 1}
         /\ \A i \in DOMAIN s : Append(s, e)[i] = s[i]
         /\ Append(s, e)[Len(s) + 1] = e /\ Len(s) + 1 \notin DOMAIN s
<1>1. /\ Append(s, e) \in Seq(S) /\ Len(Append(s, e)) = Len(s) + 1
      /\ \A i \in 1..Len(s) : Append(s, e)[i] = s[i]
      /\ Append(s, e)[Len(s) + 1] = e
  BY AppendProperties
<1>2. Len(s) \in Nat /\ DOMAIN s = 1..Len(s) /\ DOMAIN Append(s, e) = 1..(Len(s) + 1)
  BY <1>1, LenProperties
<1>3. DOMAIN Append(s, e) = DOMAIN s \cup {Len(s) + 1} /\ Len(s) + 1 \notin DOMAIN s
  BY <1>2
<1>4. Range(Append(s, e)) = Range(s) \cup {e}
  BY <1>1, <1>2, <1>3 DEF Range
<1> QED BY <1>1, <1>2, <1>3, <1>4

\* The memory of updates keeps its size, takes the new one in, and otherwise
\* only forgets.
LEMMA RememberFacts ==
  ASSUME TypeOK, NEW m \in Messages
  PROVE  /\ Remember(m) \in Seq(Messages) /\ Len(Remember(m)) <= MaxSeen
         /\ m \in Range(Remember(m))
         /\ Range(Remember(m)) \subseteq Range(seen) \cup {m}
<1> DEFINE s == Append(seen, m)
<1>1. /\ seen \in Seq(Messages) /\ Len(seen) \in Nat /\ Len(seen) <= MaxSeen
      /\ MaxSeen \in Nat \ {0}
  BY BoundsAreNat, LenProperties DEF TypeOK
<1>2. /\ s \in Seq(Messages) /\ Len(s) = Len(seen) + 1
      /\ Range(s) = Range(seen) \cup {m} /\ s[Len(s)] = m
  BY <1>1, RangeAppend
<1> HIDE DEF s
<1>3. CASE Len(s) > MaxSeen
  <2>1. Remember(m) = Tail(s) BY <1>3 DEF Remember, s
  <2>2. s # <<>> /\ Len(s) > 1 BY <1>1, <1>2, <1>3, EmptySeq
  <2>3. /\ Tail(s) \in Seq(Messages) /\ Len(Tail(s)) = Len(s) - 1
        /\ \A i \in 1..Len(Tail(s)) : Tail(s)[i] = s[i + 1]
    BY <1>2, <2>2, HeadTailProperties
  <2>4. DOMAIN Tail(s) = 1..(Len(s) - 1) /\ DOMAIN s = 1..Len(s) /\ Len(s) \in Nat
    BY <1>2, <2>3, LenProperties
  <2>5. Tail(s)[Len(s) - 1] = m /\ Len(s) - 1 \in DOMAIN Tail(s)
    BY <1>2, <2>2, <2>3, <2>4
  <2>6. Range(Tail(s)) \subseteq Range(s)
    BY <2>3, <2>4 DEF Range
  <2>7. m \in Range(Tail(s))
    BY <2>5 DEF Range
  <2> QED BY <1>1, <1>2, <2>1, <2>3, <2>6, <2>7
<1>4. CASE ~(Len(s) > MaxSeen)
  BY <1>1, <1>2, <1>4 DEF Remember, s
<1> QED BY <1>3, <1>4

-----------------------------------------------------------------------------
\* Types.

BurstRow ==
  [pc : {"none", "lock", "ai", "sent", "detect"}, texts : Seq(Messages), history : Nat]

\* A task that is free, or at its detection, has a row like any other.
LEMMA EndedType == NoBurst \in BurstRow /\ Ended("detect") \in BurstRow
BY RangeEmpty DEF NoBurst, Ended, BurstRow

\* Every step keeps the types.
LEMMA TypesStep == TypeOK /\ [Next]_vars => TypeOK'
<1> SUFFICES ASSUME TypeOK, [Next]_vars PROVE TypeOK'
  OBVIOUS
<1> USE DEF TypeOK
<1>f. /\ faults \in Nat /\ MaxFaults \in Nat
      /\ faults < MaxFaults => faults + 1 \in 0..MaxFaults
      /\ Len(turns) \in Nat
  BY BoundsAreNat, LenProperties
<1>a. ASSUME NEW m \in Messages, Answer200(m)
      PROVE  /\ tg' \in [Messages -> {"unsent", "queued", "acked"}]
             /\ faults' \in 0..MaxFaults
  BY <1>a, <1>f DEF Answer200
<1>t. ASSUME NEW S, NEW what \in {"answered", "turned", "ignored"}, Tell(S, what)
      PROVE  told' \in [Messages -> {"none", "answered", "turned", "ignored"}]
  BY <1>t DEF Tell
<1>s. ASSUME NEW m \in Messages, Schedule(m)
      PROVE  /\ buf' \in Seq(Messages) /\ asleep' \subseteq Messages
             /\ current' \in Messages \cup {NoMessage}
  BY <1>s, RangeAppend DEF Schedule
<1>h. ASSUME NEW m \in Messages, NEW pc \in {"none", "found", "missing", "ai"}
      PROVE  [handler EXCEPT ![m] = pc] \in [Messages -> {"none", "found", "missing", "ai"}]
  OBVIOUS
<1>b. ASSUME NEW b \in Messages, NEW r \in BurstRow
      PROVE  [burst EXCEPT ![b] = r] \in [Messages -> BurstRow]
  BY DEF BurstRow
<1>1. CASE UNCHANGED vars
  BY <1>1 DEF vars
<1>2. ASSUME NEW m \in Messages, Repeated(m) PROVE TypeOK'
  BY <1>2, <1>a DEF Repeated, Debouncing, Unhurt
<1>3. ASSUME NEW m \in Messages, Admit(m) PROVE TypeOK'
  BY <1>3, RememberFacts DEF Admit, Delivered, Debouncing, Exposed
<1>4. ASSUME NEW m \in Messages, TurnAway(m) PROVE TypeOK'
  BY <1>4, <1>a, <1>t, RememberFacts DEF TurnAway, Delivered, Debouncing, Exposed
<1>5. ASSUME NEW m \in Messages, InsertTwice(m) PROVE TypeOK'
  BY <1>5 DEF InsertTwice, Debouncing
<1>6. ASSUME NEW m \in Messages, Enter(m) PROVE TypeOK'
  <2>1. row' \in [saved : BOOLEAN,
              holder : {NoOne} \cup {HandlerOf(x) : x \in Messages}
                               \cup {BurstOf(x) : x \in Messages}]
    BY <1>6 DEF Enter
  <2>2. /\ tg' \in [Messages -> {"unsent", "queued", "acked"}] /\ faults' \in 0..MaxFaults
        /\ handler' \in [Messages -> {"none", "found", "missing", "ai"}]
    BY <1>6, <1>a, <1>h DEF Enter, Return
  <2>3. CASE kind[m] = "text"
    BY <1>6, <2>1, <2>2, <2>3, <1>s DEF Enter, Unhurt
  <2>4. CASE kind[m] # "text"
    BY <1>6, <2>1, <2>2, <2>4, <1>t DEF Enter, Unhurt, Debouncing
  <2> QED BY <2>3, <2>4
<1>7. ASSUME NEW m \in Messages, EnterMedia(m) PROVE TypeOK'
  BY <1>7 DEF EnterMedia, Debouncing, Faultless, Unhurt
<1>8. ASSUME NEW m \in Messages, CommitMedia(m)
      PROVE  /\ row' \in [saved : BOOLEAN,
                  holder : {NoOne} \cup {HandlerOf(x) : x \in Messages}
                                   \cup {BurstOf(x) : x \in Messages}]
             /\ tg' \in [Messages -> {"unsent", "queued", "acked"}]
             /\ faults' \in 0..MaxFaults
             /\ handler' \in [Messages -> {"none", "found", "missing", "ai"}]
             /\ UNCHANGED <<seen, burst, turns, kind, hurt>>
  BY <1>8, <1>a, <1>h DEF CommitMedia, Return, Unhurt
<1>9. ASSUME NEW m \in Messages, FinishPhoto(m) \/ NotTranscribed(m) PROVE TypeOK'
  BY <1>9, <1>8, <1>t DEF FinishPhoto, NotTranscribed, Debouncing
<1>10. ASSUME NEW m \in Messages, Transcribed(m) PROVE TypeOK'
  BY <1>10, <1>8, <1>s DEF Transcribed
<1>11. ASSUME NEW b \in Messages, Fire(b) PROVE TypeOK'
  <2>1. buf' \in Seq(Messages) /\ asleep' \subseteq Messages /\ current' = NoMessage
    BY <1>11, RangeEmpty DEF Fire
  <2>a. burst \in [Messages -> BurstRow]
    BY DEF BurstRow
  <2>b. [burst[b] EXCEPT !.pc = "lock", !.texts = buf] \in BurstRow
    BY <2>a, ZenonT(40) DEF BurstRow
  <2>2. burst' \in [Messages -> BurstRow]
    BY <1>11, <1>b, <2>a, <2>b, ZenonT(40) DEF Fire
  <2>3. told' \in [Messages -> {"none", "answered", "turned", "ignored"}]
    BY <1>11, <1>t DEF Fire
  <2> QED BY <1>11, <2>1, <2>2, <2>3 DEF Fire, Faultless, Unhurt, BurstRow
<1>12. ASSUME NEW b \in Messages, Prepare(b) PROVE TypeOK'
  <2>1. burst' \in [Messages -> BurstRow]
    BY <1>12, <1>f, ZenonT(40) DEF Prepare, BurstRow
  <2> QED BY <1>12, <2>1 DEF Prepare, BurstRow, BurstOnly, Debouncing, Faultless, Unhurt
<1>13. ASSUME NEW b \in Messages, Unserved(b) \/ GivenUp(b) PROVE TypeOK'
  <2>a. TurnBurst(b)
    BY <1>13 DEF Unserved, GivenUp
  <2>1. burst' \in [Messages -> BurstRow]
    BY <2>a, <1>b, EndedType DEF TurnBurst
  <2>2. told' \in [Messages -> {"none", "answered", "turned", "ignored"}]
    BY <2>a, <1>t DEF TurnBurst
  <2> QED BY <2>a, <2>1, <2>2 DEF TurnBurst, BurstRow, BurstOnly, Debouncing, Faultless, Unhurt
<1>14. ASSUME NEW b \in Messages, Reply(b) PROVE TypeOK'
  <2>1. burst' \in [Messages -> BurstRow]
    BY <1>14, ZenonT(40) DEF Reply, BurstRow
  <2>2. told' \in [Messages -> {"none", "answered", "turned", "ignored"}]
    BY <1>14, <1>t DEF Reply
  <2> QED BY <1>14, <2>1, <2>2 DEF Reply, BurstRow, BurstOnly, Debouncing, Faultless, Unhurt
<1>15. ASSUME NEW b \in Messages, Settle(b) PROVE TypeOK'
  <2>1. burst' \in [Messages -> BurstRow]
    BY <1>15, <1>b, EndedType DEF Settle
  <2>2. turns' \in Seq(Seq(Messages))
    BY <1>15, RangeAppend DEF Settle
  <2> QED BY <1>15, <2>1, <2>2 DEF Settle, BurstRow, BurstOnly, Debouncing, Faultless, Unhurt
<1>19. ASSUME NEW b \in Messages, NothingToAsk(b) \/ AskBack(b) PROVE TypeOK'
  <2>1. burst' \in [Messages -> BurstRow]
    BY <1>19, <1>b, EndedType DEF NothingToAsk, AskBack
  <2>2. turns' \in Seq(Seq(Messages))
    <3>1. turns \in Seq(Seq(Messages)) /\ <<>> \in Seq(Messages)
      BY RangeEmpty
    <3>2. Append(turns, <<>>) \in Seq(Seq(Messages))
      BY <3>1, RangeAppend
    <3> QED BY <1>19, <3>1, <3>2 DEF NothingToAsk, AskBack
  <2> QED BY <1>19, <2>1, <2>2
          DEF NothingToAsk, AskBack, BurstRow, BurstOnly, Debouncing, Faultless, Unhurt
<1>d. ASSUME NEW S \in SUBSET Messages, DropPending(S)
      PROVE  tg' \in [Messages -> {"unsent", "queued", "acked"}] /\ hurt' \subseteq Messages
  BY <1>d DEF DropPending
<1>20. CASE Reregistered
  BY <1>20, <1>d, <1>f DEF Reregistered, Debouncing
<1>16. ASSUME NEW m \in Messages, HandlerRaises(m) PROVE TypeOK'
  BY <1>16, <1>f DEF HandlerRaises, Debouncing
<1>17. ASSUME NEW b \in Messages, TaskRaises(b) PROVE TypeOK'
  <2>1. burst' \in [Messages -> BurstRow]
    BY <1>17, <1>b, EndedType DEF TaskRaises
  <2>2. hurt' \subseteq Messages
    BY <1>17, RangeOfSeq DEF TaskRaises, Texts
  <2> QED BY <1>17, <1>f, <2>1, <2>2 DEF TaskRaises, BurstRow, Debouncing
<1>18. CASE Restart
  <2>1. burst' \in [Messages -> BurstRow] /\ buf' \in Seq(Messages) /\ seen' \in Seq(Messages)
    BY <1>18, EndedType, RangeEmpty DEF Restart
  <2>2. tg' \in [Messages -> {"unsent", "queued", "acked"}] /\ hurt' \subseteq Messages
    BY <1>18, <1>d DEF Restart, Exposed
  <2>3. Len(seen') <= MaxSeen
    BY <1>18, BoundsAreNat DEF Restart
  <2>4. handler' \in [Messages -> {"none", "found", "missing", "ai"}] /\ row' \in [saved : BOOLEAN,
                  holder : {NoOne} \cup {HandlerOf(x) : x \in Messages}
                                   \cup {BurstOf(x) : x \in Messages}]
    BY <1>18 DEF Restart
  <2>5. faults' \in 0..MaxFaults
    BY <1>18, <1>f DEF Restart
  <2> QED BY <1>18, <2>1, <2>2, <2>3, <2>4, <2>5 DEF Restart, BurstRow
<1> QED
  BY <1>1, <1>2, <1>3, <1>4, <1>5, <1>6, <1>7, <1>9, <1>10, <1>11, <1>12, <1>13, <1>14,
     <1>15, <1>16, <1>17, <1>18, <1>19, <1>20 DEF Next, Handle, Process

-----------------------------------------------------------------------------
\* The customer's row and the history.

\* The holders of the row are told apart.
LEMMA HoldersDiffer ==
  /\ \A a, b \in Messages : BurstOf(a) = BurstOf(b) => a = b
  /\ \A a, b \in Messages : HandlerOf(a) = HandlerOf(b) => a = b
  /\ \A a, b \in Messages : BurstOf(a) # HandlerOf(b)
  /\ \A a \in Messages : BurstOf(a) # NoOne /\ HandlerOf(a) # NoOne
BY DEF BurstOf, HandlerOf, NoOne

\* What the steps of a burst make of the tasks' rows, field by field.
LEMMA BurstEnds ==
  ASSUME TypeOK, NEW b \in Messages,
         burst' \in {[burst EXCEPT ![b] = NoBurst], [burst EXCEPT ![b] = Ended("detect")]}
  PROVE  /\ burst'[b].pc \in {"none", "detect"} /\ Texts(b)' = {}
         /\ \A c \in Messages : c # b =>
              /\ burst'[c].pc = burst[c].pc /\ burst'[c].history = burst[c].history
              /\ Texts(c)' = Texts(c)
BY RangeEmpty DEF TypeOK, Texts, NoBurst, Ended

\* The answer is sent.
LEMMA BurstSent ==
  ASSUME TypeOK, NEW b \in Messages, burst' = [burst EXCEPT ![b].pc = "sent"]
  PROVE  \A c \in Messages :
           /\ burst'[c].pc = IF c = b THEN "sent" ELSE burst[c].pc
           /\ burst'[c].history = burst[c].history
           /\ Texts(c)' = Texts(c)
BY DEF TypeOK, Texts

\* The AI service is asked.
LEMMA BurstAsks ==
  ASSUME TypeOK, NEW b \in Messages,
         burst' = [burst EXCEPT ![b].pc = "ai", ![b].history = Len(turns)]
  PROVE  \A c \in Messages :
           /\ burst'[c].pc = IF c = b THEN "ai" ELSE burst[c].pc
           /\ burst'[c].history = IF c = b THEN Len(turns) ELSE burst[c].history
           /\ Texts(c)' = Texts(c)
BY DEF TypeOK, Texts

\* The buffer is taken.
LEMMA BurstTakes ==
  ASSUME TypeOK, NEW b \in Messages,
         burst' = [burst EXCEPT ![b].pc = "lock", ![b].texts = buf]
  PROVE  \A c \in Messages :
           /\ burst'[c].pc = IF c = b THEN "lock" ELSE burst[c].pc
           /\ burst'[c].history = burst[c].history
           /\ Texts(c)' = IF c = b THEN Range(buf) ELSE Texts(c)
BY DEF TypeOK, Texts

RowInv == RowIsHeld /\ HistoryMissesNoText /\ NothingIsEmpty

\* Every step keeps the row held, and with it the history current: a turn is
\* saved by the only burst that has read the history.
LEMMA RowStep == TypeOK /\ RowInv /\ [Next]_vars => RowInv'
<1> SUFFICES ASSUME TypeOK, RowInv, [Next]_vars PROVE RowInv'
  OBVIOUS
<1> USE HoldersDiffer DEF RowInv, RowIsHeld, HistoryMissesNoText, NothingIsEmpty
<1>0. row \in [saved : BOOLEAN, holder : {NoOne} \cup {HandlerOf(x) : x \in Messages}
                                                 \cup {BurstOf(x) : x \in Messages}]
      /\ handler \in [Messages -> {"none", "found", "missing", "ai"}]
  BY DEF TypeOK
<1>1. ASSUME UNCHANGED <<row, burst, turns>>,
             \A m \in Messages : handler'[m] = "ai" => handler[m] = "ai"
      PROVE RowInv'
  BY <1>1 DEF Texts
<1>2. CASE UNCHANGED vars
  BY <1>1, <1>2 DEF vars
<1>3. ASSUME NEW m \in Messages, Repeated(m) PROVE RowInv'
  BY <1>1, <1>3 DEF Repeated
<1>4. ASSUME NEW m \in Messages, Admit(m) PROVE RowInv'
  BY <1>0, <1>1, <1>4 DEF Admit
<1>5. ASSUME NEW m \in Messages, TurnAway(m) PROVE RowInv'
  BY <1>1, <1>5 DEF TurnAway
<1>6. ASSUME NEW m \in Messages, InsertTwice(m) PROVE RowInv'
  BY <1>0, <1>1, <1>6 DEF InsertTwice
<1>7. ASSUME NEW m \in Messages, Enter(m) PROVE RowInv'
  <2>1. row'.holder = row.holder /\ UNCHANGED <<burst, turns>>
        /\ handler' = [handler EXCEPT ![m] = "none"]
    BY <1>0, <1>7 DEF Enter, Return
  <2> QED BY <1>0, <2>1 DEF Texts
<1>8. ASSUME NEW m \in Messages, EnterMedia(m) PROVE RowInv'
  <2>1. /\ row'.holder = HandlerOf(m) /\ row.holder = NoOne /\ UNCHANGED <<burst, turns>>
        /\ handler' = [handler EXCEPT ![m] = "ai"]
    BY <1>0, <1>8 DEF EnterMedia, HasRow, RowFree
  <2> QED BY <1>0, <2>1 DEF Texts
<1>9. ASSUME NEW m \in Messages, CommitMedia(m) PROVE RowInv'
  <2>1. /\ row'.holder = NoOne /\ row.holder = HandlerOf(m) /\ UNCHANGED <<burst, turns>>
        /\ handler' = [handler EXCEPT ![m] = "none"]
    BY <1>0, <1>9 DEF CommitMedia, Return
  <2> QED BY <1>0, <2>1 DEF Texts
<1>10. ASSUME NEW b \in Messages, Fire(b) PROVE RowInv'
  <2>1. UNCHANGED <<row, handler, turns>> BY <1>10 DEF Fire
  <2>2. CASE burst' = burst BY <2>1, <2>2, <1>1
  <2>3. CASE burst' = [burst EXCEPT ![b].pc = "lock", ![b].texts = buf]
    <3>1. \A c \in Messages :
           /\ burst'[c].pc = IF c = b THEN "lock" ELSE burst[c].pc
           /\ burst'[c].history = burst[c].history
           /\ Texts(c)' = IF c = b THEN Range(buf) ELSE Texts(c)
      BY <2>3, BurstTakes
    <3> QED BY <2>1, <3>1
  <2> QED BY <1>10, <2>2, <2>3 DEF Fire
<1>11. ASSUME NEW b \in Messages, Prepare(b) PROVE RowInv'
  <2>1. /\ row'.holder = BurstOf(b) /\ row.holder = NoOne /\ UNCHANGED <<handler, turns>>
    BY <1>0, <1>11 DEF Prepare, RowFree, BurstOnly
  <2>2. \A c \in Messages :
           /\ burst'[c].pc = IF c = b THEN "ai" ELSE burst[c].pc
           /\ burst'[c].history = IF c = b THEN Len(turns) ELSE burst[c].history
           /\ Texts(c)' = Texts(c)
    BY <1>11, BurstAsks DEF Prepare
  <2>3. \A i \in DOMAIN turns : i <= Len(turns)
    BY LenProperties DEF TypeOK
  <2> QED BY <2>1, <2>2, <2>3
<1>12. ASSUME NEW b \in Messages, Unserved(b) \/ GivenUp(b) PROVE RowInv'
  <2>1. /\ row'.holder = NoOne /\ row.holder \in {NoOne, BurstOf(b)}
        /\ UNCHANGED <<handler, turns>>
    BY <1>12 DEF Unserved, GivenUp, TurnBurst, RowFree, BurstOnly
  <2>2. /\ burst'[b].pc \in {"none", "detect"} /\ Texts(b)' = {}
        /\ \A c \in Messages : c # b =>
             /\ burst'[c].pc = burst[c].pc /\ burst'[c].history = burst[c].history
             /\ Texts(c)' = Texts(c)
    BY <1>12, BurstEnds DEF Unserved, GivenUp, TurnBurst
  <2> QED BY <2>1, <2>2
<1>13. ASSUME NEW b \in Messages, Reply(b) PROVE RowInv'
  <2>1. UNCHANGED <<row, handler, turns>> /\ burst[b].pc = "ai"
    BY <1>13 DEF Reply, BurstOnly
  <2>2. \A c \in Messages :
           /\ burst'[c].pc = IF c = b THEN "sent" ELSE burst[c].pc
           /\ burst'[c].history = burst[c].history
           /\ Texts(c)' = Texts(c)
    BY <1>13, BurstSent DEF Reply
  <2> QED BY <2>1, <2>2
<1>14. ASSUME NEW b \in Messages, Settle(b) PROVE RowInv'
  <2>1. /\ row'.holder = NoOne /\ row.holder = BurstOf(b)
        /\ UNCHANGED handler
    BY <1>0, <1>14 DEF Settle, BurstOnly
  <2>2. /\ burst'[b].pc \in {"none", "detect"} /\ Texts(b)' = {}
        /\ \A c \in Messages : c # b =>
             /\ burst'[c].pc = burst[c].pc /\ burst'[c].history = burst[c].history
             /\ Texts(c)' = Texts(c)
    BY <1>14, BurstEnds DEF Settle
  <2> QED BY <2>1, <2>2
<1>18. ASSUME NEW b \in Messages, NothingToAsk(b) \/ AskBack(b) PROVE RowInv'
  <2>1. UNCHANGED <<row, handler>> /\ turns \in Seq(Seq(Messages))
    BY <1>18 DEF NothingToAsk, AskBack, BurstOnly, TypeOK
  <2>2. /\ burst'[b].pc \in {"none", "detect"} /\ Texts(b)' = {}
        /\ \A c \in Messages : c # b =>
             /\ burst'[c].pc = burst[c].pc /\ burst'[c].history = burst[c].history
             /\ Texts(c)' = Texts(c)
    BY <1>18, BurstEnds DEF NothingToAsk, AskBack
  <2>3. CASE turns' = turns
    BY <2>1, <2>2, <2>3
  <2>4. CASE turns' = Append(turns, <<>>)
    <3>1. /\ DOMAIN turns' = DOMAIN turns \cup {Len(turns) + 1}
          /\ \A i \in DOMAIN turns : turns'[i] = turns[i]
          /\ turns'[Len(turns) + 1] = <<>>
      BY <2>1, <2>4, RangeAppend, RangeEmpty
    <3>2. \A i \in DOMAIN turns' : turns'[i] # <<>> => i \in DOMAIN turns /\ turns[i] # <<>>
      BY <3>1
    <3> QED BY <2>1, <2>2, <3>2
  <2> QED BY <1>18, <2>3, <2>4 DEF NothingToAsk, AskBack
<1>19. CASE Reregistered
  BY <1>1, <1>19 DEF Reregistered
<1>15. ASSUME NEW m \in Messages, HandlerRaises(m) PROVE RowInv'
  <2>1. /\ handler' = [handler EXCEPT ![m] = "none"] /\ UNCHANGED <<burst, turns>>
        /\ row'.holder = IF row.holder = HandlerOf(m) THEN NoOne ELSE row.holder
    BY <1>0, <1>15 DEF HandlerRaises
  <2> QED BY <1>0, <2>1, SMTT(30) DEF Texts
<1>16. ASSUME NEW b \in Messages, TaskRaises(b) PROVE RowInv'
  <2>1. /\ UNCHANGED <<handler, turns>>
        /\ row'.holder = IF row.holder = BurstOf(b) THEN NoOne ELSE row.holder
    BY <1>0, <1>16 DEF TaskRaises
  <2>2. /\ burst'[b].pc \in {"none", "detect"} /\ Texts(b)' = {}
        /\ \A c \in Messages : c # b =>
             /\ burst'[c].pc = burst[c].pc /\ burst'[c].history = burst[c].history
             /\ Texts(c)' = Texts(c)
    BY <1>16, BurstEnds DEF TaskRaises
  <2> QED BY <2>1, <2>2
<1>17. CASE Restart
  <2>1. \A c \in Messages : burst'[c] = NoBurst /\ handler'[c] = "none"
    BY <1>17 DEF Restart
  <2> QED BY <2>1, RangeEmpty DEF NoBurst, Ended, Texts
<1> QED
  BY <1>2, <1>3, <1>4, <1>5, <1>6, <1>7, <1>8, <1>9, <1>10, <1>11, <1>12, <1>13, <1>14,
     <1>15, <1>16, <1>17, <1>18, <1>19
  DEF Next, Handle, Process, FinishPhoto, Transcribed, NotTranscribed

-----------------------------------------------------------------------------
\* The place of a message.

\* A step leaves a message at its place when it changes nothing of what is said
\* about it; it may forget the update if that was acknowledged.
LEMMA PlaceFrameTurns ==
  ASSUME NEW m \in Messages, Place(m), UNCHANGED kind,
         Written(m)' <=> Written(m), WrittenOnce(m)',
         told'[m] = told[m], tg'[m] = tg[m], handler'[m] = handler[m],
         m \in Range(buf') <=> m \in Range(buf),
         \A c \in Messages : /\ m \in Texts(c)' <=> m \in Texts(c)
                             /\ m \in Texts(c) => burst'[c].pc = burst[c].pc,
         m \in Range(seen') => m \in Range(seen),
         m \in Range(seen) => m \in Range(seen') \/ tg[m] = "acked"
  PROVE  Place(m)'
<1>3. Untouched(m)' <=> Untouched(m)
  BY DEF Untouched
<1>4. Held(m)' <=> Held(m)
  BY DEF Held, InBurst, Texts
<1>5. FirstTime(m)' /\ HandledOnce(m)'
  BY <1>3 DEF Place, FirstTime, HandledOnce
<1>6. BufferedOnce(m)'
  BY DEF Place, BufferedOnce
<1>7. InOneBurst(m)'
  BY DEF Place, InOneBurst
<1>8. AnswerIsKept(m)'
  BY DEF Place, AnswerIsKept
<1>9. SeenIsServed(m)'
  BY <1>4 DEF Place, SeenIsServed
<1> QED BY <1>5, <1>6, <1>7, <1>8, <1>9 DEF Place

\* The same for a step that saves no turn.
LEMMA PlaceFrame ==
  ASSUME NEW m \in Messages, Place(m), UNCHANGED <<turns, kind>>,
         told'[m] = told[m], tg'[m] = tg[m], handler'[m] = handler[m],
         m \in Range(buf') <=> m \in Range(buf),
         \A c \in Messages : /\ m \in Texts(c)' <=> m \in Texts(c)
                             /\ m \in Texts(c) => burst'[c].pc = burst[c].pc,
         m \in Range(seen') => m \in Range(seen),
         m \in Range(seen) => m \in Range(seen') \/ tg[m] = "acked"
  PROVE  Place(m)'
<1>1. (Written(m)' <=> Written(m)) /\ WrittenOnce(m)'
  BY DEF Written, Place, WrittenOnce
<1> QED BY <1>1, PlaceFrameTurns

\* The same when Telegram also forgets a message that was not acknowledged.
LEMMA PlaceDropped ==
  ASSUME NEW m \in Messages, Place(m), UNCHANGED <<turns, kind, told, handler, buf, burst, seen>>,
         tg'[m] = "acked"
  PROVE  Place(m)'
<1>1. FirstTime(m)' /\ HandledOnce(m)' /\ BufferedOnce(m)' /\ InOneBurst(m)'
  BY DEF Place, FirstTime, HandledOnce, BufferedOnce, InOneBurst, Untouched, Written, Texts
<1>2. WrittenOnce(m)' /\ AnswerIsKept(m)' /\ SeenIsServed(m)'
  BY DEF Place, WrittenOnce, AnswerIsKept, SeenIsServed, Written, Texts, Held, InBurst
<1> QED BY <1>1, <1>2 DEF Place

\* The end of a handler that has concluded its message with the customer, or has
\* put it into the buffer.
LEMMA PlaceReturned ==
  ASSUME NEW m \in Messages, Place(m), handler[m] # "none", UNCHANGED <<turns, kind, burst>>,
         handler'[m] = "none", m \in Range(seen') \/ tg'[m] = "acked",
         \/ told'[m] = "none" /\ m \in Range(buf')
         \/ /\ told'[m] \in {"answered", "turned"} /\ m \notin Range(buf')
            /\ told'[m] = "answered" => kind[m] \notin {"text", "voice"}
  PROVE  Place(m)'
<1>0. Untouched(m)
  BY DEF Place, HandledOnce
<1>1. ~Written(m)' /\ WrittenOnce(m)'
  BY <1>0 DEF Untouched, Written, WrittenOnce
<1>2. \A b \in Messages : m \notin Texts(b)'
  BY <1>0 DEF Untouched, Texts
<1>3. FirstTime(m)' /\ HandledOnce(m)'
  BY DEF FirstTime, HandledOnce
<1>4. BufferedOnce(m)' /\ InOneBurst(m)'
  BY <1>1, <1>2 DEF BufferedOnce, InOneBurst
<1>5. AnswerIsKept(m)' /\ SeenIsServed(m)'
  BY DEF AnswerIsKept, SeenIsServed, Held
<1> QED BY <1>1, <1>3, <1>4, <1>5 DEF Place

\* The answer of the webhook changes only what Telegram knows of this update.
LEMMA AnswerFacts ==
  ASSUME TypeOK, NEW m \in Messages, Answer200(m)
  PROVE  /\ tg'[m] # "unsent" /\ (tg[m] = "acked" => tg'[m] = "acked")
         /\ \A x \in Messages : x # m => tg'[x] = tg[x]
BY DEF TypeOK, Answer200

\* What an update coming in does to the memory of updates: it is in it, and
\* what is forgotten is hurt unless nobody needs it any more.
LEMMA DeliveredFacts ==
  ASSUME TypeOK, NEW m \in Messages, Delivered(m)
  PROVE  /\ m \in Range(seen') /\ hurt \subseteq hurt'
         /\ \A x \in Messages : x # m /\ x \in Range(seen') => x \in Range(seen)
         /\ \A x \in Messages : x \in Range(seen) /\ x \notin hurt' =>
              x \in Range(seen') \/ x \notin Exposed
<1>1. seen' = Remember(m) /\ m \in Range(Remember(m))
      /\ Range(Remember(m)) \subseteq Range(seen) \cup {m}
  BY RememberFacts DEF Delivered
<1>2. hurt' = hurt \cup (Exposed \cap (Range(seen) \ Range(Remember(m))))
  BY DEF Delivered
<1> QED BY <1>1, <1>2

PlaceInv == NotSentNotSeen /\ Places

\* Telegram and the webhook.
LEMMA PlacesAtTheDoor ==
  ASSUME TypeOK, PlaceInv, NEW x \in Messages, Repeated(x) \/ Admit(x) \/ TurnAway(x)
  PROVE  PlaceInv'
<1> USE DEF PlaceInv
<1>0. /\ tg \in [Messages -> {"unsent", "queued", "acked"}]
      /\ handler \in [Messages -> {"none", "found", "missing", "ai"}]
      /\ told \in [Messages -> {"none", "answered", "turned", "ignored"}]
  BY DEF TypeOK
<1>1. CASE Repeated(x)
  <2>1. /\ Answer200(x) /\ x \in Range(seen)
        /\ UNCHANGED <<seen, handler, buf, burst, turns, told, kind, hurt>>
    BY <1>1 DEF Repeated, Debouncing, Unhurt
  <2>2. NotSentNotSeen'
    BY <2>1, AnswerFacts DEF NotSentNotSeen
  <2>3. ASSUME NEW m \in Messages, m \notin hurt' PROVE Place(m)'
    <3>1. Place(m) BY <2>1, <2>3 DEF Places
    <3>2. CASE m # x
      BY <2>1, <3>1, <3>2, AnswerFacts, PlaceFrame DEF Texts
    <3>3. CASE m = x
      <4>1. FirstTime(m)' /\ HandledOnce(m)' /\ BufferedOnce(m)' /\ InOneBurst(m)'
        BY <2>1, <3>1, <3>3
        DEF Place, FirstTime, HandledOnce, BufferedOnce, InOneBurst, Untouched, Written, Texts
      <4>2. WrittenOnce(m)' /\ AnswerIsKept(m)' /\ SeenIsServed(m)'
        BY <2>1, <3>1
        DEF Place, WrittenOnce, AnswerIsKept, SeenIsServed, Written, Texts, Held, InBurst
      <4> QED BY <4>1, <4>2 DEF Place
    <3> QED BY <3>2, <3>3
  <2> QED BY <2>2, <2>3 DEF Places
<1>2. CASE Admit(x) \/ TurnAway(x)
  <2>1. /\ Delivered(x) /\ UNCHANGED <<buf, burst, turns, kind>>
        /\ x \notin Range(seen) /\ tg[x] # "acked" /\ handler[x] = "none"
    BY <1>2 DEF Admit, TurnAway, Delivered, Debouncing
  <2>2. /\ x \in Range(seen') /\ hurt \subseteq hurt'
        /\ \A m \in Messages : m # x /\ m \in Range(seen') => m \in Range(seen)
        /\ \A m \in Messages : m \in Range(seen) /\ m \notin hurt' =>
             m \in Range(seen') \/ m \notin Exposed
    BY <2>1, DeliveredFacts
  <2>3. /\ \A m \in Messages : m # x =>
             /\ tg'[m] = tg[m] /\ handler'[m] = handler[m] /\ told'[m] = told[m]
        /\ tg'[x] # "unsent"
        /\ \/ handler'[x] # "none" /\ told'[x] = told[x]
           \/ handler'[x] = "none" /\ told'[x] = "turned"
    <3>1. CASE Admit(x)
      <4>1. /\ handler' = [handler EXCEPT ![x] = IF row.saved THEN "found" ELSE "missing"]
            /\ tg' = [tg EXCEPT ![x] = "queued"] /\ told' = told
        BY <3>1 DEF Admit
      <4>2. handler'[x] # "none" /\ tg'[x] # "unsent"
        BY <1>0, <4>1
      <4>3. \A m \in Messages : m # x => tg'[m] = tg[m] /\ handler'[m] = handler[m]
        BY <1>0, <4>1
      <4> QED BY <4>1, <4>2, <4>3
    <3>2. CASE TurnAway(x)
      <4>1. /\ handler' = handler /\ Answer200(x)
            /\ \A m \in Messages : told'[m] = IF m = x THEN "turned" ELSE told[m]
        BY <3>2 DEF TurnAway, Tell
      <4> QED BY <2>1, <4>1, AnswerFacts
    <3> QED BY <1>2, <3>1, <3>2
  <2>4. NotSentNotSeen'
    BY <2>2, <2>3 DEF NotSentNotSeen
  <2>5. ASSUME NEW m \in Messages, m \notin hurt' PROVE Place(m)'
    <3>1. Place(m) BY <2>2, <2>5 DEF Places
    <3>2. CASE m # x
      <4>1. m \in Range(seen) => m \in Range(seen') \/ tg[m] = "acked"
        BY <1>0, <2>2, <2>5 DEF NotSentNotSeen, Exposed
      <4> QED BY <2>1, <2>2, <2>3, <3>1, <3>2, <4>1, PlaceFrame DEF Texts
    <3>3. CASE m = x
      <4>0. Untouched(m)
        BY <2>1, <3>1, <3>3 DEF Place, FirstTime
      <4>1. ~Written(m)' /\ WrittenOnce(m)' /\ m \notin Range(buf') /\ \A b \in Messages : m \notin Texts(b)'
        BY <2>1, <4>0 DEF Untouched, Written, WrittenOnce, Texts
      <4>2. FirstTime(m)' /\ BufferedOnce(m)' /\ InOneBurst(m)'
        BY <2>2, <3>3, <4>1 DEF FirstTime, BufferedOnce, InOneBurst
      <4>3. HandledOnce(m)' /\ AnswerIsKept(m)' /\ SeenIsServed(m)'
        BY <2>3, <3>3, <4>0, <4>1 DEF HandledOnce, AnswerIsKept, SeenIsServed, Untouched, Held
      <4> QED BY <4>1, <4>2, <4>3 DEF Place
    <3> QED BY <3>2, <3>3
  <2> QED BY <2>4, <2>5 DEF Places
<1> QED BY <1>1, <1>2

\* Handlers.
LEMMA PlacesInHandlers ==
  ASSUME TypeOK, PlaceInv, NEW x \in Messages, Handle(x) \/ HandlerRaises(x)
  PROVE  PlaceInv'
<1> USE DEF PlaceInv
<1>0. /\ tg \in [Messages -> {"unsent", "queued", "acked"}]
      /\ handler \in [Messages -> {"none", "found", "missing", "ai"}]
      /\ told \in [Messages -> {"none", "answered", "turned", "ignored"}]
      /\ buf \in Seq(Messages)
  BY DEF TypeOK
<1>1. CASE InsertTwice(x) \/ HandlerRaises(x)
  <2>1. /\ hurt' = hurt \cup {x} /\ handler' = [handler EXCEPT ![x] = "none"]
        /\ UNCHANGED <<tg, seen, buf, burst, turns, told, kind>>
    BY <1>1 DEF InsertTwice, HandlerRaises, Debouncing
  <2>2. NotSentNotSeen'
    BY <1>0, <2>1 DEF NotSentNotSeen
  <2>3. ASSUME NEW m \in Messages, m \notin hurt' PROVE Place(m)'
    <3>1. Place(m) /\ m # x BY <2>1, <2>3 DEF Places
    <3>2. handler'[m] = handler[m] BY <1>0, <2>1, <3>1
    <3> QED BY <2>1, <3>1, <3>2, PlaceFrame DEF Texts
  <2> QED BY <2>2, <2>3 DEF Places
<1>2. CASE EnterMedia(x)
  <2>1. /\ handler[x] # "none" /\ handler' = [handler EXCEPT ![x] = "ai"]
        /\ UNCHANGED <<tg, seen, buf, burst, turns, told, kind, hurt>>
    BY <1>2 DEF EnterMedia, HasRow, Debouncing, Faultless, Unhurt
  <2>2. \A m \in Messages : handler'[m] # "none" <=> handler[m] # "none"
    BY <1>0, <2>1
  <2>3. NotSentNotSeen'
    BY <2>1, <2>2 DEF NotSentNotSeen
  <2>4. ASSUME NEW m \in Messages, m \notin hurt' PROVE Place(m)'
    <3>1. Place(m) BY <2>1, <2>4 DEF Places
    <3>2. FirstTime(m)' /\ HandledOnce(m)' /\ BufferedOnce(m)' /\ InOneBurst(m)'
        BY <2>1, <2>2, <3>1
        DEF Place, FirstTime, HandledOnce, BufferedOnce, InOneBurst, Untouched, Written, Texts
    <3>3. WrittenOnce(m)' /\ AnswerIsKept(m)' /\ SeenIsServed(m)'
        BY <2>1, <2>2, <3>1
        DEF Place, WrittenOnce, AnswerIsKept, SeenIsServed, Written, Texts, Held, InBurst
    <3> QED BY <3>2, <3>3 DEF Place
  <2> QED BY <2>3, <2>4 DEF Places
<1>3. CASE Enter(x) \/ FinishPhoto(x) \/ Transcribed(x) \/ NotTranscribed(x)
  <2>1. /\ handler[x] # "none" /\ handler' = [handler EXCEPT ![x] = "none"]
        /\ Answer200(x) /\ UNCHANGED <<seen, burst, turns, kind, hurt>>
    BY <1>3 DEF Enter, HasRow, FinishPhoto, Transcribed, NotTranscribed, CommitMedia, Return, Unhurt
  <2>2. \/ Schedule(x) /\ told' = told
        \/ Tell({x}, "turned") /\ UNCHANGED Debouncing
        \/ Tell({x}, "answered") /\ UNCHANGED Debouncing /\ kind[x] \in {"start", "photo"}
    BY <1>3 DEF Enter, FinishPhoto, Transcribed, NotTranscribed
  <2>3. /\ \A m \in Messages : m # x =>
             /\ told'[m] = told[m]
             /\ m \in Range(buf') <=> m \in Range(buf)
        /\ \/ told'[x] = told[x] /\ x \in Range(buf')
           \/ /\ told'[x] \in {"answered", "turned"} /\ buf' = buf
              /\ told'[x] = "answered" => kind[x] \notin {"text", "voice"}
    <3>1. CASE Schedule(x) /\ told' = told
      BY <1>0, <3>1, RangeAppend DEF Schedule
    <3>2. CASE Tell({x}, "turned") /\ UNCHANGED Debouncing
      BY <3>2 DEF Tell, Debouncing
    <3>3. CASE Tell({x}, "answered") /\ UNCHANGED Debouncing /\ kind[x] \in {"start", "photo"}
      BY <3>3 DEF Tell, Debouncing
    <3> QED BY <2>2, <3>1, <3>2, <3>3
  <2>4. /\ tg'[x] # "unsent" /\ (tg[x] = "acked" => tg'[x] = "acked")
        /\ \A m \in Messages : m # x => tg'[m] = tg[m] /\ handler'[m] = handler[m]
        /\ handler'[x] = "none"
    BY <1>0, <2>1, AnswerFacts
  <2>5. NotSentNotSeen'
    BY <2>1, <2>4 DEF NotSentNotSeen
  <2>6. ASSUME NEW m \in Messages, m \notin hurt' PROVE Place(m)'
    <3>1. Place(m) BY <2>1, <2>6 DEF Places
    <3>2. CASE m # x
      BY <2>1, <2>3, <2>4, <3>1, <3>2, PlaceFrame DEF Texts
    <3>3. CASE m = x
      <4>1. m \in Range(seen') \/ tg'[m] = "acked"
        BY <2>1, <2>4, <3>1, <3>3 DEF Place, FirstTime
      <4>2. told[m] = "none" /\ m \notin Range(buf)
        BY <2>1, <3>1, <3>3 DEF Place, HandledOnce, Untouched
      <4> QED BY <2>1, <2>3, <2>4, <3>1, <3>3, <4>1, <4>2, PlaceReturned
    <3> QED BY <3>2, <3>3
  <2> QED BY <2>5, <2>6 DEF Places
<1> QED BY <1>1, <1>2, <1>3 DEF Handle

\* A burst takes the buffer, or goes on without changing what it holds.
LEMMA PlacesInFire ==
  ASSUME TypeOK, RowInv, PlaceInv, NEW b \in Messages, Fire(b)
  PROVE  PlaceInv'
<1> USE DEF PlaceInv
<1>1. /\ buf' = <<>> /\ UNCHANGED <<tg, seen, handler, turns, kind, hurt>> /\ burst[b].pc = "none"
  BY DEF Fire, Faultless, Unhurt
<1>2. NotSentNotSeen'
  BY <1>1 DEF NotSentNotSeen
<1>3. ASSUME NEW m \in Messages, m \notin hurt' PROVE Place(m)'
  <2>1. Place(m) BY <1>1, <1>3 DEF Places
  <2>2. m \notin Range(buf') BY <1>1, RangeEmpty
  <2>3. (Written(m)' <=> Written(m)) /\ WrittenOnce(m)'
    BY <1>1, <2>1 DEF Place, Written, WrittenOnce
  <2>4. CASE burst' = [burst EXCEPT ![b].pc = "lock", ![b].texts = buf] /\ UNCHANGED told
    <3>1. \A c \in Messages :
             /\ burst'[c].pc = IF c = b THEN "lock" ELSE burst[c].pc
             /\ Texts(c)' = IF c = b THEN Range(buf) ELSE Texts(c)
      BY <2>4, BurstTakes
    <3>0. told' = told BY <2>4
    <3>2. Texts(b) = {} BY <1>1 DEF RowInv, NothingIsEmpty
    <3>3. Untouched(m) => Untouched(m)'
      BY <2>2, <2>3, <2>4, <3>1 DEF Untouched
    <3>4. FirstTime(m)' /\ HandledOnce(m)'
      BY <1>1, <2>1, <3>3 DEF Place, FirstTime, HandledOnce
    <3>5. BufferedOnce(m)'
      BY <2>2 DEF BufferedOnce
    <3>6. InOneBurst(m)'
      <4> SUFFICES ASSUME NEW c \in Messages, m \in Texts(c)'
                   PROVE  /\ ~Written(m)'
                          /\ \A d \in Messages : m \in Texts(d)' => d = c
                          /\ told'[m] = IF burst'[c].pc = "sent" THEN "answered" ELSE "none"
        BY DEF InOneBurst
      <4>1. CASE c = b
        <5>1. m \in Range(buf) BY <3>1, <4>1
        <5>2. told[m] = "none" /\ ~Written(m) /\ \A d \in Messages : m \notin Texts(d)
          BY <2>1, <5>1 DEF Place, BufferedOnce
        <5>3. burst'[c].pc = "lock" /\ \A d \in Messages : m \in Texts(d)' => d = c
          BY <3>1, <4>1, <5>2
        <5> QED BY <2>3, <3>0, <5>2, <5>3
      <4>2. CASE c # b
        <5>1. m \in Texts(c) BY <3>1, <4>2
        <5>2. m \notin Range(buf) BY <2>1, <5>1 DEF Place, BufferedOnce
        <5>3. /\ ~Written(m) /\ \A d \in Messages : m \in Texts(d) => d = c
              /\ told[m] = IF burst[c].pc = "sent" THEN "answered" ELSE "none"
          BY <2>1, <5>1 DEF Place, InOneBurst
        <5> QED BY <2>3, <3>0, <3>1, <4>2, <5>2, <5>3
      <4> QED BY <4>1, <4>2
    <3>7. AnswerIsKept(m)'
      BY <1>1, <2>1, <2>3, <2>4, <3>1, <3>2 DEF Place, AnswerIsKept
    <3>8. Held(m) => Held(m)'
      <4>1. CASE m \in Range(buf)
        BY <3>1, <4>1 DEF Held, InBurst, Texts
      <4>2. CASE InBurst(m)
        <5>1. PICK c \in Messages : burst[c].pc \in {"lock", "ai"} /\ m \in Texts(c)
          BY <4>2 DEF InBurst, Texts
        <5>2. c # b BY <1>1, <5>1
        <5>3. burst'[c].pc \in {"lock", "ai"} /\ m \in Texts(c)' BY <3>1, <5>1, <5>2
        <5> QED BY <5>3 DEF Held, InBurst, Texts
      <4> QED BY <1>1, <4>1, <4>2 DEF Held
    <3>9. SeenIsServed(m)'
      BY <1>1, <2>1, <2>4, <3>8 DEF Place, SeenIsServed
    <3> QED BY <2>3, <3>4, <3>5, <3>6, <3>7, <3>9 DEF Place
  <2>5. CASE burst' = burst /\ \E what \in {"ignored", "turned"} : Tell(Range(buf), what)
    <3>1. /\ m \in Range(buf) => told'[m] \in {"ignored", "turned"}
          /\ m \notin Range(buf) => told'[m] = told[m]
      BY <2>5 DEF Tell
    <3>2. CASE m \notin Range(buf)
      BY <1>1, <2>1, <2>2, <2>5, <3>1, <3>2, PlaceFrame DEF Texts
    <3>3. CASE m \in Range(buf)
      <4>1. ~Written(m) /\ handler[m] = "none" /\ \A c \in Messages : m \notin Texts(c)
        BY <2>1, <3>3 DEF Place, HandledOnce, Untouched, BufferedOnce
      <4>2. FirstTime(m)' /\ HandledOnce(m)'
        BY <1>1, <2>1, <3>3, <4>1 DEF Place, FirstTime, HandledOnce, Untouched
      <4>3. BufferedOnce(m)' /\ InOneBurst(m)'
        BY <2>2, <2>5, <4>1 DEF BufferedOnce, InOneBurst, Texts
      <4>4. AnswerIsKept(m)' /\ SeenIsServed(m)'
        BY <3>1, <3>3 DEF AnswerIsKept, SeenIsServed
      <4> QED BY <2>3, <4>2, <4>3, <4>4 DEF Place
    <3> QED BY <3>2, <3>3
  <2> QED BY <2>4, <2>5 DEF Fire
<1> QED BY <1>2, <1>3 DEF Places

\* A text of a burst, not met by a fault, is nowhere else.
LEMMA OnlyInBurst ==
  ASSUME NEW m \in Messages, Place(m), NEW b \in Messages, m \in Texts(b)
  PROVE  /\ handler[m] = "none" /\ m \notin Range(buf) /\ ~Written(m)
         /\ \A c \in Messages : m \in Texts(c) => c = b
         /\ told[m] = IF burst[b].pc = "sent" THEN "answered" ELSE "none"
         /\ tg[m] = "acked" \/ m \in Range(seen)
BY DEF Place, FirstTime, HandledOnce, BufferedOnce, InOneBurst, Untouched

\* The work on a burst: the AI service, the answer, the commit, or an exception.
LEMMA PlacesInBursts ==
  ASSUME TypeOK, RowInv, PlaceInv, NEW b \in Messages,
         \/ Prepare(b) \/ Unserved(b) \/ GivenUp(b) \/ Reply(b) \/ Settle(b)
         \/ NothingToAsk(b) \/ AskBack(b) \/ TaskRaises(b)
  PROVE  PlaceInv'
<1> USE DEF PlaceInv
<1>0. UNCHANGED <<tg, seen, handler, buf, kind>>
  BY DEF Prepare, Unserved, GivenUp, TurnBurst, Reply, Settle, NothingToAsk, AskBack,
         TaskRaises, BurstOnly, Debouncing, Faultless, Unhurt
<1>1. NotSentNotSeen'
  BY <1>0 DEF NotSentNotSeen
<1>2. CASE Prepare(b)
  <2>1. UNCHANGED <<turns, told, hurt>> /\ burst[b].pc = "lock"
    BY <1>2 DEF Prepare, BurstOnly, Faultless, Unhurt
  <2>2. \A c \in Messages :
           /\ burst'[c].pc = IF c = b THEN "ai" ELSE burst[c].pc
           /\ Texts(c)' = Texts(c)
    BY <1>2, BurstAsks DEF Prepare
  <2>3. ASSUME NEW m \in Messages, m \notin hurt' PROVE Place(m)'
    <3>1. Place(m) BY <2>1, <2>3 DEF Places
    <3>2. CASE m \notin Texts(b)
      BY <1>0, <2>1, <2>2, <3>1, <3>2, PlaceFrame
    <3>3. CASE m \in Texts(b)
      <4>1. /\ handler[m] = "none" /\ m \notin Range(buf) /\ ~Written(m)
            /\ \A c \in Messages : m \in Texts(c) => c = b
            /\ told[m] = "none" /\ (tg[m] = "acked" \/ m \in Range(seen))
        BY <2>1, <3>1, <3>3, OnlyInBurst
      <4>2. ~Written(m)' /\ WrittenOnce(m)'
        BY <2>1, <3>1, <4>1 DEF Place, Written, WrittenOnce
      <4>3. FirstTime(m)' /\ HandledOnce(m)' /\ BufferedOnce(m)' /\ AnswerIsKept(m)'
        BY <1>0, <2>1, <4>1 DEF FirstTime, HandledOnce, BufferedOnce, AnswerIsKept
      <4>4. InOneBurst(m)'
        BY <2>1, <2>2, <4>1, <4>2 DEF InOneBurst
      <4>5. SeenIsServed(m)'
        BY <2>2, <3>3 DEF SeenIsServed, Held, InBurst, Texts
      <4> QED BY <4>2, <4>3, <4>4, <4>5 DEF Place
    <3> QED BY <3>2, <3>3
  <2> QED BY <1>1, <2>3 DEF Places
<1>3. CASE Unserved(b) \/ GivenUp(b)
  <2>1. UNCHANGED <<turns, hurt>> /\ Tell(Texts(b), "turned")
    BY <1>3 DEF Unserved, GivenUp, TurnBurst, BurstOnly, Faultless, Unhurt
  <2>2. /\ burst'[b].pc \in {"none", "detect"} /\ Texts(b)' = {}
        /\ \A c \in Messages : c # b => burst'[c].pc = burst[c].pc /\ Texts(c)' = Texts(c)
    BY <1>3, BurstEnds DEF Unserved, GivenUp, TurnBurst
  <2>3. ASSUME NEW m \in Messages, m \notin hurt' PROVE Place(m)'
    <3>1. Place(m) BY <2>1, <2>3 DEF Places
    <3>2. CASE m \notin Texts(b)
      <4>1. told'[m] = told[m] BY <2>1, <3>2 DEF Tell
      <4> QED BY <1>0, <2>1, <2>2, <3>1, <3>2, <4>1, PlaceFrame
    <3>3. CASE m \in Texts(b)
      <4>0. told'[m] = "turned" BY <2>1, <3>3 DEF Tell
      <4>1. /\ handler[m] = "none" /\ m \notin Range(buf) /\ ~Written(m)
            /\ \A c \in Messages : m \in Texts(c) => c = b
            /\ tg[m] = "acked" \/ m \in Range(seen)
        BY <3>1, <3>3, OnlyInBurst
      <4>2. ~Written(m)' /\ WrittenOnce(m)'
        BY <2>1, <3>1, <4>1 DEF Place, Written, WrittenOnce
      <4>3. FirstTime(m)' /\ HandledOnce(m)' /\ BufferedOnce(m)' /\ AnswerIsKept(m)'
        BY <1>0, <4>0, <4>1 DEF FirstTime, HandledOnce, BufferedOnce, AnswerIsKept
      <4>4. InOneBurst(m)'
        BY <2>2, <4>1 DEF InOneBurst
      <4>5. SeenIsServed(m)'
        BY <4>0 DEF SeenIsServed
      <4> QED BY <4>2, <4>3, <4>4, <4>5 DEF Place
    <3> QED BY <3>2, <3>3
  <2> QED BY <1>1, <2>3 DEF Places
<1>4. CASE Reply(b)
  <2>1. UNCHANGED <<turns, hurt>> /\ Tell(Texts(b), "answered")
    BY <1>4 DEF Reply, BurstOnly, Faultless, Unhurt
  <2>2. \A c \in Messages :
           /\ burst'[c].pc = IF c = b THEN "sent" ELSE burst[c].pc
           /\ Texts(c)' = Texts(c)
    BY <1>4, BurstSent DEF Reply
  <2>3. ASSUME NEW m \in Messages, m \notin hurt' PROVE Place(m)'
    <3>1. Place(m) BY <2>1, <2>3 DEF Places
    <3>2. CASE m \notin Texts(b)
      <4>1. told'[m] = told[m] BY <2>1, <3>2 DEF Tell
      <4> QED BY <1>0, <2>1, <2>2, <3>1, <3>2, <4>1, PlaceFrame
    <3>3. CASE m \in Texts(b)
      <4>0. told'[m] = "answered" BY <2>1, <3>3 DEF Tell
      <4>1. /\ handler[m] = "none" /\ m \notin Range(buf) /\ ~Written(m)
            /\ \A c \in Messages : m \in Texts(c) => c = b
            /\ tg[m] = "acked" \/ m \in Range(seen)
        BY <3>1, <3>3, OnlyInBurst
      <4>2. ~Written(m)' /\ WrittenOnce(m)'
        BY <2>1, <3>1, <4>1 DEF Place, Written, WrittenOnce
      <4>3. FirstTime(m)' /\ HandledOnce(m)' /\ BufferedOnce(m)' /\ SeenIsServed(m)'
        BY <1>0, <4>0, <4>1 DEF FirstTime, HandledOnce, BufferedOnce, SeenIsServed
      <4>4. InOneBurst(m)'
        BY <2>2, <4>0, <4>1, <4>2 DEF InOneBurst
      <4>5. AnswerIsKept(m)'
        BY <2>2, <3>3 DEF AnswerIsKept
      <4> QED BY <4>2, <4>3, <4>4, <4>5 DEF Place
    <3> QED BY <3>2, <3>3
  <2> QED BY <1>1, <2>3 DEF Places
<1>5. CASE Settle(b)
  <2>1. UNCHANGED <<told, hurt>> /\ burst[b].pc = "sent"
    BY <1>5 DEF Settle, BurstOnly, Faultless, Unhurt
  <2>2. /\ burst'[b].pc \in {"none", "detect"} /\ Texts(b)' = {}
        /\ \A c \in Messages : c # b => burst'[c].pc = burst[c].pc /\ Texts(c)' = Texts(c)
    BY <1>5, BurstEnds DEF Settle
  <2>3. /\ DOMAIN turns' = DOMAIN turns \cup {Len(turns) + 1}
        /\ \A i \in DOMAIN turns : turns'[i] = turns[i]
        /\ Range(turns'[Len(turns) + 1]) = Texts(b) /\ Len(turns) + 1 \notin DOMAIN turns
    <3>1. turns \in Seq(Seq(Messages)) /\ burst[b].texts \in Seq(Messages)
      BY DEF TypeOK
    <3> QED BY <1>5, <3>1, RangeAppend DEF Settle, Texts
  <2>4. ASSUME NEW m \in Messages, m \notin hurt' PROVE Place(m)'
    <3>1. Place(m) BY <2>1, <2>4 DEF Places
    <3>2. CASE m \notin Texts(b)
      <4>1. (Written(m)' <=> Written(m)) /\ WrittenOnce(m)'
        BY <2>3, <3>1, <3>2 DEF Place, Written, WrittenOnce
      <4> QED BY <1>0, <2>1, <2>2, <3>1, <3>2, <4>1, PlaceFrameTurns
    <3>3. CASE m \in Texts(b)
      <4>1. /\ handler[m] = "none" /\ m \notin Range(buf) /\ ~Written(m)
            /\ \A c \in Messages : m \in Texts(c) => c = b
            /\ told[m] = "answered" /\ (tg[m] = "acked" \/ m \in Range(seen))
        BY <2>1, <3>1, <3>3, OnlyInBurst
      <4>2. Written(m)' /\ WrittenOnce(m)'
        BY <2>3, <3>3, <4>1 DEF Written, WrittenOnce
      <4>3. FirstTime(m)' /\ HandledOnce(m)' /\ BufferedOnce(m)' /\ AnswerIsKept(m)'
        BY <1>0, <4>1, <4>2 DEF FirstTime, HandledOnce, BufferedOnce, AnswerIsKept
      <4>4. InOneBurst(m)'
        BY <2>2, <4>1 DEF InOneBurst
      <4>5. SeenIsServed(m)'
        BY <2>1, <4>1 DEF SeenIsServed
      <4> QED BY <4>2, <4>3, <4>4, <4>5 DEF Place
    <3> QED BY <3>2, <3>3
  <2> QED BY <1>1, <2>4 DEF Places
<1>6. CASE TaskRaises(b)
  <2>1. hurt' = hurt \cup Texts(b) /\ UNCHANGED <<turns, told>>
    BY <1>6 DEF TaskRaises
  <2>2. /\ burst'[b].pc \in {"none", "detect"} /\ Texts(b)' = {}
        /\ \A c \in Messages : c # b => burst'[c].pc = burst[c].pc /\ Texts(c)' = Texts(c)
    BY <1>6, BurstEnds DEF TaskRaises
  <2>3. ASSUME NEW m \in Messages, m \notin hurt' PROVE Place(m)'
    <3>1. Place(m) /\ m \notin Texts(b) BY <2>1, <2>3 DEF Places
    <3> QED BY <1>0, <2>1, <2>2, <3>1, PlaceFrame
  <2> QED BY <1>1, <2>3 DEF Places
<1>7. CASE NothingToAsk(b) \/ AskBack(b)
  <2>1. UNCHANGED <<told, hurt>> /\ burst[b].pc = "detect" /\ turns \in Seq(Seq(Messages))
    BY <1>7 DEF NothingToAsk, AskBack, BurstOnly, Faultless, Unhurt, TypeOK
  <2>2. /\ burst'[b].pc \in {"none", "detect"} /\ Texts(b)' = {}
        /\ \A c \in Messages : c # b => burst'[c].pc = burst[c].pc /\ Texts(c)' = Texts(c)
    BY <1>7, BurstEnds DEF NothingToAsk, AskBack
  <2>3. Texts(b) = {}
    BY <2>1 DEF RowInv, NothingIsEmpty
  <2>4. ASSUME NEW m \in Messages, m \notin hurt' PROVE Place(m)'
    <3>1. Place(m) BY <2>1, <2>4 DEF Places
    <3>2. (Written(m)' <=> Written(m)) /\ WrittenOnce(m)'
      <4>1. CASE turns' = turns
        BY <3>1, <4>1 DEF Place, Written, WrittenOnce
      <4>2. CASE turns' = Append(turns, <<>>)
        <5>1. /\ DOMAIN turns' = DOMAIN turns \cup {Len(turns) + 1}
              /\ \A i \in DOMAIN turns : turns'[i] = turns[i]
              /\ turns'[Len(turns) + 1] = <<>>
          BY <2>1, <4>2, RangeAppend, RangeEmpty
        <5>2. Range(turns'[Len(turns) + 1]) = {}
          BY <5>1, RangeEmpty
        <5> QED BY <3>1, <5>1, <5>2 DEF Place, Written, WrittenOnce
      <4> QED BY <1>7, <4>1, <4>2 DEF NothingToAsk, AskBack
    <3> QED BY <1>0, <2>1, <2>2, <2>3, <3>1, <3>2, PlaceFrameTurns
  <2> QED BY <1>1, <2>4 DEF Places
<1> QED BY <1>2, <1>3, <1>4, <1>5, <1>6, <1>7

\* The webhook is set anew: a message of which the process knows keeps its place.
LEMMA PlacesInReregistered ==
  ASSUME TypeOK, PlaceInv, Reregistered
  PROVE  PlaceInv'
<1> USE DEF PlaceInv
<1>1. /\ UNCHANGED <<turns, kind, told, handler, buf, burst, seen>> /\ hurt \subseteq hurt'
      /\ \A m \in Messages : tg'[m] \in {tg[m], "acked"}
  BY DEF Reregistered, DropPending, Debouncing
<1>2. NotSentNotSeen'
  BY <1>1 DEF NotSentNotSeen
<1>3. ASSUME NEW m \in Messages, m \notin hurt' PROVE Place(m)'
  <2>1. Place(m) BY <1>1, <1>3 DEF Places
  <2>2. CASE tg'[m] = tg[m] BY <1>1, <2>1, <2>2, PlaceFrame DEF Texts
  <2>3. CASE tg'[m] = "acked" BY <1>1, <2>1, <2>3, PlaceDropped
  <2> QED BY <1>1, <2>2, <2>3
<1> QED BY <1>2, <1>3 DEF Places

\* A restart: what it does not meet was never sent, or was acknowledged.
LEMMA PlacesInRestart ==
  ASSUME TypeOK, PlaceInv, Restart
  PROVE  PlaceInv'
<1> USE DEF PlaceInv
<1>1. /\ seen' = <<>> /\ buf' = <<>> /\ UNCHANGED <<turns, told, kind>>
      /\ hurt \cup Exposed \subseteq hurt'
      /\ \A m \in Messages : handler'[m] = "none" /\ burst'[m] = NoBurst
      /\ \A m \in Messages : tg'[m] \in {tg[m], "acked"}
  <2>1. (\A m \in Messages : tg'[m] \in {tg[m], "acked"}) /\ hurt \cup Exposed \subseteq hurt'
    BY DEF Restart, DropPending
  <2> QED BY <2>1 DEF Restart
<1>2. Range(seen') = {} /\ Range(buf') = {} /\ \A b \in Messages : Texts(b)' = {}
  BY <1>1, RangeEmpty DEF Texts, NoBurst, Ended
<1>3. NotSentNotSeen'
  BY <1>1, <1>2 DEF NotSentNotSeen
<1>4. ASSUME NEW m \in Messages, m \notin hurt' PROVE Place(m)'
  <2>1. Place(m) /\ tg[m] # "queued" /\ \A b \in Messages : m \notin Texts(b)
    BY <1>1, <1>4 DEF Places, Exposed, Texts
  <2>2. (Written(m)' <=> Written(m)) /\ WrittenOnce(m)'
    BY <1>1, <2>1 DEF Place, Written, WrittenOnce
  <2>3. FirstTime(m)'
    <3>1. CASE tg[m] = "unsent"
      BY <1>1, <1>2, <2>1, <2>2, <3>1 DEF Place, NotSentNotSeen, FirstTime, Untouched
    <3>2. CASE tg[m] = "acked"
      BY <1>1, <3>2 DEF FirstTime
    <3> QED BY <2>1, <3>1, <3>2 DEF TypeOK
  <2>4. HandledOnce(m)' /\ BufferedOnce(m)' /\ InOneBurst(m)' /\ SeenIsServed(m)'
    BY <1>1, <1>2 DEF HandledOnce, BufferedOnce, InOneBurst, SeenIsServed
  <2>5. AnswerIsKept(m)'
    BY <1>1, <2>1, <2>2 DEF Place, AnswerIsKept
  <2> QED BY <2>2, <2>3, <2>4, <2>5 DEF Place
<1> QED BY <1>3, <1>4 DEF Places

-----------------------------------------------------------------------------
\* The theorems about the conversation.

\* Every step keeps the inductive invariant.
LEMMA NextIInv == IInv /\ [Next]_vars => IInv'
<1> SUFFICES ASSUME IInv, [Next]_vars PROVE IInv'
  OBVIOUS
<1>1. TypeOK' /\ RowInv'
  BY TypesStep, RowStep DEF IInv, RowInv
<1>2. TypeOK /\ RowInv /\ PlaceInv
  BY DEF IInv, RowInv, PlaceInv
<1>3. PlaceInv'
  <2>1. CASE UNCHANGED vars
    <3>1. NotSentNotSeen' BY <1>2, <2>1 DEF vars, PlaceInv, NotSentNotSeen
    <3>2. ASSUME NEW m \in Messages, m \notin hurt' PROVE Place(m)'
      <4>1. Place(m) BY <1>2, <2>1, <3>2 DEF vars, PlaceInv, Places
      <4> QED BY <2>1, <4>1, PlaceFrame DEF vars, Texts
    <3> QED BY <3>1, <3>2 DEF PlaceInv, Places
  <2>2. ASSUME NEW m \in Messages,
               Repeated(m) \/ Admit(m) \/ TurnAway(m) \/ Handle(m) \/ Process(m)
                 \/ HandlerRaises(m) \/ TaskRaises(m)
        PROVE  PlaceInv'
    BY <1>2, <2>2, PlacesAtTheDoor, PlacesInHandlers, PlacesInFire, PlacesInBursts DEF Process
  <2>3. CASE Reregistered \/ Restart
    BY <1>2, <2>3, PlacesInReregistered, PlacesInRestart
  <2> QED BY <2>1, <2>2, <2>3 DEF Next
<1> QED BY <1>1, <1>3 DEF IInv, RowInv, PlaceInv

\* At the beginning nothing has happened to any message.
LEMMA InitIInv == Init => IInv
<1> SUFFICES ASSUME Init PROVE IInv
  OBVIOUS
<1>1. TypeOK
  BY RangeEmpty, BoundsAreNat, EndedType DEF Init, TypeOK, BurstRow
<1>2. /\ Range(seen) = {} /\ Range(buf) = {} /\ DOMAIN turns = {}
      /\ \A b \in Messages : Texts(b) = {} /\ burst[b].pc = "none"
  BY RangeEmpty DEF Init, Texts, NoBurst, Ended
<1>3. \A m \in Messages : handler[m] = "none" /\ told[m] = "none"
  BY DEF Init
<1>4. RowIsHeld /\ HistoryMissesNoText /\ NothingIsEmpty /\ NotSentNotSeen
  BY <1>2, <1>3 DEF RowIsHeld, HistoryMissesNoText, NothingIsEmpty, NotSentNotSeen
<1>5. ASSUME NEW m \in Messages PROVE Place(m)
  BY <1>2, <1>3 DEF Place, FirstTime, HandledOnce, BufferedOnce, InOneBurst, WrittenOnce,
                   AnswerIsKept, SeenIsServed, Untouched, Written
<1> QED BY <1>1, <1>4, <1>5 DEF IInv, Places

\* The inductive invariant holds of every behaviour.
THEOREM SpecIInv == Spec => []IInv
BY InitIInv, NextIInv, PTL DEF Spec

\* Every answer is based on a history that holds all the texts answered so far,
\* however bursts, photos, voice messages and order detections of a customer
\* overlap: the row that get_or_create_customer writes keeps the bursts apart,
\* and a detection saves no text.
THEOREM SpecHistoryMissesNoText == Spec => []HistoryMissesNoText
<1>1. IInv => HistoryMissesNoText BY DEF IInv
<1> QED BY SpecIInv, <1>1, PTL

\* Whatever is repeated, reordered or cancelled, an answered text is saved or
\* about to be, and saved once, unless a fault has met it
\* (_is_duplicate_update, save_turn).
THEOREM SpecAnswersAreSaved == Spec => []AnswersAreSaved
<1>1. IInv => AnswersAreSaved
  <2> SUFFICES ASSUME IInv, NEW m \in Messages, m \notin hurt
               PROVE  LET saved == {i \in DOMAIN turns : m \in Range(turns[i])}
                      IN  /\ Cardinality(saved) <= 1
                          /\ told[m] = "answered" /\ kind[m] \in {"text", "voice"} =>
                               \/ saved # {}
                               \/ \E b \in Messages : burst[b].pc = "sent" /\ m \in Texts(b)
    BY DEF AnswersAreSaved
  <2> DEFINE saved == {i \in DOMAIN turns : m \in Range(turns[i])}
  <2>1. WrittenOnce(m) /\ AnswerIsKept(m)
    BY DEF IInv, Places, Place
  <2>2. saved = {} \/ \E i : saved = {i}
    BY <2>1 DEF WrittenOnce
  <2>3. Cardinality(saved) <= 1
    <3> HIDE DEF saved
    <3>1. CASE saved = {}
      <4>1. Cardinality(saved) = 0 BY <3>1, FS_EmptySet, Zenon
      <4> QED BY <4>1
    <3>2. ASSUME NEW i, saved = {i} PROVE Cardinality(saved) <= 1
      <4>1. Cardinality(saved) = 1 BY <3>2, FS_Singleton, Zenon
      <4> QED BY <4>1
    <3> QED BY <2>2, <3>1, <3>2
  <2>4. Written(m) => saved # {}
    BY DEF Written
  <2> QED BY <2>1, <2>3, <2>4 DEF AnswerIsKept
<1> QED BY SpecIInv, <1>1, PTL

-----------------------------------------------------------------------------
\* The promise of Inbox, step by step.

\* A step of the bot as a step of Inbox.
Kept == [Promise!Next]_(Promise!vars)

\* Nothing changes for the customer.
LEMMA StutterStep ==
  ASSUME hurt' = hurt, \A m \in Messages : Stage(m)' = Stage(m)
  PROVE  Kept
BY DEF Kept, Promise!vars

\* One message changes its stage.
LEMMA OneMoves ==
  ASSUME NEW m \in Messages, hurt \subseteq hurt',
         \A x \in Messages : x # m => Stage(x)' = Stage(x),
         \/ Stage(m) = "new" /\ Stage(m)' \in {"held", "turned"}
         \/ m \in hurt /\ Stage(m) = "new" /\ Stage(m)' = "lost"
         \/ /\ m \in hurt /\ Stage(m) \in {"answered", "turned", "ignored"}
            /\ Stage(m)' \in {"held", "turned"}
  PROVE  Kept
<1>1. \A s : Stage(m)' = s => Promise!Move({m}, s)
  BY DEF Promise!Move
<1>2. CASE Stage(m) = "new" /\ Stage(m)' \in {"held", "turned"}
  <2>1. Promise!Take(m)
    BY <1>1, <1>2 DEF Promise!Take, Promise!In
  <2> QED BY <2>1 DEF Kept, Promise!Next
<1>3. CASE m \in hurt /\ Stage(m) = "new" /\ Stage(m)' = "lost"
  <2>1. Promise!Aftermath(m)
    BY <1>1, <1>3 DEF Promise!Aftermath, Promise!In
  <2> QED BY <2>1 DEF Kept, Promise!Next
<1>4. CASE /\ m \in hurt /\ Stage(m) \in {"answered", "turned", "ignored"}
           /\ Stage(m)' \in {"held", "turned"}
  <2>1. Promise!Aftermath(m)
    BY <1>1, <1>4 DEF Promise!Aftermath, Promise!Conclusions
  <2> QED BY <2>1 DEF Kept, Promise!Next
<1> QED BY <1>2, <1>3, <1>4

\* Held messages are concluded alike.
LEMMA ConcludeStep ==
  ASSUME hurt' = hurt, NEW how \in {"answered", "turned", "ignored"},
         \A m \in Messages : \/ Stage(m)' = Stage(m)
                             \/ Stage(m) = "held" /\ Stage(m)' = how
  PROVE  Kept
<1> DEFINE S == {m \in Messages : Stage(m) = "held" /\ Stage(m)' = how}
<1>1. S \in SUBSET Promise!In("held")
  BY DEF Promise!In
<1>2. Promise!Move(S, how)
  BY DEF Promise!Move
<1>3. CASE S = {}
  BY <1>3, StutterStep
<1>4. CASE S # {}
  <2>1. Promise!Conclude
    BY <1>1, <1>2, <1>4 DEF Promise!Conclude, Promise!Conclusions
  <2> QED BY <2>1 DEF Kept, Promise!Next
<1> QED BY <1>3, <1>4

\* A fault meets messages.
LEMMA FaultStep ==
  ASSUME hurt \subseteq hurt',
         \A m \in Messages :
           \/ Stage(m)' = Stage(m)
           \/ /\ m \in hurt' /\ Stage(m) \in {"new", "held"}
              /\ Stage(m)' \in {"new", "lost"}
           \/ /\ m \in hurt /\ Stage(m) = "held"
              /\ Stage(m)' \in {"answered", "turned", "ignored"}
  PROVE  Kept
<1>1. Promise!Fault
  BY DEF Promise!Fault, Promise!Conclusions
<1> QED BY <1>1 DEF Kept, Promise!Next

\* Held, in terms of the places of a message; also after a step.
LEMMA HeldIs ==
  ASSUME NEW m \in Messages
  PROVE  /\ Held(m) <=> \/ handler[m] # "none" \/ m \in Range(buf)
                        \/ \E b \in Messages : burst[b].pc \in {"lock", "ai"} /\ m \in Texts(b)
         /\ Held(m)' <=> \/ handler'[m] # "none" \/ m \in Range(buf')
                         \/ \E b \in Messages : burst'[b].pc \in {"lock", "ai"} /\ m \in Texts(b)'
BY DEF Held, InBurst, Texts

\* A message stays where it is for the customer.
LEMMA StageFrame ==
  ASSUME NEW m \in Messages, told'[m] = told[m], tg'[m] = tg[m],
         Held(m)' <=> Held(m)
  PROVE  Stage(m)' = Stage(m)
BY DEF Stage

\* At the door: a message is taken, turned away, or acknowledged a second time.
LEMMA DoorKept ==
  ASSUME IInv, NEW x \in Messages, Repeated(x) \/ Admit(x) \/ TurnAway(x)
  PROVE  Kept
<1>0. /\ tg \in [Messages -> {"unsent", "queued", "acked"}]
      /\ handler \in [Messages -> {"none", "found", "missing", "ai"}]
      /\ told \in [Messages -> {"none", "answered", "turned", "ignored"}] /\ TypeOK
  BY DEF TypeOK, IInv
<1>1. CASE Repeated(x)
  <2>1. /\ Answer200(x) /\ x \in Range(seen) /\ tg[x] = "queued"
        /\ UNCHANGED <<seen, handler, buf, burst, turns, told, kind, hurt>>
    BY <1>1 DEF Repeated, Debouncing, Unhurt
  <2>2. \A m \in Messages : Held(m)' <=> Held(m)
    BY <2>1 DEF Held, InBurst
  <2>3. \A m \in Messages : m # x => Stage(m)' = Stage(m)
    BY <1>0, <2>1, <2>2, AnswerFacts, StageFrame
  <2>4. x \notin hurt => Held(x) \/ told[x] # "none"
    BY <2>1, HeldIs DEF IInv, Places, Place, SeenIsServed
  <2>5. \/ Stage(x)' = Stage(x)
        \/ x \in hurt /\ Stage(x) = "new" /\ Stage(x)' = "lost"
    BY <2>1, <2>2, <2>4 DEF Stage
  <2>6. CASE Stage(x)' = Stage(x) BY <2>1, <2>3, <2>6, StutterStep
  <2>7. CASE x \in hurt /\ Stage(x) = "new" /\ Stage(x)' = "lost"
    BY <2>1, <2>3, <2>7, OneMoves
  <2> QED BY <2>5, <2>6, <2>7
<1>2. CASE Admit(x) \/ TurnAway(x)
  <2>1. /\ Delivered(x) /\ UNCHANGED <<buf, burst, turns, kind>>
        /\ x \notin Range(seen) /\ tg[x] # "acked" /\ handler[x] = "none" /\ hurt \subseteq hurt'
    BY <1>2 DEF Admit, TurnAway, Delivered, Debouncing
  <2>2. /\ \A m \in Messages : m # x =>
             /\ tg'[m] = tg[m] /\ handler'[m] = handler[m] /\ told'[m] = told[m]
        /\ \/ handler'[x] # "none" /\ told'[x] = told[x]
           \/ handler'[x] = "none" /\ told'[x] = "turned"
    <3>1. CASE Admit(x)
      <4>1. /\ handler' = [handler EXCEPT ![x] = IF row.saved THEN "found" ELSE "missing"]
            /\ tg' = [tg EXCEPT ![x] = "queued"] /\ told' = told
        BY <3>1 DEF Admit
      <4>2. handler'[x] # "none"
        BY <1>0, <4>1
      <4>3. \A m \in Messages : m # x => tg'[m] = tg[m] /\ handler'[m] = handler[m]
        BY <1>0, <4>1
      <4> QED BY <4>1, <4>2, <4>3
    <3>2. CASE TurnAway(x)
      <4>1. /\ handler' = handler /\ Answer200(x)
            /\ \A m \in Messages : told'[m] = IF m = x THEN "turned" ELSE told[m]
        BY <3>2 DEF TurnAway, Tell
      <4> QED BY <1>0, <2>1, <4>1, AnswerFacts
    <3> QED BY <1>2, <3>1, <3>2
  <2>3. \A m \in Messages : m # x => Stage(m)' = Stage(m)
    <3> SUFFICES ASSUME NEW m \in Messages, m # x PROVE Stage(m)' = Stage(m)
      OBVIOUS
    <3>1. Held(m)' <=> Held(m)
      BY <2>1, <2>2 DEF Held, InBurst
    <3> QED BY <2>2, <3>1, StageFrame
  <2>4. Stage(x)' \in {"held", "turned"}
    BY <2>2 DEF Stage, Held
  <2>5. CASE x \notin hurt
    <3>1. Untouched(x)
      BY <2>1, <2>5 DEF IInv, Places, Place, FirstTime
    <3>2. Stage(x) = "new"
      BY <2>1, <3>1, HeldIs DEF Stage, Untouched
    <3> QED BY <2>1, <2>3, <2>4, <3>2, OneMoves
  <2>6. CASE x \in hurt
    <3>1. Stage(x) \in {"held", "new", "answered", "turned", "ignored"}
      BY <1>0, <2>1 DEF Stage
    <3>2. CASE Stage(x) = "held"
      <4>1. Stage(x)' = "held"
        <5>1. Held(x) BY <1>0, <3>2 DEF Stage
        <5>2. Held(x)' BY <2>1, <5>1 DEF Held, InBurst
        <5> QED BY <5>2 DEF Stage
      <4> QED BY <2>1, <2>3, <3>2, <4>1, FaultStep
    <3>3. CASE Stage(x) # "held"
      BY <2>1, <2>3, <2>4, <2>6, <3>1, <3>3, OneMoves
    <3> QED BY <3>2, <3>3
  <2> QED BY <2>5, <2>6
<1> QED BY <1>1, <1>2

\* In the handlers: a message goes on to the buffer, is concluded, or goes back.
LEMMA HandlersKept ==
  ASSUME IInv, NEW x \in Messages, Handle(x) \/ HandlerRaises(x)
  PROVE  Kept
<1>0. /\ tg \in [Messages -> {"unsent", "queued", "acked"}]
      /\ handler \in [Messages -> {"none", "found", "missing", "ai"}]
      /\ told \in [Messages -> {"none", "answered", "turned", "ignored"}]
      /\ buf \in Seq(Messages) /\ TypeOK
  BY DEF TypeOK, IInv
<1>1. handler[x] # "none" /\ UNCHANGED burst
  BY DEF Handle, HandlerRaises, InsertTwice, Enter, EnterMedia, HasRow, FinishPhoto,
         Transcribed, NotTranscribed, CommitMedia
<1>2. Stage(x) = "held"
  BY <1>1 DEF Stage, Held
<1>3. x \notin hurt => Untouched(x)
  BY <1>1 DEF IInv, Places, Place, HandledOnce
<1>4. CASE InsertTwice(x) \/ HandlerRaises(x)
  <2>1. /\ hurt' = hurt \cup {x} /\ handler' = [handler EXCEPT ![x] = "none"]
        /\ UNCHANGED <<tg, buf, told>>
    BY <1>4 DEF InsertTwice, HandlerRaises, Debouncing
  <2>2. \A m \in Messages : m # x => Stage(m)' = Stage(m)
    <3> SUFFICES ASSUME NEW m \in Messages, m # x PROVE Stage(m)' = Stage(m)
      OBVIOUS
    <3>1. Held(m)' <=> Held(m)
      BY <1>0, <1>1, <2>1 DEF Held, InBurst
    <3> QED BY <2>1, <3>1, StageFrame
  <2>3. \/ Stage(x)' \in {"held", "new", "lost"}
        \/ x \in hurt /\ Stage(x)' \in {"answered", "turned", "ignored"}
    BY <1>0, <1>3, <2>1 DEF Stage, Untouched
  <2> QED BY <1>2, <2>1, <2>2, <2>3, FaultStep
<1>5. CASE EnterMedia(x)
  <2>1. /\ handler' = [handler EXCEPT ![x] = "ai"] /\ UNCHANGED <<tg, buf, told, hurt>>
    BY <1>5 DEF EnterMedia, Debouncing, Faultless, Unhurt
  <2>2. \A m \in Messages : Held(m)' <=> Held(m)
    BY <1>0, <1>1, <2>1 DEF Held, InBurst
  <2> QED BY <2>1, <2>2, StageFrame, StutterStep
<1>6. CASE Enter(x) \/ FinishPhoto(x) \/ Transcribed(x) \/ NotTranscribed(x)
  <2>1. /\ handler' = [handler EXCEPT ![x] = "none"] /\ Answer200(x) /\ hurt' = hurt
    BY <1>6 DEF Enter, FinishPhoto, Transcribed, NotTranscribed, CommitMedia, Return, Unhurt
  <2>2. \/ Schedule(x) /\ told' = told
        \/ Tell({x}, "turned") /\ UNCHANGED Debouncing
        \/ Tell({x}, "answered") /\ UNCHANGED Debouncing
    BY <1>6 DEF Enter, FinishPhoto, Transcribed, NotTranscribed
  <2>3. /\ \A m \in Messages : m # x =>
             /\ told'[m] = told[m]
             /\ m \in Range(buf') <=> m \in Range(buf)
        /\ x \in Range(buf') \/ told'[x] \in {"answered", "turned"}
    <3>1. CASE Schedule(x) /\ told' = told
      BY <1>0, <3>1, RangeAppend DEF Schedule
    <3>2. CASE Tell({x}, "turned") /\ UNCHANGED Debouncing
      BY <3>2 DEF Tell, Debouncing
    <3>3. CASE Tell({x}, "answered") /\ UNCHANGED Debouncing
      BY <3>3 DEF Tell, Debouncing
    <3> QED BY <2>2, <3>1, <3>2, <3>3
  <2>4. \A m \in Messages : m # x => Stage(m)' = Stage(m)
    <3> SUFFICES ASSUME NEW m \in Messages, m # x PROVE Stage(m)' = Stage(m)
      OBVIOUS
    <3>1. tg'[m] = tg[m] /\ handler'[m] = handler[m]
      BY <1>0, <2>1, AnswerFacts
    <3>2. Held(m)' <=> Held(m)
      BY <1>1, <2>3, <3>1 DEF Held, InBurst
    <3> QED BY <2>3, <3>1, <3>2, StageFrame
  <2>5. Stage(x)' \in {"held", "answered", "turned"}
    BY <2>3 DEF Stage, Held
  <2> QED BY <1>2, <2>1, <2>4, <2>5, ConcludeStep
<1> QED BY <1>4, <1>5, <1>6 DEF Handle

\* The task takes the buffer: its texts stay held, or are concluded.
LEMMA FireKept ==
  ASSUME IInv, NEW b \in Messages, Fire(b)
  PROVE  Kept
<1>0. TypeOK /\ RowInv BY DEF IInv, RowInv
<1>1. /\ buf' = <<>> /\ UNCHANGED <<tg, handler, hurt>> /\ burst[b].pc = "none"
      /\ Range(buf') = {}
  BY RangeEmpty DEF Fire, Faultless, Unhurt
<1>2. CASE burst' = [burst EXCEPT ![b].pc = "lock", ![b].texts = buf] /\ UNCHANGED told
  <2>1. \A c \in Messages :
             /\ burst'[c].pc = IF c = b THEN "lock" ELSE burst[c].pc
             /\ Texts(c)' = IF c = b THEN Range(buf) ELSE Texts(c)
    BY <1>0, <1>2, BurstTakes
  <2>2. ASSUME NEW m \in Messages PROVE Stage(m)' = Stage(m)
    <3>1. (\E c \in Messages : burst'[c].pc \in {"lock", "ai"} /\ m \in Texts(c)') <=>
             \/ m \in Range(buf)
             \/ \E c \in Messages : burst[c].pc \in {"lock", "ai"} /\ m \in Texts(c)
      BY <1>1, <2>1
    <3>2. Held(m)' <=> Held(m)
      BY <1>1, <3>1, HeldIs
    <3> QED BY <1>1, <1>2, <3>2, StageFrame
  <2> QED BY <1>1, <2>2, StutterStep
<1>3. ASSUME NEW what \in {"ignored", "turned"}, burst' = burst, Tell(Range(buf), what)
      PROVE  Kept
  <2>1. ASSUME NEW m \in Messages
        PROVE  \/ Stage(m)' = Stage(m)
               \/ Stage(m) = "held" /\ Stage(m)' = what
    <3>1. told'[m] = IF m \in Range(buf) THEN what ELSE told[m]
      BY <1>3 DEF Tell
    <3>2. CASE m \in Range(buf)
      BY <3>1, <3>2 DEF Stage, Held
    <3>3. CASE m \notin Range(buf)
      <4>1. Held(m)' <=> Held(m) BY <1>1, <1>3, <3>3 DEF Held, InBurst
      <4> QED BY <1>1, <3>1, <3>3, <4>1, StageFrame
    <3> QED BY <3>2, <3>3
  <2> QED BY <1>1, <2>1, ConcludeStep
<1> QED BY <1>2, <1>3 DEF Fire

\* A burst that works on: its texts are held until they are concluded, and a
\* fault meets all of them.
LEMMA BurstsKept ==
  ASSUME IInv, NEW b \in Messages,
         \/ Prepare(b) \/ Unserved(b) \/ GivenUp(b) \/ Reply(b) \/ Settle(b)
         \/ NothingToAsk(b) \/ AskBack(b) \/ TaskRaises(b)
  PROVE  Kept
<1>0. TypeOK /\ told \in [Messages -> {"none", "answered", "turned", "ignored"}]
  BY DEF IInv, TypeOK
<1>1. UNCHANGED <<tg, handler, buf>>
  BY DEF Prepare, Unserved, GivenUp, TurnBurst, Reply, Settle, NothingToAsk, AskBack,
         TaskRaises, BurstOnly, Debouncing
<1>2. CASE Prepare(b)
  <2>1. UNCHANGED <<told, hurt>> /\ burst[b].pc = "lock"
    BY <1>2 DEF Prepare, BurstOnly, Faultless, Unhurt
  <2>2. \A c \in Messages :
           /\ burst'[c].pc = IF c = b THEN "ai" ELSE burst[c].pc
           /\ Texts(c)' = Texts(c)
    BY <1>0, <1>2, BurstAsks DEF Prepare
  <2>3. \A m \in Messages : Held(m)' <=> Held(m)
    BY <1>1, <2>1, <2>2, HeldIs
  <2> QED BY <1>1, <2>1, <2>3, StageFrame, StutterStep
<1>3. CASE Settle(b)
  <2>1. UNCHANGED <<told, hurt>> /\ burst[b].pc = "sent"
    BY <1>3 DEF Settle, BurstOnly, Faultless, Unhurt
  <2>2. /\ burst'[b].pc \in {"none", "detect"} /\ Texts(b)' = {}
        /\ \A c \in Messages : c # b => burst'[c].pc = burst[c].pc /\ Texts(c)' = Texts(c)
    BY <1>0, <1>3, BurstEnds DEF Settle
  <2>3. \A m \in Messages : Held(m)' <=> Held(m)
    BY <1>1, <2>1, <2>2, HeldIs
  <2> QED BY <1>1, <2>1, <2>3, StageFrame, StutterStep
<1>8. CASE NothingToAsk(b) \/ AskBack(b)
  <2>1. UNCHANGED <<told, hurt>> /\ burst[b].pc = "detect"
    BY <1>8 DEF NothingToAsk, AskBack, BurstOnly, Faultless, Unhurt
  <2>2. /\ burst'[b].pc \in {"none", "detect"} /\ Texts(b)' = {}
        /\ \A c \in Messages : c # b => burst'[c].pc = burst[c].pc /\ Texts(c)' = Texts(c)
    BY <1>0, <1>8, BurstEnds DEF NothingToAsk, AskBack
  <2>3. \A m \in Messages : Held(m)' <=> Held(m)
    BY <1>1, <2>1, <2>2, HeldIs
  <2> QED BY <1>1, <2>1, <2>3, StageFrame, StutterStep
<1>4. ASSUME NEW how \in {"answered", "turned"}, Tell(Texts(b), how), hurt' = hurt,
             burst[b].pc \in {"lock", "ai"},
             \A c \in Messages : c # b =>
                burst'[c].pc = burst[c].pc /\ Texts(c)' = Texts(c),
             burst'[b].pc \notin {"lock", "ai"}
      PROVE  Kept
  <2>1. ASSUME NEW m \in Messages
        PROVE  \/ Stage(m)' = Stage(m)
               \/ Stage(m) = "held" /\ Stage(m)' = how
    <3>1. told'[m] = IF m \in Texts(b) THEN how ELSE told[m]
      BY <1>4 DEF Tell
    <3>2. CASE m \in Texts(b)
      <4>1. Held(m) BY <1>4, <3>2, HeldIs
      <4> QED BY <3>1, <3>2, <4>1 DEF Stage
    <3>3. CASE m \notin Texts(b)
      <4>1. (\E c \in Messages : burst'[c].pc \in {"lock", "ai"} /\ m \in Texts(c)') <=>
              \E c \in Messages : burst[c].pc \in {"lock", "ai"} /\ m \in Texts(c)
        BY <1>4, <3>3
      <4>2. Held(m)' <=> Held(m) BY <1>1, <4>1, HeldIs
      <4> QED BY <1>1, <3>1, <3>3, <4>2, StageFrame
    <3> QED BY <3>2, <3>3
  <2> QED BY <1>4, <2>1, ConcludeStep
<1>5. CASE Unserved(b) \/ GivenUp(b)
  <2>1. Tell(Texts(b), "turned") /\ hurt' = hurt /\ burst[b].pc \in {"lock", "ai"}
    BY <1>5 DEF Unserved, GivenUp, TurnBurst, BurstOnly, Faultless, Unhurt
  <2>2. /\ burst'[b].pc \in {"none", "detect"} /\ Texts(b)' = {}
        /\ \A c \in Messages : c # b => burst'[c].pc = burst[c].pc /\ Texts(c)' = Texts(c)
    BY <1>0, <1>5, BurstEnds DEF Unserved, GivenUp, TurnBurst
  <2> QED BY <1>4, <2>1, <2>2
<1>6. CASE Reply(b)
  <2>1. Tell(Texts(b), "answered") /\ hurt' = hurt /\ burst[b].pc \in {"lock", "ai"}
    BY <1>6 DEF Reply, BurstOnly, Faultless, Unhurt
  <2>2. \A c \in Messages :
           /\ burst'[c].pc = IF c = b THEN "sent" ELSE burst[c].pc
           /\ Texts(c)' = Texts(c)
    BY <1>0, <1>6, BurstSent DEF Reply
  <2> QED BY <1>4, <2>1, <2>2
<1>7. CASE TaskRaises(b)
  <2>1. hurt' = hurt \cup Texts(b) /\ told' = told
    BY <1>7 DEF TaskRaises
  <2>2. /\ burst'[b].pc \in {"none", "detect"} /\ Texts(b)' = {}
        /\ \A c \in Messages : c # b => burst'[c].pc = burst[c].pc /\ Texts(c)' = Texts(c)
    BY <1>0, <1>7, BurstEnds DEF TaskRaises
  <2>3. ASSUME NEW m \in Messages
        PROVE  \/ Stage(m)' = Stage(m)
               \/ /\ m \in hurt' /\ Stage(m) \in {"new", "held"}
                  /\ Stage(m)' \in {"new", "lost"}
               \/ /\ m \in hurt /\ Stage(m) = "held"
                  /\ Stage(m)' \in {"answered", "turned", "ignored"}
    <3>1. CASE m \in Texts(b) /\ burst[b].pc \in {"lock", "ai"}
      <4>1. Stage(m) = "held" BY <3>1, HeldIs DEF Stage
      <4>2. m \notin hurt => told[m] = "none"
        BY <3>1, OnlyInBurst DEF IInv, Places
      <4>3. \/ Stage(m)' \in {"held", "new", "lost"}
            \/ m \in hurt /\ Stage(m)' = told[m] /\ told[m] # "none"
        BY <2>1, <4>2 DEF Stage
      <4> QED BY <1>0, <2>1, <3>1, <4>1, <4>3
    <3>2. CASE ~(m \in Texts(b) /\ burst[b].pc \in {"lock", "ai"})
      <4>1. (\E c \in Messages : burst'[c].pc \in {"lock", "ai"} /\ m \in Texts(c)') <=>
              \E c \in Messages : burst[c].pc \in {"lock", "ai"} /\ m \in Texts(c)
        BY <2>2, <3>2
      <4>2. Held(m)' <=> Held(m) BY <1>1, <4>1, HeldIs
      <4> QED BY <1>1, <2>1, <4>2, StageFrame
    <3> QED BY <3>1, <3>2
  <2> QED BY <2>1, <2>3, FaultStep
<1> QED BY <1>2, <1>3, <1>5, <1>6, <1>7, <1>8

\* The webhook is set anew: what the process does not know of is lost.
LEMMA ReregisteredKept ==
  ASSUME IInv, Reregistered
  PROVE  Kept
<1>1. /\ UNCHANGED <<told, handler, buf, burst, seen>> /\ hurt \subseteq hurt'
      /\ \A m \in Messages :
           \/ tg'[m] = tg[m]
           \/ tg'[m] = "acked" /\ (m \in hurt' \/ m \in Range(seen))
  BY DEF Reregistered, DropPending, Debouncing
<1>2. ASSUME NEW m \in Messages
      PROVE  \/ Stage(m)' = Stage(m)
             \/ m \in hurt' /\ Stage(m) = "new" /\ Stage(m)' = "lost"
  <2>1. Held(m)' <=> Held(m)
    BY <1>1 DEF Held, InBurst
  <2>2. m \notin hurt /\ m \in Range(seen) => Held(m) \/ told[m] # "none"
    BY HeldIs DEF IInv, Places, Place, SeenIsServed
  <2> QED BY <1>1, <2>1, <2>2 DEF Stage
<1> QED BY <1>1, <1>2, FaultStep

\* A restart meets every message that is held or on its way.
LEMMA RestartKept ==
  ASSUME IInv, Restart
  PROVE  Kept
<1>0. /\ told \in [Messages -> {"none", "answered", "turned", "ignored"}]
      /\ tg \in [Messages -> {"unsent", "queued", "acked"}]
  BY DEF IInv, TypeOK
<1>1. hurt \cup Exposed \subseteq hurt' /\ told' = told /\ buf' = <<>>
  BY DEF Restart, DropPending
<1>2. \A m \in Messages : tg'[m] = tg[m] \/ (tg'[m] = "acked" /\ m \in hurt')
  BY DEF Restart, DropPending, Exposed
<1>3. \A m \in Messages : handler'[m] = "none" /\ burst'[m].pc = "none"
  BY DEF Restart, NoBurst, Ended
<1>4. ASSUME NEW m \in Messages
      PROVE  \/ Stage(m)' = Stage(m)
             \/ /\ m \in hurt' /\ Stage(m) \in {"new", "held"}
                /\ Stage(m)' \in {"new", "lost"}
             \/ /\ m \in hurt /\ Stage(m) = "held"
                /\ Stage(m)' \in {"answered", "turned", "ignored"}
  <2>1. ~Held(m)'
    BY <1>1, <1>3, HeldIs, RangeEmpty
  <2>2. CASE Held(m)
    <3>1. m \in hurt' /\ Stage(m) = "held"
      BY <1>1, <2>2 DEF Exposed, Stage
    <3>2. m \notin hurt => told[m] = "none"
      <4> SUFFICES ASSUME m \notin hurt PROVE told[m] = "none"
        OBVIOUS
      <4>1. Place(m) BY DEF IInv, Places
      <4>2. CASE handler[m] # "none" \/ m \in Range(buf)
        BY <4>1, <4>2 DEF Place, HandledOnce, Untouched, BufferedOnce
      <4>3. ASSUME NEW b \in Messages, burst[b].pc \in {"lock", "ai"}, m \in Texts(b)
            PROVE  told[m] = "none"
        BY <4>1, <4>3, OnlyInBurst
      <4> QED BY <2>2, <4>2, <4>3, HeldIs
    <3>3. Stage(m)' \in {"new", "lost"} \/ (told[m] # "none" /\ Stage(m)' = told[m])
      BY <1>1, <2>1 DEF Stage
    <3> QED BY <1>0, <3>1, <3>2, <3>3
  <2>3. CASE ~Held(m) /\ told[m] # "none"
    BY <1>1, <2>1, <2>3 DEF Stage
  <2>4. CASE ~Held(m) /\ told[m] = "none"
    BY <1>0, <1>1, <1>2, <2>1, <2>4 DEF Stage
  <2> QED BY <2>2, <2>3, <2>4
<1> QED BY <1>1, <1>4, FaultStep

\* Every step of the bot is a step that Inbox allows, or none.
LEMMA StepKept == IInv /\ [Next]_vars => Kept
<1> SUFFICES ASSUME IInv, [Next]_vars PROVE Kept
  OBVIOUS
<1>1. CASE UNCHANGED vars
  <2>1. \A m \in Messages : Stage(m)' = Stage(m)
    BY <1>1 DEF vars, Stage, Held, InBurst
  <2> QED BY <1>1, <2>1, StutterStep DEF vars
<1>2. ASSUME NEW m \in Messages,
             Repeated(m) \/ Admit(m) \/ TurnAway(m) \/ Handle(m) \/ Process(m)
               \/ HandlerRaises(m) \/ TaskRaises(m)
      PROVE  Kept
  BY <1>2, DoorKept, HandlersKept, FireKept, BurstsKept DEF Process
<1>3. CASE Reregistered \/ Restart
  BY <1>3, ReregisteredKept, RestartKept
<1> QED BY <1>1, <1>2, <1>3 DEF Next

\* Before the first message nothing is held.
LEMMA InitKept == Init => Promise!Init
<1> SUFFICES ASSUME Init PROVE Promise!Init
  OBVIOUS
<1>1. ASSUME NEW m \in Messages PROVE Stage(m) = "new"
  <2>1. ~Held(m)
    BY HeldIs, RangeEmpty DEF Init, NoBurst, Ended
  <2> QED BY <2>1 DEF Stage, Init
<1> QED BY <1>1 DEF Promise!Init, Init

\* The conversation implements what Inbox promises, except that no message is
\* held for ever: a message is taken, concluded once and with its burst, and
\* is lost or taken again only after a fault has met it.
THEOREM SpecKeepsPromise == Spec => Promise!Safe
BY InitKept, StepKept, SpecIInv, PTL DEF Spec, Kept, Promise!Safe

-----------------------------------------------------------------------------
\* Throttle: how long a text lies in the buffer, for any delays and limits.

\* Some text that the limiter has let through and still counts came when the
\* buffer was at most MaxWait old, and each one after it has put the answer off
\* by MinDelay at most.
Excused ==
  \E j \in 1..Len(window) :
    /\ age - window[j] <= MaxWait
    /\ delay + window[j] <= MinDelay * (Len(window) - j + 1)

\* The inductive invariant: the buffer is empty, or will be taken in time, or is
\* excused.
WaitInv ==
  /\ window \in Seq(Nat) /\ Len(window) <= MaxMessages
  /\ \/ age = None /\ delay = None
     \/ age \in Nat /\ delay \in Nat /\ (age + delay <= MaxWait \/ Excused)

\* More texts, more delay.
LEMMA TimesMonotone ==
  ASSUME NEW m \in Nat, NEW n \in Nat, NEW k \in Nat, n <= k
  PROVE  m * n <= m * k /\ m * n \in Nat /\ m * (n + 1) = m * n + m
<1>1. PICK d \in Nat : k = n + d
  <2>1. k - n \in Nat /\ k = n + (k - n)
    OBVIOUS
  <2> QED BY <2>1
<1>2. m * k = m * n + m * d /\ m * d \in Nat /\ m * n \in Nat
  BY <1>1
<1>3. m * (n + 1) = m * n + m
  OBVIOUS
<1> QED BY <1>2, <1>3

\* The entries that excuse a buffer are young enough to be counted.
LEMMA ExcusesCount ==
  ASSUME NEW n \in Nat, n <= MaxMessages
  PROVE  MinDelay * n \in Nat /\ MinDelay * n <= Window
         /\ MinDelay * n <= MinDelay * MaxMessages
<1>1. MinDelay \in Nat /\ MaxMessages \in Nat /\ Window \in Nat
  BY DelaysAreOrdered, LimitsArePositive
<1>2. MinDelay * n <= MinDelay * MaxMessages /\ MinDelay * n \in Nat
  BY <1>1, TimesMonotone
<1>3. MinDelay * MaxMessages \in Nat /\ MinDelay * MaxMessages <= Window
  BY <1>1, TimesMonotone, BurstsFitTheWindow
<1> QED BY <1>1, <1>2, <1>3

\* A set of positions has a first one.
LEMMA FirstPosition ==
  ASSUME NEW n \in Nat, NEW C \in SUBSET (1..n), C # {}
  PROVE  Min(C) \in C /\ \A i \in C : Min(C) <= i
<1> DEFINE Before(i) == 1..(i - 1)
           B == {Before(i) : i \in C}
<1>1. IsFiniteSet(1..n)
  BY FS_Interval
<1>2. B \subseteq FiniteSubsetsOf(1..n) /\ B # {}
  <2>1. ASSUME NEW i \in C PROVE Before(i) \in SUBSET (1..n)
    OBVIOUS
  <2>2. B \in SUBSET SUBSET (1..n) /\ B # {}
    BY <2>1
  <2> HIDE DEF B
  <2> QED BY <1>1, <2>2, FS_Subset DEF FiniteSubsetsOf
<1>3. PICK T \in B : \A U \in B : ~(<<U, T>> \in StrictSubsetOrdering(1..n))
  <2> HIDE DEF B
  <2> QED BY <1>1, <1>2, FS_StrictSubsetOrderingWellFounded, WFMin
<1>4. PICK k \in C : T = Before(k)
  OBVIOUS
<1>5. ASSUME NEW i \in C PROVE k <= i
  <2> SUFFICES ASSUME i < k PROVE FALSE
    OBVIOUS
  <2>1. Before(i) \in B /\ Before(i) \subseteq T /\ Before(i) # T
    <3>1. i \in Before(k) /\ i \notin Before(i) /\ Before(i) \subseteq Before(k)
      OBVIOUS
    <3> QED BY <1>4, <3>1
  <2>2. Before(i) \in SUBSET (1..n) /\ T \in SUBSET (1..n)
    BY <1>4
  <2> HIDE DEF B, Before
  <2> QED BY <1>3, <2>1, <2>2 DEF StrictSubsetOrdering
<1> QED BY <1>5 DEF Min

\* What check_and_record keeps is a suffix that holds every entry young enough.
LEMMA FreshKeeps ==
  ASSUME window \in Seq(Nat)
  PROVE  \E d \in 0..Len(window) :
           /\ Fresh \in Seq(Nat) /\ Len(Fresh) = Len(window) - d
           /\ \A i \in 1..Len(Fresh) : Fresh[i] = window[i + d]
           /\ \A j \in 1..Len(window) : window[j] <= Window => j > d
<1> DEFINE n == Len(window)
           C == {i \in DOMAIN window : window[i] <= Window} \cup {n + 1}
           m == Min(C)
<1>1. n \in Nat /\ DOMAIN window = 1..n
  OBVIOUS
<1>2. C \in SUBSET (1..(n + 1)) /\ C # {}
  BY <1>1
<1>3. m \in C /\ \A i \in C : m <= i
  <2> HIDE DEF C
  <2>1. n + 1 \in Nat
    BY <1>1
  <2>2. Min(C) \in C /\ \A i \in C : Min(C) <= i
    BY <1>2, <2>1, FirstPosition
  <2> QED BY <2>2
<1>4. m \in 1..(n + 1) /\ Fresh = SubSeq(window, m, n)
  BY <1>2, <1>3 DEF Fresh
<1>5. \A j \in 1..n : window[j] <= Window => m <= j
  BY <1>1, <1>3
<1> HIDE DEF m, C
<1>6. /\ Fresh \in Seq(Nat) /\ Len(Fresh) = n - (m - 1)
      /\ \A i \in 1..Len(Fresh) : Fresh[i] = window[i + (m - 1)]
  BY <1>1, <1>4, SubSeqProperties
<1>7. m - 1 \in 0..n
  BY <1>1, <1>4
<1>8. \A j \in 1..n : window[j] <= Window => j > m - 1
  BY <1>1, <1>4, <1>5
<1> QED BY <1>6, <1>7, <1>8

\* A text that the limiter lets through.
LEMMA ArriveWait == ASSUME WaitInv, Arrive PROVE WaitInv'
<1> USE DelaysAreOrdered, LimitsArePositive
<1>1. PICK d \in 0..Len(window) :
        /\ Fresh \in Seq(Nat) /\ Len(Fresh) = Len(window) - d
        /\ \A i \in 1..Len(Fresh) : Fresh[i] = window[i + d]
        /\ \A j \in 1..Len(window) : window[j] <= Window => j > d
  BY FreshKeeps DEF WaitInv
<1>2. /\ window \in Seq(Nat) /\ Len(window) \in Nat /\ Len(Fresh) < MaxMessages
      /\ window' = Append(Fresh, 0) /\ age' = Greatest(age, 0) /\ delay' = Delay(age')
  BY DEF WaitInv, Arrive, WithinRate
<1>3. /\ window' \in Seq(Nat) /\ Len(window') = Len(Fresh) + 1 /\ Len(window') <= MaxMessages
      /\ \A i \in 1..Len(Fresh) : window'[i] = Fresh[i]
      /\ window'[Len(Fresh) + 1] = 0
  BY <1>1, <1>2
<1>4. age' \in Nat /\ (age \in Nat => age' = age) /\ (age = None => age' = 0)
  BY <1>2 DEF WaitInv, Greatest, None
<1>5. /\ delay' \in Nat
      /\ age' + delay' <= MaxWait \/ delay' <= MinDelay
  BY <1>2, <1>4 DEF Delay, Least, Greatest
<1>6. CASE age' + delay' <= MaxWait
  BY <1>3, <1>4, <1>5, <1>6 DEF WaitInv
<1>7. CASE age' <= MaxWait /\ delay' <= MinDelay
  <2>1. Len(Fresh) + 1 \in 1..Len(window') /\ Len(window') - (Len(Fresh) + 1) + 1 = 1
    BY <1>1, <1>2, <1>3
  <2>2. MinDelay * 1 = MinDelay
    OBVIOUS
  <2>3. Excused'
    BY <1>3, <1>4, <1>5, <1>7, <2>1, <2>2 DEF Excused
  <2> QED BY <1>3, <1>4, <1>5, <2>3 DEF WaitInv
<1>8. CASE age' > MaxWait /\ delay' <= MinDelay
  <2>1. age \in Nat /\ delay \in Nat /\ age' = age /\ Excused
    BY <1>4, <1>8 DEF WaitInv
  <2>2. PICK j \in 1..Len(window) :
          /\ age - window[j] <= MaxWait
          /\ delay + window[j] <= MinDelay * (Len(window) - j + 1)
    BY <2>1 DEF Excused
  <2> DEFINE n == Len(window) - j + 1
  <2>3. n \in Nat /\ n <= MaxMessages /\ window[j] \in Nat
    BY <1>2 DEF WaitInv
  <2>4. /\ MinDelay * n \in Nat /\ MinDelay * n <= Window
        /\ MinDelay * (n + 1) = MinDelay * n + MinDelay
    BY <2>3, ExcusesCount, TimesMonotone
  <2>5. window[j] <= MinDelay * n
    <3>1. delay + window[j] <= MinDelay * n
      BY <2>2
    <3> HIDE DEF n
    <3> QED BY <2>1, <2>3, <2>4, <3>1
  <2>6. window[j] <= Window
    <3> HIDE DEF n
    <3> QED BY <2>3, <2>4, <2>5
  <2>7. j > d
    BY <1>1, <2>6
  <2> DEFINE i == j - d
  <2>8. i \in 1..Len(Fresh) /\ i \in 1..Len(window') /\ Len(window') - i + 1 = n + 1
    <3> DEFINE k == Len(window)
    <3>1. k \in Nat /\ d \in 0..k /\ j \in 1..k /\ Len(Fresh) = k - d /\ Len(window') = k - d + 1
      BY <1>1, <1>2, <1>3
    <3> HIDE DEF k
    <3>2. i \in 1..(k - d) /\ i \in 1..(k - d + 1) /\ k - d + 1 - i + 1 = k - j + 1 + 1
      BY <2>7, <3>1
    <3> QED BY <3>1, <3>2 DEF k
  <2>9. window'[i] = window[j]
    <3>1. i + d = j
      BY <2>7
    <3>2. window'[i] = Fresh[i] /\ Fresh[i] = window[i + d]
      BY <1>1, <1>3, <2>8
    <3> QED BY <3>1, <3>2
  <2>10. delay' + window'[i] <= MinDelay * (Len(window') - i + 1)
    <3>1. MinDelay * (Len(window') - i + 1) = MinDelay * n + MinDelay
      BY <2>4, <2>8
    <3> HIDE DEF n, i
    <3> QED BY <1>5, <1>8, <2>3, <2>4, <2>5, <2>9, <3>1
  <2>11. age' - window'[i] <= MaxWait
    BY <2>1, <2>2, <2>9
  <2> HIDE DEF n, i
  <2>12. Excused'
    BY <2>8, <2>10, <2>11 DEF Excused
  <2> QED BY <1>3, <1>4, <1>5, <2>12 DEF WaitInv
<1>9. age' <= MaxWait \/ age' > MaxWait
  BY <1>4
<1> QED BY <1>5, <1>6, <1>7, <1>8, <1>9

\* A text that it refuses: what excuses the buffer is still counted.
LEMMA RefuseWait == ASSUME WaitInv, Refuse PROVE WaitInv'
<1> USE DelaysAreOrdered, LimitsArePositive
<1>1. PICK d \in 0..Len(window) :
        /\ Fresh \in Seq(Nat) /\ Len(Fresh) = Len(window) - d
        /\ \A i \in 1..Len(Fresh) : Fresh[i] = window[i + d]
        /\ \A j \in 1..Len(window) : window[j] <= Window => j > d
  BY FreshKeeps DEF WaitInv
<1>2. /\ window \in Seq(Nat) /\ Len(window) \in Nat /\ Len(window) <= MaxMessages
      /\ window' = Fresh /\ age' = age /\ delay' = delay
  BY DEF WaitInv, Refuse
<1>3. window' \in Seq(Nat) /\ Len(window') <= MaxMessages
  BY <1>1, <1>2
<1>4. ASSUME Excused, age \in Nat, delay \in Nat PROVE Excused'
  <2>2. PICK j \in 1..Len(window) :
          /\ age - window[j] <= MaxWait
          /\ delay + window[j] <= MinDelay * (Len(window) - j + 1)
    BY <1>4 DEF Excused
  <2> DEFINE n == Len(window) - j + 1
  <2>3. n \in Nat /\ n <= MaxMessages /\ window[j] \in Nat
    BY <1>2
  <2>4. MinDelay * n \in Nat /\ MinDelay * n <= Window
    BY <2>3, ExcusesCount
  <2>5. window[j] <= Window
    <3>1. delay + window[j] <= MinDelay * n
      BY <2>2
    <3> HIDE DEF n
    <3> QED BY <1>4, <2>3, <2>4, <3>1
  <2>6. j > d
    BY <1>1, <2>5
  <2> DEFINE i == j - d
  <2>7. i \in 1..Len(window') /\ Len(window') - i + 1 = n
    <3>1. Len(window') = Len(window) - d
      BY <1>1, <1>2
    <3> QED BY <1>2, <2>6, <3>1
  <2>8. window'[i] = window[j]
    <3>1. i + d = j
      BY <2>6
    <3> QED BY <1>1, <1>2, <2>7, <3>1
  <2> HIDE DEF i
  <2> QED BY <1>2, <2>2, <2>7, <2>8 DEF Excused
<1> QED BY <1>2, <1>3, <1>4 DEF WaitInv

\* A tick moves the age of the buffer and those of the entries together.
LEMMA TickWait == ASSUME WaitInv, Tick PROVE WaitInv'
<1> USE DelaysAreOrdered, LimitsArePositive
<1>1. /\ window \in Seq(Nat) /\ Len(window) \in Nat /\ Len(window) <= MaxMessages
      /\ window' = [i \in DOMAIN window |-> Least(window[i] + 1, Window + 1)]
      /\ delay # 0 /\ age' = (IF age = None THEN None ELSE age + 1)
      /\ delay' = (IF delay = None THEN None ELSE delay - 1)
  BY DEF WaitInv, Tick
<1>2. /\ window' \in Seq(Nat) /\ Len(window') = Len(window)
      /\ \A j \in 1..Len(window) : window'[j] = Least(window[j] + 1, Window + 1)
  <2>1. \A i \in 1..Len(window) : Least(window[i] + 1, Window + 1) \in Nat
    BY <1>1 DEF Least
  <2>2. DOMAIN window = 1..Len(window)
    BY <1>1
  <2>3. window' \in [1..Len(window) -> Nat]
    BY <1>1, <2>1, <2>2
  <2>4. window' \in Seq(Nat) /\ Len(window') = Len(window)
    BY <1>1, <2>3, SeqDef
  <2> QED BY <1>1, <2>2, <2>4
<1>3. CASE age = None /\ delay = None
  BY <1>1, <1>2, <1>3 DEF WaitInv
<1>4. CASE age \in Nat /\ delay \in Nat
  <2>1. age' = age + 1 /\ delay' = delay - 1 /\ age' \in Nat /\ delay' \in Nat
    BY <1>1, <1>4 DEF None
  <2>2. CASE age + delay <= MaxWait
    BY <1>1, <1>2, <1>4, <2>1, <2>2 DEF WaitInv
  <2>3. CASE Excused
    <3>1. PICK j \in 1..Len(window) :
            /\ age - window[j] <= MaxWait
            /\ delay + window[j] <= MinDelay * (Len(window) - j + 1)
      BY <2>3 DEF Excused
    <3> DEFINE n == Len(window) - j + 1
    <3>2. n \in Nat /\ n <= MaxMessages /\ window[j] \in Nat
      BY <1>1
    <3>3. MinDelay * n \in Nat /\ MinDelay * n <= Window
      BY <3>2, ExcusesCount
    <3>4. delay + window[j] <= MinDelay * n
      BY <3>1
    <3> HIDE DEF n
    <3>5. window[j] <= Window
      BY <1>4, <3>2, <3>3, <3>4
    <3>6. window'[j] = window[j] + 1
      BY <1>2, <3>2, <3>5 DEF Least
    <3>7. age' - window'[j] <= MaxWait /\ delay' + window'[j] <= MinDelay * n
      BY <1>4, <2>1, <3>1, <3>2, <3>3, <3>4, <3>6
    <3>8. Excused'
      BY <1>2, <3>7 DEF Excused, n
    <3> QED BY <1>1, <1>2, <2>1, <3>8 DEF WaitInv
  <2> QED BY <1>3, <1>4, <2>2, <2>3 DEF WaitInv, None
<1> QED BY <1>3, <1>4 DEF WaitInv

\* WaitInv is inductive.
LEMMA NextWait == WaitInv /\ [ThrottleNext]_tvars => WaitInv'
<1> SUFFICES ASSUME WaitInv, [ThrottleNext]_tvars PROVE WaitInv'
  OBVIOUS
<1>1. CASE window' = window /\ age' = age /\ delay' = delay
  BY <1>1 DEF WaitInv, Excused
<1>2. ASSUME NEW c \in Calls, TakeBuffer(c) PROVE WaitInv'
  BY <1>2 DEF TakeBuffer, WaitInv
<1>3. ASSUME NEW c \in Calls, Step(c) PROVE window' = window /\ age' = age /\ delay' = delay
  BY <1>3 DEF Step, Retry, Fail, Succeed
<1>4. CASE UNCHANGED tvars
  BY <1>1, <1>4 DEF tvars
<1> QED BY <1>1, <1>2, <1>3, <1>4, ArriveWait, RefuseWait, TickWait DEF ThrottleNext

\* However a customer goes on writing, a text lies in the buffer for at most
\* MaxWait and MinDelay for each text that the limiter lets through in a window:
\* _schedule_debounced_processing and check_and_record together.
THEOREM SpecBufferWaitBounded == ThrottleSpec => []BufferWaitBounded
<1>1. ThrottleInit => WaitInv
  BY LimitsArePositive DEF ThrottleInit, WaitInv
<1>2. WaitInv /\ [ThrottleNext]_tvars => WaitInv'
  BY NextWait
<1>3. WaitInv => BufferWaitBounded
  <2> SUFFICES ASSUME WaitInv PROVE age <= MaxWait + MinDelay * MaxMessages
    BY DEF BufferWaitBounded
  <2>0. /\ MaxWait \in Nat /\ MaxMessages \in Nat /\ MinDelay * MaxMessages \in Nat
        /\ window \in Seq(Nat) /\ Len(window) <= MaxMessages
    BY DelaysAreOrdered, LimitsArePositive, ExcusesCount DEF WaitInv
  <2>1. CASE age = None
    BY <2>0, <2>1 DEF None
  <2>2. CASE age \in Nat /\ delay \in Nat /\ age + delay <= MaxWait
    BY <2>0, <2>2
  <2>3. CASE age \in Nat /\ delay \in Nat /\ Excused
    <3>1. PICK j \in 1..Len(window) :
            /\ age - window[j] <= MaxWait
            /\ delay + window[j] <= MinDelay * (Len(window) - j + 1)
      BY <2>3 DEF Excused
    <3> DEFINE n == Len(window) - j + 1
    <3>2. n \in Nat /\ n <= MaxMessages /\ window[j] \in Nat
      BY <2>0
    <3>3. MinDelay * n \in Nat /\ MinDelay * n <= MinDelay * MaxMessages
      BY <3>2, ExcusesCount
    <3>4. delay + window[j] <= MinDelay * n
      BY <3>1
    <3> DEFINE x == MinDelay * n
               y == MinDelay * MaxMessages
    <3> HIDE DEF n, x, y
    <3>5. x \in Nat /\ y \in Nat /\ x <= y /\ delay + window[j] <= x
      BY <2>0, <3>3, <3>4 DEF x, y
    <3>6. age - window[j] <= MaxWait
      BY <3>1
    <3>7. age <= MaxWait + y
      <4> DEFINE z == window[j]
      <4>1. z \in Nat /\ age - z <= MaxWait /\ delay + z <= x
        BY <3>2, <3>5, <3>6
      <4> HIDE DEF z
      <4> QED BY <2>0, <2>3, <3>5, <4>1
    <3> QED BY <3>7 DEF y
  <2> QED BY <2>1, <2>2, <2>3 DEF WaitInv
<1> QED BY <1>1, <1>2, <1>3, PTL DEF ThrottleSpec
=============================================================================
