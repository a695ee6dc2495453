------------------------------ MODULE Throttle ------------------------------
(***************************************************************************)
(* The three brakes between one customer and the AI providers, with their  *)
(* time: the rate limiter in front of the shop bot, the debounce of its    *)
(* messages, and the circuit breaker of each key in the pool of AI         *)
(* services, with the retries and the fallback of a call.                  *)
(*                                                                         *)
(* Time passes in ticks. A task whose sleep is over runs before the next   *)
(* tick, but a text may still arrive, and cancel it, before it runs. The   *)
(* handler of a text takes less than a tick. A call may take any time.     *)
(***************************************************************************)
EXTENDS Integers, Sequences, FiniteSets, SequencesExt

CONSTANTS
  Debounce,     \* DEBOUNCE_SECONDS
  MaxWait,      \* MAX_BUFFER_WAIT_SECONDS
  MinDelay,     \* the least delay, 0.3 s
  MaxMessages,  \* rate_limit_max_messages
  Window,       \* rate_limit_window_seconds
  Calls,        \* tasks that are in a call at the same time
  OwnKeys,      \* the settings' own keys: the key, or the key and the fallback
  PoolKeys,     \* keys in the pool
  Threshold,    \* _CIRCUIT_FAILURE_THRESHOLD
  Cooldown,     \* _CIRCUIT_COOLDOWN_SECONDS
  MaxRetries    \* _MAX_RETRIES

ASSUME DelaysAreOrdered ==
  /\ Debounce \in Nat /\ MaxWait \in Nat /\ MinDelay \in Nat
  /\ 0 < MinDelay /\ MinDelay <= Debounce /\ Debounce <= MaxWait
ASSUME LimitsArePositive ==
  /\ MaxMessages \in Nat \ {0} /\ Threshold \in Nat \ {0}
  /\ Window \in Nat /\ Cooldown \in Nat /\ MaxRetries \in Nat
ASSUME BurstsFitTheWindow == MinDelay * MaxMessages <= Window
ASSUME KeysDiffer == Range(OwnKeys) \cap PoolKeys = {} /\ IsInjective(OwnKeys)

VARIABLES
  window,   \* the limiter's deque, as ages
  age,      \* now - _pending_started_at, of a buffer with texts; -1: empty
  delay,    \* what is left of the task's sleep; -1: no task sleeps
  call,     \* task -> its call of the AI service
  circuit   \* _circuit_states: key -> failures in a row, time until open_until

tvars == <<window, age, delay, call, circuit>>

-----------------------------------------------------------------------------
Keys == PoolKeys \cup Range(OwnKeys)
None == -1

\* todo: the services left, of which the first is being asked. pooled: the
\* breaker is used.
NoCall == [pooled |-> FALSE, attempt |-> 0, todo |-> <<>>]
Active(c) == call[c].todo # <<>>

Closed == [fails |-> 0, left |-> 0]

ThrottleInit ==
  /\ window = <<>> /\ age = None /\ delay = None
  /\ call = [c \in Calls |-> NoCall]
  /\ circuit = [k \in Keys |-> Closed]

Least(a, b) == IF a <= b THEN a ELSE b
Greatest(a, b) == IF a >= b THEN a ELSE b

-----------------------------------------------------------------------------
\* Rate limiter and debounce.

\* check_and_record: popleft while the first entry is too old.
Fresh ==
  LET kept == {i \in DOMAIN window : window[i] <= Window}
  IN  SubSeq(window, Min(kept \cup {Len(window) + 1}), Len(window))

WithinRate == Len(Fresh) < MaxMessages

\* Mutant: the cap on the waiting is forgotten.
DelayUncapped(a) == Debounce

\* _schedule_debounced_processing, for a buffer of this age.
Delay(a) == Least(Debounce, Greatest(MinDelay, MaxWait - a))

Arrive ==
  /\ WithinRate
  /\ window' = Append(Fresh, 0)
  /\ age' = Greatest(age, 0)
  /\ delay' = Delay(age')
  /\ UNCHANGED <<call, circuit>>

Refuse ==
  /\ ~WithinRate
  /\ window' = Fresh
  /\ UNCHANGED <<age, delay, call, circuit>>

-----------------------------------------------------------------------------
\* build_ai_service: which services a call tries, in which order. The settings
\* and the pool are the admin's: any keys may be set and active.

Rotation(s, i) == SubSeq(s, i, Len(s)) \o SubSeq(s, 1, i - 1)

\* The pool is empty: FallbackAiService, or the service itself.
OwnPlans ==
  {[pooled |-> FALSE, todo |-> SubSeq(OwnKeys, 1, n)] : n \in 1..Len(OwnKeys)}

\* Some key of the pool: with another one, a PooledAiService that begins at a
\* random place; alone, the service itself.
PoolPlans ==
  UNION {LET order == SelectSeq(OwnKeys, LAMBDA k : k \in S) \o SetToSeq(S \cap PoolKeys)
         IN  {[pooled |-> Len(order) > 1, todo |-> Rotation(order, i)] : i \in DOMAIN order}
         : S \in {T \in SUBSET Keys : T \cap PoolKeys # {}}}

Plans == OwnPlans \cup PoolPlans

IsOpen(k, circ) == circ[k].left > 0

\* Mutant: the breaker is not looked at.
AdvanceAnyway(todo, pooled, circ) ==
  IF todo = <<>> THEN NoCall ELSE [pooled |-> pooled, attempt |-> 0, todo |-> todo]

\* The call goes on to the first service left that may be asked: a pool skips keys
\* whose circuit is open. Without one it gives up (AiServiceError).
Advance(todo, pooled, circ) ==
  LET askable == {i \in DOMAIN todo : ~pooled \/ ~IsOpen(todo[i], circ)}
  IN  IF askable = {} THEN NoCall
      ELSE [pooled |-> pooled, attempt |-> 0,
            todo |-> SubSeq(todo, Min(askable), Len(todo))]

\* _wait_then_process takes the buffer; with no key at all there is no call.
TakeBuffer(c) ==
  /\ delay = 0
  /\ ~Active(c)
  /\ age' = None /\ delay' = None
  /\ \/ call' = call
     \/ \E p \in Plans : call' = [call EXCEPT ![c] = Advance(p.todo, p.pooled, circuit)]
  /\ UNCHANGED <<window, circuit>>

-----------------------------------------------------------------------------
\* A call: PooledAiService._run, FallbackAiService, _post_chat. Between the end of
\* one request and the next one nothing else runs.

Key(c) == Head(call[c].todo)

\* Mutant: the attempts are not counted.
RetryForEver(c) ==
  /\ Active(c) /\ call[c].attempt <= MaxRetries
  /\ call' = [call EXCEPT ![c].attempt = 1 - @]
  /\ UNCHANGED <<window, age, delay, circuit>>

\* Status 429 or 5xx, or no answer, with attempts left.
Retry(c) ==
  /\ Active(c) /\ call[c].attempt < MaxRetries
  /\ call' = [call EXCEPT ![c].attempt = @ + 1]
  /\ UNCHANGED <<window, age, delay, circuit>>

\* _record_circuit_failure. The count is not reset when the circuit's time is
\* over: then one more failure opens it again. (It is capped at Threshold, which
\* is all that is asked of it.)
Failed(st) ==
  LET n == Least(st.fails + 1, Threshold)
  IN  [fails |-> n, left |-> IF n = Threshold THEN Cooldown ELSE st.left]

\* The last attempt failed, or the error is not worth another: the next service.
Fail(c) ==
  /\ Active(c)
  /\ circuit' = IF call[c].pooled
                THEN [circuit EXCEPT ![Key(c)] = Failed(@)] ELSE circuit
  /\ call' = [call EXCEPT ![c] = Advance(Tail(@.todo), @.pooled, circuit')]
  /\ UNCHANGED <<window, age, delay>>

\* _record_circuit_success, also for a call begun before the circuit opened.
Succeed(c) ==
  /\ Active(c)
  /\ circuit' = IF call[c].pooled THEN [circuit EXCEPT ![Key(c)] = Closed] ELSE circuit
  /\ call' = [call EXCEPT ![c] = NoCall]
  /\ UNCHANGED <<window, age, delay>>

-----------------------------------------------------------------------------
Tick ==
  /\ delay # 0
  /\ window' = [i \in DOMAIN window |-> Least(window[i] + 1, Window + 1)]
  /\ age' = IF age = None THEN None ELSE age + 1
  /\ delay' = IF delay = None THEN None ELSE delay - 1
  /\ circuit' = [k \in Keys |-> [circuit[k] EXCEPT !.left = Greatest(0, @ - 1)]]
  /\ UNCHANGED call

Step(c) == Retry(c) \/ Fail(c) \/ Succeed(c)

ThrottleNext ==
  \/ Arrive \/ Refuse \/ Tick
  \/ \E c \in Calls : TakeBuffer(c) \/ Step(c)

ThrottleSpec == ThrottleInit /\ [][ThrottleNext]_tvars

\* Every request to a provider ends (the HTTP session's time limit), the event
\* loop serves every task, and the clock runs.
ThrottleFairness ==
  /\ \A c \in Calls : WF_tvars(Step(c))
  /\ WF_tvars(\E c \in Calls : TakeBuffer(c))
  /\ WF_tvars(Tick)

ThrottleFairSpec == ThrottleSpec /\ ThrottleFairness

-----------------------------------------------------------------------------
ThrottleTypeOK ==
  /\ window \in Seq(0..(Window + 1)) /\ Len(window) <= MaxMessages
  /\ age \in Nat \cup {None} /\ delay \in None..Debounce
  /\ call \in [Calls -> [pooled : BOOLEAN, attempt : 0..MaxRetries, todo : Seq(Keys)]]
  /\ circuit \in [Keys -> [fails : 0..Threshold, left : 0..Cooldown]]

\* The cap of the debounce and the rate limiter together bound how long a text
\* lies in the buffer, however the customer goes on writing: after MaxWait every
\* further text that the limiter lets through adds at most MinDelay
\* (_schedule_debounced_processing, check_and_record).
BufferWaitBounded == age <= MaxWait + MinDelay * MaxMessages

\* An open circuit is tried again: the calls that were under way when it opened
\* may fail one after the other and each renew its time, but they cannot keep
\* it open for ever (_circuit_is_open, _record_circuit_failure).
CircuitCloses == \A k \in Keys : IsOpen(k, circuit) ~> ~IsOpen(k, circuit)

\* A call ends, whatever the providers answer: attempts, fallback and rotation
\* are bounded (_post_chat, FallbackAiService, PooledAiService._run).
CallEnds == \A c \in Calls : Active(c) ~> ~Active(c)
=============================================================================
