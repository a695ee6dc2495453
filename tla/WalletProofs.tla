---------------------------- MODULE WalletProofs ----------------------------
(***************************************************************************)
(* The wallet's money, for any number of charges and of debits at once:    *)
(* the cached balance, the ledger and the charges stay in step, no credit  *)
(* is spent twice, and the notices come when they should.                  *)
(*                                                                         *)
(* The sums are reasoned about by induction on the finite set of charges,  *)
(* in the form that every set of counterexamples has a smallest member.    *)
(* The invariant says who may write a charge: a debit reads it under its   *)
(* lock, so what it computes is right when it commits; the job reads it    *)
(* without one, so what it has seen is at least what is left.              *)
(***************************************************************************)
EXTENDS Wallet, TLAPS, FiniteSetTheorems, WellFoundedInduction

-----------------------------------------------------------------------------
\* Types.

\* Functions of some of the charges.
Parts == UNION {[S -> Nat] : S \in SUBSET Charges}

ChargeRow == [amount : Nat, remaining : Nat, is_expired : BOOLEAN, sent : SUBSET Thresholds]

OwnerRow == [balance : Int, empty_at : Flag, low_at : Flag]

DebitRow ==
  [pc : {"idle", "calling", "denied", "locking", "notify"}, low : BOOLEAN,
   quiet : BOOLEAN, cost : Nat, todo : SUBSET Charges, got : Parts]

JobRow ==
  [pc : {"idle", "selected", "locking", "reminding", "marking"}, owner : BOOLEAN,
   seen : Parts, todo : SUBSET Charges, due : Parts, marks : Parts]

CreditRow == [open : BOOLEAN, empty_set : BOOLEAN, low_set : BOOLEAN]

Types ==
  /\ charge \in [Charges -> ChargeRow]
  /\ owner \in OwnerRow
  /\ ledger \in [Charges -> Int]
  /\ lock \in [Charges -> Debits \cup {Job, NoTask}]
  /\ deb \in [Debits -> DebitRow]
  /\ credit \in CreditRow
  /\ job \in JobRow
  /\ now \in Nat /\ failures \in Nat /\ billed \in Nat
  /\ told \in [Charges -> Nat]
  /\ raced \in BOOLEAN /\ again \in BOOLEAN /\ lost \in BOOLEAN /\ crossed \in BOOLEAN

-----------------------------------------------------------------------------
\* Who may write a charge.

Sane == \A c \in Charges : charge[c].remaining <= charge[c].amount

\* What a debit got is locked and as it read it.
GotIsHeld ==
  \A d \in Debits : \A c \in DOMAIN deb[d].got :
    lock[c] = d /\ Present(c) /\ deb[d].got[c] = charge[c].remaining

\* Before it locks, a debit has got nothing.
GotInTime == \A d \in Debits : deb[d].pc \in {"idle", "calling", "denied"} => DOMAIN deb[d].got = {}

\* What the job has seen of a charge is at least what is left.
SeenIsEnough ==
  \A c \in DOMAIN job.seen : Present(c) /\ charge[c].remaining <= job.seen[c]

\* The job writes what it has seen under its locks, and has the owner's row.
SeenIsHeld ==
  /\ job.pc = "idle" => DOMAIN job.seen = {}
  /\ job.pc = "selected" => DOMAIN job.seen # {} /\ DOMAIN job.seen \subseteq job.todo
  /\ job.pc = "locking" =>
       \A c \in DOMAIN job.seen : lock[c] = Job \/ c \in job.todo
  /\ job.pc \in {"reminding", "marking"} => \A c \in DOMAIN job.seen : lock[c] = Job
  /\ job.pc \in {"locking", "reminding", "marking"} /\ DOMAIN job.seen # {} => job.owner
  /\ job.pc \in {"idle", "selected"} \/ DOMAIN job.seen = {} => ~job.owner

Held == Sane /\ GotIsHeld /\ GotInTime /\ SeenIsEnough /\ SeenIsHeld

-----------------------------------------------------------------------------
\* The money.

Rem == [c \in Charges |-> charge[c].remaining]
Amt == [c \in Charges |-> charge[c].amount]

Sum(f, S) == SumFunctionOnSet(f, S)

Money ==
  /\ ~raced => owner.balance = Sum(Rem, Charges) /\ ledger = Rem
  /\ Sum(ledger, Charges) <= owner.balance
  /\ owner.balance <= Sum(Rem, Charges)
  /\ billed + Sum(Rem, Charges) <= Sum(Amt, Charges)

-----------------------------------------------------------------------------
\* The reminders.

\* What the job has yet to remind of and has reminded of.
JobsParts ==
  /\ DOMAIN job.due \cap DOMAIN job.marks = {}
  /\ (DOMAIN job.due \cup DOMAIN job.marks) \cap DOMAIN job.seen = {}
  /\ job.pc \notin {"reminding", "marking"} => DOMAIN job.due = {} /\ DOMAIN job.marks = {}
  /\ \A c \in DOMAIN job.due \cup DOMAIN job.marks : Present(c)
  /\ \A c \in DOMAIN job.due : job.due[c] \in Thresholds
  /\ \A c \in DOMAIN job.marks : job.marks[c] \in Thresholds
  /\ job.pc = "marking" => \E c \in DOMAIN job.due : job.todo = {c}

\* The reminder of charge c is sent and not yet marked.
Marking(c) == job.pc = "marking" /\ c \in job.todo

\* A reminder that was sent is noted, or will be with the job's commit.
ToldIsNoted ==
  \A c \in Charges : told[c] # 0 =>
    /\ Present(c)
    /\ \/ told[c] \in charge[c].sent
       \/ c \in DOMAIN job.marks /\ job.marks[c] = told[c]
       \/ Marking(c) /\ job.due[c] = told[c]

\* The reminders that are due are nearer than what was sent.
DueIsNearer ==
  \A c \in DOMAIN job.due : told[c] # 0 => Marking(c) \/ job.due[c] < told[c]

Reminders == JobsParts /\ (~lost => ToldIsNoted /\ DueIsNearer) /\ RemindersComeNearer

IInv == Types /\ Held /\ Money /\ Reminders /\ EmptyFlagUnlessCrossed


-----------------------------------------------------------------------------
\* Sums over finite sets.

Pick(s) == CHOOSE x \in s : TRUE

Adds(g, f, S) ==
  g = [s \in SUBSET S |-> IF s = {} THEN 0 ELSE f[Pick(s)] + g[s \ {Pick(s)}]]

\* What the community modules' sum is: the value, at S, of a function that adds
\* one member after the other.
LEMMA SumUnfold ==
  ASSUME NEW f, NEW S
  PROVE SumFunctionOnSet(f, S) = (CHOOSE g : Adds(g, f, S))[S]
BY DEF SumFunctionOnSet, FoldFunctionOnSet, MapThenFoldSet, Adds, Pick

\* Induction on finite sets: a set of counterexamples has a smallest one.
LEMMA Minimal ==
  ASSUME NEW S, IsFiniteSet(S), NEW Bad \in SUBSET SUBSET S, Bad # {}
  PROVE  \E T \in Bad : \A U \in Bad : U \subseteq T => U = T
<1>1. Bad \subseteq FiniteSubsetsOf(S)
  BY FS_Subset DEF FiniteSubsetsOf
<1>2. \E T \in Bad : \A U \in Bad : ~(<<U, T>> \in StrictSubsetOrdering(S))
  BY <1>1, FS_StrictSubsetOrderingWellFounded, WFMin
<1> QED BY <1>2 DEF StrictSubsetOrdering

\* A choice is of the set.
LEMMA PickIn == ASSUME NEW s, s # {} PROVE Pick(s) \in s
BY DEF Pick

\* One step of the adding.
LEMMA AddsAt ==
  ASSUME NEW S, NEW f, NEW g, Adds(g, f, S), NEW s \in SUBSET S
  PROVE  g[s] = IF s = {} THEN 0 ELSE f[Pick(s)] + g[s \ {Pick(s)}]
BY DEF Adds

\* Two ways to add the same agree on what both add.
LEMMA AddsAgree ==
  ASSUME NEW S, IsFiniteSet(S), NEW f, NEW g, Adds(g, f, S),
         NEW T \in SUBSET S, NEW h, Adds(h, f, T)
  PROVE  \A s \in SUBSET T : g[s] = h[s]
<1> DEFINE Bad == {s \in SUBSET T : g[s] # h[s]}
<1> SUFFICES ASSUME Bad # {} PROVE FALSE
  OBVIOUS
<1>1. IsFiniteSet(T) BY FS_Subset
<1>2. PICK s \in Bad : \A u \in Bad : u \subseteq s => u = s
  <2> HIDE DEF Bad
  <2>1. Bad \in SUBSET SUBSET T BY DEF Bad
  <2> QED BY <1>1, <2>1, Minimal
<1>3. s \in SUBSET T /\ s \in SUBSET S /\ g[s] # h[s]
  OBVIOUS
<1> HIDE DEF Bad
<1>4. g[s] = IF s = {} THEN 0 ELSE f[Pick(s)] + g[s \ {Pick(s)}]
  BY <1>3, AddsAt
<1>5. h[s] = IF s = {} THEN 0 ELSE f[Pick(s)] + h[s \ {Pick(s)}]
  BY <1>3, AddsAt
<1>6. s # {}
  BY <1>3, <1>4, <1>5
<1>7. Pick(s) \in s
  BY <1>6, PickIn
<1>8. g[s \ {Pick(s)}] = h[s \ {Pick(s)}]
  BY <1>2, <1>3, <1>7 DEF Bad
<1> QED BY <1>3, <1>4, <1>5, <1>6, <1>8

\* There is a way to add over every finite set.
LEMMA AddsExists ==
  ASSUME NEW S, IsFiniteSet(S), NEW f
  PROVE  \E g : Adds(g, f, S)
<1> DEFINE Sol(T) == CHOOSE g : Adds(g, f, T)
           Bad == {T \in SUBSET S : ~ \E g : Adds(g, f, T)}
<1> SUFFICES ASSUME Bad # {} PROVE FALSE
  OBVIOUS
<1>1. PICK T \in Bad : \A U \in Bad : U \subseteq T => U = T
  <2> HIDE DEF Bad
  <2>1. Bad \in SUBSET SUBSET S BY DEF Bad
  <2> QED BY <2>1, Minimal
<1>2. T \in SUBSET S /\ ~ \E g : Adds(g, f, T)
  OBVIOUS
<1>3. \A U \in SUBSET T : U # T => Adds(Sol(U), f, U)
  BY <1>1, <1>2
<1> DEFINE G == [s \in SUBSET T |->
                   IF s = {} THEN 0
                   ELSE f[Pick(s)] + Sol(s \ {Pick(s)})[s \ {Pick(s)}]]
<1> HIDE DEF Bad, Sol
<1>4. ASSUME NEW u \in SUBSET T, u # T PROVE G[u] = Sol(u)[u]
  <2>1. Adds(Sol(u), f, u) BY <1>3, <1>4
  <2>2. Sol(u)[u] = IF u = {} THEN 0 ELSE f[Pick(u)] + Sol(u)[u \ {Pick(u)}]
    BY <2>1, AddsAt
  <2>3. ASSUME u # {} PROVE Sol(u)[u \ {Pick(u)}] = Sol(u \ {Pick(u)})[u \ {Pick(u)}]
    <3> DEFINE v == u \ {Pick(u)}
    <3>1. v \in SUBSET u /\ v \in SUBSET T /\ v # T
      BY <1>4, <2>3, PickIn
    <3>2. Adds(Sol(v), f, v) BY <1>3, <3>1
    <3>3. IsFiniteSet(u) BY <1>2, FS_Subset
    <3> HIDE DEF v
    <3>4. Sol(u)[v] = Sol(v)[v]
      BY <2>1, <3>1, <3>2, <3>3, AddsAgree
    <3> QED BY <3>4 DEF v
  <2> QED BY <2>2, <2>3
<1>5. ASSUME NEW s \in SUBSET T, s # {}
      PROVE  G[s] = f[Pick(s)] + G[s \ {Pick(s)}]
  <2>1. s \ {Pick(s)} \in SUBSET T /\ s \ {Pick(s)} # T
    BY <1>5, PickIn
  <2>2. G[s \ {Pick(s)}] = Sol(s \ {Pick(s)})[s \ {Pick(s)}]
    BY <1>4, <2>1
  <2> QED BY <1>5, <2>2
<1>6. \A s \in SUBSET T : G[s] = IF s = {} THEN 0 ELSE f[Pick(s)] + G[s \ {Pick(s)}]
  BY <1>5
<1>7. DOMAIN G = SUBSET T /\ G = [s \in SUBSET T |-> G[s]]
  OBVIOUS
<1> HIDE DEF G
<1>8. Adds(G, f, T)
  BY <1>6, <1>7 DEF Adds
<1> QED BY <1>2, <1>8

\* The sum, one member at a time.
LEMMA SumPick ==
  ASSUME NEW S, IsFiniteSet(S), NEW f
  PROVE  Sum(f, S) = IF S = {} THEN 0 ELSE f[Pick(S)] + Sum(f, S \ {Pick(S)})
<1> DEFINE Sol(T) == CHOOSE g : Adds(g, f, T)
           T == S \ {Pick(S)}
<1>1. IsFiniteSet(T) /\ T \in SUBSET S
  BY FS_Subset
<1>2. Adds(Sol(S), f, S) /\ Adds(Sol(T), f, T)
  BY <1>1, AddsExists
<1>3. Sum(f, S) = Sol(S)[S] /\ Sum(f, T) = Sol(T)[T]
  BY SumUnfold DEF Sum
<1> HIDE DEF Sol
<1>4. Sol(S)[S] = IF S = {} THEN 0 ELSE f[Pick(S)] + Sol(S)[T]
  BY <1>2, AddsAt
<1>5. Sol(S)[T] = Sol(T)[T]
  BY <1>1, <1>2, AddsAgree
<1> QED BY <1>3, <1>4, <1>5

\* The empty sum.
LEMMA SumOfNone == ASSUME NEW f PROVE Sum(f, {}) = 0
BY SumPick, FS_EmptySet

\* A sum of integers is an integer.
LEMMA SumType ==
  ASSUME NEW S, IsFiniteSet(S), NEW f, \A x \in S : f[x] \in Int
  PROVE  \A T \in SUBSET S : Sum(f, T) \in Int
<1> DEFINE Bad == {T \in SUBSET S : Sum(f, T) \notin Int}
<1> SUFFICES ASSUME Bad # {} PROVE FALSE
  OBVIOUS
<1>1. PICK T \in Bad : \A U \in Bad : U \subseteq T => U = T
  <2> HIDE DEF Bad
  <2>1. Bad \in SUBSET SUBSET S BY DEF Bad
  <2> QED BY <2>1, Minimal
<1>2. T \in SUBSET S /\ Sum(f, T) \notin Int /\ IsFiniteSet(T)
  BY FS_Subset
<1>3. T # {}
  BY <1>2, SumOfNone
<1>4. Pick(T) \in T
  BY <1>3, PickIn
<1>5. Sum(f, T \ {Pick(T)}) \in Int
  BY <1>1, <1>2, <1>4
<1>6. Sum(f, T) = f[Pick(T)] + Sum(f, T \ {Pick(T)})
  BY <1>2, <1>3, SumPick
<1>7. f[Pick(T)] \in Int
  BY <1>2, <1>4
<1> HIDE DEF Bad
<1> QED BY <1>2, <1>5, <1>6, <1>7

\* Any member may be taken out first.
LEMMA SumRemove ==
  ASSUME NEW S, IsFiniteSet(S), NEW f, \A x \in S : f[x] \in Int
  PROVE  \A T \in SUBSET S : \A x \in T : Sum(f, T) = f[x] + Sum(f, T \ {x})
<1> DEFINE Bad == {T \in SUBSET S : \E x \in T : Sum(f, T) # f[x] + Sum(f, T \ {x})}
<1> SUFFICES ASSUME Bad # {} PROVE FALSE
  OBVIOUS
<1>1. PICK T \in Bad : \A U \in Bad : U \subseteq T => U = T
  <2> HIDE DEF Bad
  <2>1. Bad \in SUBSET SUBSET S BY DEF Bad
  <2> QED BY <2>1, Minimal
<1>2. PICK x \in T : Sum(f, T) # f[x] + Sum(f, T \ {x})
  OBVIOUS
<1>3. T \in SUBSET S /\ IsFiniteSet(T) /\ x \in S
  BY FS_Subset
<1> DEFINE c == Pick(T)
           A == T \ {c}
           B == T \ {x}
           C == (T \ {c}) \ {x}
<1>4. c \in T /\ c \in S
  BY <1>3, PickIn
<1>5. Sum(f, T) = f[c] + Sum(f, A)
  BY <1>2, <1>3, SumPick
<1>6. c # x
  BY <1>2, <1>5
<1>7. A \in SUBSET S /\ B \in SUBSET S /\ A \notin Bad /\ B \notin Bad
  BY <1>1, <1>3, <1>4
<1>8. x \in A /\ c \in B /\ A \ {x} = C /\ B \ {c} = C /\ C \in SUBSET S
  BY <1>3, <1>4, <1>6
<1>9. Sum(f, A) = f[x] + Sum(f, A \ {x})
  BY <1>7, <1>8
<1>10. Sum(f, B) = f[c] + Sum(f, B \ {c})
  BY <1>7, <1>8
<1>11. f[x] \in Int /\ f[c] \in Int
  BY <1>3, <1>4
<1> HIDE DEF Bad, A, B, C, c
<1>12. Sum(f, C) \in Int
  BY <1>8, SumType
<1>13. Sum(f, A) = f[x] + Sum(f, C) /\ Sum(f, B) = f[c] + Sum(f, C)
  BY <1>8, <1>9, <1>10
<1>14. Sum(f, T) # f[x] + Sum(f, B)
  BY <1>2 DEF B
<1> QED BY <1>5, <1>11, <1>12, <1>13, <1>14

\* Sums can be added.
LEMMA SumLinear ==
  ASSUME NEW S, IsFiniteSet(S), NEW f, NEW g, NEW h,
         \A x \in S : f[x] \in Int /\ g[x] \in Int /\ h[x] \in Int /\ f[x] = g[x] + h[x]
  PROVE  Sum(f, S) = Sum(g, S) + Sum(h, S)
<1> DEFINE Bad == {T \in SUBSET S : Sum(f, T) # Sum(g, T) + Sum(h, T)}
<1> SUFFICES ASSUME Bad # {} PROVE FALSE
  OBVIOUS
<1>1. PICK T \in Bad : \A U \in Bad : U \subseteq T => U = T
  <2> HIDE DEF Bad
  <2>1. Bad \in SUBSET SUBSET S BY DEF Bad
  <2> QED BY <2>1, Minimal
<1>2. T \in SUBSET S /\ Sum(f, T) # Sum(g, T) + Sum(h, T) /\ IsFiniteSet(T)
  BY FS_Subset
<1>3. T # {}
  BY <1>2, SumOfNone
<1> DEFINE c == Pick(T)
           A == T \ {c}
<1>4. c \in T /\ c \in S
  BY <1>2, <1>3, PickIn
<1>5. A \in SUBSET S /\ A \notin Bad
  BY <1>1, <1>2, <1>4
<1>6. Sum(f, A) = Sum(g, A) + Sum(h, A)
  BY <1>5
<1>7. /\ Sum(f, T) = f[c] + Sum(f, A) /\ Sum(g, T) = g[c] + Sum(g, A)
      /\ Sum(h, T) = h[c] + Sum(h, A)
  BY <1>2, <1>3, SumPick
<1> HIDE DEF Bad, A, c
<1>8. Sum(f, A) \in Int /\ Sum(g, A) \in Int /\ Sum(h, A) \in Int
  BY <1>5, SumType
<1>9. f[c] \in Int /\ g[c] \in Int /\ h[c] \in Int /\ f[c] = g[c] + h[c]
  BY <1>4
<1> QED BY <1>2, <1>6, <1>7, <1>8, <1>9

\* Nothing is added outside T.
LEMMA SumWithin ==
  ASSUME NEW S, IsFiniteSet(S), NEW T \in SUBSET S, NEW f, NEW g,
         \A x \in S : f[x] = IF x \in T THEN g[x] ELSE 0,
         \A x \in T : g[x] \in Int
  PROVE  Sum(f, S) = Sum(g, T)
<1> DEFINE Bad == {U \in SUBSET S : Sum(f, U) # Sum(g, U \cap T)}
<1>0. S \cap T = T
  OBVIOUS
<1> SUFFICES ASSUME Bad # {} PROVE FALSE
  BY <1>0
<1>1. PICK U \in Bad : \A V \in Bad : V \subseteq U => V = U
  <2> HIDE DEF Bad
  <2>1. Bad \in SUBSET SUBSET S BY DEF Bad
  <2> QED BY <2>1, Minimal
<1>2. U \in SUBSET S /\ Sum(f, U) # Sum(g, U \cap T) /\ IsFiniteSet(U) /\ IsFiniteSet(T)
  BY FS_Subset
<1>3. U # {}
  BY <1>2, SumOfNone
<1> DEFINE c == Pick(U)
           A == U \ {c}
<1>4. c \in U /\ c \in S
  BY <1>2, <1>3, PickIn
<1>5. A \in SUBSET S /\ A \notin Bad /\ A \cap T \in SUBSET T
  BY <1>1, <1>2, <1>4
<1>6. Sum(f, A) = Sum(g, A \cap T)
  BY <1>5
<1>7. Sum(f, U) = f[c] + Sum(f, A)
  BY <1>2, <1>3, SumPick
<1>8. Sum(g, A \cap T) \in Int
  BY <1>2, <1>5, SumType
<1>9. CASE c \in T
  <2>1. c \in U \cap T /\ U \cap T \in SUBSET T /\ (U \cap T) \ {c} = A \cap T
    BY <1>4, <1>9
  <2> HIDE DEF c, A, Bad
  <2>2. Sum(g, U \cap T) = g[c] + Sum(g, A \cap T)
    BY <1>2, <2>1, SumRemove
  <2>3. f[c] = g[c]
    BY <1>4, <1>9
  <2> QED BY <1>2, <1>6, <1>7, <2>2, <2>3
<1>10. CASE c \notin T
  <2>1. U \cap T = A \cap T
    BY <1>10
  <2>2. f[c] = 0
    BY <1>4, <1>10
  <2> HIDE DEF c, A, Bad
  <2>3. Sum(f, U) = Sum(g, A \cap T)
    BY <1>6, <1>7, <1>8, <2>2
  <2> QED BY <1>2, <2>1, <2>3, Zenon
<1> QED BY <1>9, <1>10

\* A sum of naturals is a natural.
LEMMA SumNatural ==
  ASSUME NEW S, IsFiniteSet(S), NEW f, \A x \in S : f[x] \in Nat
  PROVE  Sum(f, S) \in Nat
<1> DEFINE Bad == {T \in SUBSET S : Sum(f, T) \notin Nat}
<1> SUFFICES ASSUME Bad # {} PROVE FALSE
  OBVIOUS
<1>1. PICK T \in Bad : \A U \in Bad : U \subseteq T => U = T
  <2> HIDE DEF Bad
  <2>1. Bad \in SUBSET SUBSET S BY DEF Bad
  <2> QED BY <2>1, Minimal
<1>2. T \in SUBSET S /\ Sum(f, T) \notin Nat /\ IsFiniteSet(T)
  BY FS_Subset
<1>3. T # {}
  BY <1>2, SumOfNone
<1>4. Pick(T) \in T
  BY <1>3, PickIn
<1>5. Sum(f, T \ {Pick(T)}) \in Nat
  BY <1>1, <1>2, <1>4
<1>6. Sum(f, T) = f[Pick(T)] + Sum(f, T \ {Pick(T)})
  BY <1>2, <1>3, SumPick
<1>7. f[Pick(T)] \in Nat
  BY <1>2, <1>4
<1> HIDE DEF Bad
<1> QED BY <1>2, <1>5, <1>6, <1>7

LessThan == {ss \in Nat \X Nat : ss[1] < ss[2]}

\* A set of naturals has a least one.
LEMMA MinIn ==
  ASSUME NEW S \in SUBSET Nat, S # {}
  PROVE  Min(S) \in S /\ \A x \in S : Min(S) <= x
<1>0. IsWellFoundedOn(LessThan, Nat)
  BY NatLessThanWellFounded, Zenon DEF OpToRel, LessThan
<1>1. PICK x \in S : \A y \in S : ~(<<y, x>> \in LessThan)
  BY <1>0, WFMin
<1>2. ASSUME NEW y \in S PROVE x <= y
  <2>1. x \in Nat /\ y \in Nat OBVIOUS
  <2>2. ~(y < x)
    BY <1>1, <2>1 DEF LessThan
  <2> QED BY <2>1, <2>2
<1> QED BY <1>2 DEF Min

\* A function that differs from another on a part of the set.
LEMMA SumShift ==
  ASSUME NEW S, IsFiniteSet(S), NEW T \in SUBSET S, NEW f, NEW g, NEW t,
         \A x \in S : f[x] \in Int,
         \A x \in T : t[x] \in Int,
         \A x \in S : g[x] = IF x \in T THEN f[x] + t[x] ELSE f[x]
  PROVE  Sum(g, S) = Sum(f, S) + Sum(t, T)
<1> DEFINE h == [x \in S |-> IF x \in T THEN t[x] ELSE 0]
<1>1. \A x \in S : h[x] = IF x \in T THEN t[x] ELSE 0
  OBVIOUS
<1> HIDE DEF h
<1>2. Sum(h, S) = Sum(t, T)
  BY <1>1, SumWithin
<1>3. \A x \in S : g[x] \in Int /\ f[x] \in Int /\ h[x] \in Int /\ g[x] = f[x] + h[x]
  BY <1>1
<1>4. Sum(g, S) = Sum(f, S) + Sum(h, S)
  BY <1>3, SumLinear
<1> QED BY <1>2, <1>4

\* A function that differs from another in one place.
LEMMA SumOne ==
  ASSUME NEW S, IsFiniteSet(S), NEW c \in S, NEW v \in Int, NEW f, NEW g,
         \A x \in S : f[x] \in Int,
         \A x \in S : g[x] = IF x = c THEN f[x] + v ELSE f[x]
  PROVE  Sum(g, S) = Sum(f, S) + v
<1> DEFINE t == [x \in {c} |-> v]
<1>1. t[c] = v /\ (\A x \in {c} : t[x] \in Int) /\ IsFiniteSet({c})
  BY FS_Singleton
<1>2. \A x \in S : g[x] = IF x \in {c} THEN f[x] + t[x] ELSE f[x]
  OBVIOUS
<1> HIDE DEF t
<1>3. Sum(g, S) = Sum(f, S) + Sum(t, {c})
  BY <1>1, <1>2, SumShift
<1>4. Sum(t, {c}) = t[c] + Sum(t, {c} \ {c})
  BY <1>1, SumRemove
<1>5. Sum(t, {c} \ {c}) = 0
  <2>1. {c} \ {c} = {} OBVIOUS
  <2> QED BY <2>1, SumOfNone
<1> QED BY <1>1, <1>3, <1>4, <1>5

\* A function that is nowhere above another.
LEMMA SumAtMost ==
  ASSUME NEW S, IsFiniteSet(S), NEW f, NEW g,
         \A x \in S : f[x] \in Int /\ g[x] \in Int /\ g[x] <= f[x]
  PROVE  Sum(g, S) <= Sum(f, S) /\ Sum(g, S) \in Int /\ Sum(f, S) \in Int
<1> DEFINE h == [x \in S |-> f[x] - g[x]]
<1>1. \A x \in S : h[x] = f[x] - g[x]
  OBVIOUS
<1> HIDE DEF h
<1>2. \A x \in S : h[x] \in Nat
  BY <1>1
<1>3. Sum(h, S) \in Nat
  BY <1>2, SumNatural
<1>4. Sum(f, S) = Sum(g, S) + Sum(h, S)
  <2>1. \A x \in S : f[x] \in Int /\ g[x] \in Int /\ h[x] \in Int /\ f[x] = g[x] + h[x]
    BY <1>1
  <2> QED BY <2>1, SumLinear
<1>5. Sum(g, S) \in Int /\ Sum(f, S) \in Int
  BY SumType
<1> QED BY <1>3, <1>4, <1>5

-----------------------------------------------------------------------------
\* Rows.

\* Functions of some of the charges.
LEMMA PartsFacts ==
  /\ <<>> \in Parts /\ DOMAIN <<>> = {}
  /\ \A g \in Parts : /\ DOMAIN g \subseteq Charges /\ g \in [DOMAIN g -> Nat]
                      /\ \A c \in DOMAIN g : g[c] \in Nat
  /\ \A S \in SUBSET Charges : \A g \in [S -> Nat] : g \in Parts
<1>1. <<>> \in [{} -> Nat] OBVIOUS
<1> QED BY <1>1 DEF Parts

\* The rows the sessions begin with.
LEMMA IdleRows ==
  /\ IdleDebit \in DebitRow /\ IdleDebit.pc = "idle" /\ DOMAIN IdleDebit.got = {}
  /\ IdleJob \in JobRow /\ IdleJob.pc = "idle" /\ IdleJob.owner = FALSE
  /\ DOMAIN IdleJob.seen = {} /\ DOMAIN IdleJob.due = {} /\ DOMAIN IdleJob.marks = {}
  /\ NoCredit \in CreditRow
  /\ NoCharge \in ChargeRow /\ NoCharge.amount = 0 /\ NoCharge.remaining = 0
<1>1. IdleDebit \in DebitRow /\ IdleDebit.pc = "idle" /\ DOMAIN IdleDebit.got = {}
  BY PartsFacts DEF IdleDebit, DebitRow
<1>2. /\ IdleJob \in JobRow /\ IdleJob.pc = "idle" /\ IdleJob.owner = FALSE
      /\ DOMAIN IdleJob.seen = {} /\ DOMAIN IdleJob.due = {} /\ DOMAIN IdleJob.marks = {}
  BY PartsFacts DEF IdleJob, JobRow
<1> QED BY <1>1, <1>2 DEF NoCredit, CreditRow, NoCharge, ChargeRow

\* The totals are integers.
LEMMA Totals ==
  ASSUME Types
  PROVE  /\ \A c \in Charges : Rem[c] = charge[c].remaining /\ Rem[c] \in Nat
         /\ \A c \in Charges : Amt[c] = charge[c].amount /\ Amt[c] \in Nat
         /\ Sum(Rem, Charges) \in Nat /\ Sum(Amt, Charges) \in Nat
         /\ Sum(ledger, Charges) \in Int
<1>1. /\ \A c \in Charges : Rem[c] = charge[c].remaining /\ Rem[c] \in Nat
      /\ \A c \in Charges : Amt[c] = charge[c].amount /\ Amt[c] \in Nat
  BY DEF Rem, Amt, Types, ChargeRow
<1>2. Sum(Rem, Charges) \in Nat /\ Sum(Amt, Charges) \in Nat
  BY <1>1, SumNatural, ChargesAreFinite
<1>3. Sum(ledger, Charges) \in Int
  BY SumType, ChargesAreFinite DEF Types
<1> QED BY <1>1, <1>2, <1>3

-----------------------------------------------------------------------------
\* Steps that change no money and nothing of the job's: debits that begin, are
\* turned away or end without effect, credits that begin, time.

Calm ==
  /\ UNCHANGED <<charge, ledger, job, billed, raced, told, again, lost>>
  /\ owner'.balance = owner.balance
  /\ \A d \in Debits :
       \/ DOMAIN deb'[d].got = {}
       \/ deb'[d].got = deb[d].got /\ deb'[d].pc \notin {"idle", "calling", "denied"}
  /\ \A c \in Charges :
       \/ lock'[c] = lock[c]
       \/ lock[c] \in Debits /\ DOMAIN deb'[lock[c]].got = {}

\* Such a step keeps the invariant, but for the types and the notices.
LEMMA CalmStep == ASSUME IInv, Calm PROVE Held' /\ Money' /\ Reminders'
<1>1. Sane' /\ SeenIsEnough'
  BY DEF Calm, IInv, Held, Sane, SeenIsEnough, Present
<1>2. GotIsHeld' /\ GotInTime'
  <2>1. \A d \in Debits : DOMAIN deb[d].got \subseteq Charges
    BY PartsFacts DEF IInv, Types, DebitRow
  <2> QED BY <2>1 DEF Calm, IInv, Held, GotIsHeld, GotInTime, Present
<1>3. SeenIsHeld'
  <2>1. DOMAIN job.seen \subseteq Charges
    BY PartsFacts DEF IInv, Types, JobRow
  <2>2. \A c \in DOMAIN job.seen : lock[c] = Job => lock'[c] = Job
    BY <2>1, TasksDiffer DEF Calm
  <2> QED BY <2>2 DEF Calm, IInv, Held, SeenIsHeld
<1>4. Money'
  BY DEF Calm, IInv, Money, Rem, Amt
<1>5. Reminders'
  BY DEF Calm, IInv, Reminders, JobsParts, ToldIsNoted, DueIsNearer, Marking, Present,
         RemindersComeNearer
<1> QED BY <1>1, <1>2, <1>3, <1>4, <1>5 DEF Held

\* What a commit or a rollback does to the locks.
LEMMA ReleaseFacts ==
  ASSUME Types, NEW t \in Debits \cup {Job}
  PROVE  /\ Release(t) \in [Charges -> Debits \cup {Job, NoTask}]
         /\ \A c \in Charges : Release(t)[c] = IF lock[c] = t THEN NoTask ELSE lock[c]
BY DEF Types, Release

\* A debit that ends.
LEMMA IdleFacts ==
  ASSUME Types, NEW d \in Debits, deb' = [deb EXCEPT ![d] = IdleDebit]
  PROVE  /\ deb' \in [Debits -> DebitRow] /\ DOMAIN deb'[d].got = {} /\ deb'[d].pc = "idle"
         /\ \A e \in Debits : e # d => deb'[e] = deb[e]
<1>1. deb \in [Debits -> DebitRow]
  BY DEF Types
<1> QED BY <1>1, IdleRows

\* Other debits go on as before.
LEMMA OthersGoOn ==
  ASSUME IInv, NEW e \in Debits, deb'[e] = deb[e]
  PROVE  \/ DOMAIN deb'[e].got = {}
         \/ deb'[e].got = deb[e].got /\ deb'[e].pc \notin {"idle", "calling", "denied"}
BY DEF IInv, Held, GotInTime

\* A credit begins, a day passes, a notice gets old: these are calm.
LEMMA CalmTimes ==
  ASSUME IInv, \/ UNCHANGED vars \/ CreditOpen \/ Tick
               \/ \E f \in {"empty_at", "low_at"} : AgeNotice(f)
  PROVE  Types' /\ Calm /\ EmptyFlagUnlessCrossed'
<1>1. Types /\ EmptyFlagUnlessCrossed
  BY DEF IInv
<1>2. \A d \in Debits : deb' = deb =>
        \/ DOMAIN deb'[d].got = {}
        \/ deb'[d].got = deb[d].got /\ deb'[d].pc \notin {"idle", "calling", "denied"}
  BY OthersGoOn
<1>3. CASE UNCHANGED vars
  BY <1>1, <1>2, <1>3 DEF vars, Types, Calm, EmptyFlagUnlessCrossed
<1>4. CASE CreditOpen
  <2>1. credit' \in CreditRow
    BY <1>1, <1>4 DEF CreditOpen, CreditRow
  <2> QED BY <1>1, <1>2, <1>4, <2>1 DEF CreditOpen, history, Types, Calm, EmptyFlagUnlessCrossed
<1>5. CASE Tick
  BY <1>1, <1>2, <1>5 DEF Tick, history, Types, Calm, EmptyFlagUnlessCrossed
<1>6. ASSUME NEW f \in {"empty_at", "low_at"}, AgeNotice(f)
      PROVE  Types' /\ Calm /\ EmptyFlagUnlessCrossed'
  <2>1. /\ owner' = [owner EXCEPT ![f] = "old"] /\ owner[f] = "recent" /\ owner \in OwnerRow
        /\ UNCHANGED <<charge, ledger, lock, deb, credit, job, now, failures, history>>
    BY <1>1, <1>6 DEF AgeNotice, Types
  <2>2. owner' \in OwnerRow /\ owner'.balance = owner.balance
    BY <2>1 DEF OwnerRow, Flag
  <2>3. owner'.empty_at # "none" => owner.empty_at # "none"
    BY <2>1 DEF OwnerRow
  <2>4. Types'
    BY <1>1, <2>1, <2>2 DEF Types, history
  <2>5. Calm
    BY <1>2, <2>1, <2>2 DEF Calm, history
  <2> QED BY <1>1, <2>1, <2>2, <2>3, <2>4, <2>5 DEF EmptyFlagUnlessCrossed, history
<1> QED BY <1>3, <1>4, <1>5, <1>6

\* A debit begins, is turned away or reads which charges there are.
LEMMA CalmBeginnings ==
  ASSUME IInv, NEW d \in Debits,
         \/ DebitStart(d) \/ DebitDeny(d)
         \/ \E k \in Costs : DebitSelect(d, k) \/ AdminSelect(d, k)
  PROVE  Types' /\ Calm /\ EmptyFlagUnlessCrossed'
<1>1. Types /\ EmptyFlagUnlessCrossed
  BY DEF IInv
<1>2. deb \in [Debits -> DebitRow] /\ SelectLive \subseteq Charges
  BY <1>1 DEF Types, SelectLive
<1>3. /\ deb[d].pc \in {"idle", "calling"}
      /\ UNCHANGED <<charge, owner, ledger, lock, credit, job, now, failures, history>>
  BY DEF DebitStart, DebitDeny, DebitSelect, AdminSelect
<1>4. /\ deb' \in [Debits -> DebitRow] /\ deb'[d].got = deb[d].got
      /\ \A e \in Debits : e # d => deb'[e] = deb[e]
  <2>1. CASE DebitStart(d)
    <3> DEFINE low == owner.balance < LowBalance
    <3>1. low \in BOOLEAN
      BY <1>1, LowBalanceIsInt DEF Types, OwnerRow
    <3>2. deb' = [deb EXCEPT ![d].pc = "calling", ![d].low = low]
      BY <2>1 DEF DebitStart
    <3> HIDE DEF low
    <3> QED BY <1>2, <3>1, <3>2, ZenonT(40) DEF DebitRow
  <2>2. CASE DebitDeny(d)
    BY <1>2, <2>2 DEF DebitDeny, DebitRow
  <2>3. ASSUME NEW k \in Costs, DebitSelect(d, k)
        PROVE  /\ deb' \in [Debits -> DebitRow] /\ deb'[d].got = deb[d].got
               /\ \A e \in Debits : e # d => deb'[e] = deb[e]
    <3> DEFINE pc == IF k = 0 THEN "notify" ELSE "locking"
               todo == IF k = 0 THEN {} ELSE SelectLive
    <3>1. k \in Nat /\ todo \in SUBSET Charges /\ pc \in {"notify", "locking"}
      BY <1>2, CostsAreNat
    <3>2. deb' = [deb EXCEPT ![d].pc = pc, ![d].cost = k, ![d].todo = todo]
      BY <2>3 DEF DebitSelect
    <3> HIDE DEF pc, todo
    <3> QED BY <1>2, <3>1, <3>2, ZenonT(40) DEF DebitRow
  <2>4. ASSUME NEW k \in Costs, AdminSelect(d, k)
        PROVE  /\ deb' \in [Debits -> DebitRow] /\ deb'[d].got = deb[d].got
               /\ \A e \in Debits : e # d => deb'[e] = deb[e]
    <3>1. k \in Nat /\ SelectLive \in SUBSET Charges
      BY <1>2, CostsAreNat
    <3>2. deb' = [deb EXCEPT ![d].pc = "locking", ![d].cost = k, ![d].quiet = TRUE,
                             ![d].todo = SelectLive]
      BY <2>4 DEF AdminSelect
    <3> DEFINE w == [deb[d] EXCEPT !.pc = "locking", !.cost = k, !.quiet = TRUE,
                                   !.todo = SelectLive]
    <3>3. w \in DebitRow /\ w.got = deb[d].got
      BY <1>2, <3>1 DEF DebitRow
    <3>4. deb' = [deb EXCEPT ![d] = w]
      BY <1>2, <3>2
    <3> HIDE DEF w
    <3> QED BY <1>2, <3>3, <3>4
  <2> QED BY <2>1, <2>2, <2>3, <2>4
<1>5. DOMAIN deb'[d].got = {}
  BY <1>3, <1>4 DEF IInv, Held, GotInTime
<1>6. Types'
  BY <1>1, <1>3, <1>4 DEF Types, history
<1>7. Calm
  BY <1>3, <1>4, <1>5, OthersGoOn DEF Calm, history
<1> QED BY <1>1, <1>3, <1>6, <1>7 DEF EmptyFlagUnlessCrossed, history

\* A debit ends without effect: the owner is told that the wallet is empty or
\* low, the debit is refused, or it is rolled back.
LEMMA CalmEnds ==
  ASSUME IInv, NEW d \in Debits,
         \/ DebitClaimEmpty(d) \/ DebitRefuse(d) \/ DebitNotify(d)
         \/ DebitFail(d) \/ DebitVictim(d)
  PROVE  Types' /\ Calm /\ EmptyFlagUnlessCrossed'
<1>1. Types /\ EmptyFlagUnlessCrossed /\ owner \in OwnerRow
  BY DEF IInv, Types
<1>2. /\ UNCHANGED <<charge, ledger, credit, job, now, billed, raced, told, again, lost>>
      /\ failures' \in Nat
  BY <1>1 DEF DebitClaimEmpty, DebitRefuse, DebitNotify, DebitFail, DebitVictim, history, Types
<1>3. /\ owner' \in OwnerRow /\ owner'.balance = owner.balance
      /\ crossed' \in BOOLEAN /\ EmptyFlagUnlessCrossed'
  <2>1. CASE DebitClaimEmpty(d)
    <3>1. /\ owner' = [owner EXCEPT !.empty_at = "recent"]
          /\ crossed' = (crossed \/ owner.balance > 0)
      BY <2>1 DEF DebitClaimEmpty
    <3>2. owner' \in OwnerRow /\ owner'.balance = owner.balance
      BY <1>1, <3>1 DEF OwnerRow, Flag
    <3> QED BY <1>1, <3>1, <3>2 DEF EmptyFlagUnlessCrossed, Types
  <2>2. CASE DebitNotify(d)
    <3>1. /\ owner' = [owner EXCEPT !.low_at = "recent"] \/ owner' = owner
          /\ crossed' = crossed
      BY <2>2 DEF DebitNotify, history
    <3>2. /\ owner' \in OwnerRow /\ owner'.balance = owner.balance
          /\ owner'.empty_at = owner.empty_at
      BY <1>1, <3>1 DEF OwnerRow, Flag
    <3> QED BY <1>1, <3>1, <3>2 DEF EmptyFlagUnlessCrossed, Types
  <2>3. CASE DebitRefuse(d) \/ DebitFail(d) \/ DebitVictim(d)
    <3>1. owner' = owner /\ crossed' = crossed
      BY <2>3 DEF DebitRefuse, DebitFail, DebitVictim, history
    <3> QED BY <1>1, <3>1 DEF EmptyFlagUnlessCrossed, Types
  <2> QED BY <2>1, <2>2, <2>3
<1>4. \/ deb' = [deb EXCEPT ![d] = IdleDebit] /\ (lock' = lock \/ lock' = Release(d))
      \/ deb' = [deb EXCEPT ![d].pc = "notify"] /\ lock' = lock
  BY DEF DebitClaimEmpty, DebitRefuse, DebitNotify, DebitFail, DebitVictim
<1>5. CASE deb' = [deb EXCEPT ![d] = IdleDebit] /\ (lock' = lock \/ lock' = Release(d))
  <2>1. /\ deb' \in [Debits -> DebitRow] /\ DOMAIN deb'[d].got = {} /\ deb'[d].pc = "idle"
        /\ \A e \in Debits : e # d => deb'[e] = deb[e]
    BY <1>1, <1>5, IdleFacts
  <2>2. /\ lock' \in [Charges -> Debits \cup {Job, NoTask}]
        /\ \A c \in Charges : lock'[c] = lock[c] \/ lock[c] = d
    BY <1>1, <1>5, ReleaseFacts DEF Types
  <2>3. Types'
    BY <1>1, <1>2, <1>3, <2>1, <2>2 DEF Types
  <2>4. Calm
    BY <1>2, <1>3, <2>1, <2>2, OthersGoOn DEF Calm
  <2> QED BY <1>3, <2>3, <2>4
<1>6. CASE deb' = [deb EXCEPT ![d].pc = "notify"] /\ lock' = lock
  <2>0. deb \in [Debits -> DebitRow]
    BY <1>1 DEF Types
  <2>1. /\ deb' \in [Debits -> DebitRow] /\ deb'[d].got = deb[d].got /\ deb'[d].pc = "notify"
        /\ \A e \in Debits : e # d => deb'[e] = deb[e]
    BY <1>6, <2>0 DEF DebitRow
  <2>2. Types'
    BY <1>1, <1>2, <1>3, <1>6, <2>1 DEF Types
  <2>3. Calm
    BY <1>2, <1>3, <1>6, <2>1, OthersGoOn DEF Calm
  <2> QED BY <1>3, <2>2, <2>3
<1> QED BY <1>4, <1>5, <1>6

-----------------------------------------------------------------------------
\* A debit locks the next charge.
LEMMA LockStep ==
  ASSUME IInv, NEW d \in Debits, DebitLock(d)
  PROVE  IInv'
<1> DEFINE c == Min(deb[d].todo)
           G == GotWith(d, c)
<1>0. Types /\ deb \in [Debits -> DebitRow] /\ lock \in [Charges -> Debits \cup {Job, NoTask}]
  BY DEF IInv, Types
<1>1. /\ deb[d].pc = "locking" /\ deb[d].todo # {} /\ lock[c] = NoTask
      /\ lock' = [lock EXCEPT ![c] = d]
      /\ deb' = [deb EXCEPT ![d].todo = @ \ {c}, ![d].got = G]
      /\ UNCHANGED <<charge, owner, ledger, credit, job, now, failures, history>>
  BY DEF DebitLock
<1>2. c \in Charges
  <2>1. deb[d].todo \in SUBSET Charges
    BY <1>0 DEF DebitRow
  <2>2. deb[d].todo \in SUBSET Nat
    BY <2>1, ChargesArePositive
  <2> QED BY <1>1, <2>1, <2>2, MinIn
<1>3. deb[d].got \in Parts /\ DOMAIN deb[d].got \subseteq Charges /\ c \notin DOMAIN deb[d].got
  <2>1. deb[d].got \in Parts /\ DOMAIN deb[d].got \subseteq Charges
    BY <1>0, PartsFacts DEF DebitRow
  <2>2. c \notin DOMAIN deb[d].got
    BY <1>1, TasksDiffer DEF IInv, Held, GotIsHeld
  <2> QED BY <2>1, <2>2
<1> HIDE DEF c
<1>4. charge[c] \in ChargeRow /\ (Live(charge[c]) => Present(c))
  <2>1. charge[c] \in ChargeRow /\ charge[c].remaining <= charge[c].amount
    BY <1>0, <1>2 DEF Types, IInv, Held, Sane
  <2> QED BY <2>1 DEF Live, Present, ChargeRow
<1>5. /\ G \in Parts
      /\ \A x \in DOMAIN G : \/ x \in DOMAIN deb[d].got /\ x # c /\ G[x] = deb[d].got[x]
                             \/ x = c /\ Present(c) /\ G[x] = charge[c].remaining
  <2>1. CASE ~Live(charge[c])
    BY <1>3, <2>1 DEF GotWith
  <2>2. CASE Live(charge[c])
    <3> DEFINE D == DOMAIN deb[d].got \cup {c}
    <3>1. G = [x \in D |-> IF x = c THEN charge[c].remaining ELSE deb[d].got[x]]
      BY <2>2 DEF GotWith
    <3>2. \A x \in DOMAIN deb[d].got : deb[d].got[x] \in Nat
      BY <1>3, PartsFacts
    <3>3. G \in [D -> Nat]
      BY <1>4, <3>1, <3>2 DEF ChargeRow
    <3>4. G \in Parts
      BY <1>2, <1>3, <3>3, PartsFacts
    <3> QED BY <1>3, <1>4, <2>2, <3>1, <3>4
  <2> QED BY <2>1, <2>2
<1> HIDE DEF G
<1>6. /\ deb' \in [Debits -> DebitRow] /\ deb'[d].got = G /\ deb'[d].pc = "locking"
      /\ \A e \in Debits : e # d => deb'[e] = deb[e]
  BY <1>0, <1>1, <1>5, ZenonT(40) DEF DebitRow
<1>7. /\ lock' \in [Charges -> Debits \cup {Job, NoTask}] /\ lock'[c] = d
      /\ \A x \in Charges : x # c => lock'[x] = lock[x]
  BY <1>0, <1>1, <1>2
<1>8. Types'
  BY <1>0, <1>1, <1>6, <1>7 DEF Types, history
<1>9. Held'
  <2>1. Sane' /\ SeenIsEnough'
    BY <1>1 DEF IInv, Held, Sane, SeenIsEnough, Present
  <2>2. GotIsHeld'
    <3> SUFFICES ASSUME NEW e \in Debits, NEW x \in DOMAIN deb'[e].got
                 PROVE  lock'[x] = e /\ Present(x)' /\ deb'[e].got[x] = charge'[x].remaining
      BY DEF GotIsHeld
    <3>0. charge' = charge /\ (Present(x)' <=> Present(x))
      BY <1>1 DEF Present
    <3>1. CASE e # d
      <4>1. x \in DOMAIN deb[e].got /\ deb'[e] = deb[e]
        BY <1>6, <3>1
      <4>2. lock[x] = e /\ Present(x) /\ deb[e].got[x] = charge[x].remaining
        BY <4>1 DEF IInv, Held, GotIsHeld
      <4>3. x \in Charges
        BY <1>0, <4>1, PartsFacts DEF DebitRow
      <4>4. x # c
        BY <1>1, <4>2, TasksDiffer
      <4> QED BY <1>7, <3>0, <4>1, <4>2, <4>3, <4>4
    <3>2. CASE e = d
      <4>1. CASE x = c /\ Present(c) /\ G[x] = charge[c].remaining
        BY <1>6, <1>7, <3>0, <3>2, <4>1
      <4>2. CASE x \in DOMAIN deb[d].got /\ x # c /\ G[x] = deb[d].got[x]
        <5>1. lock[x] = d /\ Present(x) /\ deb[d].got[x] = charge[x].remaining
          BY <4>2 DEF IInv, Held, GotIsHeld
        <5> QED BY <1>3, <1>6, <1>7, <3>0, <3>2, <4>2, <5>1
      <4> QED BY <1>5, <1>6, <3>2, <4>1, <4>2
    <3> QED BY <3>1, <3>2
  <2>3. GotInTime'
    BY <1>6 DEF IInv, Held, GotInTime
  <2>4. SeenIsHeld'
    <3>1. DOMAIN job.seen \subseteq Charges
      BY <1>0, PartsFacts DEF Types, JobRow
    <3>2. \A x \in DOMAIN job.seen : lock[x] = Job => lock'[x] = Job
      BY <1>1, <1>7, <3>1, TasksDiffer
    <3> QED BY <1>1, <3>2 DEF IInv, Held, SeenIsHeld
  <2> QED BY <2>1, <2>2, <2>3, <2>4 DEF Held
<1>10. Money'
  BY <1>1 DEF IInv, Money, Rem, Amt, history
<1>11. Reminders' /\ EmptyFlagUnlessCrossed'
  BY <1>1 DEF IInv, Reminders, JobsParts, ToldIsNoted, DueIsNearer, Marking, Present,
              RemindersComeNearer, EmptyFlagUnlessCrossed, history
<1> QED BY <1>8, <1>9, <1>10, <1>11 DEF IInv

-----------------------------------------------------------------------------
\* A credit: a charge is added.
LEMMA CreditStep ==
  ASSUME IInv, NEW c \in Charges, NEW a \in Amounts, CreditCommit(c, a)
  PROVE  IInv'
<1> DEFINE row == [NoCharge EXCEPT !.amount = a, !.remaining = a]
<1>0. Types /\ a \in Nat /\ a > 0 /\ owner \in OwnerRow /\ credit \in CreditRow
      /\ charge \in [Charges -> ChargeRow] /\ ledger \in [Charges -> Int]
  BY AmountsArePositive DEF IInv, Types
<1>1. /\ ~Present(c) /\ charge' = [charge EXCEPT ![c] = row]
      /\ owner' = [balance  |-> owner.balance + a,
                   empty_at |-> ClearFlag(credit.empty_set, owner.empty_at),
                   low_at   |-> ClearFlag(credit.low_set, owner.low_at)]
      /\ ledger' = [ledger EXCEPT ![c] = @ + a]
      /\ crossed' = (crossed \/ (~credit.empty_set /\ owner.empty_at # "none"))
      /\ credit' = NoCredit
      /\ UNCHANGED <<lock, deb, job, now, failures, billed, raced, told, again, lost>>
  BY DEF CreditCommit
<1>2. row \in ChargeRow /\ row.amount = a /\ row.remaining = a
  BY <1>0 DEF NoCharge, ChargeRow
<1> HIDE DEF row
<1>3. /\ charge' \in [Charges -> ChargeRow] /\ charge'[c] = row
      /\ \A x \in Charges : x # c => charge'[x] = charge[x]
  BY <1>0, <1>1, <1>2
<1>4. charge[c].amount = 0 /\ charge[c].remaining = 0
  <2>1. charge[c] \in ChargeRow /\ charge[c].remaining <= charge[c].amount
    BY <1>0 DEF IInv, Held, Sane
  <2> QED BY <1>1, <2>1 DEF Present, ChargeRow
<1>5. /\ ledger' \in [Charges -> Int] /\ ledger'[c] = ledger[c] + a
      /\ \A x \in Charges : x # c => ledger'[x] = ledger[x]
  BY <1>0, <1>1
<1>6. /\ owner' \in OwnerRow /\ owner'.balance = owner.balance + a
      /\ owner'.empty_at = IF credit.empty_set THEN "none" ELSE owner.empty_at
  <2>1. owner.balance + a \in Int
    BY <1>0 DEF OwnerRow
  <2>2. /\ ClearFlag(credit.empty_set, owner.empty_at) \in Flag
        /\ ClearFlag(credit.low_set, owner.low_at) \in Flag
    BY <1>0 DEF OwnerRow, ClearFlag, Flag
  <2> QED BY <1>1, <2>1, <2>2 DEF OwnerRow, ClearFlag
<1>7. crossed' \in BOOLEAN
  BY <1>1
<1>8. Types'
  BY <1>0, <1>1, <1>3, <1>5, <1>6, <1>7, IdleRows DEF Types
<1>9. \A x \in Charges : Present(x) => charge'[x] = charge[x] /\ Present(x)'
  BY <1>1, <1>3 DEF Present
<1>10. Held'
  <2>1. Sane'
    BY <1>0, <1>2, <1>3 DEF IInv, Held, Sane
  <2>2. GotIsHeld' /\ GotInTime'
    <3>1. \A d \in Debits : DOMAIN deb[d].got \subseteq Charges
      BY PartsFacts DEF IInv, Types, DebitRow
    <3> QED BY <1>1, <1>9, <3>1 DEF IInv, Held, GotIsHeld, GotInTime
  <2>3. SeenIsEnough' /\ SeenIsHeld'
    <3>1. DOMAIN job.seen \subseteq Charges
      BY PartsFacts DEF IInv, Types, JobRow
    <3> QED BY <1>1, <1>9, <3>1 DEF IInv, Held, SeenIsEnough, SeenIsHeld
  <2> QED BY <2>1, <2>2, <2>3 DEF Held
<1>11. Money'
  <2>1. /\ \A x \in Charges : Rem[x] = charge[x].remaining /\ Rem[x] \in Nat
        /\ \A x \in Charges : Amt[x] = charge[x].amount /\ Amt[x] \in Nat
        /\ Sum(Rem, Charges) \in Nat /\ Sum(Amt, Charges) \in Nat
        /\ Sum(ledger, Charges) \in Int
    BY <1>0, Totals
  <2>2. \A x \in Charges : Rem'[x] = charge'[x].remaining /\ Amt'[x] = charge'[x].amount
    BY DEF Rem, Amt
  <2>3. \A x \in Charges : /\ Rem'[x] = IF x = c THEN Rem[x] + a ELSE Rem[x]
                           /\ Amt'[x] = IF x = c THEN Amt[x] + a ELSE Amt[x]
    BY <1>0, <1>2, <1>3, <1>4, <2>1, <2>2
  <2>4. Sum(Rem', Charges) = Sum(Rem, Charges) + a
    BY <1>0, <2>1, <2>3, SumOne, ChargesAreFinite
  <2>5. Sum(Amt', Charges) = Sum(Amt, Charges) + a
    BY <1>0, <2>1, <2>3, SumOne, ChargesAreFinite
  <2>6. Sum(ledger', Charges) = Sum(ledger, Charges) + a
    <3> DEFINE f == ledger
               g == ledger'
    <3>1. \A x \in Charges : g[x] = IF x = c THEN f[x] + a ELSE f[x]
      BY <1>5
    <3>2. a \in Int /\ \A x \in Charges : f[x] \in Int
      BY <1>0
    <3> HIDE DEF f, g
    <3>3. Sum(g, Charges) = Sum(f, Charges) + a
      BY <3>1, <3>2, SumOne, ChargesAreFinite
    <3> QED BY <3>3 DEF f, g
  <2>7. ledger = Rem => ledger' = Rem'
    <3>1. Rem' = [x \in Charges |-> Rem'[x]] /\ ledger' = [x \in Charges |-> ledger'[x]]
      BY <1>5 DEF Rem
    <3>2. ledger = Rem => \A x \in Charges : ledger'[x] = Rem'[x]
      BY <1>5, <2>3
    <3> QED BY <3>1, <3>2
  <2>8. owner.balance \in Int /\ billed \in Nat
    BY <1>0 DEF OwnerRow, Types
  <2>9. /\ ~raced => owner.balance = Sum(Rem, Charges) /\ ledger = Rem
        /\ Sum(ledger, Charges) <= owner.balance
        /\ owner.balance <= Sum(Rem, Charges)
        /\ billed + Sum(Rem, Charges) <= Sum(Amt, Charges)
    BY DEF IInv, Money
  <2>10. /\ ~raced' => owner'.balance = Sum(Rem', Charges) /\ ledger' = Rem'
         /\ Sum(ledger', Charges) <= owner'.balance
         /\ owner'.balance <= Sum(Rem', Charges)
         /\ billed' + Sum(Rem', Charges) <= Sum(Amt', Charges)
    BY <1>0, <1>1, <1>6, <2>1, <2>4, <2>5, <2>6, <2>7, <2>8, <2>9
  <2> QED BY <2>10 DEF Money, Sum
<1>12. Reminders'
  <2>1. JobsParts'
    <3>1. DOMAIN job.due \subseteq Charges /\ DOMAIN job.marks \subseteq Charges
      BY <1>0, PartsFacts DEF Types, JobRow
    <3> QED BY <1>1, <1>9, <3>1 DEF IInv, Reminders, JobsParts
  <2>2. ~lost => ToldIsNoted' /\ DueIsNearer'
    BY <1>1, <1>9 DEF IInv, Reminders, ToldIsNoted, DueIsNearer, Marking
  <2> QED BY <1>1, <2>1, <2>2 DEF IInv, Reminders, RemindersComeNearer
<1>13. EmptyFlagUnlessCrossed'
  BY <1>1, <1>6 DEF EmptyFlagUnlessCrossed
<1> QED BY <1>8, <1>10, <1>11, <1>12, <1>13 DEF IInv

-----------------------------------------------------------------------------
\* What a debit takes: each charge it got goes down by its part of the cost.
LEMMA TakeFacts ==
  ASSUME IInv, NEW d \in Debits, DebitCommit(d)
  PROVE  \E take \in [DOMAIN deb[d].got -> Nat] :
           /\ Sum(take, DOMAIN deb[d].got) = deb[d].cost
           /\ \A c \in DOMAIN deb[d].got : take[c] <= charge[c].remaining
           /\ charge' \in [Charges -> ChargeRow] /\ ledger' \in [Charges -> Int]
           /\ \A c \in Charges : /\ charge'[c].amount = charge[c].amount
                                 /\ charge'[c].sent = charge[c].sent
                                 /\ c \notin DOMAIN deb[d].got => charge'[c] = charge[c]
           /\ \A c \in DOMAIN deb[d].got :
                /\ charge'[c].remaining = charge[c].remaining - take[c]
                /\ ledger'[c] = ledger[c] - take[c]
           /\ \A c \in Charges : c \notin DOMAIN deb[d].got => ledger'[c] = ledger[c]
<1> DEFINE got == deb[d].got
           k == deb[d].cost
<1>0. charge \in [Charges -> ChargeRow] /\ ledger \in [Charges -> Int] /\ deb[d] \in DebitRow
  BY DEF IInv, Types
<1>1. PICK take \in [DOMAIN got -> 0..k] :
        /\ TakesOldestFirst(take, got, k)
        /\ charge' = [c \in Charges |-> IF c \in DOMAIN got /\ take[c] > 0
                        THEN [charge[c] EXCEPT !.remaining = got[c] - take[c]]
                        ELSE charge[c]]
        /\ ledger' = [c \in Charges |-> IF c \in DOMAIN got
                        THEN ledger[c] - take[c] ELSE ledger[c]]
  BY DEF DebitCommit
<1>2. k \in Nat /\ DOMAIN got \subseteq Charges /\ \A c \in DOMAIN got : got[c] = charge[c].remaining
  BY <1>0, PartsFacts DEF DebitRow, IInv, Held, GotIsHeld
<1>3. take \in [DOMAIN got -> Nat] /\ DOMAIN take = DOMAIN got
  BY <1>2
<1>4. Sum(take, DOMAIN got) = k /\ \A c \in DOMAIN got : take[c] <= got[c]
  BY <1>1, <1>3 DEF TakesOldestFirst, SumFunction, Sum
<1> HIDE DEF got, k
<1>5. ASSUME NEW c \in Charges
      PROVE  /\ charge'[c] \in ChargeRow /\ charge'[c].amount = charge[c].amount
             /\ charge'[c].sent = charge[c].sent
             /\ c \notin DOMAIN got => charge'[c] = charge[c]
             /\ c \in DOMAIN got => charge'[c].remaining = charge[c].remaining - take[c]
  <2>0. charge[c] \in ChargeRow
    BY <1>0
  <2>1. CASE c \in DOMAIN got /\ take[c] > 0
    <3>1. got[c] - take[c] \in Nat /\ got[c] = charge[c].remaining
      BY <1>2, <1>3, <1>4, <2>0, <2>1 DEF ChargeRow
    <3>2. charge'[c] = [charge[c] EXCEPT !.remaining = got[c] - take[c]]
      BY <1>1, <2>1
    <3> QED BY <2>0, <2>1, <3>1, <3>2 DEF ChargeRow
  <2>2. CASE ~(c \in DOMAIN got /\ take[c] > 0)
    <3>1. charge'[c] = charge[c]
      BY <1>1, <2>2
    <3>2. c \in DOMAIN got => take[c] = 0
      BY <1>3, <2>2
    <3> QED BY <2>0, <3>1, <3>2 DEF ChargeRow
  <2> QED BY <2>1, <2>2
<1>6. charge' \in [Charges -> ChargeRow]
  <2>1. charge' = [c \in Charges |-> charge'[c]]
    BY <1>1
  <2> QED BY <1>5, <2>1
<1>7. /\ ledger' \in [Charges -> Int]
      /\ \A c \in DOMAIN got : ledger'[c] = ledger[c] - take[c]
      /\ \A c \in Charges : c \notin DOMAIN got => ledger'[c] = ledger[c]
  BY <1>0, <1>1, <1>2, <1>3
<1>8. \A c \in DOMAIN got : take[c] <= charge[c].remaining
  BY <1>2, <1>4
<1> QED BY <1>2, <1>3, <1>4, <1>5, <1>6, <1>7, <1>8 DEF got, k

\* What a debit does to the owner's row.
LEMMA OwnerAfterDebit ==
  ASSUME IInv, NEW d \in Debits, DebitCommit(d)
  PROVE  /\ owner' \in OwnerRow /\ owner'.balance = owner.balance - deb[d].cost
         /\ EmptyFlagUnlessCrossed'
<1> DEFINE k == deb[d].cost
           row == [owner EXCEPT !.balance = @ - k]
<1>0. owner \in OwnerRow /\ k \in Nat /\ EmptyFlagUnlessCrossed /\ crossed' = crossed
  BY DEF IInv, Types, DebitRow, DebitCommit
<1>1. owner' = IF deb[d].quiet THEN row ELSE Notices(row)
  BY DEF DebitCommit
<1>2. row \in OwnerRow /\ row.balance = owner.balance - k /\ row.empty_at = owner.empty_at
  BY <1>0 DEF OwnerRow
<1> HIDE DEF row
<1>3. /\ Notices(row) \in OwnerRow /\ Notices(row).balance = row.balance
      /\ row.balance > 0 => Notices(row).empty_at = row.empty_at
  <2>1. row.balance \in Int /\ (row.balance > 0 <=> ~(row.balance <= 0))
    BY <1>2 DEF OwnerRow
  <2>2. Notices(row) \in {row, [row EXCEPT !.empty_at = "recent"], [row EXCEPT !.low_at = "recent"]}
    BY DEF Notices
  <2>3. row.balance > 0 => Notices(row) \in {row, [row EXCEPT !.low_at = "recent"]}
    BY <2>1 DEF Notices
  <2> QED BY <1>2, <2>2, <2>3 DEF OwnerRow, Flag
<1>4. /\ owner' \in OwnerRow /\ owner'.balance = owner.balance - k
      /\ owner'.balance > 0 => owner'.empty_at = owner.empty_at
  BY <1>1, <1>2, <1>3
<1>5. owner'.balance > 0 => owner.balance > 0
  BY <1>0, <1>4 DEF OwnerRow
<1> QED BY <1>0, <1>4, <1>5 DEF EmptyFlagUnlessCrossed

\* A debit commits.
LEMMA DebitStepKeeps ==
  ASSUME IInv, NEW d \in Debits, DebitCommit(d)
  PROVE  IInv'
<1> DEFINE D == DOMAIN deb[d].got
           k == deb[d].cost
<1>0. /\ Types /\ charge \in [Charges -> ChargeRow] /\ ledger \in [Charges -> Int]
      /\ k \in Nat /\ D \in SUBSET Charges
  BY PartsFacts DEF IInv, Types, DebitRow
<1>1. PICK take \in [D -> Nat] :
           /\ Sum(take, D) = k
           /\ \A c \in D : take[c] <= charge[c].remaining
           /\ charge' \in [Charges -> ChargeRow] /\ ledger' \in [Charges -> Int]
           /\ \A c \in Charges : /\ charge'[c].amount = charge[c].amount
                                 /\ charge'[c].sent = charge[c].sent
                                 /\ c \notin D => charge'[c] = charge[c]
           /\ \A c \in D : /\ charge'[c].remaining = charge[c].remaining - take[c]
                           /\ ledger'[c] = ledger[c] - take[c]
           /\ \A c \in Charges : c \notin D => ledger'[c] = ledger[c]
  BY TakeFacts
<1>2. owner' \in OwnerRow /\ owner'.balance = owner.balance - k /\ EmptyFlagUnlessCrossed'
  BY OwnerAfterDebit
<1>3. /\ deb' = [deb EXCEPT ![d] = IdleDebit] /\ lock' = Release(d) /\ billed' = billed + k
      /\ UNCHANGED <<credit, job, now, failures, raced, told, again, lost, crossed>>
  BY DEF DebitCommit
<1>4. /\ deb' \in [Debits -> DebitRow] /\ DOMAIN deb'[d].got = {} /\ deb'[d].pc = "idle"
      /\ \A e \in Debits : e # d => deb'[e] = deb[e]
  BY <1>0, <1>3, IdleFacts
<1>5. /\ lock' \in [Charges -> Debits \cup {Job, NoTask}]
      /\ \A c \in Charges : lock[c] # d => lock'[c] = lock[c]
  BY <1>0, <1>3, ReleaseFacts
<1>6. \A c \in D : lock[c] = d
  BY DEF IInv, Held, GotIsHeld
<1> HIDE DEF D, k
<1>7. Types'
  BY <1>0, <1>1, <1>2, <1>3, <1>4, <1>5 DEF Types
<1>8. \A c \in Charges : /\ Present(c)' <=> Present(c)
                         /\ charge'[c].remaining <= charge[c].remaining
  <2> SUFFICES ASSUME NEW c \in Charges
               PROVE  /\ Present(c)' <=> Present(c)
                      /\ charge'[c].remaining <= charge[c].remaining
    OBVIOUS
  <2>1. charge[c].remaining \in Nat
    BY <1>0 DEF ChargeRow
  <2>2. CASE c \in D
    BY <1>1, <2>1, <2>2 DEF Present
  <2>3. CASE c \notin D
    BY <1>1, <2>1, <2>3 DEF Present
  <2> QED BY <2>2, <2>3
<1>9. \A c \in Charges : /\ charge[c].remaining \in Nat /\ charge'[c].remaining \in Nat
                         /\ charge[c].amount \in Nat
  BY <1>0, <1>1 DEF ChargeRow
<1>10. Held'
  <2>1. Sane'
    BY <1>1, <1>8, <1>9 DEF IInv, Held, Sane
  <2>2. GotIsHeld'
    <3> SUFFICES ASSUME NEW e \in Debits, NEW x \in DOMAIN deb'[e].got
                 PROVE  lock'[x] = e /\ Present(x)' /\ deb'[e].got[x] = charge'[x].remaining
      BY DEF GotIsHeld
    <3>1. e # d /\ deb'[e] = deb[e]
      BY <1>4
    <3>2. lock[x] = e /\ Present(x) /\ deb[e].got[x] = charge[x].remaining
      BY <3>1 DEF IInv, Held, GotIsHeld
    <3>3. x \in Charges
      BY <3>1, PartsFacts DEF IInv, Types, DebitRow
    <3>4. x \notin D
      BY <1>6, <3>1, <3>2
    <3> QED BY <1>1, <1>5, <1>8, <3>1, <3>2, <3>3, <3>4
  <2>3. GotInTime'
    BY <1>4 DEF IInv, Held, GotInTime
  <2>4. DOMAIN job.seen \subseteq Charges /\ \A c \in DOMAIN job.seen : job.seen[c] \in Nat
    BY PartsFacts DEF IInv, Types, JobRow
  <2>5. SeenIsEnough'
    <3> SUFFICES ASSUME NEW c \in DOMAIN job.seen
                 PROVE  Present(c)' /\ charge'[c].remaining <= job.seen[c]
      BY <1>3 DEF SeenIsEnough
    <3>1. Present(c) /\ charge[c].remaining <= job.seen[c] /\ job.seen[c] \in Nat /\ c \in Charges
      BY <2>4 DEF IInv, Held, SeenIsEnough
    <3> QED BY <1>8, <1>9, <3>1
  <2>6. SeenIsHeld'
    <3>1. \A c \in DOMAIN job.seen : lock[c] = Job => lock'[c] = Job
      BY <1>5, <2>4, TasksDiffer
    <3> QED BY <1>3, <3>1 DEF IInv, Held, SeenIsHeld
  <2> QED BY <2>1, <2>2, <2>3, <2>5, <2>6 DEF Held
<1>11. Money'
  <2>1. /\ \A x \in Charges : Rem[x] = charge[x].remaining /\ Rem[x] \in Nat
        /\ \A x \in Charges : Amt[x] = charge[x].amount /\ Amt[x] \in Nat
        /\ Sum(Rem, Charges) \in Nat /\ Sum(Amt, Charges) \in Nat
        /\ Sum(ledger, Charges) \in Int
    BY <1>0, Totals
  <2>2. \A x \in Charges : Rem'[x] = charge'[x].remaining /\ Rem'[x] \in Nat
    BY <1>9 DEF Rem
  <2>3. Amt' = Amt
    BY <1>1 DEF Amt
  <2>4. \A x \in D : take[x] \in Int
    OBVIOUS
  <2>5. Sum(Rem, Charges) = Sum(Rem', Charges) + k
    <3> DEFINE f == Rem'
               g == Rem
    <3>1. \A x \in Charges : g[x] = IF x \in D THEN f[x] + take[x] ELSE f[x]
      BY <1>0, <1>1, <2>1, <2>2, <2>4
    <3>2. \A x \in Charges : f[x] \in Int
      BY <2>2
    <3> HIDE DEF f, g
    <3>3. Sum(g, Charges) = Sum(f, Charges) + Sum(take, D)
      BY <1>0, <2>4, <3>1, <3>2, SumShift, ChargesAreFinite
    <3> QED BY <1>1, <3>3 DEF f, g
  <2>6. Sum(ledger, Charges) = Sum(ledger', Charges) + k
    <3> DEFINE f == ledger'
               g == ledger
    <3>1. \A x \in Charges : g[x] = IF x \in D THEN f[x] + take[x] ELSE f[x]
      BY <1>0, <1>1, <2>4
    <3>2. \A x \in Charges : f[x] \in Int
      BY <1>1
    <3> HIDE DEF f, g
    <3>3. Sum(g, Charges) = Sum(f, Charges) + Sum(take, D)
      BY <1>0, <2>4, <3>1, <3>2, SumShift, ChargesAreFinite
    <3> QED BY <1>1, <3>3 DEF f, g
  <2>7. ledger = Rem => ledger' = Rem'
    <3>1. Rem' = [x \in Charges |-> Rem'[x]] /\ ledger' = [x \in Charges |-> ledger'[x]]
      BY <1>1 DEF Rem
    <3>2. ledger = Rem => \A x \in Charges : ledger'[x] = Rem'[x]
      BY <1>1, <2>1, <2>2
    <3> QED BY <3>1, <3>2
  <2>8. /\ owner.balance \in Int /\ billed \in Nat
        /\ Sum(Rem', Charges) \in Int /\ Sum(ledger', Charges) \in Int
    <3>1. \A x \in Charges : Rem'[x] \in Int /\ ledger'[x] \in Int
      BY <1>1, <2>2
    <3> QED BY <1>0, <3>1, SumType, ChargesAreFinite DEF OwnerRow, Types
  <2>9. /\ ~raced => owner.balance = Sum(Rem, Charges) /\ ledger = Rem
        /\ Sum(ledger, Charges) <= owner.balance
        /\ owner.balance <= Sum(Rem, Charges)
        /\ billed + Sum(Rem, Charges) <= Sum(Amt, Charges)
    BY DEF IInv, Money
  <2>10. /\ ~raced' => owner'.balance = Sum(Rem', Charges) /\ ledger' = Rem'
         /\ Sum(ledger', Charges) <= owner'.balance
         /\ owner'.balance <= Sum(Rem', Charges)
         /\ billed' + Sum(Rem', Charges) <= Sum(Amt', Charges)
    BY <1>0, <1>2, <1>3, <2>1, <2>3, <2>5, <2>6, <2>7, <2>8, <2>9
  <2> QED BY <2>10 DEF Money, Sum
<1>12. Reminders'
  <2>1. JobsParts'
    <3>1. DOMAIN job.due \subseteq Charges /\ DOMAIN job.marks \subseteq Charges
      BY <1>0, PartsFacts DEF Types, JobRow
    <3> QED BY <1>3, <1>8, <3>1 DEF IInv, Reminders, JobsParts
  <2>2. ~lost => ToldIsNoted' /\ DueIsNearer'
    BY <1>1, <1>3, <1>8 DEF IInv, Reminders, ToldIsNoted, DueIsNearer, Marking
  <2> QED BY <1>3, <2>1, <2>2 DEF IInv, Reminders, RemindersComeNearer
<1> QED BY <1>2, <1>7, <1>10, <1>11, <1>12 DEF IInv

-----------------------------------------------------------------------------
\* Steps of the job before its commit: what it does is its own, and it locks
\* only charges that nobody holds.

Apart ==
  /\ UNCHANGED <<charge, owner, ledger, deb, credit, now, failures, billed, raced, crossed>>
  /\ \A c \in Charges : lock'[c] = lock[c] \/ lock[c] \in {NoTask, Job}

\* Such a step leaves the debits and the money alone.
LEMMA ApartStep ==
  ASSUME IInv, Apart
  PROVE  Sane' /\ GotIsHeld' /\ GotInTime' /\ Money' /\ EmptyFlagUnlessCrossed'
<1>1. \A d \in Debits : DOMAIN deb[d].got \subseteq Charges
  BY PartsFacts DEF IInv, Types, DebitRow
<1>2. \A d \in Debits : \A c \in DOMAIN deb[d].got : lock'[c] = lock[c]
  BY <1>1, TasksDiffer DEF Apart, IInv, Held, GotIsHeld
<1>3. Sane' /\ GotIsHeld' /\ GotInTime'
  BY <1>2 DEF Apart, IInv, Held, Sane, GotIsHeld, GotInTime, Present
<1>4. Money' /\ EmptyFlagUnlessCrossed'
  BY DEF Apart, IInv, Money, Rem, Amt, EmptyFlagUnlessCrossed
<1> QED BY <1>3, <1>4

\* What is left to show of such a step.
LEMMA ApartKeeps ==
  ASSUME IInv, Apart, lock' \in [Charges -> Debits \cup {Job, NoTask}], job' \in JobRow,
         told' \in [Charges -> Nat], again' \in BOOLEAN, lost' \in BOOLEAN,
         SeenIsEnough', SeenIsHeld', Reminders'
  PROVE  IInv'
<1>1. Types'
  BY DEF IInv, Types, Apart
<1> QED BY <1>1, ApartStep DEF IInv, Held

\* The job reads which charges are stale.
LEMMA SelectStep == ASSUME IInv, JobSelect PROVE IInv'
<1> DEFINE S == {c \in Charges : Stale(c)}
           pc == IF S = {} THEN "locking" ELSE "selected"
           seen == [c \in S |-> charge[c].remaining]
           w == [job EXCEPT !.pc = pc, !.seen = seen, !.todo = S]
<1>0. Types /\ job \in JobRow
  BY DEF IInv, Types
<1>1. /\ job.pc = "idle" /\ job' = w
      /\ UNCHANGED <<charge, owner, ledger, lock, deb, credit, now, failures, history>>
  BY DEF JobSelect
<1>2. \A c \in S : /\ charge[c].remaining \in Nat /\ Present(c)
  <2> SUFFICES ASSUME NEW c \in S PROVE charge[c].remaining \in Nat /\ Present(c)
    OBVIOUS
  <2>1. charge[c] \in ChargeRow /\ charge[c].remaining <= charge[c].amount /\ Live(charge[c])
    BY <1>0 DEF Types, IInv, Held, Sane, Stale
  <2> QED BY <2>1 DEF ChargeRow, Present, Live
<1>3. seen \in Parts /\ DOMAIN seen = S /\ \A c \in S : seen[c] = charge[c].remaining
  <2>1. seen \in [S -> Nat]
    BY <1>2
  <2> QED BY <2>1, PartsFacts
<1>4. S \in SUBSET Charges /\ pc \in {"locking", "selected"} /\ (pc = "locking" <=> S = {})
  OBVIOUS
<1> HIDE DEF pc, seen, S
<1>5. /\ w \in JobRow /\ w.pc = pc /\ w.seen = seen /\ w.todo = S /\ w.owner = job.owner
      /\ w.due = job.due /\ w.marks = job.marks
  BY <1>0, <1>3, <1>4 DEF JobRow
<1> HIDE DEF w
<1>6. Apart
  BY <1>1 DEF Apart, history
<1>7. SeenIsEnough'
  <2>1. \A c \in S : charge[c].remaining <= charge[c].remaining
    BY <1>2
  <2> QED BY <1>1, <1>2, <1>3, <1>5, <2>1 DEF SeenIsEnough, Present
<1>8. SeenIsHeld'
  BY <1>1, <1>3, <1>4, <1>5 DEF SeenIsHeld, IInv, Held
<1>9. Reminders'
  <2>0. DOMAIN job.due = {} /\ DOMAIN job.marks = {} /\ ~(\E c \in Charges : Marking(c))
    BY <1>1 DEF IInv, Reminders, JobsParts, Marking
  <2>1. JobsParts'
    BY <1>1, <1>4, <1>5, <2>0 DEF JobsParts
  <2>2. ~lost' => ToldIsNoted' /\ DueIsNearer'
    BY <1>1, <1>5, <2>0 DEF IInv, Reminders, ToldIsNoted, DueIsNearer, Present, history
  <2> QED BY <1>1, <2>1, <2>2 DEF IInv, Reminders, RemindersComeNearer, history
<1> QED BY <1>0, <1>1, <1>5, <1>6, <1>7, <1>8, <1>9, ApartKeeps DEF Types, history

\* The job takes the owner's row.
LEMMA OwnerStep == ASSUME IInv, JobOwner PROVE IInv'
<1> DEFINE w == [job EXCEPT !.pc = "locking", !.owner = TRUE]
<1>0. Types /\ job \in JobRow
  BY DEF IInv, Types
<1>1. /\ job.pc = "selected" /\ job' = w
      /\ UNCHANGED <<charge, owner, ledger, lock, deb, credit, now, failures, history>>
  BY DEF JobOwner
<1>2. /\ w \in JobRow /\ w.pc = "locking" /\ w.owner = TRUE /\ w.todo = job.todo
      /\ w.seen = job.seen /\ w.due = job.due /\ w.marks = job.marks
  BY <1>0 DEF JobRow
<1> HIDE DEF w
<1>3. Apart
  BY <1>1 DEF Apart, history
<1>4. SeenIsEnough'
  BY <1>1, <1>2 DEF IInv, Held, SeenIsEnough, Present
<1>5. SeenIsHeld'
  BY <1>1, <1>2 DEF IInv, Held, SeenIsHeld
<1>6. Reminders'
  BY <1>1, <1>2 DEF IInv, Reminders, JobsParts, ToldIsNoted, DueIsNearer, Marking, Present,
                    RemindersComeNearer, history
<1> QED BY <1>0, <1>1, <1>2, <1>3, <1>4, <1>5, <1>6, ApartKeeps DEF Types, history

\* The job locks a charge that it will write.
LEMMA JobLockStep == ASSUME IInv, NEW c \in Charges, JobLock(c) PROVE IInv'
<1> DEFINE w == [job EXCEPT !.todo = @ \ {c}]
<1>0. Types /\ job \in JobRow /\ lock \in [Charges -> Debits \cup {Job, NoTask}]
  BY DEF IInv, Types
<1>1. /\ job.pc = "locking" /\ c \in job.todo /\ lock[c] = NoTask
      /\ lock' = [lock EXCEPT ![c] = Job] /\ job' = w
      /\ UNCHANGED <<charge, owner, ledger, deb, credit, now, failures, history>>
  BY DEF JobLock
<1>2. /\ w \in JobRow /\ w.pc = "locking" /\ w.owner = job.owner /\ w.todo = job.todo \ {c}
      /\ w.seen = job.seen /\ w.due = job.due /\ w.marks = job.marks
  BY <1>0, <1>1 DEF JobRow
<1> HIDE DEF w
<1>3. /\ lock' \in [Charges -> Debits \cup {Job, NoTask}] /\ lock'[c] = Job
      /\ \A x \in Charges : x # c => lock'[x] = lock[x]
  BY <1>0, <1>1
<1>4. Apart
  BY <1>1, <1>3 DEF Apart, history
<1>5. SeenIsEnough'
  BY <1>1, <1>2 DEF IInv, Held, SeenIsEnough, Present
<1>6. SeenIsHeld'
  <2>1. DOMAIN job.seen \subseteq Charges
    BY <1>0, PartsFacts DEF JobRow
  <2> QED BY <1>1, <1>2, <1>3, <2>1 DEF IInv, Held, SeenIsHeld
<1>7. Reminders'
  BY <1>1, <1>2 DEF IInv, Reminders, JobsParts, ToldIsNoted, DueIsNearer, Marking, Present,
                    RemindersComeNearer, history
<1> QED BY <1>0, <1>1, <1>2, <1>3, <1>4, <1>5, <1>6, <1>7, ApartKeeps DEF Types, history

\* The job looks for the reminders that are due: each is nearer than the last.
LEMMA DueStep == ASSUME IInv, JobDue PROVE IInv'
<1> DEFINE S == {c \in Charges \ DOMAIN job.seen : NeedsReminder(c)}
           due == [c \in S |-> Min(DueReminders(c))]
           w == [job EXCEPT !.pc = "reminding", !.due = due]
<1>0. Types /\ job \in JobRow /\ told \in [Charges -> Nat]
  BY DEF IInv, Types
<1>1. /\ job.pc = "locking" /\ job.todo = {} /\ job' = w
      /\ UNCHANGED <<charge, owner, ledger, lock, deb, credit, now, failures, history>>
  BY DEF JobDue
<1>2. DOMAIN job.due = {} /\ DOMAIN job.marks = {} /\ \A c \in Charges : ~Marking(c)
  BY <1>1 DEF IInv, Reminders, JobsParts, Marking
<1>3. \A c \in S : /\ Present(c) /\ Min(DueReminders(c)) \in Thresholds
                   /\ \A e \in charge[c].sent : e > Min(DueReminders(c))
  <2> SUFFICES ASSUME NEW c \in S
               PROVE  /\ Present(c) /\ Min(DueReminders(c)) \in Thresholds
                      /\ \A e \in charge[c].sent : e > Min(DueReminders(c))
    OBVIOUS
  <2>1. charge[c] \in ChargeRow /\ charge[c].remaining <= charge[c].amount /\ Live(charge[c])
    BY <1>0 DEF Types, IInv, Held, Sane, NeedsReminder
  <2>2. DueReminders(c) # {} /\ DueReminders(c) \in SUBSET Nat
    BY ThresholdsAreNat DEF NeedsReminder, DueReminders
  <2>3. Min(DueReminders(c)) \in DueReminders(c)
    BY <2>2, MinIn
  <2>4. Min(DueReminders(c)) \in Thresholds /\ \A e \in charge[c].sent : e > Min(DueReminders(c))
    BY <2>3 DEF DueReminders
  <2> QED BY <2>1, <2>4 DEF ChargeRow, Present, Live
<1>4. /\ due \in Parts /\ DOMAIN due = S
      /\ \A c \in S : due[c] \in Thresholds /\ \A e \in charge[c].sent : e > due[c]
  <2>1. due \in [S -> Nat]
    BY <1>3, ThresholdsAreNat
  <2>2. S \in SUBSET Charges
    OBVIOUS
  <2>3. due \in Parts
    <3> HIDE DEF due, S
    <3> QED BY <2>1, <2>2, PartsFacts
  <2> QED BY <1>3, <2>3
<1>5. S \cap DOMAIN job.seen = {} /\ S \subseteq Charges
  OBVIOUS
<1> HIDE DEF due, S
<1>6. /\ w \in JobRow /\ w.pc = "reminding" /\ w.owner = job.owner /\ w.todo = job.todo
      /\ w.seen = job.seen /\ w.due = due /\ w.marks = job.marks
  BY <1>0, <1>4 DEF JobRow
<1> HIDE DEF w
<1>7. Apart
  BY <1>1 DEF Apart, history
<1>8. SeenIsEnough'
  BY <1>1, <1>6 DEF IInv, Held, SeenIsEnough, Present
<1>9. SeenIsHeld'
  BY <1>1, <1>6 DEF IInv, Held, SeenIsHeld
<1>10. Reminders'
  <2>1. JobsParts'
    BY <1>1, <1>2, <1>3, <1>4, <1>5, <1>6 DEF JobsParts, Present
  <2>2. ~lost' => ToldIsNoted'
    BY <1>1, <1>2, <1>6 DEF IInv, Reminders, ToldIsNoted, Present, history
  <2>3. ~lost' => DueIsNearer'
    <3> SUFFICES ASSUME ~lost, NEW c \in S, told[c] # 0
                 PROVE  due[c] < told[c]
      BY <1>1, <1>4, <1>6 DEF DueIsNearer, history
    <3>1. told[c] \in charge[c].sent
      BY <1>2, <1>5 DEF IInv, Reminders, ToldIsNoted
    <3>2. told[c] > due[c] /\ told[c] \in Nat /\ due[c] \in Nat
      BY <1>0, <1>4, <1>5, <3>1, ThresholdsAreNat
    <3> QED BY <3>2
  <2> QED BY <1>1, <2>1, <2>2, <2>3 DEF IInv, Reminders, RemindersComeNearer, history
<1> QED BY <1>0, <1>1, <1>6, <1>7, <1>8, <1>9, <1>10, ApartKeeps DEF Types, history

\* A reminder is sent, nearer than the last one for that charge.
LEMMA SendStep == ASSUME IInv, NEW c \in Charges, JobSend(c) PROVE IInv'
<1> DEFINE w == [job EXCEPT !.pc = "marking", !.todo = {c}]
<1>0. Types /\ job \in JobRow /\ told \in [Charges -> Nat]
  BY DEF IInv, Types
<1>1. /\ job.pc = "reminding" /\ c \in DOMAIN job.due
      /\ again' = (again \/ (told[c] # 0 /\ job.due[c] >= told[c]))
      /\ told' = [told EXCEPT ![c] = job.due[c]] /\ job' = w
      /\ UNCHANGED <<charge, owner, ledger, lock, deb, credit, now, failures,
                     billed, raced, lost, crossed>>
  BY DEF JobSend
<1>2. /\ w \in JobRow /\ w.pc = "marking" /\ w.owner = job.owner /\ w.todo = {c}
      /\ w.seen = job.seen /\ w.due = job.due /\ w.marks = job.marks
  BY <1>0 DEF JobRow
<1> HIDE DEF w
<1>3. DOMAIN job.due \subseteq Charges /\ \A x \in DOMAIN job.due : job.due[x] \in Nat
  BY <1>0, PartsFacts DEF JobRow
<1>4. /\ told' \in [Charges -> Nat] /\ told'[c] = job.due[c]
      /\ \A x \in Charges : x # c => told'[x] = told[x]
  BY <1>0, <1>1, <1>3
<1>5. Apart
  BY <1>1 DEF Apart
<1>6. SeenIsEnough'
  BY <1>1, <1>2 DEF IInv, Held, SeenIsEnough, Present
<1>7. SeenIsHeld'
  BY <1>1, <1>2 DEF IInv, Held, SeenIsHeld
<1>8. \A x \in Charges : ~Marking(x)
  BY <1>1 DEF Marking
<1>9. Reminders'
  <2>1. JobsParts'
    BY <1>1, <1>2 DEF IInv, Reminders, JobsParts, Present
  <2>2. ~lost' => ToldIsNoted'
    <3> SUFFICES ASSUME ~lost, NEW x \in Charges, told'[x] # 0
                 PROVE  /\ Present(x)
                        /\ \/ told'[x] \in charge[x].sent
                           \/ x \in DOMAIN job.marks /\ job.marks[x] = told'[x]
                           \/ x = c /\ job.due[x] = told'[x]
      BY <1>1, <1>2 DEF ToldIsNoted, Marking, Present
    <3>1. CASE x = c
      BY <1>1, <1>4, <3>1 DEF IInv, Reminders, JobsParts
    <3>2. CASE x # c
      BY <1>4, <1>8, <3>2 DEF IInv, Reminders, ToldIsNoted
    <3> QED BY <3>1, <3>2
  <2>3. ~lost' => DueIsNearer'
    <3> SUFFICES ASSUME ~lost, NEW x \in DOMAIN job.due, told'[x] # 0
                 PROVE  x = c \/ job.due[x] < told'[x]
      BY <1>1, <1>2 DEF DueIsNearer, Marking
    <3> QED BY <1>3, <1>4, <1>8 DEF IInv, Reminders, DueIsNearer
  <2>4. RemindersComeNearer'
    <3>1. ~lost /\ told[c] # 0 => job.due[c] < told[c]
      BY <1>1, <1>8 DEF IInv, Reminders, DueIsNearer
    <3>2. job.due[c] \in Nat /\ told[c] \in Nat
      BY <1>0, <1>1, <1>3
    <3>3. again => lost
      BY DEF IInv, Reminders, RemindersComeNearer
    <3>4. ~lost /\ told[c] # 0 => ~(job.due[c] >= told[c])
      BY <3>1, <3>2
    <3> QED BY <1>1, <3>3, <3>4 DEF RemindersComeNearer
  <2> QED BY <2>1, <2>2, <2>3, <2>4 DEF Reminders
<1>10. again' \in BOOLEAN
  BY <1>1
<1> QED BY <1>0, <1>1, <1>2, <1>4, <1>5, <1>6, <1>7, <1>9, <1>10, ApartKeeps DEF Types

\* What is left of the reminders that are due when one is done with.
LEMMA DropFacts ==
  ASSUME NEW f \in Parts, NEW c
  PROVE  /\ Restrict(f, DOMAIN f \ {c}) \in Parts
         /\ DOMAIN Restrict(f, DOMAIN f \ {c}) = DOMAIN f \ {c}
         /\ \A x \in DOMAIN f \ {c} : Restrict(f, DOMAIN f \ {c})[x] = f[x]
<1> DEFINE S == DOMAIN f \ {c}
           g == [x \in S |-> f[x]]
<1>1. S \in SUBSET Charges /\ g \in [S -> Nat]
  BY PartsFacts
<1>2. g \in Parts
  <2> HIDE DEF g, S
  <2> QED BY <1>1, PartsFacts
<1>3. Restrict(f, S) = g
  BY DEF Restrict
<1> QED BY <1>2, <1>3

\* A reminder cannot be sent.
LEMMA SendFailsStep == ASSUME IInv, NEW c \in Charges, JobSendFails(c) PROVE IInv'
<1> DEFINE due == Restrict(job.due, DOMAIN job.due \ {c})
           w == [job EXCEPT !.due = due]
<1>0. Types /\ job \in JobRow
  BY DEF IInv, Types
<1>1. /\ job.pc = "reminding" /\ c \in DOMAIN job.due /\ job' = w
      /\ UNCHANGED <<charge, owner, ledger, lock, deb, credit, now, failures, history>>
  BY DEF JobSendFails
<1>2. /\ due \in Parts /\ DOMAIN due = DOMAIN job.due \ {c}
      /\ \A x \in DOMAIN due : due[x] = job.due[x]
  <2>1. job.due \in Parts
    BY <1>0 DEF JobRow
  <2> QED BY <2>1, DropFacts
<1> HIDE DEF due
<1>3. /\ w \in JobRow /\ w.pc = "reminding" /\ w.owner = job.owner /\ w.todo = job.todo
      /\ w.seen = job.seen /\ w.due = due /\ w.marks = job.marks
  BY <1>0, <1>1, <1>2 DEF JobRow
<1> HIDE DEF w
<1>4. Apart
  BY <1>1 DEF Apart, history
<1>5. SeenIsEnough'
  BY <1>1, <1>3 DEF IInv, Held, SeenIsEnough, Present
<1>6. SeenIsHeld'
  BY <1>1, <1>3 DEF IInv, Held, SeenIsHeld
<1>7. Reminders'
  <2>1. JobsParts'
    BY <1>1, <1>2, <1>3 DEF IInv, Reminders, JobsParts, Present
  <2>2. ~lost' => ToldIsNoted' /\ DueIsNearer'
    BY <1>1, <1>2, <1>3 DEF IInv, Reminders, ToldIsNoted, DueIsNearer, Marking, Present, history
  <2> QED BY <1>1, <2>1, <2>2 DEF IInv, Reminders, RemindersComeNearer, history
<1> QED BY <1>0, <1>1, <1>3, <1>4, <1>5, <1>6, <1>7, ApartKeeps DEF Types, history

\* The reminder that was sent is marked on its charge.
LEMMA MarkStep == ASSUME IInv, NEW c \in Charges, JobMark(c) PROVE IInv'
<1> DEFINE due == Restrict(job.due, DOMAIN job.due \ {c})
           marks == [x \in DOMAIN job.marks \cup {c} |->
                       IF x = c THEN job.due[c] ELSE job.marks[x]]
           w == [job EXCEPT !.pc = "reminding", !.todo = {}, !.due = due, !.marks = marks]
<1>0. Types /\ job \in JobRow /\ lock \in [Charges -> Debits \cup {Job, NoTask}]
  BY DEF IInv, Types
<1>1. /\ job.pc = "marking" /\ c \in job.todo /\ lock[c] = NoTask
      /\ lock' = [lock EXCEPT ![c] = Job]
      /\ UNCHANGED <<charge, owner, ledger, deb, credit, now, failures, history>>
  BY DEF JobMark
<1>2. job' = w
  BY <1>0 DEF JobMark, JobRow
<1>3. job.todo = {c} /\ c \in DOMAIN job.due /\ c \notin DOMAIN job.marks
  BY <1>1 DEF IInv, Reminders, JobsParts
<1>4. /\ due \in Parts /\ DOMAIN due = DOMAIN job.due \ {c}
      /\ \A x \in DOMAIN due : due[x] = job.due[x]
  <2>1. job.due \in Parts
    BY <1>0 DEF JobRow
  <2> QED BY <2>1, DropFacts
<1>5. /\ marks \in Parts /\ DOMAIN marks = DOMAIN job.marks \cup {c}
      /\ marks[c] = job.due[c] /\ \A x \in DOMAIN job.marks : marks[x] = job.marks[x]
  <2> DEFINE S == DOMAIN job.marks \cup {c}
  <2>1. S \in SUBSET Charges /\ job.due[c] \in Nat /\ \A x \in DOMAIN job.marks : job.marks[x] \in Nat
    BY <1>0, <1>3, PartsFacts DEF JobRow
  <2>2. marks \in [S -> Nat]
    BY <2>1
  <2>3. marks \in Parts
    <3> HIDE DEF marks, S
    <3> QED BY <2>1, <2>2, PartsFacts
  <2> QED BY <1>3, <2>3
<1> HIDE DEF due, marks
<1>6. /\ w \in JobRow /\ w.pc = "reminding" /\ w.owner = job.owner /\ w.todo = {}
      /\ w.seen = job.seen /\ w.due = due /\ w.marks = marks
  BY <1>0, <1>4, <1>5 DEF JobRow
<1> HIDE DEF w
<1>7. /\ lock' \in [Charges -> Debits \cup {Job, NoTask}] /\ lock'[c] = Job
      /\ \A x \in Charges : x # c => lock'[x] = lock[x]
  BY <1>0, <1>1
<1>8. Apart
  BY <1>1, <1>7 DEF Apart, history
<1>9. SeenIsEnough'
  BY <1>1, <1>2, <1>6 DEF IInv, Held, SeenIsEnough, Present
<1>10. SeenIsHeld'
  <2>1. DOMAIN job.seen \subseteq Charges
    BY <1>0, PartsFacts DEF JobRow
  <2> QED BY <1>1, <1>2, <1>6, <1>7, <2>1 DEF IInv, Held, SeenIsHeld
<1>11. Reminders'
  <2>1. JobsParts'
    BY <1>1, <1>2, <1>3, <1>4, <1>5, <1>6 DEF IInv, Reminders, JobsParts, Present
  <2>2. ~lost' => ToldIsNoted'
    <3> SUFFICES ASSUME ~lost, NEW x \in Charges, told[x] # 0
                 PROVE  /\ Present(x)
                        /\ \/ told[x] \in charge[x].sent
                           \/ x \in DOMAIN marks /\ marks[x] = told[x]
      BY <1>1, <1>2, <1>6 DEF ToldIsNoted, Present, history
    <3>1. /\ Present(x)
          /\ \/ told[x] \in charge[x].sent
             \/ x \in DOMAIN job.marks /\ job.marks[x] = told[x]
             \/ x = c /\ job.due[x] = told[x]
      BY <1>3 DEF IInv, Reminders, ToldIsNoted, Marking
    <3> QED BY <1>5, <3>1
  <2>3. ~lost' => DueIsNearer'
    <3> SUFFICES ASSUME ~lost, NEW x \in DOMAIN due, told[x] # 0
                 PROVE  due[x] < told[x]
      BY <1>1, <1>2, <1>6 DEF DueIsNearer, history
    <3> QED BY <1>3, <1>4 DEF IInv, Reminders, DueIsNearer, Marking
  <2> QED BY <1>1, <2>1, <2>2, <2>3 DEF IInv, Reminders, RemindersComeNearer, history
<1> QED BY <1>0, <1>1, <1>2, <1>6, <1>7, <1>8, <1>9, <1>10, <1>11, ApartKeeps DEF Types, history

\* The job is rolled back: what it has sent is forgotten.
LEMMA JobVictimStep == ASSUME IInv, JobVictim PROVE IInv'
<1>0. Types
  BY DEF IInv
<1>1. /\ job' = IdleJob /\ lock' = Release(Job)
      /\ lost' = (lost \/ job.pc = "marking" \/ DOMAIN job.marks # {})
      /\ UNCHANGED <<charge, owner, ledger, deb, credit, now, failures,
                     billed, raced, told, again, crossed>>
  BY DEF JobVictim
<1>2. /\ lock' \in [Charges -> Debits \cup {Job, NoTask}]
      /\ \A c \in Charges : lock'[c] = lock[c] \/ lock[c] = Job
  BY <1>0, <1>1, ReleaseFacts
<1>3. Apart
  BY <1>1, <1>2 DEF Apart
<1>4. SeenIsEnough' /\ SeenIsHeld'
  BY <1>1, IdleRows DEF SeenIsEnough, SeenIsHeld
<1>5. Reminders'
  <2>1. JobsParts'
    BY <1>1, IdleRows DEF JobsParts
  <2>2. ~lost' => ToldIsNoted' /\ DueIsNearer'
    BY <1>1, IdleRows DEF IInv, Reminders, ToldIsNoted, DueIsNearer, Marking, Present
  <2> QED BY <1>1, <2>1, <2>2 DEF IInv, Reminders, RemindersComeNearer
<1>6. lost' \in BOOLEAN /\ job' \in JobRow
  BY <1>1, IdleRows
<1> QED BY <1>0, <1>1, <1>2, <1>3, <1>4, <1>5, <1>6, ApartKeeps DEF Types

-----------------------------------------------------------------------------
\* What the job's commit does to the charges.
LEMMA WrittenFacts ==
  ASSUME IInv, JobCommit
  PROVE  /\ charge' \in [Charges -> ChargeRow]
         /\ \A c \in Charges :
              /\ charge'[c].amount = charge[c].amount
              /\ charge'[c].remaining = IF c \in DOMAIN job.seen THEN 0 ELSE charge[c].remaining
              /\ charge[c].sent \subseteq charge'[c].sent
              /\ c \in DOMAIN job.marks => job.marks[c] \in charge'[c].sent
<1>0. /\ charge \in [Charges -> ChargeRow]
      /\ \A c \in DOMAIN job.marks : job.marks[c] \in Thresholds /\ c \notin DOMAIN job.seen
  BY DEF IInv, Types, Reminders, JobsParts
<1>1. charge' = [c \in Charges |-> ChargeAfterJob(c)]
  BY DEF JobCommit
<1>2. ASSUME NEW c \in Charges
      PROVE  /\ charge'[c] \in ChargeRow
             /\ charge'[c].amount = charge[c].amount
             /\ charge'[c].remaining = IF c \in DOMAIN job.seen THEN 0 ELSE charge[c].remaining
             /\ charge[c].sent \subseteq charge'[c].sent
             /\ c \in DOMAIN job.marks => job.marks[c] \in charge'[c].sent
  <2>0. charge[c] \in ChargeRow /\ charge'[c] = ChargeAfterJob(c)
    BY <1>0, <1>1
  <2>1. CASE c \in DOMAIN job.seen
    <3> DEFINE w == [charge[c] EXCEPT !.remaining = 0, !.is_expired = TRUE]
    <3>1. w \in ChargeRow /\ w.amount = charge[c].amount /\ w.remaining = 0 /\ w.sent = charge[c].sent
      BY <2>0 DEF ChargeRow
    <3>2. charge'[c] = w
      BY <2>0, <2>1 DEF ChargeAfterJob
    <3> HIDE DEF w
    <3> QED BY <1>0, <2>1, <3>1, <3>2
  <2>2. CASE c \notin DOMAIN job.seen /\ c \in DOMAIN job.marks
    <3> DEFINE sent == charge[c].sent \cup {job.marks[c]}
               w == [charge[c] EXCEPT !.sent = sent]
    <3>1. sent \in SUBSET Thresholds
      BY <1>0, <2>0, <2>2 DEF ChargeRow
    <3>2. charge[c].sent \subseteq sent /\ job.marks[c] \in sent
      OBVIOUS
    <3>3. charge'[c] = w
      BY <2>0, <2>2 DEF ChargeAfterJob
    <3> HIDE DEF sent
    <3>4. w \in ChargeRow /\ w.amount = charge[c].amount /\ w.remaining = charge[c].remaining /\ w.sent = sent
      BY <2>0, <3>1 DEF ChargeRow
    <3> HIDE DEF w
    <3> QED BY <2>2, <3>2, <3>3, <3>4
  <2>3. CASE c \notin DOMAIN job.seen /\ c \notin DOMAIN job.marks
    BY <2>0, <2>3 DEF ChargeAfterJob
  <2> QED BY <2>1, <2>2, <2>3
<1>3. charge' = [c \in Charges |-> charge'[c]]
  BY <1>1
<1> QED BY <1>2, <1>3

\* What the job's commit does to the money: the charges it has seen are
\* emptied, and the balance goes down by what it has seen, not below zero.
LEMMA ExpiryMoney ==
  ASSUME IInv, JobCommit
  PROVE  Money' /\ EmptyFlagUnlessCrossed' /\ owner' \in OwnerRow /\ ledger' \in [Charges -> Int]
<1> DEFINE D == DOMAIN job.seen
           seen == job.seen
           Q == Sum(seen, D)
<1>0. /\ Types /\ owner \in OwnerRow /\ ledger \in [Charges -> Int] /\ owner.balance \in Int
      /\ billed \in Nat
  BY DEF IInv, Types, OwnerRow
<1>1. D \in SUBSET Charges /\ IsFiniteSet(D) /\ \A c \in D : seen[c] \in Nat
  <2>1. D \in SUBSET Charges /\ \A c \in D : seen[c] \in Nat
    BY <1>0, PartsFacts DEF Types, JobRow
  <2> QED BY <2>1, FS_Subset, ChargesAreFinite
<1>2. \A c \in D : charge[c].remaining <= seen[c]
  BY DEF IInv, Held, SeenIsEnough
<1>3. /\ job.owner \in BOOLEAN /\ (job.owner <=> D # {})
  BY DEF JobCommit, IInv, Held, SeenIsHeld, Types, JobRow
<1>4. /\ owner' = [owner EXCEPT !.balance = IF job.owner THEN AtLeastZero(owner.balance - Q) ELSE @]
      /\ ledger' = [c \in Charges |-> IF c \in D THEN ledger[c] - seen[c] ELSE ledger[c]]
      /\ raced' = (raced \/ \E c \in D : seen[c] # charge[c].remaining)
      /\ billed' = billed /\ crossed' = crossed
  BY DEF JobCommit, BalanceAfterJob, Sum
<1>5. Q \in Nat /\ (D = {} => Q = 0)
  <2> HIDE DEF D, seen
  <2> QED BY <1>1, SumNatural, SumOfNone
<1>6. /\ \A c \in Charges : charge'[c].amount = charge[c].amount
      /\ \A c \in Charges : charge'[c].remaining = IF c \in D THEN 0 ELSE charge[c].remaining
  BY WrittenFacts
<1> HIDE DEF D, seen, Q
<1>7. /\ owner' \in OwnerRow /\ owner'.empty_at = owner.empty_at
      /\ owner'.balance = IF D = {} THEN owner.balance
                          ELSE IF owner.balance - Q >= 0 THEN owner.balance - Q ELSE 0
  <2> DEFINE b == IF job.owner THEN AtLeastZero(owner.balance - Q) ELSE owner.balance
  <2>1. b \in Int /\ b = IF D = {} THEN owner.balance
                         ELSE IF owner.balance - Q >= 0 THEN owner.balance - Q ELSE 0
    BY <1>0, <1>3, <1>5 DEF AtLeastZero
  <2>2. owner' = [owner EXCEPT !.balance = b]
    BY <1>4
  <2> HIDE DEF b
  <2> QED BY <1>0, <2>1, <2>2 DEF OwnerRow
<1>8. ledger' \in [Charges -> Int]
  BY <1>0, <1>1, <1>4
<1>9. EmptyFlagUnlessCrossed'
  <2>1. owner'.balance > 0 => owner.balance > 0
    BY <1>0, <1>5, <1>7
  <2> QED BY <1>4, <1>7, <2>1 DEF IInv, EmptyFlagUnlessCrossed
<1>10. Money'
  <2>1. /\ \A x \in Charges : Rem[x] = charge[x].remaining /\ Rem[x] \in Nat
        /\ \A x \in Charges : Amt[x] = charge[x].amount /\ Amt[x] \in Nat
        /\ Sum(Rem, Charges) \in Nat /\ Sum(Amt, Charges) \in Nat
        /\ Sum(ledger, Charges) \in Int
    BY <1>0, Totals
  <2>2. Amt' = Amt
    BY <1>6 DEF Amt
  <2>3. \A x \in Charges : Rem'[x] = IF x \in D THEN 0 ELSE Rem[x]
    BY <1>6, <2>1 DEF Rem
  <2>4. \A x \in Charges : Rem'[x] \in Nat
    BY <2>1, <2>3
  <2>5. Sum(Rem', Charges) \in Nat /\ Sum(Rem, Charges) = Sum(Rem', Charges) + Sum(Rem, D)
    <3> DEFINE f == Rem'
               g == Rem
    <3>1. \A x \in Charges : g[x] = IF x \in D THEN f[x] + g[x] ELSE f[x]
      BY <2>1, <2>3
    <3>2. (\A x \in Charges : f[x] \in Int /\ f[x] \in Nat) /\ (\A x \in D : g[x] \in Int)
      BY <1>1, <2>1, <2>4
    <3> HIDE DEF f, g
    <3>3. Sum(g, Charges) = Sum(f, Charges) + Sum(g, D)
      BY <1>1, <3>1, <3>2, SumShift, ChargesAreFinite
    <3>4. Sum(f, Charges) \in Nat
      BY <3>2, SumNatural, ChargesAreFinite
    <3> QED BY <3>3, <3>4 DEF f, g
  <2>6. Sum(Rem, D) \in Nat /\ Sum(Rem, D) <= Q
    <3>1. \A x \in D : Rem[x] \in Nat /\ seen[x] \in Int /\ Rem[x] \in Int /\ Rem[x] <= seen[x]
      BY <1>1, <1>2, <2>1
    <3> QED BY <1>1, <3>1, SumAtMost, SumNatural DEF Q
  <2>7. ~raced' => ~raced /\ \A x \in D : seen[x] = Rem[x]
    BY <1>1, <1>4, <2>1
  <2>8. ~raced' => Sum(Rem, D) = Q
    <3> SUFFICES ASSUME \A x \in D : seen[x] = Rem[x] PROVE Q <= Sum(Rem, D)
      BY <1>5, <2>6, <2>7
    <3>1. \A x \in D : Rem[x] \in Int /\ seen[x] \in Int /\ seen[x] <= Rem[x]
      BY <1>1, <2>1
    <3> QED BY <1>1, <3>1, SumAtMost DEF Q
  <2>9. Sum(ledger', Charges) \in Int /\ Sum(ledger, Charges) = Sum(ledger', Charges) + Q
    <3> DEFINE f == ledger'
               g == ledger
    <3>1. \A x \in Charges : g[x] = IF x \in D THEN f[x] + seen[x] ELSE f[x]
      BY <1>0, <1>1, <1>4
    <3>2. (\A x \in Charges : f[x] \in Int) /\ (\A x \in D : seen[x] \in Int)
      BY <1>1, <1>8
    <3> HIDE DEF f, g
    <3>3. Sum(g, Charges) = Sum(f, Charges) + Sum(seen, D)
      BY <1>1, <3>1, <3>2, SumShift, ChargesAreFinite
    <3>4. Sum(f, Charges) \in Int
      BY <3>2, SumType, ChargesAreFinite
    <3> QED BY <3>3, <3>4 DEF f, g, Q
  <2>10. ~raced' /\ ledger = Rem => ledger' = Rem'
    <3>1. Rem' = [x \in Charges |-> Rem'[x]] /\ ledger' = [x \in Charges |-> ledger'[x]]
      BY <1>4 DEF Rem
    <3>2. ~raced' /\ ledger = Rem => \A x \in Charges : ledger'[x] = Rem'[x]
      BY <1>1, <1>4, <2>1, <2>3, <2>7
    <3> QED BY <3>1, <3>2
  <2>11. /\ ~raced => owner.balance = Sum(Rem, Charges) /\ ledger = Rem
         /\ Sum(ledger, Charges) <= owner.balance
         /\ owner.balance <= Sum(Rem, Charges)
         /\ billed + Sum(Rem, Charges) <= Sum(Amt, Charges)
    BY DEF IInv, Money
  <2>12. ~raced' => owner'.balance = Sum(Rem', Charges) /\ ledger' = Rem'
    <3> SUFFICES ASSUME ~raced' PROVE owner'.balance = Sum(Rem', Charges) /\ ledger' = Rem'
      OBVIOUS
    <3>1. ledger' = Rem'
      BY <2>7, <2>10, <2>11
    <3>2. owner.balance = Sum(Rem', Charges) + Q
      BY <2>5, <2>7, <2>8, <2>11
    <3> QED BY <1>0, <1>5, <1>7, <2>5, <3>1, <3>2
  <2>13. Sum(ledger', Charges) <= owner'.balance
    BY <1>0, <1>5, <1>7, <2>9, <2>11
  <2>14. owner'.balance <= Sum(Rem', Charges)
    <3>1. D = {} => Sum(Rem, D) = 0
      BY <1>5, <2>6
    <3> QED BY <1>0, <1>5, <1>7, <2>1, <2>5, <2>6, <2>11, <3>1
  <2>15. billed' + Sum(Rem', Charges) <= Sum(Amt', Charges)
    BY <1>0, <1>4, <2>1, <2>2, <2>5, <2>6, <2>11
  <2> QED BY <2>12, <2>13, <2>14, <2>15 DEF Money, Sum
<1> QED BY <1>7, <1>8, <1>9, <1>10

\* The job commits.
LEMMA JobCommitStep == ASSUME IInv, JobCommit PROVE IInv'
<1>0. Types /\ job \in JobRow
  BY DEF IInv, Types
<1>1. /\ job.pc = "reminding" /\ DOMAIN job.due = {} /\ job' = IdleJob /\ lock' = Release(Job)
      /\ raced' = (raced \/ \E c \in DOMAIN job.seen : job.seen[c] # charge[c].remaining)
      /\ UNCHANGED <<deb, credit, now, failures, billed, told, again, lost, crossed>>
  BY DEF JobCommit
<1>2. /\ charge' \in [Charges -> ChargeRow]
      /\ \A c \in Charges :
           /\ charge'[c].amount = charge[c].amount
           /\ charge'[c].remaining = IF c \in DOMAIN job.seen THEN 0 ELSE charge[c].remaining
           /\ charge[c].sent \subseteq charge'[c].sent
           /\ c \in DOMAIN job.marks => job.marks[c] \in charge'[c].sent
  BY WrittenFacts
<1>3. Money' /\ EmptyFlagUnlessCrossed' /\ owner' \in OwnerRow /\ ledger' \in [Charges -> Int]
  BY ExpiryMoney
<1>4. /\ lock' \in [Charges -> Debits \cup {Job, NoTask}]
      /\ \A c \in Charges : lock[c] # Job => lock'[c] = lock[c]
  BY <1>0, <1>1, ReleaseFacts
<1>5. raced' \in BOOLEAN
  BY <1>1
<1>6. Types'
  BY <1>0, <1>1, <1>2, <1>3, <1>4, <1>5, IdleRows DEF Types
<1>7. \A c \in Charges : Present(c)' <=> Present(c)
  BY <1>2 DEF Present
<1>8. Held'
  <2>1. Sane'
    <3> SUFFICES ASSUME NEW c \in Charges PROVE charge'[c].remaining <= charge'[c].amount
      BY DEF Sane
    <3>1. charge[c] \in ChargeRow /\ charge[c].remaining <= charge[c].amount
      BY <1>0 DEF Types, IInv, Held, Sane
    <3> QED BY <1>2, <3>1 DEF ChargeRow
  <2>2. GotIsHeld'
    <3> SUFFICES ASSUME NEW d \in Debits, NEW c \in DOMAIN deb[d].got
                 PROVE  lock'[c] = d /\ Present(c)' /\ deb[d].got[c] = charge'[c].remaining
      BY <1>1 DEF GotIsHeld
    <3>1. c \in Charges
      BY <1>0, PartsFacts DEF Types, DebitRow
    <3>2. lock[c] = d /\ Present(c) /\ deb[d].got[c] = charge[c].remaining
      BY DEF IInv, Held, GotIsHeld
    <3>3. c \notin DOMAIN job.seen
      BY <1>1, <3>2, TasksDiffer DEF IInv, Held, SeenIsHeld
    <3> QED BY <1>2, <1>4, <1>7, <3>1, <3>2, <3>3, TasksDiffer
  <2>3. GotInTime'
    BY <1>1 DEF IInv, Held, GotInTime
  <2>4. SeenIsEnough' /\ SeenIsHeld'
    BY <1>1, IdleRows DEF SeenIsEnough, SeenIsHeld
  <2> QED BY <2>1, <2>2, <2>3, <2>4 DEF Held
<1>9. Reminders'
  <2>1. JobsParts'
    BY <1>1, IdleRows DEF JobsParts
  <2>2. ~lost' => ToldIsNoted'
    <3> SUFFICES ASSUME ~lost, NEW c \in Charges, told[c] # 0
                 PROVE  Present(c)' /\ told[c] \in charge'[c].sent
      BY <1>1 DEF ToldIsNoted
    <3>1. /\ Present(c)
          /\ \/ told[c] \in charge[c].sent
             \/ c \in DOMAIN job.marks /\ job.marks[c] = told[c]
      BY <1>1 DEF IInv, Reminders, ToldIsNoted, Marking
    <3> QED BY <1>2, <1>7, <3>1
  <2>3. DueIsNearer'
    BY <1>1, IdleRows DEF DueIsNearer
  <2> QED BY <1>1, <2>1, <2>2, <2>3 DEF IInv, Reminders, RemindersComeNearer
<1> QED BY <1>3, <1>6, <1>8, <1>9 DEF IInv

-----------------------------------------------------------------------------
\* The invariant.

\* A sum of nothing but zeros.
LEMMA SumOfZeros ==
  ASSUME NEW f, \A c \in Charges : f[c] = 0
  PROVE  Sum(f, Charges) = 0
<1>1. Sum(f, Charges) = Sum(f, {})
  BY SumWithin, ChargesAreFinite
<1> QED BY <1>1, SumOfNone

\* The invariant holds at the beginning: no charges, no sessions.
LEMMA InitIInv == Init => IInv
<1> SUFFICES ASSUME Init PROVE IInv
  OBVIOUS
<1>1. /\ charge = [c \in Charges |-> NoCharge]
      /\ owner = [balance |-> 0, empty_at |-> "none", low_at |-> "none"]
      /\ ledger = [c \in Charges |-> 0]
      /\ lock = [c \in Charges |-> NoTask]
      /\ deb = [d \in Debits |-> IdleDebit]
      /\ credit = NoCredit /\ job = IdleJob
      /\ now = 0 /\ failures = 0 /\ billed = 0
      /\ raced = FALSE /\ again = FALSE /\ lost = FALSE /\ crossed = FALSE
      /\ told = [c \in Charges |-> 0]
  BY DEF Init
<1>2. owner \in OwnerRow /\ owner.balance = 0 /\ owner.empty_at = "none"
  BY <1>1 DEF OwnerRow, Flag
<1>3. Types
  <2>1. charge \in [Charges -> ChargeRow] /\ deb \in [Debits -> DebitRow]
    BY <1>1, IdleRows
  <2>2. ledger \in [Charges -> Int] /\ told \in [Charges -> Nat]
    BY <1>1
  <2>3. lock \in [Charges -> Debits \cup {Job, NoTask}]
    BY <1>1
  <2> QED BY <1>1, <1>2, <2>1, <2>2, <2>3, IdleRows DEF Types
<1>4. Held
  BY <1>1, IdleRows DEF Held, Sane, GotIsHeld, GotInTime, SeenIsEnough, SeenIsHeld
<1>5. Money
  <2>1. \A c \in Charges : Rem[c] = 0 /\ Amt[c] = 0 /\ ledger[c] = 0
    BY <1>1, IdleRows DEF Rem, Amt
  <2>2. Sum(Rem, Charges) = 0 /\ Sum(Amt, Charges) = 0 /\ Sum(ledger, Charges) = 0
    BY <2>1, SumOfZeros
  <2>3. ledger = Rem
    BY <1>1, IdleRows DEF Rem
  <2> QED BY <1>1, <1>2, <2>2, <2>3 DEF Money
<1>6. Reminders
  BY <1>1, IdleRows DEF Reminders, JobsParts, ToldIsNoted, DueIsNearer, RemindersComeNearer
<1>7. EmptyFlagUnlessCrossed
  BY <1>2 DEF EmptyFlagUnlessCrossed
<1> QED BY <1>3, <1>4, <1>5, <1>6, <1>7 DEF IInv

\* A calm step keeps the invariant.
LEMMA CalmKeeps == ASSUME IInv, Types', Calm, EmptyFlagUnlessCrossed' PROVE IInv'
BY CalmStep DEF IInv

\* Every step keeps the invariant.
LEMMA NextIInv == IInv /\ [Next]_vars => IInv'
<1> SUFFICES ASSUME IInv, [Next]_vars PROVE IInv'
  OBVIOUS
<1>1. CASE \/ UNCHANGED vars \/ CreditOpen \/ Tick
           \/ \E f \in {"empty_at", "low_at"} : AgeNotice(f)
  BY <1>1, CalmTimes, CalmKeeps
<1>2. ASSUME NEW c \in Charges, NEW a \in Amounts, CreditCommit(c, a) PROVE IInv'
  BY <1>2, CreditStep
<1>3. ASSUME NEW d \in Debits,
             \/ DebitStart(d) \/ DebitDeny(d)
             \/ \E k \in Costs : DebitSelect(d, k) \/ AdminSelect(d, k)
      PROVE  IInv'
  BY <1>3, CalmBeginnings, CalmKeeps
<1>4. ASSUME NEW d \in Debits,
             \/ DebitClaimEmpty(d) \/ DebitRefuse(d) \/ DebitNotify(d)
             \/ DebitFail(d) \/ DebitVictim(d)
      PROVE  IInv'
  BY <1>4, CalmEnds, CalmKeeps
<1>5. ASSUME NEW d \in Debits, DebitLock(d) \/ DebitCommit(d) PROVE IInv'
  BY <1>5, LockStep, DebitStepKeeps
<1>6. ASSUME NEW d \in Debits, DebitStep(d) PROVE IInv'
  BY <1>3, <1>4, <1>5, <1>6 DEF DebitStep
<1>7. CASE JobStep
  BY <1>7, SelectStep, OwnerStep, JobLockStep, DueStep, SendStep, SendFailsStep, MarkStep,
     JobCommitStep DEF JobStep
<1>8. CASE Victim
  BY <1>4, <1>8, JobVictimStep DEF Victim
<1> QED BY <1>1, <1>2, <1>3, <1>4, <1>6, <1>7, <1>8 DEF Next

\* The invariant holds of every behaviour of the wallet.
THEOREM SpecIInv == Spec => []IInv
BY InitIInv, NextIInv, PTL DEF Spec

\* Rows, sessions and the two sums, as the specification writes them.
LEMMA SumsAre ==
  ASSUME Types
  PROVE  /\ Remaining(Charges) = Sum(Rem, Charges)
         /\ SumFunction(ledger) = Sum(ledger, Charges)
         /\ SumFunction([c \in Charges |-> charge[c].amount]) = Sum(Amt, Charges)
<1>1. DOMAIN ledger = Charges /\ DOMAIN Amt = Charges
  BY DEF Types, Amt
<1> QED BY <1>1 DEF Remaining, Rem, Amt, Sum, SumFunction

\* The cached balance, the charges and the ledger are in step, unless a debit
\* committed between the job's read of a stale charge and its write; and even
\* then neither the balance nor the ledger promises more than the charges hold
\* (deduct, add_charge and expire_stale_charges together).
THEOREM SpecInStepUnlessRaced == Spec => []InStepUnlessRaced
<1>1. IInv => InStepUnlessRaced
  <2> SUFFICES ASSUME IInv PROVE InStepUnlessRaced
    OBVIOUS
  <2>1. Types /\ Money
    BY DEF IInv
  <2>2. Remaining(Charges) = Sum(Rem, Charges) /\ SumFunction(ledger) = Sum(ledger, Charges)
    BY <2>1, SumsAre
  <2>3. ~raced => InStep
    <3>1. \A c \in Charges : Rem[c] = charge[c].remaining
      BY DEF Rem
    <3> QED BY <2>1, <2>2, <3>1 DEF Money, InStep
  <2> QED BY <2>1, <2>2, <2>3 DEF Money, InStepUnlessRaced
<1> QED BY <1>1, SpecIInv, PTL

\* No credit is spent twice, however many debits read, wait and write at the
\* same time: what was billed and what is left never exceed what was charged.
THEOREM SpecNoOverspend == Spec => []NoOverspend
<1>1. IInv => NoOverspend
  <2> SUFFICES ASSUME IInv PROVE NoOverspend
    OBVIOUS
  <2>1. Types /\ Money
    BY DEF IInv
  <2> QED BY <2>1, SumsAre DEF Money, NoOverspend
<1> QED BY <1>1, SpecIInv, PTL

\* A wallet with credit has no "empty" flag, so the owner is told the next time
\* it runs empty, unless the flag and a credit crossed (add_charge,
\* try_claim_empty_notification).
THEOREM SpecEmptyFlagUnlessCrossed == Spec => []EmptyFlagUnlessCrossed
<1>1. IInv => EmptyFlagUnlessCrossed
  BY DEF IInv
<1> QED BY <1>1, SpecIInv, PTL

\* The reminders of a charge come nearer and nearer to its expiry, unless the
\* job was rolled back after it had sent one (find_charges_needing_reminder,
\* mark_reminder_sent).
THEOREM SpecRemindersComeNearer == Spec => []RemindersComeNearer
<1>1. IInv => RemindersComeNearer
  BY DEF IInv, Reminders
<1> QED BY <1>1, SpecIInv, PTL
=============================================================================
