---------------------- MODULE ConditionManager_proofs ----------------------
(***************************************************************************)
(* What holds of the condition manager for every list of conditions, every *)
(* comparator and every delay: its types, the steps of a sequence and, in  *)
(* the last part, AND and OR.                                              *)
(***************************************************************************)
EXTENDS ConditionManager, TLAPS, WellFoundedInduction, SequenceTheorems

\* A non-empty set of natural numbers has a least element.
LEMMA LeastOfNat ==
  ASSUME NEW S \in SUBSET Nat, S # {}
  PROVE  \E i \in S : \A j \in S : i <= j
<1>1. PICK x \in S : \A y \in S : ~(<<y, x>> \in OpToRel(<, Nat))
  BY NatLessThanWellFounded, WFMin
<1>2. \A y \in S : ~(y < x)
  BY <1>1 DEF OpToRel
<1>3. QED
  BY <1>2

\* setValid moves a sequence to a condition of the list.
LEMMA NextStepInRange ==
  ASSUME NEW its \in Seq(Conditions), NEW en, NEW s \in Nat
  PROVE  /\ NextStep(its, en, s) \in Nat
         /\ Len(its) > 0 => NextStep(its, en, s) < Len(its)
<1> DEFINE later == {i \in (s + 1)..(Len(its) - 1) : en[its[i + 1]]}
<1>1. Len(its) \in Nat
  OBVIOUS
<1>2. later \in SUBSET Nat /\ \A i \in later : i < Len(its)
  BY <1>1
<1>3. CASE later = {}
  BY <1>1, <1>3 DEF NextStep
<1>4. CASE later # {}
  <2>1. \E i \in later : \A j \in later : i <= j
    BY <1>2, <1>4, LeastOfNat
  <2>2. NextStep(its, en, s) \in later
    BY <2>1, <1>4 DEF NextStep
  <2>3. QED
    BY <2>2, <1>2
<1>5. QED
  BY <1>3, <1>4

\* What setValid does to the manager: only a validated sequence moves.
LEMMA SetValidResult ==
  ASSUME NEW m \in Managers, NEW its \in Seq(Conditions), NEW en, NEW o,
         NEW v \in BOOLEAN, NEW co \in BOOLEAN
  PROVE  LET n == SetValid(m, its, en, o, v, co)
         IN  /\ n \in Managers
             /\ n.target = m.target /\ n.progress = m.progress /\ n.timer = m.timer
             /\ ~v => n.seq = m.seq
             /\ Len(its) > 0 /\ m.seq < Len(its) => n.seq < Len(its)
             /\ o # "SEQUENTIAL" => n.valid = v /\ n.seq = m.seq
<1>1. NextStep(its, en, m.seq) \in Nat
  BY NextStepInRange DEF Managers
<1>2. Len(its) > 0 => NextStep(its, en, m.seq) < Len(its)
  BY NextStepInRange DEF Managers
<1>3. <<TRUE, FALSE>> \in Seq(BOOLEAN) /\ <<v>> \in Seq(BOOLEAN)
  OBVIOUS
<1>4. QED
  BY <1>1, <1>2, <1>3 DEF SetValid, Managers

\* What checkAllConditions does to the manager: the verdict becomes its target,
\* and its validity unless a timer runs.
LEMMA ApplyResult ==
  ASSUME NEW m \in Managers, NEW its \in Seq(Conditions), NEW en, NEW o,
         NEW vt, NEW it, NEW v \in BOOLEAN, NEW co \in BOOLEAN
  PROVE  LET n == Apply(m, its, en, o, vt, it, v, co)
         IN  /\ n \in Managers
             /\ n.target = v
             /\ ~v => n.seq = m.seq
             /\ Len(its) > 0 /\ m.seq < Len(its) => n.seq < Len(its)
<1>0. Full \in Nat \ {0}
  BY ConstantsAssumption
<1>1. CASE (v /\ vt = 0) \/ (~v /\ it = 0)
  <2> DEFINE p == SetValid(m, its, en, o, v, co)
             pr == IF v /\ it > 0 THEN Full ELSE IF ~v /\ vt > 0 THEN 0 ELSE p.progress
  <2>1. p \in Managers /\ (~v => p.seq = m.seq)
        /\ (Len(its) > 0 /\ m.seq < Len(its) => p.seq < Len(its))
    BY SetValidResult
  <2>2. Apply(m, its, en, o, vt, it, v, co) = [p EXCEPT !.target = v, !.progress = pr]
    BY <1>1 DEF Apply
  <2>3. pr \in 0..Full
    BY <1>0, <2>1 DEF Managers
  <2> HIDE DEF p, pr
  <2>4. [p EXCEPT !.target = v, !.progress = pr] \in Managers
    BY <2>1, <2>3 DEF Managers
  <2>5. QED
    BY <2>1, <2>2, <2>4 DEF Managers
<1>2. CASE ~((v /\ vt = 0) \/ (~v /\ it = 0))
  <2>1. CASE v = m.target
    BY <1>2, <2>1 DEF Apply, Managers
  <2>2. CASE v # m.target
    <3> DEFINE pr == IF v = m.valid THEN IF v THEN Full ELSE 0
                                    ELSE IF v THEN 0 ELSE Full
               ti == v # m.valid
    <3>1. Apply(m, its, en, o, vt, it, v, co) =
            [m EXCEPT !.target = v, !.progress = pr, !.timer = ti]
      BY <1>2, <2>2 DEF Apply
    <3>2. pr \in 0..Full /\ ti \in BOOLEAN
      BY <1>0
    <3> HIDE DEF pr, ti
    <3>3. QED
      BY <3>1, <3>2 DEF Managers
  <2>3. QED
    BY <2>1, <2>2
<1>3. QED
  BY <1>1, <1>2

\* The index of the sequence designates a condition of the list its.
InRange(m, its) == /\ Len(its) > 0 => m.seq < Len(its)
                   /\ Len(its) = 0 => m.seq = 0

\* A full check leaves a manager, whose target is the verdict, in range.
LEMMA CheckAllResult ==
  ASSUME NEW m \in Managers, NEW its \in Seq(Conditions),
         NEW en \in [Conditions -> BOOLEAN], NEW cv \in [Conditions -> BOOLEAN],
         NEW o, NEW vt, NEW it, NEW co \in BOOLEAN, NEW at,
         InRange(m, its)
  PROVE  LET n == CheckAll(m, its, en, cv, o, vt, it, co, at)
         IN  /\ n \in Managers
             /\ n.target = Verdict(its, en, cv, o, m.seq, at)
             /\ InRange(n, its)
             /\ Len(its) = 0 => ~n.target
<1> DEFINE v == Verdict(its, en, cv, o, m.seq, at)
           n == Apply(m, its, en, o, vt, it, v, co)
<1>1. CheckAll(m, its, en, cv, o, vt, it, co, at) = n
  BY DEF CheckAll
<1>2. v \in BOOLEAN
  BY DEF Verdict, AllValid, OneValid, StepValid
<1>3. Len(its) = 0 => ~v
  BY DEF Verdict, AllValid, OneValid, StepValid
<1> HIDE DEF v
<1>4. /\ n \in Managers
      /\ n.target = v
      /\ ~v => n.seq = m.seq
      /\ Len(its) > 0 /\ m.seq < Len(its) => n.seq < Len(its)
  BY <1>2, ApplyResult
<1> HIDE DEF n
<1>5. InRange(n, its)
  BY <1>3, <1>4 DEF InRange
<1>6. n.target = Verdict(its, en, cv, o, m.seq, at)
  BY <1>4 DEF v
<1>7. Len(its) = 0 => ~n.target
  BY <1>3, <1>4
<1>8. QED
  BY <1>1, <1>4, <1>5, <1>6, <1>7

\* What setValid makes of a condition is well formed.
LEMMA OutcomeResult ==
  ASSUME TypeOK, NEW c \in Conditions, NEW v \in BOOLEAN, NEW rw \in [Conditions -> BOOLEAN]
  PROVE  Outcome(c, v, rw) \in [valid : BOOLEAN, raw : BOOLEAN, told : BOOLEAN, changeOnly : BOOLEAN]
<1>1. condValid[c] \in BOOLEAN /\ rw[c] \in BOOLEAN
  BY DEF TypeOK
<1>2. CASE Kind[c] = "toggle"
  <2> DEFINE edge == v /\ ~rw[c]
             val == IF edge THEN ~condValid[c] ELSE condValid[c]
  <2>1. Outcome(c, v, rw) = [valid |-> val, raw |-> v, told |-> edge, changeOnly |-> TRUE]
    BY <1>2 DEF Outcome
  <2>2. edge \in BOOLEAN /\ val \in BOOLEAN
    BY <1>1
  <2> HIDE DEF edge, val
  <2>3. QED
    BY <2>1, <2>2
<1>3. CASE Kind[c] = "always"
  BY <1>1, <1>3 DEF Outcome
<1>4. CASE Kind[c] # "toggle" /\ Kind[c] # "always"
  <2> DEFINE chg == v # condValid[c]
  <2>1. Outcome(c, v, rw) = [valid |-> v, raw |-> rw[c], told |-> chg, changeOnly |-> TRUE]
    BY <1>4 DEF Outcome
  <2>2. chg \in BOOLEAN
    OBVIOUS
  <2> HIDE DEF chg
  <2>3. QED
    BY <1>1, <2>1, <2>2
<1>5. QED
  BY <1>2, <1>3, <1>4

\* The manager m is well formed for the list its.
Sound(m, its) == m \in Managers /\ InRange(m, its) /\ (Len(its) = 0 => ~m.target)

\* The manager of a well formed state is well formed with nothing dispatched.
LEMMA QuietSound ==
  ASSUME TypeOK, StepInRange
  PROVE  Sound(Quiet, items) /\ Quiet.target = mgr.target /\ Quiet.valid = mgr.valid
         /\ Quiet.seq = mgr.seq /\ Quiet.timer = mgr.timer /\ Quiet.progress = mgr.progress
<1>1. mgr \in Managers /\ <<>> \in Seq(BOOLEAN)
  BY DEF TypeOK
<1>2. QED
  BY <1>1 DEF Quiet, Sound, InRange, StepInRange, Managers

\* A condition set valid or not leaves every part well formed.
LEMMA SetConditionResult ==
  ASSUME TypeOK, StepInRange, NEW c \in Conditions, NEW v \in BOOLEAN,
         NEW en \in [Conditions -> BOOLEAN], NEW rw \in [Conditions -> BOOLEAN],
         SetCondition(c, v, en, rw)
  PROVE  /\ condValid' \in [Conditions -> BOOLEAN]
         /\ raw' \in [Conditions -> BOOLEAN]
         /\ deferred' \in SUBSET Conditions
         /\ Sound(mgr', items)
<1> DEFINE Outcomes == [valid : BOOLEAN, raw : BOOLEAN, told : BOOLEAN, changeOnly : BOOLEAN]
           out == Outcome(c, v, rw)
           others == IF out.told THEN SameSource(c) ELSE {}
           again == [o \in others |-> Outcome(o, Truth(o), rw)]
           cv == [d \in Conditions |-> IF d = c THEN out.valid
                                      ELSE IF d \in others THEN again[d].valid ELSE condValid[d]]
           rv == [d \in Conditions |-> IF d = c THEN out.raw
                                      ELSE IF d \in others THEN again[d].raw ELSE rw[d]]
           co == out.changeOnly
           at == IndexOf(items, c)
<1>1. out \in Outcomes
  BY OutcomeResult
<1>2. others \subseteq Conditions
  BY DEF SameSource, TypeOK, ToSet
<1>3. \A o \in others : again[o] \in Outcomes
  <2> TAKE o \in others
  <2>1. Truth(o) \in BOOLEAN
    BY DEF Truth
  <2> DEFINE t == Truth(o)
  <2> HIDE DEF t
  <2>2. Outcome(o, t, rw) \in Outcomes
    BY <1>2, <2>1, OutcomeResult DEF t
  <2>3. QED
    BY <2>2 DEF t
<1>4. /\ condValid' = cv /\ raw' = rv /\ deferred' \subseteq others
      /\ mgr' = IF out.told
                THEN CheckAll(Quiet, items, en, cv, op, valTime, invTime, co, at)
                ELSE Quiet
  BY DEF SetCondition
<1> HIDE DEF out, others, again
<1>5. cv \in [Conditions -> BOOLEAN] /\ rv \in [Conditions -> BOOLEAN] /\ co \in BOOLEAN
  BY <1>1, <1>3 DEF TypeOK
<1>6. Sound(Quiet, items) /\ items \in Seq(Conditions)
  BY QuietSound DEF TypeOK
<1> HIDE DEF cv, rv, co, at
<1>7. Sound(CheckAll(Quiet, items, en, cv, op, valTime, invTime, co, at), items)
  BY <1>5, <1>6, CheckAllResult DEF Sound
<1>8. QED
  BY <1>2, <1>4, <1>5, <1>6, <1>7

\* Removing an element of a list of conditions gives a list of conditions.
LEMMA RemoveAtResult ==
  ASSUME NEW its \in Seq(Conditions), NEW i \in 1..Len(its)
  PROVE  RemoveAt(its, i) \in Seq(Conditions)
<1>1. SubSeq(its, 1, i - 1) \in Seq(Conditions) /\ SubSeq(its, i + 1, Len(its)) \in Seq(Conditions)
  BY SubSeqProperties
<1>2. QED
  BY <1>1, ConcatProperties DEF RemoveAt

\* Inserting a condition in a list of conditions gives one that is not empty.
LEMMA InsertAtResult ==
  ASSUME NEW its \in Seq(Conditions), NEW i \in 1..(Len(its) + 1), NEW c \in Conditions
  PROVE  InsertAt(its, i, c) \in Seq(Conditions) /\ Len(InsertAt(its, i, c)) = Len(its) + 1
<1> DEFINE a == SubSeq(its, 1, i - 1)
           b == SubSeq(its, i, Len(its))
<1>1. a \in Seq(Conditions) /\ Len(a) = i - 1
  BY SubSeqProperties
<1>2. b \in Seq(Conditions) /\ Len(b) = Len(its) - i + 1
  BY SubSeqProperties
<1>3. <<c>> \in Seq(Conditions) /\ Len(<<c>>) = 1
  OBVIOUS
<1>0. Len(its) \in Nat /\ i \in Int
  OBVIOUS
<1> HIDE DEF a, b
<1>4. a \o <<c>> \in Seq(Conditions) /\ Len(a \o <<c>>) = i
  BY <1>1, <1>3, ConcatProperties
<1>5. (a \o <<c>>) \o b \in Seq(Conditions) /\ Len((a \o <<c>>) \o b) = Len(its) + 1
  <2>1. (a \o <<c>>) \o b \in Seq(Conditions)
        /\ Len((a \o <<c>>) \o b) = Len(a \o <<c>>) + Len(b)
    BY <1>2, <1>4, ConcatProperties
  <2>2. QED
    BY <1>0, <1>2, <1>4, <2>1
<1>6. QED
  BY <1>5 DEF InsertAt, a, b

-----------------------------------------------------------------------------
\* Types and the index of the sequence, together: they need each other.
Wellformed == TypeOK /\ StepInRange

\* The parts of TypeOK no operation of the manager computes.
LEMMA HistoryTyped ==
  ASSUME held \in 0..Full, NEW t \in BOOLEAN, Observe(t)
  PROVE  held' \in 0..Full /\ due' \in BOOLEAN
<1>1. Full \in Nat \ {0}
  BY ConstantsAssumption
<1>2. held' \in 0..Full
  BY <1>1 DEF Observe
<1>3. due' \in BOOLEAN
  BY DEF Observe
<1>4. QED
  BY <1>2, <1>3

\* The manager a project is loaded with is well formed.
LEMMA InitWellformed == Init => Wellformed
<1> SUFFICES ASSUME Init PROVE Wellformed
  OBVIOUS
<1>1. Full \in Nat \ {0} /\ Start \in Seq(Conditions) /\ Delays \subseteq {0, 1}
      /\ Operators \subseteq {"AND", "OR", "SEQUENTIAL"}
  BY ConstantsAssumption
<1>2. Fresh \in Managers /\ InRange(Fresh, items)
  <2>1. <<>> \in Seq(BOOLEAN)
    OBVIOUS
  <2>2. QED
    BY <1>1, <2>1 DEF Init, Fresh, Managers, InRange
<1>3. condValid \in [Conditions -> BOOLEAN] /\ enabled \in [Conditions -> BOOLEAN]
      /\ raw \in [Conditions -> BOOLEAN] /\ items \in Seq(Conditions)
  BY <1>1 DEF Init, Standard, Truth
<1> DEFINE n == Recheck(Fresh, items)
<1>4. Sound(n, items)
  BY <1>2, <1>3, CheckAllResult DEF Recheck, Sound
<1> HIDE DEF n
<1>5. mgr = [n EXCEPT !.said = <<>>]
  BY DEF Init, n
<1>6. <<>> \in Seq(BOOLEAN)
  OBVIOUS
<1>7. Sound(mgr, items)
  BY <1>4, <1>5, <1>6 DEF Sound, InRange, Managers
<1>8. TypeOK
  <2>1. src \in [Sources -> Values] /\ queue \in Seq(Sources)
        /\ pending \in SUBSET Conditions /\ deferred \in SUBSET Conditions
    BY DEF Init
  <2>2. op \in {"AND", "OR", "SEQUENTIAL"} /\ valTime \in {0, 1} /\ invTime \in {0, 1}
    BY <1>1 DEF Init
  <2>3. disabled \in BOOLEAN /\ due \in BOOLEAN
    BY Zenon DEF Init
  <2>4. held \in 0..Full
    BY <1>1 DEF Init
  <2>5. QED
    BY <1>3, <1>7, <2>1, <2>2, <2>3, <2>4 DEF TypeOK, Sound
<1>9. StepInRange
  BY <1>7 DEF StepInRange, Sound, InRange
<1>10. QED
  BY <1>8, <1>9 DEF Wellformed

\* One case per operation.
LEMMA NextWellformed == Wellformed /\ [Next]_vars => Wellformed'
<1> SUFFICES ASSUME Wellformed, [Next]_vars PROVE Wellformed'
  OBVIOUS
<1> USE DEF Wellformed
<1>a. TypeOK /\ StepInRange
  OBVIOUS
<1>b. Sound(mgr, items)
  BY <1>a DEF TypeOK, StepInRange, Sound, InRange
<1>c. Sound(Quiet, items)
  BY <1>a, QuietSound
<1>d. /\ items \in Seq(Conditions)
      /\ enabled \in [Conditions -> BOOLEAN] /\ condValid \in [Conditions -> BOOLEAN]
      /\ raw \in [Conditions -> BOOLEAN] /\ held \in 0..Full /\ Full \in Nat \ {0}
  BY ConstantsAssumption DEF TypeOK
\* It is enough that each part of the next state is well formed.
<1>e. ASSUME src' \in [Sources -> Values], queue' \in Seq(Sources),
             pending' \in SUBSET Conditions,
             items' \in Seq(Conditions), enabled' \in [Conditions -> BOOLEAN],
             condValid' \in [Conditions -> BOOLEAN], raw' \in [Conditions -> BOOLEAN],
             deferred' \in SUBSET Conditions, op' \in {"AND", "OR", "SEQUENTIAL"},
             valTime' \in {0, 1}, invTime' \in {0, 1}, disabled' \in BOOLEAN,
             Sound(mgr', items'), held' \in 0..Full, due' \in BOOLEAN
      PROVE  Wellformed'
  BY <1>e DEF TypeOK, StepInRange, Sound, InRange
<1>f. \A s : Listening(s) \in SUBSET Conditions
  BY <1>d DEF Listening, ToSet
<1>1. ASSUME NEW s \in Sources, NEW x \in Values, ChangeSource(s, x) PROVE Wellformed'
  <2>1. src' \in [Sources -> Values]
    BY <1>1 DEF ChangeSource, TypeOK
  <2>2. pending' \in SUBSET Conditions
    BY <1>1, <1>f DEF ChangeSource
  <2>3. QED
    BY <1>1, <1>c, <1>e, <2>1, <2>2 DEF ChangeSource, TypeOK, config
<1>1a. ASSUME NEW s \in Sources, NEW x \in Values, PostSource(s, x) PROVE Wellformed'
  <2>1. src' \in [Sources -> Values] /\ queue' \in Seq(Sources)
    BY <1>1a DEF PostSource, TypeOK
  <2>2. QED
    BY <1>1a, <1>c, <1>e, <2>1 DEF PostSource, TypeOK, config
<1>1b. CASE HandlePosted
  <2>1. pending' \in SUBSET Conditions
    BY <1>1b, <1>f DEF HandlePosted
  <2>2. queue' \in Seq(Sources)
    BY <1>1b DEF HandlePosted, TypeOK
  <2>3. QED
    BY <1>1b, <1>c, <1>e, <2>1, <2>2 DEF HandlePosted, TypeOK, config
<1>2. ASSUME NEW c \in Conditions, Deliver(c) PROVE Wellformed'
  <2>0. Truth(c) \in BOOLEAN
    BY DEF Truth
  <2>1. SetCondition(c, Truth(c), enabled, raw) /\ Observe(FALSE)
    BY <1>2 DEF Deliver
  <2>2. held' \in 0..Full /\ due' \in BOOLEAN
    BY <1>d, <2>1, HistoryTyped
  <2> DEFINE t == Truth(c)
  <2> HIDE DEF t
  <2>3. /\ condValid' \in [Conditions -> BOOLEAN] /\ raw' \in [Conditions -> BOOLEAN]
        /\ deferred' \in SUBSET Conditions /\ Sound(mgr', items)
    <3>1. SetCondition(c, t, enabled, raw) /\ t \in BOOLEAN
      BY <2>0, <2>1 DEF t
    <3>2. QED
      BY <1>a, <1>d, <3>1, SetConditionResult
  <2>4. pending' \in SUBSET Conditions
    BY <1>2 DEF Deliver, TypeOK
  <2>5. QED
    BY <1>2, <1>e, <2>2, <2>3, <2>4 DEF Deliver, TypeOK, config
<1>3. CASE CheckDeferred
  <2> DEFINE c == CHOOSE d \in deferred : \A e \in deferred : IndexOf(items, d) <= IndexOf(items, e)
             at == IndexOf(items, c)
  <2>1. /\ mgr' = CheckAll(Quiet, items, enabled, condValid, op, valTime, invTime, TRUE, at)
        /\ deferred' = deferred \ {c}
    BY <1>3 DEF CheckDeferred
  <2> HIDE DEF at, c
  <2>2. Sound(mgr', items)
    BY <1>c, <1>d, <2>1, CheckAllResult DEF Sound
  <2>3. held' \in 0..Full /\ due' \in BOOLEAN
    BY <1>3, <1>d, HistoryTyped DEF CheckDeferred
  <2>4. QED
    BY <1>3, <1>e, <2>1, <2>2, <2>3 DEF CheckDeferred, TypeOK, config
<1>4. ASSUME NEW c \in Conditions, SetManual(c) PROVE Wellformed'
  <2>1. SetCondition(c, ~raw[c], enabled, [raw EXCEPT ![c] = ~@]) /\ Observe(FALSE)
    BY <1>4 DEF SetManual
  <2>2. held' \in 0..Full /\ due' \in BOOLEAN
    BY <1>d, <2>1, HistoryTyped
  <2> DEFINE v == ~raw[c]
             rw == [raw EXCEPT ![c] = ~@]
  <2>3. v \in BOOLEAN /\ rw \in [Conditions -> BOOLEAN] /\ SetCondition(c, v, enabled, rw)
    BY <1>d, <2>1
  <2> HIDE DEF v, rw
  <2>4. /\ condValid' \in [Conditions -> BOOLEAN] /\ raw' \in [Conditions -> BOOLEAN]
        /\ deferred' \in SUBSET Conditions /\ Sound(mgr', items)
    BY <1>a, <1>d, <2>3, SetConditionResult
  <2>5. QED
    BY <1>4, <1>e, <2>2, <2>4 DEF SetManual, TypeOK, config
<1>5. ASSUME NEW c \in Conditions, SetEnabled(c) PROVE Wellformed'
  <2>1. /\ enabled' \in [Conditions -> BOOLEAN] /\ Observe(FALSE)
        /\ SetCondition(c, FALSE, enabled', raw)
    BY <1>5, <1>d DEF SetEnabled
  <2>2. held' \in 0..Full /\ due' \in BOOLEAN
    BY <1>d, <2>1, HistoryTyped
  <2>3. /\ condValid' \in [Conditions -> BOOLEAN] /\ raw' \in [Conditions -> BOOLEAN]
        /\ deferred' \in SUBSET Conditions /\ Sound(mgr', items)
    BY <1>a, <1>d, <2>1, SetConditionResult
  <2>4. QED
    BY <1>5, <1>e, <2>1, <2>2, <2>3 DEF SetEnabled, TypeOK, config
<1>6. ASSUME NEW i \in 1..Len(items), RemoveCondition(i) PROVE Wellformed'
  <2> DEFINE m == [Quiet EXCEPT !.seq = 0]
  <2>1. items' \in Seq(Conditions)
    BY <1>6, <1>d, RemoveAtResult DEF RemoveCondition
  <2>2. m \in Managers /\ InRange(m, items')
    BY <1>c, <2>1 DEF Sound, InRange, Managers
  <2>3. mgr' = CheckAll(m, items', enabled, condValid, op, valTime, invTime, TRUE, -1)
    BY <1>6 DEF RemoveCondition, Recheck
  <2> HIDE DEF m
  <2>4. Sound(mgr', items')
    BY <1>d, <2>1, <2>2, <2>3, CheckAllResult DEF Sound
  <2>5. held' \in 0..Full /\ due' \in BOOLEAN
    BY <1>6, <1>d, HistoryTyped DEF RemoveCondition
  <2>6. QED
    BY <1>6, <1>e, <2>1, <2>4, <2>5 DEF RemoveCondition, TypeOK, config
<1>7. ASSUME NEW c \in Conditions, NEW i \in 1..(Len(items) + 1), RestoreCondition(c, i)
      PROVE  Wellformed'
  <2>1. items' \in Seq(Conditions) /\ Len(items') = Len(items) + 1 /\ Len(items) \in Nat
    BY <1>7, <1>d, InsertAtResult DEF RestoreCondition
  <2>2. condValid' \in [Conditions -> BOOLEAN] /\ raw' \in [Conditions -> BOOLEAN]
    <3> DEFINE a == IF Standard(c) THEN Truth(c) ELSE raw[c]
               b == IF Standard(c) THEN Kind[c] = "toggle" /\ Truth(c) ELSE raw[c]
    <3>1. condValid' = [condValid EXCEPT ![c] = a] /\ raw' = [raw EXCEPT ![c] = b]
      BY <1>7 DEF RestoreCondition
    <3>2. a \in BOOLEAN /\ b \in BOOLEAN
      <4>1. CASE Standard(c)
        <5>1. Truth(c) \in BOOLEAN
          BY DEF Truth
        <5>2. a = Truth(c) /\ b = (Kind[c] = "toggle" /\ Truth(c))
          BY <4>1
        <5>3. (Kind[c] = "toggle" /\ Truth(c)) \in BOOLEAN
          OBVIOUS
        <5>4. QED
          BY <5>1, <5>2, <5>3
      <4>2. CASE ~Standard(c)
        BY <1>d, <4>2
      <4>3. QED
        BY <4>1, <4>2
    <3> HIDE DEF a, b
    <3>3. QED
      BY <1>d, <3>1, <3>2
  <2>3. Sound(mgr', items')
    BY <1>7, <1>c, <2>1 DEF RestoreCondition, Sound, InRange, Managers
  <2>4. held' \in 0..Full /\ due' \in BOOLEAN
    BY <1>7, <1>d, HistoryTyped DEF RestoreCondition
  <2>5. QED
    BY <1>7, <1>e, <2>1, <2>2, <2>3, <2>4 DEF RestoreCondition, TypeOK, config
<1>8. ASSUME NEW o \in Operators, SetOperator(o) PROVE Wellformed'
  <2> DEFINE m == [Quiet EXCEPT !.seq = 0]
  <2>1. m \in Managers /\ InRange(m, items)
    BY <1>c, <1>d DEF Sound, InRange, Managers
  <2>2. mgr' = CheckAll(m, items, enabled, condValid, o, valTime, invTime, TRUE, -1)
    BY <1>8 DEF SetOperator
  <2> HIDE DEF m
  <2>3. Sound(mgr', items)
    BY <1>d, <2>1, <2>2, CheckAllResult DEF Sound
  <2>4. held' \in 0..Full /\ due' \in BOOLEAN
    BY <1>8, <1>d, HistoryTyped DEF SetOperator
  <2>5. op' \in {"AND", "OR", "SEQUENTIAL"}
    BY <1>8, ConstantsAssumption DEF SetOperator
  <2>6. QED
    BY <1>8, <1>e, <2>3, <2>4, <2>5 DEF SetOperator, TypeOK
<1>9. ASSUME NEW vt \in Delays, NEW it \in Delays, SetDelays(vt, it) PROVE Wellformed'
  <2>1. valTime' \in {0, 1} /\ invTime' \in {0, 1}
    BY <1>9, ConstantsAssumption DEF SetDelays
  <2>2. QED
    BY <1>9, <1>c, <1>e, <2>1 DEF SetDelays, TypeOK
<1>10. CASE SetForceDisabled
  <2> DEFINE m == [Quiet EXCEPT !.valid = ~disabled' /\ @]
  <2>1. m \in Managers /\ InRange(m, items)
    BY <1>c, <1>d DEF Sound, InRange, Managers
  <2>2. mgr' = CheckAll(m, items, enabled, condValid, op, valTime, invTime, TRUE, -1)
    BY <1>10 DEF SetForceDisabled, Recheck
  <2> HIDE DEF m
  <2>3. Sound(mgr', items)
    BY <1>d, <2>1, <2>2, CheckAllResult DEF Sound
  <2>4. held' \in 0..Full /\ due' \in BOOLEAN
    BY <1>10, <1>d, HistoryTyped DEF SetForceDisabled
  <2>5. disabled' \in BOOLEAN
    BY <1>10 DEF SetForceDisabled, TypeOK
  <2>6. QED
    BY <1>10, <1>e, <2>3, <2>4, <2>5 DEF SetForceDisabled, TypeOK
<1>11. CASE TimerCallback
  <2> DEFINE p == SetValid(Quiet, items, enabled, op, mgr.target, TRUE)
             ends == [p EXCEPT !.timer = FALSE]
  <2>1. mgr.target \in BOOLEAN /\ mgr.progress \in 0..Full /\ Quiet \in Managers
    BY <1>b, <1>c DEF Sound, Managers
  <2>2. Quiet.target = mgr.target
    BY <1>a, QuietSound
  <2>3. Sound(p, items)
    <3>1. p \in Managers /\ p.target = mgr.target /\ (~mgr.target => p.seq = Quiet.seq)
          /\ (Len(items) > 0 /\ Quiet.seq < Len(items) => p.seq < Len(items))
      <4>1. CASE mgr.target = TRUE
        BY <1>d, <2>1, <2>2, <4>1, SetValidResult
      <4>2. CASE mgr.target = FALSE
        <5>1. p = IF Quiet.valid = FALSE THEN Quiet
                  ELSE [Quiet EXCEPT !.valid = FALSE, !.said = <<FALSE>>]
          BY <4>2 DEF SetValid
        <5>2. <<FALSE>> \in Seq(BOOLEAN)
          OBVIOUS
        <5> HIDE DEF p
        <5>3. QED
          BY <2>1, <2>2, <4>2, <5>1, <5>2 DEF Managers
      <4>3. QED
        BY <2>1, <4>1, <4>2
    <3> HIDE DEF p
    <3>2. QED
      BY <1>c, <2>2, <3>1 DEF Sound, InRange
  <2> HIDE DEF p
  <2>4. Sound(ends, items)
    BY <2>3 DEF Sound, InRange, Managers
  <2> HIDE DEF ends
  <2>5. Stepped \in 0..Full
    BY <1>d, <2>1 DEF Stepped
  <2>6. /\ Sound([ends EXCEPT !.progress = Stepped], items)
        /\ Sound([Quiet EXCEPT !.progress = Stepped], items)
    BY <1>c, <2>4, <2>5 DEF Sound, InRange, Managers
  <2>7. mgr' \in {ends, [ends EXCEPT !.progress = Stepped], [Quiet EXCEPT !.progress = Stepped]}
    BY <1>11 DEF TimerCallback, ends, p
  <2>8. held' \in 0..Full /\ due' \in BOOLEAN
    BY <1>11, <1>d, HistoryTyped DEF TimerCallback
  <2>9. QED
    BY <1>11, <1>e, <2>4, <2>6, <2>7, <2>8 DEF TimerCallback, TypeOK, config
<1>12. CASE UNCHANGED vars
  BY <1>12 DEF vars, TypeOK, StepInRange
<1>13. QED
  BY <1>1, <1>1a, <1>1b, <1>2, <1>3, <1>4, <1>5, <1>6, <1>7, <1>8, <1>9, <1>10, <1>11,
     <1>12
     DEF Next, Listener, Environment

\* Every part of the state keeps its type (items, validities, timers, histories).
THEOREM TypeCorrect == Spec => []TypeOK
<1>1. Wellformed => TypeOK
  BY DEF Wellformed
<1>2. QED
  BY <1>1, InitWellformed, NextWellformed, PTL DEF Spec

\* checkAllConditions and setValid never index the list of conditions out of its
\* bounds, whatever is removed, restored or re-ordered to SEQUENTIAL.
THEOREM IndexInRange == Spec => []StepInRange
<1>1. Wellformed => StepInRange
  BY DEF Wellformed
<1>2. QED
  BY <1>1, InitWellformed, NextWellformed, PTL DEF Spec

-----------------------------------------------------------------------------
\* No step of a sequence is lost.

\* The hypotheses: no delay (with one, a check on behalf of another condition
\* stops the timer of the current step); a list holds a condition once; where
\* conditions may be enabled, an Always Trigger one does not share its source (it
\* would be checked with the one that is enabled, and the manager not be told).
Distinct(its) == \A i, j \in 1..Len(its) : i # j => its[i] # its[j]
Sequencing ==
  /\ Delays \subseteq {0}
  /\ Distinct(Start)
  /\ "enable" \in Edits =>
       \A c, d \in Conditions : c # d /\ Kind[c] = "always" /\ Standard(d) => Source[c] # Source[d]

\* A manager without delays has no timer, and as a sequence it is never left valid.
Instant == /\ valTime = 0 /\ invTime = 0 /\ ~mgr.timer
           /\ op = "SEQUENTIAL" => ~mgr.valid

\* c is going to be called, with the pending calls p and the posted changes q: in
\* this state, and in the next.
Called(c, p, q) == c \in p \/ Source[c] \in ToSet(q)
ToCome(c) == Called(c, pending, queue)
StillCalled(c) == Called(c, pending', queue')

\* An Always Trigger condition is up to date, unless it is going to be called.
Attentive ==
  "enable" \in Edits \/
  \A c \in ToSet(items) : Kind[c] = "always" => condValid[c] = Truth(c) \/ ToCome(c)

\* The condition of the current step, once valid, is deferred, or it tells the
\* manager when it is called: that is when the step is taken.
Answered ==
  due => /\ op = "SEQUENTIAL" /\ mgr.seq < Len(items)
         /\ enabled[Current] /\ condValid[Current]
         /\ Current \in deferred \/ (Kind[Current] = "always" /\ ToCome(Current))

\* Only conditions of the list are called.
Calling == pending \subseteq ToSet(items)

Stepwise == Distinct(items) /\ Calling /\ Instant /\ Attentive /\ Answered

\* A condition that is in the list once is found at its place.
LEMMA IndexOfDistinct ==
  ASSUME NEW its \in Seq(Conditions), Distinct(its), NEW i \in 1..Len(its)
  PROVE  IndexOf(its, its[i]) = i - 1
<1>1. \A j \in 1..Len(its) : its[j] = its[i] => j = i
  BY DEF Distinct
<1>2. (CHOOSE j \in 1..Len(its) : its[j] = its[i]) = i
  BY <1>1
<1>3. QED
  BY <1>2 DEF IndexOf

\* What is left when a condition is removed.
LEMMA RemoveAtDistinct ==
  ASSUME NEW its \in Seq(Conditions), Distinct(its), NEW i \in 1..Len(its)
  PROVE  /\ Distinct(RemoveAt(its, i)) /\ Len(RemoveAt(its, i)) = Len(its) - 1
         /\ ToSet(RemoveAt(its, i)) \subseteq ToSet(its)
<1> DEFINE a == SubSeq(its, 1, i - 1)
           b == SubSeq(its, i + 1, Len(its))
           r == RemoveAt(its, i)
<1>0. Len(its) \in Nat /\ i \in Nat /\ 1 <= i /\ i <= Len(its)
  OBVIOUS
<1>1. a \in Seq(Conditions) /\ Len(a) = i - 1 /\ \A j \in 1..(i - 1) : a[j] = its[j]
  BY <1>0, SubSeqProperties
<1>2. b \in Seq(Conditions) /\ Len(b) = Len(its) - i
      /\ \A j \in 1..(Len(its) - i) : b[j] = its[j + i]
  BY <1>0, SubSeqProperties
<1>3. r = a \o b
  BY DEF RemoveAt
<1> HIDE DEF a, b, r
<1>4. r \in Seq(Conditions) /\ Len(r) = Len(its) - 1
      /\ \A j \in 1..(Len(its) - 1) : r[j] = IF j < i THEN its[j] ELSE its[j + 1]
  <2>1. /\ a \o b \in Seq(Conditions) /\ Len(a \o b) = Len(a) + Len(b)
        /\ \A j \in 1..(Len(a) + Len(b)) : (a \o b)[j] = IF j <= Len(a) THEN a[j] ELSE b[j - Len(a)]
    BY <1>1, <1>2, ConcatProperties
  <2>2. Len(a) + Len(b) = Len(its) - 1
    BY <1>0, <1>1, <1>2
  <2>3. ASSUME NEW j \in 1..(Len(its) - 1) PROVE r[j] = IF j < i THEN its[j] ELSE its[j + 1]
    <3>1. CASE j < i
      BY <1>0, <1>1, <1>3, <2>1, <2>2, <3>1
    <3>2. CASE j >= i
      <4>1. j - (i - 1) \in 1..(Len(its) - i) /\ (j - (i - 1)) + i = j + 1
        BY <1>0, <3>2
      <4>2. b[j - (i - 1)] = its[j + 1]
        BY <1>2, <4>1
      <4>3. QED
        BY <1>0, <1>1, <1>3, <2>1, <2>2, <3>2, <4>2
    <3>3. QED
      BY <1>0, <3>1, <3>2
  <2>4. QED
    BY <1>3, <2>1, <2>2, <2>3
<1>5. Distinct(r)
  BY <1>0, <1>4 DEF Distinct
<1>6. ToSet(r) \subseteq ToSet(its)
  <2>1. \A j \in 1..Len(r) : \E k \in 1..Len(its) : r[j] = its[k]
    BY <1>0, <1>4
  <2>2. QED
    BY <2>1 DEF ToSet
<1>7. QED
  BY <1>4, <1>5, <1>6 DEF r

\* A condition that was not in the list is put into it.
LEMMA InsertAtDistinct ==
  ASSUME NEW its \in Seq(Conditions), Distinct(its), NEW i \in 1..(Len(its) + 1),
         NEW c \in Conditions, c \notin ToSet(its)
  PROVE  Distinct(InsertAt(its, i, c)) /\ ToSet(InsertAt(its, i, c)) \subseteq ToSet(its) \cup {c}
<1> DEFINE a == SubSeq(its, 1, i - 1)
           b == SubSeq(its, i, Len(its))
           r == InsertAt(its, i, c)
<1>0. Len(its) \in Nat /\ i \in Nat /\ 1 <= i /\ i <= Len(its) + 1
  OBVIOUS
<1>1. a \in Seq(Conditions) /\ Len(a) = i - 1 /\ \A j \in 1..(i - 1) : a[j] = its[j]
  BY <1>0, SubSeqProperties
<1>2. b \in Seq(Conditions) /\ Len(b) = Len(its) - i + 1
      /\ \A j \in 1..(Len(its) - i + 1) : b[j] = its[j + i - 1]
  BY <1>0, SubSeqProperties
<1>3. r = (a \o <<c>>) \o b
  BY DEF InsertAt
<1> HIDE DEF a, b, r
<1>4. /\ Len(r) = Len(its) + 1
      /\ \A j \in 1..(Len(its) + 1) :
           r[j] = IF j < i THEN its[j] ELSE IF j = i THEN c ELSE its[j - 1]
  <2>1. /\ a \o <<c>> \in Seq(Conditions) /\ Len(a \o <<c>>) = i
        /\ \A j \in 1..i : (a \o <<c>>)[j] = IF j < i THEN a[j] ELSE c
    <3>1. <<c>> \in Seq(Conditions) /\ Len(<<c>>) = 1 /\ <<c>>[1] = c
      OBVIOUS
    <3>2. QED
      BY <1>0, <1>1, <3>1, ConcatProperties
  <2>2. /\ Len(r) = i + Len(b)
        /\ \A j \in 1..(i + Len(b)) : r[j] = IF j <= i THEN (a \o <<c>>)[j] ELSE b[j - i]
    <3> DEFINE p == a \o <<c>>
    <3>1. p \in Seq(Conditions) /\ Len(p) = i /\ r = p \o b
      BY <1>3, <2>1
    <3> HIDE DEF p
    <3>2. /\ Len(p \o b) = Len(p) + Len(b)
          /\ \A j \in 1..(Len(p) + Len(b)) :
               (p \o b)[j] = IF j <= Len(p) THEN p[j] ELSE b[j - Len(p)]
      BY <1>2, <3>1, ConcatProperties
    <3>3. \A j \in 1..(i + Len(b)) : r[j] = IF j <= i THEN p[j] ELSE b[j - i]
      BY <3>1, <3>2
    <3>4. QED
      BY <3>1, <3>2, <3>3 DEF p
  <2>3. i + Len(b) = Len(its) + 1
    BY <1>0, <1>2
  <2>4. ASSUME NEW j \in 1..(Len(its) + 1)
        PROVE  r[j] = IF j < i THEN its[j] ELSE IF j = i THEN c ELSE its[j - 1]
    <3>1. CASE j <= i
      BY <1>0, <1>1, <2>1, <2>2, <2>3, <3>1
    <3>2. CASE j > i
      <4>1. j - i \in 1..(Len(its) - i + 1) /\ (j - i) + i - 1 = j - 1
        BY <1>0, <3>2
      <4>2. b[j - i] = its[j - 1]
        BY <1>2, <4>1
      <4>3. QED
        BY <1>0, <2>2, <2>3, <3>2, <4>2
    <3>3. QED
      BY <1>0, <3>1, <3>2
  <2>5. QED
    BY <2>2, <2>3, <2>4
<1>5. \A k \in 1..Len(its) : its[k] # c /\ its[k] \in ToSet(its)
  BY DEF ToSet
<1>6. Distinct(r)
  <2>1. SUFFICES ASSUME NEW j \in 1..(Len(its) + 1), NEW k \in 1..(Len(its) + 1), j < k
                 PROVE  r[j] # r[k]
    BY <1>0, <1>4 DEF Distinct
  <2>2. CASE j = i \/ k = i
    BY <1>0, <1>4, <1>5, <2>1, <2>2
  <2>3. CASE j # i /\ k # i
    <3> DEFINE from(n) == IF n < i THEN n ELSE n - 1
    <3>1. from(j) \in 1..Len(its) /\ from(k) \in 1..Len(its) /\ from(j) # from(k)
      BY <1>0, <2>1, <2>3
    <3>2. r[j] = its[from(j)] /\ r[k] = its[from(k)]
      BY <1>0, <1>4, <2>1, <2>3
    <3> HIDE DEF from
    <3>3. QED
      BY <3>1, <3>2 DEF Distinct
  <2>4. QED
    BY <2>2, <2>3
<1>7. ToSet(r) \subseteq ToSet(its) \cup {c}
  <2>1. \A j \in 1..Len(r) : r[j] \in ToSet(its) \cup {c}
    BY <1>0, <1>4, <1>5
  <2>2. QED
    BY <2>1 DEF ToSet
<1>8. QED
  BY <1>6, <1>7 DEF r

\* Without delays a check takes effect at once: a sequence says that it is valid, and
\* is not.
LEMMA InstantCheck ==
  ASSUME NEW m \in Managers, ~m.timer, NEW its \in Seq(Conditions), NEW en, NEW cv, NEW o,
         NEW co \in BOOLEAN, NEW at
  PROVE  LET n == CheckAll(m, its, en, cv, o, 0, 0, co, at)
             v == Verdict(its, en, cv, o, m.seq, at)
         IN  /\ ~n.timer
             /\ o = "SEQUENTIAL" /\ (~m.valid \/ ~v) => ~n.valid
             /\ o = "SEQUENTIAL" /\ ~m.valid /\ v => Contains(n.said, TRUE)
<1> DEFINE v == Verdict(its, en, cv, o, m.seq, at)
           p == SetValid(m, its, en, o, v, co)
           n == CheckAll(m, its, en, cv, o, 0, 0, co, at)
<1>1. v \in BOOLEAN
  BY DEF Verdict, AllValid, OneValid, StepValid
<1> HIDE DEF v
<1>2. p \in Managers /\ p.timer = m.timer
  BY <1>1, SetValidResult
<1>3. n = [p EXCEPT !.target = v, !.progress = p.progress]
  BY <1>1, <1>2 DEF CheckAll, Apply, v, Managers
<1>4. n.timer = p.timer /\ n.valid = p.valid /\ n.said = p.said
  BY <1>2, <1>3 DEF Managers
<1>5. o = "SEQUENTIAL" /\ (~m.valid \/ ~v) => ~p.valid
  BY <1>1 DEF SetValid, Managers
<1>6. o = "SEQUENTIAL" /\ ~m.valid /\ v => p.said = <<TRUE, FALSE>>
  BY <1>1 DEF SetValid, Managers
<1>7. Contains(<<TRUE, FALSE>>, TRUE)
  <2>1. 1 \in 1..Len(<<TRUE, FALSE>>) /\ <<TRUE, FALSE>>[1] = TRUE
    OBVIOUS
  <2>2. QED
    BY <2>1 DEF Contains
<1>8. QED
  BY <1>2, <1>4, <1>5, <1>6, <1>7 DEF v

\* A full check validates no sequence.
LEMMA NoStep ==
  ASSUME NEW m \in Managers, NEW its, NEW en, NEW cv
  PROVE  ~Verdict(its, en, cv, "SEQUENTIAL", m.seq, -1)
BY DEF Verdict, StepValid, Managers

\* What setValid makes of a condition that is told of, or not.
LEMMA OutcomeFacts ==
  ASSUME TypeOK, NEW c \in Conditions, NEW v \in BOOLEAN, NEW rw \in [Conditions -> BOOLEAN]
  PROVE  LET out == Outcome(c, v, rw)
         IN  /\ Kind[c] = "always" => out.valid = v /\ out.told
             /\ Kind[c] # "always" => out.changeOnly
             /\ out.valid # condValid[c] => out.told
<1>1. condValid[c] \in BOOLEAN /\ rw[c] \in BOOLEAN
  BY DEF TypeOK
<1>2. CASE Kind[c] = "toggle"
  BY <1>1, <1>2 DEF Outcome
<1>3. CASE Kind[c] = "always"
  BY <1>1, <1>3 DEF Outcome
<1>4. CASE Kind[c] # "toggle" /\ Kind[c] # "always"
  BY <1>1, <1>4 DEF Outcome
<1>5. QED
  BY <1>2, <1>3, <1>4

\* A condition set valid or not: the current step is taken, or has still to come.
LEMMA SetConditionStep ==
  ASSUME Sequencing, Wellformed, Stepwise, deferred = {}, NEW c \in ToSet(items),
         NEW v \in BOOLEAN, NEW en \in [Conditions -> BOOLEAN], NEW rw \in [Conditions -> BOOLEAN],
         SetCondition(c, v, en, rw), Observe(FALSE), UNCHANGED <<items, config>>, enabled' = en
  PROVE  /\ Instant'
         /\ Kind[c] = "always" => condValid'[c] = v
         /\ \A d \in Conditions \ {c} : condValid'[d] = condValid[d] \/ Kind[d] # "always"
                                          \/ condValid'[d] = Truth(d)
         /\ due' => /\ op = "SEQUENTIAL" /\ mgr'.seq = mgr.seq /\ mgr.seq < Len(items)
                    /\ enabled'[Current] /\ condValid'[Current] /\ Current # c
                    /\ \/ Current \in deferred'
                       \/ Kind[Current] = "always" /\ ToCome(Current)
<1> DEFINE out == Outcome(c, v, rw)
           others == IF out.told THEN SameSource(c) ELSE {}
           again == [o \in others |-> Outcome(o, Truth(o), rw)]
           cv == [d \in Conditions |-> IF d = c THEN out.valid
                                      ELSE IF d \in others THEN again[d].valid ELSE condValid[d]]
           co == out.changeOnly
           at == IndexOf(items, c)
<1>0. /\ items \in Seq(Conditions) /\ c \in Conditions /\ condValid \in [Conditions -> BOOLEAN]
      /\ TypeOK /\ StepInRange /\ mgr \in Managers /\ Len(items) \in Nat
      /\ \A d \in ToSet(items) : d \in Conditions
  BY DEF Wellformed, TypeOK, ToSet
<1>1. out \in [valid : BOOLEAN, raw : BOOLEAN, told : BOOLEAN, changeOnly : BOOLEAN]
  BY <1>0, OutcomeResult
<1>2. /\ Kind[c] = "always" => out.valid = v /\ out.told
      /\ out.valid # condValid[c] => out.told
  BY <1>0, OutcomeFacts
<1>3. others \subseteq SameSource(c) /\ SameSource(c) \subseteq ToSet(items) \ {c}
  BY DEF SameSource
<1>4. ASSUME NEW o \in others
      PROVE  /\ Kind[o] = "always" => again[o].valid = Truth(o)
             /\ again[o].valid # condValid[o] /\ Kind[o] # "always" => Deferring(again[o])
  <2>1. o \in Conditions /\ Truth(o) \in BOOLEAN
    BY <1>0, <1>3 DEF Truth
  <2> DEFINE t == Truth(o)
  <2> HIDE DEF t
  <2>2. LET w == Outcome(o, t, rw)
        IN  /\ Kind[o] = "always" => w.valid = t /\ w.told
            /\ Kind[o] # "always" => w.changeOnly
            /\ w.valid # condValid[o] => w.told
    BY <1>0, <2>1, OutcomeFacts DEF t
  <2>3. again[o] = Outcome(o, t, rw)
    BY DEF t
  <2> HIDE DEF again
  <2>4. QED
    BY <2>2, <2>3 DEF Deferring, t
<1>5. /\ condValid' = cv /\ deferred' = {o \in others : Deferring(again[o])}
      /\ mgr' = IF out.told
                THEN CheckAll(Quiet, items, en, cv, op, valTime, invTime, co, at)
                ELSE Quiet
  BY DEF SetCondition
<1> HIDE DEF out, others, again
<1>6. Quiet \in Managers /\ ~Quiet.timer /\ Quiet.valid = mgr.valid /\ Quiet.seq = mgr.seq
  BY <1>0, QuietSound DEF Sound, Stepwise, Instant
<1>7. co \in BOOLEAN
  BY <1>1
<1> HIDE DEF cv, co, at
<1>8. valTime = 0 /\ invTime = 0 /\ (op = "SEQUENTIAL" => ~Quiet.valid)
  BY <1>6 DEF Stepwise, Instant
<1> DEFINE n == CheckAll(Quiet, items, en, cv, op, 0, 0, co, at)
           w == Verdict(items, en, cv, op, Quiet.seq, at)
<1>9. /\ ~n.timer
      /\ op = "SEQUENTIAL" => ~n.valid
      /\ op = "SEQUENTIAL" /\ w => Contains(n.said, TRUE)
  BY <1>0, <1>6, <1>7, <1>8, InstantCheck
<1>10. mgr' = IF out.told THEN n ELSE Quiet
  BY <1>5, <1>8
<1> HIDE DEF n, w
<1>11. Instant'
  BY <1>6, <1>8, <1>9, <1>10 DEF Instant, config
<1>12. Kind[c] = "always" => condValid'[c] = v
  BY <1>0, <1>2, <1>5 DEF cv
<1>13. \A d \in Conditions \ {c} : condValid'[d] = condValid[d] \/ Kind[d] # "always"
                                     \/ condValid'[d] = Truth(d)
  BY <1>0, <1>4, <1>5 DEF cv
<1>14. ASSUME due'
       PROVE  /\ op = "SEQUENTIAL" /\ mgr'.seq = mgr.seq /\ mgr.seq < Len(items)
              /\ enabled'[Current] /\ condValid'[Current] /\ Current # c
              /\ \/ Current \in deferred'
                 \/ Kind[Current] = "always" /\ ToCome(Current)
  <2>1. /\ op = "SEQUENTIAL" /\ mgr'.seq = mgr.seq /\ mgr.seq < Len(items)
        /\ enabled'[Current] /\ condValid'[Current] /\ ~Contains(mgr'.said, TRUE)
        /\ due \/ ~condValid[Current]
    BY <1>14 DEF Observe, config
  <2>2. /\ mgr.seq \in Nat /\ mgr.seq + 1 \in 1..Len(items) /\ Current = items[mgr.seq + 1]
    BY <1>0, <2>1 DEF Managers, Current
  <2>3. Current \in ToSet(items) /\ Current \in Conditions
    BY <1>0, <2>2 DEF ToSet
  <2>4. due => condValid[Current] /\ Kind[Current] = "always" /\ ToCome(Current)
    BY DEF Stepwise, Answered
  <2>5. Current # c
    <3>1. SUFFICES ASSUME Current = c PROVE FALSE
      OBVIOUS
    <3>2. out.told
      <4>1. CASE due
        BY <1>2, <2>4, <3>1, <4>1
      <4>2. CASE ~condValid[Current]
        BY <1>0, <1>2, <1>5, <2>1, <3>1, <4>2 DEF cv
      <4>3. QED
        BY <2>1, <4>1, <4>2
    <3>3. at = mgr.seq
      <4>1. IndexOf(items, items[mgr.seq + 1]) = (mgr.seq + 1) - 1
        BY <1>0, <2>2, IndexOfDistinct DEF Stepwise
      <4>2. QED
        BY <2>2, <3>1, <4>1 DEF at
    <3>4. w
      BY <1>0, <1>5, <1>6, <2>1, <2>2, <3>1, <3>3 DEF w, Verdict, StepValid, Current
    <3>5. QED
      BY <1>9, <1>10, <2>1, <3>2, <3>4
  <2>6. CASE due
    BY <2>1, <2>4, <2>5, <2>6
  <2>7. CASE ~condValid[Current]
    <3>1. Current \in others /\ again[Current].valid # condValid[Current]
      BY <1>0, <1>5, <2>1, <2>3, <2>5, <2>7 DEF cv
    <3>2. CASE Kind[Current] # "always"
      <4>1. Current \in deferred'
        BY <1>4, <1>5, <3>1, <3>2
      <4>2. QED
        BY <2>1, <2>5, <4>1
    <3>3. CASE Kind[Current] = "always"
      <4>1. Current \in SameSource(c)
        BY <1>3, <3>1
      <4>2. "enable" \notin Edits
        BY <1>0, <2>3, <2>5, <3>3, <4>1 DEF Sequencing, SameSource
      <4>3. condValid[Current] # Truth(Current)
        BY <1>4, <3>1, <3>3
      <4>4. ToCome(Current)
        BY <2>3, <3>3, <4>2, <4>3 DEF Stepwise, Attentive
      <4>5. QED
        BY <2>1, <2>5, <3>3, <4>4
    <3>4. QED
      BY <3>2, <3>3
  <2>8. QED
    BY <2>1, <2>6, <2>7
<1>15. QED
  BY <1>11, <1>12, <1>13, <1>14


\* A source changes, or what is posted is handled: who listens will be called.
LEMMA SourceStep ==
  ASSUME Wellformed, Stepwise, mgr' = Quiet, pending' \subseteq ToSet(items),
         UNCHANGED <<items, enabled, condValid, deferred, config, due>>,
         \A c \in ToSet(items) : /\ Standard(c) /\ ToCome(c) => StillCalled(c)
                                 /\ Standard(c) => Truth(c)' = Truth(c) \/ StillCalled(c)
  PROVE  Stepwise'
<1>1. /\ Quiet.valid = mgr.valid /\ Quiet.seq = mgr.seq /\ Quiet.timer = mgr.timer
      /\ mgr \in Managers /\ items \in Seq(Conditions)
  BY QuietSound DEF Wellformed, TypeOK
<1>2. Distinct(items)' /\ Instant' /\ Calling'
  BY <1>1 DEF Stepwise, Distinct, Instant, Calling, config
<1>3. Attentive'
  <2>1. SUFFICES ASSUME "enable" \notin Edits, NEW c \in ToSet(items), Kind[c] = "always"
                 PROVE  condValid[c] = Truth(c)' \/ StillCalled(c)
    BY DEF Attentive, ToCome, StillCalled, Called
  <2>2. Standard(c) /\ (condValid[c] = Truth(c) \/ ToCome(c))
    BY <2>1 DEF Stepwise, Attentive, Standard
  <2>3. QED
    BY <2>2
<1>4. Answered'
  <2>1. SUFFICES ASSUME due' PROVE Answered'
    BY DEF Answered
  <2>2. Current' = Current /\ mgr'.seq = mgr.seq
    BY <1>1 DEF Current
  <2>3. /\ op = "SEQUENTIAL" /\ mgr.seq < Len(items) /\ enabled[Current] /\ condValid[Current]
        /\ Current \in deferred \/ (Kind[Current] = "always" /\ ToCome(Current))
    BY <2>1 DEF Stepwise, Answered
  <2>4. Current \in ToSet(items)
    BY <1>1, <2>3 DEF Current, Managers, ToSet
  <2>5. Kind[Current] = "always" /\ ToCome(Current) => StillCalled(Current)
    BY <2>4 DEF Standard
  <2>6. /\ op' = "SEQUENTIAL" /\ mgr'.seq < Len(items') /\ enabled'[Current'] /\ condValid'[Current']
        /\ Current' \in deferred' \/ (Kind[Current'] = "always" /\ StillCalled(Current))
    BY <2>2, <2>3, <2>5 DEF config
  <2>7. StillCalled(Current) => StillCalled(Current')
    BY <2>2 DEF ToCome, StillCalled, Called
  <2>8. QED
    BY <2>6, <2>7 DEF Answered, ToCome, StillCalled, Called
<1>5. QED
  BY <1>2, <1>3, <1>4 DEF Stepwise

\* A full check starts no timer, and validates no sequence.
LEMMA FullCheckStep ==
  ASSUME Wellformed, Stepwise, NEW m \in Managers, ~m.timer, NEW its \in Seq(Conditions), NEW o
  PROVE  LET n == CheckAll(m, its, enabled, condValid, o, valTime, invTime, TRUE, -1)
         IN  ~n.timer /\ (o = "SEQUENTIAL" => ~n.valid)
<1> DEFINE n == CheckAll(m, its, enabled, condValid, o, 0, 0, TRUE, -1)
           v == Verdict(its, enabled, condValid, o, m.seq, -1)
<1>1. valTime = 0 /\ invTime = 0
  BY DEF Stepwise, Instant
<1>2. o = "SEQUENTIAL" => ~v
  BY NoStep
<1>3. ~n.timer /\ (o = "SEQUENTIAL" /\ (~m.valid \/ ~v) => ~n.valid)
  BY InstantCheck
<1> HIDE DEF n, v
<1>4. ~n.timer /\ (o = "SEQUENTIAL" => ~n.valid)
  BY <1>2, <1>3
<1>5. QED
  BY <1>1, <1>4 DEF n

\* As loaded, no step is due.
LEMMA InitStepwise == Sequencing /\ Init => Stepwise
<1> SUFFICES ASSUME Sequencing, Init PROVE Stepwise
  OBVIOUS
<1>1. valTime = 0 /\ invTime = 0 /\ Start \in Seq(Conditions)
  BY ConstantsAssumption DEF Init, Sequencing
<1>2. Fresh \in Managers /\ ~Fresh.timer /\ ~Fresh.valid
  <2>1. <<>> \in Seq(BOOLEAN) /\ Full \in Nat \ {0}
    BY ConstantsAssumption
  <2>2. QED
    BY <2>1 DEF Fresh, Managers
<1> DEFINE n == CheckAll(Fresh, items, enabled, condValid, op, 0, 0, TRUE, -1)
<1>3. items \in Seq(Conditions) /\ mgr = [n EXCEPT !.said = <<>>]
  BY <1>1 DEF Init, Recheck
<1>4. ~n.timer /\ (op = "SEQUENTIAL" => ~n.valid)
  BY <1>2, <1>3, InstantCheck
<1>5. n \in Managers
  <2>1. condValid \in [Conditions -> BOOLEAN] /\ enabled \in [Conditions -> BOOLEAN]
    BY ConstantsAssumption DEF Init, Standard, Truth
  <2>2. InRange(Fresh, items)
    BY <1>3 DEF Fresh, InRange
  <2>3. QED
    BY <1>2, <1>3, <2>1, <2>2, CheckAllResult
<1> HIDE DEF n
<1>6. Instant
  BY <1>1, <1>3, <1>4, <1>5 DEF Instant, Managers
<1>7. Distinct(items)
  BY DEF Init, Sequencing
<1>8. Attentive
  <2>1. ASSUME NEW c \in ToSet(items), Kind[c] = "always" PROVE condValid[c] = Truth(c)
    <3>1. c \in Conditions
      BY <1>3 DEF ToSet
    <3>2. Standard(c) /\ Truth(c) \in BOOLEAN /\ condValid[c] = (Standard(c) /\ Truth(c))
      BY <2>1, <3>1 DEF Init, Standard, Truth
    <3>3. QED
      BY <3>2
  <2>2. QED
    BY <2>1 DEF Attentive
<1>9. Answered /\ Calling
  BY DEF Init, Answered, Calling
<1>10. QED
  BY <1>6, <1>7, <1>8, <1>9 DEF Stepwise

\* A check that is not on behalf of the current step leaves it to come.
LEMMA StillToCome ==
  ASSUME Wellformed, Stepwise, Observe(FALSE),
         UNCHANGED <<src, queue, pending, items, enabled, condValid, op>>,
         due /\ Current \in deferred => Current \in deferred' \/ Contains(mgr'.said, TRUE)
  PROVE  Answered'
<1>1. SUFFICES ASSUME due' PROVE Answered'
  BY DEF Answered
<1>2. /\ op = "SEQUENTIAL" /\ mgr'.seq = mgr.seq /\ mgr.seq < Len(items) /\ ~Contains(mgr'.said, TRUE)
      /\ enabled[Current] /\ condValid[Current] /\ due
  BY <1>1 DEF Observe
<1>3. Current' = Current
  BY <1>2 DEF Current
<1>4. Current \in deferred' \/ (Kind[Current] = "always" /\ ToCome(Current))
  BY <1>2 DEF Stepwise, Answered
<1>5. ToCome(Current) => StillCalled(Current')
  BY <1>3 DEF ToCome, StillCalled, Called
<1>6. QED
  BY <1>2, <1>3, <1>4, <1>5 DEF Answered, ToCome, StillCalled, Called

\* One case per operation.
LEMMA NextStepwise == Sequencing /\ Wellformed /\ Stepwise /\ [Next]_vars => Stepwise'
<1> SUFFICES ASSUME Sequencing, Wellformed, Stepwise, [Next]_vars PROVE Stepwise'
  OBVIOUS
<1>a. /\ TypeOK /\ StepInRange /\ items \in Seq(Conditions) /\ Len(items) \in Nat /\ mgr \in Managers
      /\ enabled \in [Conditions -> BOOLEAN] /\ condValid \in [Conditions -> BOOLEAN]
      /\ raw \in [Conditions -> BOOLEAN] /\ queue \in Seq(Sources)
      /\ \A c \in ToSet(items) : c \in Conditions
  BY DEF Wellformed, TypeOK, ToSet
<1>b. /\ Quiet \in Managers /\ Quiet.valid = mgr.valid /\ Quiet.seq = mgr.seq
      /\ Quiet.timer = mgr.timer /\ ~mgr.timer
  BY <1>a, QuietSound DEF Sound, Stepwise, Instant
<1>c. Distinct(items) /\ Calling /\ Instant /\ Attentive /\ Answered
  BY DEF Stepwise
\* A condition of the manager is set valid or not.
<1>d. ASSUME NEW c \in ToSet(items), NEW v \in BOOLEAN, NEW en \in [Conditions -> BOOLEAN],
             NEW rw \in [Conditions -> BOOLEAN], deferred = {},
             SetCondition(c, v, en, rw), Observe(FALSE), enabled' = en,
             UNCHANGED <<src, queue, items, config>>, pending' \in {pending, pending \ {c}},
             "enable" \in Edits \/ Kind[c] # "always" \/ v = Truth(c)
      PROVE  Stepwise'
  <2>1. /\ Instant'
        /\ Kind[c] = "always" => condValid'[c] = v
        /\ \A d \in Conditions \ {c} : condValid'[d] = condValid[d] \/ Kind[d] # "always"
                                         \/ condValid'[d] = Truth(d)
        /\ due' => /\ op = "SEQUENTIAL" /\ mgr'.seq = mgr.seq /\ mgr.seq < Len(items)
                   /\ enabled'[Current] /\ condValid'[Current] /\ Current # c
                   /\ \/ Current \in deferred'
                      \/ Kind[Current] = "always" /\ ToCome(Current)
    BY <1>d, SetConditionStep
  <2>2. \A d : d # c /\ ToCome(d) => StillCalled(d)
    BY <1>d DEF ToCome, StillCalled, Called
  <2>3. \A d : Truth(d)' = Truth(d)
    BY <1>d DEF Truth
  <2>4. Attentive'
    <3>1. SUFFICES ASSUME "enable" \notin Edits, NEW d \in ToSet(items), Kind[d] = "always"
                   PROVE  condValid'[d] = Truth(d) \/ StillCalled(d)
      BY <1>d, <2>3 DEF Attentive, ToCome, StillCalled, Called
    <3>2. CASE d = c
      BY <1>d, <2>1, <3>1, <3>2
    <3>3. CASE d # c
      <4>1. condValid[d] = Truth(d) \/ ToCome(d)
        BY <1>c, <3>1 DEF Attentive
      <4>2. condValid'[d] = condValid[d] \/ condValid'[d] = Truth(d)
        BY <1>a, <2>1, <3>1, <3>3
      <4>3. QED
        BY <2>2, <3>3, <4>1, <4>2
    <3>4. QED
      BY <3>2, <3>3
  <2>5. Answered'
    <3>1. SUFFICES ASSUME due' PROVE Answered'
      BY DEF Answered
    <3>2. Current' = Current
      BY <1>d, <2>1, <3>1 DEF Current
    <3>3. Current # c /\ ToCome(Current) => StillCalled(Current')
      BY <2>2, <3>2 DEF ToCome, StillCalled, Called
    <3>4. QED
      BY <1>d, <2>1, <3>1, <3>2, <3>3 DEF Answered, ToCome, StillCalled, Called, config
  <2>6. Distinct(items)' /\ Calling'
    BY <1>c, <1>d DEF Distinct, Calling
  <2>7. QED
    BY <2>1, <2>4, <2>5, <2>6 DEF Stepwise
<1>1. ASSUME NEW s \in Sources, NEW x \in Values, ChangeSource(s, x) PROVE Stepwise'
  <2>1. pending = {} /\ pending' = Listening(s) /\ queue' = queue /\ src' = [src EXCEPT ![s] = x]
    BY <1>1 DEF ChangeSource, Free
  <2>2. ASSUME NEW c \in ToSet(items), Standard(c)
        PROVE  (ToCome(c) => StillCalled(c)) /\ (Truth(c)' = Truth(c) \/ StillCalled(c))
    <3>1. ToCome(c) => Source[c] \in ToSet(queue)
      BY <2>1 DEF ToCome, StillCalled, Called
    <3>2. Source[c] = s => c \in pending'
      BY <2>1, <2>2 DEF Listening
    <3>3. Source[c] # s => Truth(c)' = Truth(c)
      BY <1>a, <2>1 DEF Truth, TypeOK
    <3>4. QED
      BY <2>1, <3>1, <3>2, <3>3 DEF ToCome, StillCalled, Called
  <2>3. pending' \subseteq ToSet(items)
    BY <2>1 DEF Listening
  <2>4. QED
    BY <1>1, <2>2, <2>3, SourceStep DEF ChangeSource
<1>2. ASSUME NEW s \in Sources, NEW x \in Values, PostSource(s, x) PROVE Stepwise'
  <2>1. pending' = pending /\ queue' = Append(queue, s) /\ src' = [src EXCEPT ![s] = x]
    BY <1>2 DEF PostSource
  <2>2. ToSet(queue) \subseteq ToSet(queue') /\ s \in ToSet(queue')
    <3>1. /\ Len(queue) \in Nat /\ Len(queue') = Len(queue) + 1 /\ queue'[Len(queue) + 1] = s
          /\ \A i \in 1..Len(queue) : queue'[i] = queue[i]
      BY <1>a, <2>1, AppendProperties
    <3>2. ASSUME NEW i \in 1..Len(queue) PROVE queue[i] \in ToSet(queue')
      <4>1. i \in 1..Len(queue') /\ queue'[i] = queue[i]
        BY <3>1
      <4>2. QED
        BY <4>1 DEF ToSet
    <3>3. s \in ToSet(queue')
      <4>1. Len(queue) + 1 \in 1..Len(queue')
        BY <3>1
      <4>2. QED
        BY <3>1, <4>1 DEF ToSet
    <3>4. QED
      BY <3>2, <3>3 DEF ToSet
  <2>3. ASSUME NEW c \in ToSet(items), Standard(c)
        PROVE  (ToCome(c) => StillCalled(c)) /\ (Truth(c)' = Truth(c) \/ StillCalled(c))
    <3>1. Source[c] # s => Truth(c)' = Truth(c)
      BY <1>a, <2>1 DEF Truth, TypeOK
    <3>2. QED
      BY <2>1, <2>2, <3>1 DEF ToCome, StillCalled, Called
  <2>4. QED
    BY <1>2, <1>c, <2>3, SourceStep DEF PostSource, Calling
<1>3. CASE HandlePosted
  <2>1. /\ pending = {} /\ pending' = Listening(Head(queue)) /\ queue # <<>> /\ queue' = Tail(queue)
        /\ src' = src
    BY <1>3 DEF HandlePosted, Free
  <2>2. ToSet(queue) \subseteq ToSet(queue') \cup {Head(queue)}
    <3>1. ASSUME NEW j \in 1..Len(queue), j # 1 PROVE queue[j] \in ToSet(queue')
      <4>1. /\ j - 1 \in 1..Len(queue') /\ queue'[j - 1] = queue[j]
        BY <1>a, <2>1, <3>1
      <4>2. QED
        BY <4>1 DEF ToSet
    <3>2. Head(queue) = queue[1]
      BY <1>a, <2>1
    <3>3. QED
      BY <3>1, <3>2 DEF ToSet
  <2>3. ASSUME NEW c \in ToSet(items), Standard(c)
        PROVE  (ToCome(c) => StillCalled(c)) /\ (Truth(c)' = Truth(c) \/ StillCalled(c))
    <3>1. ToCome(c) => Source[c] \in ToSet(queue') \/ Source[c] = Head(queue)
      BY <2>1, <2>2 DEF ToCome, StillCalled, Called
    <3>2. Source[c] = Head(queue) => c \in pending'
      BY <2>1, <2>3 DEF Listening
    <3>3. Truth(c)' = Truth(c)
      BY <2>1 DEF Truth
    <3>4. QED
      BY <3>1, <3>2, <3>3 DEF ToCome, StillCalled, Called
  <2>4. pending' \subseteq ToSet(items)
    BY <2>1 DEF Listening
  <2>5. QED
    BY <1>3, <2>3, <2>4, SourceStep DEF HandlePosted
<1>4. ASSUME NEW c \in Conditions, Deliver(c) PROVE Stepwise'
  <2>1. c \in ToSet(items)
    BY <1>4, <1>c DEF Deliver, Calling
  <2>2. Truth(c) \in BOOLEAN
    BY DEF Truth
  <2> DEFINE t == Truth(c)
  <2>3. t \in BOOLEAN /\ t = Truth(c) /\ SetCondition(c, t, enabled, raw)
    BY <1>4, <2>2 DEF Deliver
  <2> HIDE DEF t
  <2>4. /\ Observe(FALSE) /\ deferred = {} /\ enabled' = enabled /\ pending' = pending \ {c}
        /\ UNCHANGED <<src, queue, items, config>>
    BY <1>4 DEF Deliver, Idle
  <2>5. QED
    BY <1>a, <1>d, <2>1, <2>3, <2>4
<1>5. CASE CheckDeferred
  <2> DEFINE c == CHOOSE d \in deferred : \A e \in deferred : IndexOf(items, d) <= IndexOf(items, e)
             at == IndexOf(items, c)
             n == CheckAll(Quiet, items, enabled, condValid, op, 0, 0, TRUE, at)
             v == Verdict(items, enabled, condValid, op, Quiet.seq, at)
  <2>1. /\ mgr' = CheckAll(Quiet, items, enabled, condValid, op, valTime, invTime, TRUE, at)
        /\ deferred' = deferred \ {c}
        /\ UNCHANGED <<src, queue, pending, items, enabled, condValid, config>> /\ Observe(FALSE)
    BY <1>5 DEF CheckDeferred
  <2>2. Current = c /\ due => at = mgr.seq
    <3>1. SUFFICES ASSUME Current = c, due PROVE at = mgr.seq
      OBVIOUS
    <3>2. mgr.seq + 1 \in 1..Len(items) /\ Current = items[mgr.seq + 1] /\ mgr.seq \in Nat
      BY <1>a, <1>c, <3>1 DEF Answered, Current, Managers
    <3> HIDE DEF c
    <3>3. QED
      BY <1>a, <1>c, <3>1, <3>2, IndexOfDistinct
  <2> HIDE DEF c, at
  <2>3. mgr' = n
    BY <1>c, <2>1 DEF Instant
  <2>4. /\ ~n.timer
        /\ op = "SEQUENTIAL" => ~n.valid
        /\ op = "SEQUENTIAL" /\ v => Contains(n.said, TRUE)
    BY <1>a, <1>b, <1>c, InstantCheck DEF Instant
  <2>5. Current = c /\ due => op = "SEQUENTIAL" /\ v
    <3>1. SUFFICES ASSUME Current = c, due PROVE op = "SEQUENTIAL" /\ v
      OBVIOUS
    <3>2. op = "SEQUENTIAL" /\ mgr.seq < Len(items) /\ condValid[Current] /\ at = mgr.seq
      BY <1>c, <2>2, <3>1 DEF Answered
    <3>3. mgr.seq \in Nat
      BY <1>a DEF Managers
    <3>4. QED
      BY <1>a, <1>b, <3>2, <3>3 DEF Verdict, StepValid, Current
  <2> HIDE DEF n, v
  <2>6. Instant'
    BY <1>c, <2>1, <2>3, <2>4 DEF Instant, config
  <2>7. Answered'
    <3>1. due /\ Current \in deferred => Current \in deferred' \/ Contains(mgr'.said, TRUE)
      BY <2>1, <2>3, <2>4, <2>5
    <3>2. QED
      BY <2>1, <3>1, StillToCome DEF config
  <2>8. Distinct(items)' /\ Calling' /\ Attentive'
    BY <1>c, <2>1 DEF Distinct, Calling, Attentive, Truth, ToCome, StillCalled, Called
  <2>9. QED
    BY <2>6, <2>7, <2>8 DEF Stepwise
<1>6. ASSUME NEW c \in Conditions, SetManual(c) PROVE Stepwise'
  <2> DEFINE v == ~raw[c]
             rw == [raw EXCEPT ![c] = ~@]
  <2>1. /\ c \in ToSet(items) /\ Kind[c] # "always" /\ deferred = {} /\ Observe(FALSE)
        /\ SetCondition(c, v, enabled, rw) /\ enabled' = enabled /\ pending' = pending
        /\ UNCHANGED <<src, queue, items, config>>
    BY <1>6 DEF SetManual, Free, Idle, Standard
  <2>2. v \in BOOLEAN /\ rw \in [Conditions -> BOOLEAN]
    BY <1>a
  <2> HIDE DEF v, rw
  <2>3. QED
    BY <1>a, <1>d, <2>1, <2>2
<1>7. ASSUME NEW c \in Conditions, SetEnabled(c) PROVE Stepwise'
  <2>1. /\ c \in ToSet(items) /\ "enable" \in Edits /\ deferred = {} /\ Observe(FALSE)
        /\ SetCondition(c, FALSE, enabled', raw) /\ enabled' \in [Conditions -> BOOLEAN]
        /\ UNCHANGED <<src, queue, items, config>> /\ pending' = pending
    BY <1>a, <1>7 DEF SetEnabled, Free, Idle
  <2>2. QED
    BY <1>a, <1>d, <2>1
\* The list or the operator changes: no step is due, whichever is the current one.
<1>e. ASSUME items' # items \/ op' # op, Observe(FALSE), Instant', Distinct(items)', pending' = {}, Attentive'
      PROVE  Stepwise'
  <2>1. ~due'
    BY <1>e DEF Observe
  <2>2. QED
    BY <1>e, <2>1 DEF Stepwise, Answered, Calling
<1>8. ASSUME NEW i \in 1..Len(items), RemoveCondition(i) PROVE Stepwise'
  <2> DEFINE m == [Quiet EXCEPT !.seq = 0]
  <2>1. /\ pending' = {} /\ items' = RemoveAt(items, i) /\ Observe(FALSE)
        /\ mgr' = CheckAll(m, items', enabled, condValid, op, valTime, invTime, TRUE, -1)
        /\ UNCHANGED <<src, queue, pending, enabled, condValid, config>>
    BY <1>8 DEF RemoveCondition, Free, Recheck
  <2>2. m \in Managers /\ ~m.timer
    BY <1>b DEF Managers
  <2> HIDE DEF m
  <2>3. /\ items' \in Seq(Conditions) /\ Distinct(items') /\ Len(items') = Len(items) - 1
        /\ ToSet(items') \subseteq ToSet(items)
    BY <1>a, <1>c, <2>1, RemoveAtResult, RemoveAtDistinct
  <2>4. ~mgr'.timer /\ (op = "SEQUENTIAL" => ~mgr'.valid)
    BY <2>1, <2>2, <2>3, FullCheckStep
  <2>5. Instant' /\ items' # items
    <3>1. items' # items
      BY <1>a, <2>3
    <3>2. Instant'
      BY <1>c, <2>1, <2>4 DEF Instant, config
    <3>3. QED
      BY <3>1, <3>2
  <2>6. Attentive'
    BY <1>c, <2>1, <2>3 DEF Attentive, Truth, ToCome, StillCalled, Called
  <2>7. QED
    BY <1>e, <2>1, <2>3, <2>5, <2>6 DEF Distinct
<1>9. ASSUME NEW c \in Conditions, NEW i \in 1..(Len(items) + 1), RestoreCondition(c, i)
      PROVE  Stepwise'
  <2> DEFINE a == IF Standard(c) THEN Truth(c) ELSE raw[c]
  <2>1. /\ pending' = {} /\ items' = InsertAt(items, i, c) /\ Observe(FALSE) /\ mgr' = Quiet
        /\ condValid' = [condValid EXCEPT ![c] = a] /\ c \notin ToSet(items)
        /\ UNCHANGED <<src, queue, pending, enabled, config>>
    BY <1>9 DEF RestoreCondition, Free
  <2>2. /\ items' \in Seq(Conditions) /\ Distinct(items') /\ Len(items') = Len(items) + 1
        /\ ToSet(items') \subseteq ToSet(items) \cup {c}
    BY <1>a, <1>c, <2>1, InsertAtResult, InsertAtDistinct
  <2>3. Instant' /\ items' # items
    BY <1>a, <1>b, <1>c, <2>1, <2>2 DEF Instant, config
  <2>4. Attentive'
    <3>1. SUFFICES ASSUME "enable" \notin Edits, NEW d \in ToSet(items'), Kind[d] = "always"
                   PROVE  condValid'[d] = Truth(d) \/ ToCome(d)
      BY <2>1 DEF Attentive, Truth, ToCome, StillCalled, Called
    <3>2. CASE d = c
      BY <1>a, <2>1, <3>1, <3>2 DEF Standard
    <3>3. CASE d # c
      <4>1. d \in ToSet(items) /\ condValid'[d] = condValid[d]
        BY <1>a, <2>1, <2>2, <3>1, <3>3
      <4>2. QED
        BY <1>c, <3>1, <4>1 DEF Attentive
    <3>4. QED
      BY <3>2, <3>3
  <2>5. QED
    BY <1>e, <2>1, <2>2, <2>3, <2>4 DEF Distinct
<1>10. ASSUME NEW o \in Operators, SetOperator(o) PROVE Stepwise'
  <2> DEFINE m == [Quiet EXCEPT !.seq = 0]
  <2>1. /\ pending' = {} /\ op' = o /\ o # op /\ Observe(FALSE) /\ pending' = pending
        /\ mgr' = CheckAll(m, items, enabled, condValid, o, valTime, invTime, TRUE, -1)
        /\ UNCHANGED <<src, queue, items, enabled, condValid, valTime, invTime>>
    BY <1>10 DEF SetOperator, Free
  <2>2. m \in Managers /\ ~m.timer
    BY <1>b DEF Managers
  <2> HIDE DEF m
  <2>3. ~mgr'.timer /\ (o = "SEQUENTIAL" => ~mgr'.valid)
    BY <1>a, <2>1, <2>2, FullCheckStep
  <2>4. Instant'
    BY <1>c, <2>1, <2>3 DEF Instant
  <2>5. Attentive' /\ Distinct(items)'
    BY <1>c, <2>1 DEF Attentive, Truth, ToCome, StillCalled, Called, Distinct
  <2>6. QED
    BY <1>e, <2>1, <2>4, <2>5
<1>11. ASSUME NEW vt \in Delays, NEW it \in Delays, SetDelays(vt, it) PROVE Stepwise'
  <2>1. vt = 0 /\ it = 0 /\ valTime = 0 /\ invTime = 0
    BY <1>c DEF Sequencing, Instant
  <2>2. QED
    BY <1>11, <2>1 DEF SetDelays
<1>12. CASE SetForceDisabled
  <2> DEFINE m == [Quiet EXCEPT !.valid = ~disabled' /\ @]
  <2>1. /\ mgr' = CheckAll(m, items, enabled, condValid, op, valTime, invTime, TRUE, -1)
        /\ UNCHANGED <<src, queue, pending, items, enabled, condValid, deferred, op, valTime, invTime>>
        /\ Observe(FALSE)
    BY <1>12 DEF SetForceDisabled, Recheck
  <2>2. m \in Managers /\ ~m.timer
    BY <1>b DEF Managers
  <2> HIDE DEF m
  <2>3. ~mgr'.timer /\ (op = "SEQUENTIAL" => ~mgr'.valid)
    BY <1>a, <2>1, <2>2, FullCheckStep
  <2>4. Instant'
    BY <1>c, <2>1, <2>3 DEF Instant
  <2>5. Answered'
    BY <2>1, StillToCome
  <2>6. Distinct(items)' /\ Calling' /\ Attentive'
    BY <1>c, <2>1 DEF Distinct, Calling, Attentive, Truth, ToCome, StillCalled, Called
  <2>7. QED
    BY <2>4, <2>5, <2>6 DEF Stepwise
<1>13. CASE TimerCallback
  BY <1>b, <1>13 DEF TimerCallback
<1>14. CASE UNCHANGED vars
  BY <1>c, <1>14 DEF vars, Stepwise, Distinct, Calling, Instant, Attentive, Answered, Truth, ToCome, StillCalled, Called, Current
<1>15. QED
  BY <1>1, <1>2, <1>3, <1>4, <1>5, <1>6, <1>7, <1>8, <1>9, <1>10, <1>11, <1>12, <1>13, <1>14
     DEF Next, Listener, Environment

\* A sequence takes its step: when the condition of the current step becomes valid and
\* stays so, the step has been taken once the handlers are over, whatever the conditions,
\* the order of their listeners, and the edits of the list in between. (Sequencing says
\* which delays and which conditions this is about.)
THEOREM EveryStepIsTaken == ASSUME Sequencing PROVE Spec => []StepTaken
<1>1. Wellformed /\ Stepwise => StepTaken
  BY DEF Stepwise, Answered, StepTaken, AtRest, Free, Idle, ToCome, StillCalled, Called, ToSet
<1>2. Init => Wellformed /\ Stepwise
  BY InitWellformed, InitStepwise
<1>3. Wellformed /\ Stepwise /\ [Next]_vars => (Wellformed /\ Stepwise)'
  BY NextWellformed, NextStepwise
<1>4. QED
  BY <1>1, <1>2, <1>3, PTL DEF Spec

-----------------------------------------------------------------------------
\* What holds of a manager that combines its conditions with AND or OR, in a project whose
\* user removes conditions, switches the operator and edits the delays while threads set
\* the sources: the delays of its validity, and that every condition hears of its source.

\* The manager only combines, and nobody makes the edits that it does not hear
\* of: enabling, undoing a removal, disabling by force.
Combining ==
  /\ Operators \subseteq {"AND", "OR"}
  /\ Edits \subseteq {"remove", "operator", "delays"}

Satisfied == Verdict(items, enabled, condValid, op, 0, -1)

\* Between two calls the target is the verdict, the validity is the target unless
\* a timer runs, and the timer has not counted more than it should.
Settled ==
  /\ op \in {"AND", "OR"}
  /\ mgr.target <=> Satisfied
  /\ ~mgr.timer => (mgr.valid <=> mgr.target)
  /\ mgr.timer /\ mgr.target /\ ~mgr.valid => mgr.progress <= held

\* AND and OR do not look at the sequential index.
LEMMA VerdictOfTwo ==
  ASSUME NEW its, NEW en, NEW cv, NEW o \in {"AND", "OR"}, NEW s, NEW at
  PROVE  /\ Verdict(its, en, cv, o, s, at) = Verdict(its, en, cv, o, 0, -1)
         /\ Verdict(its, en, cv, o, s, at) \in BOOLEAN
  BY DEF Verdict, AllValid, OneValid

\* AND and OR look at the conditions of the list only.
AgreeOn(its, cv, dv) == \A i \in 1..Len(its) : cv[its[i]] <=> dv[its[i]]

LEMMA VerdictOfList ==
  ASSUME NEW its, NEW en, NEW cv, NEW dv, AgreeOn(its, cv, dv), NEW o \in {"AND", "OR"}
  PROVE  Verdict(its, en, cv, o, 0, -1) = Verdict(its, en, dv, o, 0, -1)
  BY DEF Verdict, AllValid, OneValid, AgreeOn

\* m after setValid(v) is n: only the validity, and what it says, change.
Told(m, n, v) ==
  /\ n \in Managers
  /\ n.valid = v /\ n.target = m.target /\ n.timer = m.timer /\ n.progress = m.progress

\* setValid of a combining manager.
LEMMA SetValidCombining ==
  ASSUME NEW m \in Managers, NEW its, NEW en, NEW o \in {"AND", "OR"},
         NEW v \in BOOLEAN, NEW co \in BOOLEAN
  PROVE  Told(m, SetValid(m, its, en, o, v, co), v)
<1>1. SetValid(m, its, en, o, v, co) =
        IF m.valid = v /\ co THEN m ELSE [m EXCEPT !.valid = v, !.said = <<v>>]
  BY DEF SetValid
<1>2. <<v>> \in Seq(BOOLEAN)
  OBVIOUS
<1>3. QED
  BY <1>1, <1>2 DEF Told, Managers

\* A manager between two calls: with no timer its validity is its target.
Steady(m) == m \in Managers /\ m.said = <<>> /\ (~m.timer => m.valid = m.target)

\* What a check of m with the verdict v and the validation time vt makes of it, n:
\* it says nothing but v, it becomes valid only when no time is asked for, and a
\* timer that counts up is the one of m or has just been reset.
After(m, n, v, vt) ==
  /\ n \in Managers
  /\ n.target = v
  /\ ~n.timer => n.valid = v
  /\ n.said # <<>> => n.valid = v
  /\ n.valid = TRUE /\ m.valid = FALSE => vt = 0
  /\ n.timer = TRUE /\ v = TRUE /\ n.valid = FALSE =>
       \/ n.progress = 0
       \/ /\ m.timer = TRUE /\ m.target = TRUE /\ m.valid = FALSE
          /\ n.progress = m.progress

\* checkAllConditions once the verdict v is known.
LEMMA ApplyCombining ==
  ASSUME NEW m, Steady(m), NEW its, NEW en, NEW o \in {"AND", "OR"},
         NEW vt, NEW it, NEW v \in BOOLEAN, NEW co \in BOOLEAN
  PROVE  After(m, Apply(m, its, en, o, vt, it, v, co), v, vt)
<1> USE DEF Steady, After
<1> DEFINE n == Apply(m, its, en, o, vt, it, v, co)
<1>0. Full \in Nat \ {0}
  BY ConstantsAssumption
<1>1. CASE (v /\ vt = 0) \/ (~v /\ it = 0)
  <2> DEFINE p == SetValid(m, its, en, o, v, co)
             pr == IF v /\ it > 0 THEN Full ELSE IF ~v /\ vt > 0 THEN 0 ELSE p.progress
  <2>1. p \in Managers /\ p.valid = v
    BY SetValidCombining DEF Told
  <2>2. n = [p EXCEPT !.target = v, !.progress = pr]
    BY <1>1 DEF Apply
  <2>3. pr \in 0..Full
    BY <1>0, <2>1 DEF Managers
  <2> HIDE DEF p, pr, n
  <2>4. n \in Managers /\ n.valid = v /\ n.target = v
    BY <2>1, <2>2, <2>3 DEF Managers
  <2>5. QED
    BY <1>1, <2>4 DEF n
<1>2. CASE ~((v /\ vt = 0) \/ (~v /\ it = 0))
  <2>1. CASE v = m.target
    <3>1. n = m
      BY <1>2, <2>1 DEF Apply
    <3> HIDE DEF n
    <3>2. QED
      BY <2>1, <3>1 DEF n, Managers
  <2>2. CASE v # m.target
    <3> DEFINE pr == IF v = m.valid THEN IF v THEN Full ELSE 0
                                    ELSE IF v THEN 0 ELSE Full
               ti == v # m.valid
    <3>1. n = [m EXCEPT !.target = v, !.progress = pr, !.timer = ti]
      BY <1>2, <2>2 DEF Apply
    <3>2. pr \in 0..Full /\ ti \in BOOLEAN
      BY <1>0
    <3>3. v = TRUE /\ m.valid = FALSE => pr = 0
      OBVIOUS
    <3>4. ~ti => m.valid = v
      OBVIOUS
    <3> HIDE DEF pr, ti, n
    <3>5. /\ n \in Managers /\ n.target = v /\ n.valid = m.valid /\ n.said = <<>>
          /\ n.progress = pr /\ n.timer = ti
      BY <3>1, <3>2 DEF Managers
    <3>6. QED
      BY <3>3, <3>4, <3>5 DEF n
  <2>3. QED
    BY <2>1, <2>2
<1>3. QED
  BY <1>1, <1>2

\* checkAllConditions, which ignores the sequential index and the condition that
\* changed.
LEMMA CheckAllCombining ==
  ASSUME NEW m, Steady(m), NEW its, NEW en, NEW cv, NEW o \in {"AND", "OR"},
         NEW vt, NEW it, NEW co \in BOOLEAN, NEW at
  PROVE  After(m, CheckAll(m, its, en, cv, o, vt, it, co, at), Verdict(its, en, cv, o, 0, -1), vt)
<1> DEFINE v == Verdict(its, en, cv, o, m.seq, at)
<1>1. CheckAll(m, its, en, cv, o, vt, it, co, at) = Apply(m, its, en, o, vt, it, v, co)
  BY DEF CheckAll
<1>2. v = Verdict(its, en, cv, o, 0, -1) /\ v \in BOOLEAN
  BY VerdictOfTwo
<1> HIDE DEF v
<1>3. After(m, Apply(m, its, en, o, vt, it, v, co), v, vt)
  BY <1>2, ApplyCombining
<1>4. QED
  BY <1>1, <1>2, <1>3

-----------------------------------------------------------------------------
\* What a step may say and when it may validate.
Announced == mgr'.said # <<>> => (mgr'.valid <=> Satisfied')
Timely == ~mgr.valid /\ mgr'.valid /\ valTime > 0 => held' = Full

\* The manager before a check: nothing dispatched yet, any current step.
Before(m) ==
  /\ m \in Managers /\ m.said = <<>> /\ m.valid = mgr.valid /\ m.target = mgr.target
  /\ m.timer = mgr.timer /\ m.progress = mgr.progress

LEMMA QuietBefore ==
  ASSUME mgr \in Managers
  PROVE  Before(Quiet) /\ Before([Quiet EXCEPT !.seq = 0])
<1>1. <<>> \in Seq(BOOLEAN)
  OBVIOUS
<1>2. QED
  BY <1>1 DEF Before, Quiet, Managers

\* The satisfaction of the operator lasts through a step that leaves it satisfied.
LEMMA StillHeld ==
  ASSUME Observe(FALSE), Satisfied'
  PROVE  held' = held
  BY DEF Observe, Satisfied

\* A step that ends with a full check leaves the manager settled.
LEMMA Checked ==
  ASSUME mgr \in Managers, held \in 0..Full, Settled, NEW m, Before(m), op' \in {"AND", "OR"},
         Observe(FALSE),
         After(m, mgr', Verdict(items', enabled', condValid', op', 0, -1), valTime)
  PROVE  Settled' /\ Announced /\ Timely
<1>0. Full \in Nat \ {0}
  BY ConstantsAssumption
<1> DEFINE v == Verdict(items', enabled', condValid', op', 0, -1)
<1>2. v \in BOOLEAN
  BY VerdictOfTwo
<1>3. Satisfied' <=> v
  BY DEF Satisfied
<1>1. After(m, mgr', v, valTime)
  OBVIOUS
<1> HIDE DEF v
<1>4. /\ mgr' \in Managers
      /\ mgr'.target = v
      /\ ~mgr'.timer => mgr'.valid = v
      /\ mgr'.said # <<>> => mgr'.valid = v
      /\ mgr'.valid = TRUE /\ m.valid = FALSE => valTime = 0
      /\ mgr'.timer = TRUE /\ v = TRUE /\ mgr'.valid = FALSE =>
           \/ mgr'.progress = 0
           \/ /\ m.timer = TRUE /\ m.target = TRUE /\ m.valid = FALSE
              /\ mgr'.progress = m.progress
  BY <1>1 DEF After
<1>5. /\ mgr'.valid \in BOOLEAN /\ mgr'.target \in BOOLEAN /\ mgr'.timer \in BOOLEAN
      /\ mgr.valid \in BOOLEAN
  BY <1>4 DEF Managers
<1>6. ASSUME mgr'.timer, mgr'.target, ~mgr'.valid PROVE mgr'.progress <= held'
  <2>1. held' = held
    BY <1>2, <1>3, <1>4, <1>6, StillHeld
  <2>2. mgr'.timer = TRUE /\ v = TRUE /\ mgr'.valid = FALSE
    BY <1>4, <1>5, <1>6
  <2>3. CASE mgr'.progress = 0
    BY <1>0, <2>1, <2>3
  <2>4. CASE m.timer = TRUE /\ m.target = TRUE /\ m.valid = FALSE /\ mgr'.progress = m.progress
    BY <2>1, <2>4 DEF Before, Settled
  <2>5. QED
    BY <1>4, <2>2, <2>3, <2>4
<1>7. Settled'
  BY <1>2, <1>3, <1>4, <1>5, <1>6 DEF Settled
<1>8. Announced
  BY <1>2, <1>3, <1>4, <1>5 DEF Announced
<1>9. Timely
  <2>1. ASSUME ~mgr.valid, mgr'.valid PROVE valTime = 0
    <3>1. m.valid = FALSE /\ mgr'.valid = TRUE
      BY <1>5, <2>1 DEF Before
    <3>2. QED
      BY <1>4, <3>1
  <2>2. QED
    BY <2>1 DEF Timely
<1>10. QED
  BY <1>7, <1>8, <1>9

\* A step that does not touch the manager leaves it settled if the verdict stays.
LEMMA Untouched ==
  ASSUME mgr \in Managers, held \in 0..Full, Settled, op' = op, Satisfied' <=> Satisfied,
         mgr' = Quiet, held' = held \/ Observe(FALSE)
  PROVE  Settled' /\ Announced /\ Timely
<1>1. /\ mgr'.valid = mgr.valid /\ mgr'.target = mgr.target /\ mgr'.timer = mgr.timer
      /\ mgr'.progress = mgr.progress /\ mgr'.said = <<>>
  BY QuietBefore DEF Before
<1>2. mgr.target => held' = held
  BY StillHeld DEF Settled
<1>3. Settled'
  BY <1>1, <1>2 DEF Settled
<1>4. QED
  BY <1>1, <1>3 DEF Announced, Timely

LEMMA SettledSteady ==
  ASSUME mgr \in Managers, Settled, NEW m, Before(m)
  PROVE  Steady(m)
<1>1. mgr.valid \in BOOLEAN /\ mgr.target \in BOOLEAN
  BY DEF Managers
<1>2. ~mgr.timer => mgr.valid = mgr.target
  BY <1>1 DEF Settled
<1>3. QED
  BY <1>2 DEF Steady, Before

\* A step that ends with checkAllConditions, on whatever list, operator and
\* validities it leaves.
LEMMA FullCheckSettles ==
  ASSUME mgr \in Managers, held \in 0..Full, Settled, NEW m, Before(m), op' \in {"AND", "OR"},
         Observe(FALSE), NEW it, NEW co \in BOOLEAN, NEW at,
         mgr' = CheckAll(m, items', enabled', condValid', op', valTime, it, co, at)
  PROVE  Settled' /\ Announced /\ Timely
<1> DEFINE w == Verdict(items', enabled', condValid', op', 0, -1)
           n == CheckAll(m, items', enabled', condValid', op', valTime, it, co, at)
<1>1. Steady(m)
  BY SettledSteady
<1>2. After(m, n, w, valTime)
  BY <1>1, CheckAllCombining
<1> HIDE DEF n
<1>3. After(m, mgr', w, valTime)
  BY <1>2 DEF n
<1>4. QED
  BY <1>3, Checked

\* A condition set valid or not, whatever it was called with.
LEMMA SetConditionSettles ==
  ASSUME Wellformed, Settled, NEW c \in Conditions, NEW v \in BOOLEAN,
         NEW rw \in [Conditions -> BOOLEAN], SetCondition(c, v, enabled, rw), Observe(FALSE),
         items' = items, enabled' = enabled, op' = op
  PROVE  Settled' /\ Announced /\ Timely
<1> DEFINE out == Outcome(c, v, rw)
           others == IF out.told THEN SameSource(c) ELSE {}
           again == [o \in others |-> Outcome(o, Truth(o), rw)]
           cv == [d \in Conditions |-> IF d = c THEN out.valid
                                      ELSE IF d \in others THEN again[d].valid ELSE condValid[d]]
           co == out.changeOnly
           at == IndexOf(items, c)
<1>0. TypeOK /\ mgr \in Managers /\ held \in 0..Full /\ op \in {"AND", "OR"}
  BY DEF Wellformed, TypeOK, Settled
<1>1. /\ condValid' = cv
      /\ mgr' = IF out.told
                THEN CheckAll(Quiet, items, enabled, cv, op, valTime, invTime, co, at)
                ELSE Quiet
  BY DEF SetCondition
<1>2. co \in BOOLEAN
  BY <1>0, OutcomeResult
<1>3. ~out.told => out.valid = condValid[c]
  <2>1. CASE Kind[c] = "toggle"
    BY <2>1 DEF Outcome
  <2>2. CASE Kind[c] = "always"
    BY <2>2 DEF Outcome
  <2>3. CASE Kind[c] # "toggle" /\ Kind[c] # "always"
    BY <2>3 DEF Outcome
  <2>4. QED
    BY <2>1, <2>2, <2>3
<1>4. CASE out.told
  <2> HIDE DEF cv, co, at
  <2>1. mgr' = CheckAll(Quiet, items', enabled', condValid', op', valTime, invTime, co, at)
    BY <1>1, <1>4
  <2>2. Before(Quiet)
    BY <1>0, QuietBefore
  <2>3. QED
    BY <1>0, <1>2, <2>1, <2>2, FullCheckSettles
<1>5. CASE ~out.told
  <2>1. condValid \in [Conditions -> BOOLEAN]
    BY <1>0 DEF TypeOK
  <2> HIDE DEF out
  <2>2. condValid' = condValid
    BY <1>1, <1>3, <1>5, <2>1
  <2>3. mgr' = Quiet /\ (Satisfied' <=> Satisfied)
    BY <1>1, <1>5, <2>2 DEF Satisfied
  <2>4. QED
    BY <1>0, <2>3, Untouched
<1>6. QED
  BY <1>4, <1>5

\* The timer: the manager is validated when the progress is at its end, after as
\* many ticks with the operator satisfied.
LEMMA TimerSettles ==
  ASSUME Wellformed, Settled, TimerCallback
  PROVE  Settled' /\ Announced /\ Timely
<1> DEFINE p == SetValid(Quiet, items, enabled, op, mgr.target, TRUE)
           ends == [p EXCEPT !.timer = FALSE]
<1>0. /\ mgr \in Managers /\ held \in 0..Full /\ op \in {"AND", "OR"}
      /\ Full \in Nat \ {0} /\ valTime \in {0, 1}
  BY ConstantsAssumption DEF Wellformed, TypeOK, Settled
<1>1. /\ mgr.target \in BOOLEAN /\ mgr.valid \in BOOLEAN /\ mgr.timer \in BOOLEAN
      /\ mgr.progress \in 0..Full
  BY <1>0 DEF Managers
<1>2. Before(Quiet)
  BY <1>0, QuietBefore
<1>3. /\ p \in Managers /\ p.valid = mgr.target /\ p.target = mgr.target
      /\ p.timer = mgr.timer /\ p.progress = mgr.progress
  <2> DEFINE t == mgr.target
  <2>1. t \in BOOLEAN
    BY <1>1
  <2> HIDE DEF t
  <2>2. Quiet \in Managers /\ TRUE \in BOOLEAN
    BY <1>2 DEF Before
  <2>3. Told(Quiet, SetValid(Quiet, items, enabled, op, t, TRUE), t)
    BY <1>0, <2>1, <2>2, SetValidCombining
  <2>4. Told(Quiet, p, mgr.target)
    BY <2>3 DEF t
  <2> HIDE DEF p
  <2>5. QED
    BY <1>2, <2>4 DEF Before, Told
<1> HIDE DEF p
<1>4. op' = op /\ (Satisfied' <=> Satisfied) /\ Observe(TRUE) /\ mgr.timer = TRUE
  BY <1>1 DEF TimerCallback, Satisfied, config
<1>5. mgr' = IF valTime = 0 /\ invTime = 0 THEN ends
             ELSE IF Stepped = (IF mgr.target THEN Full ELSE 0)
             THEN [ends EXCEPT !.progress = Stepped]
             ELSE [Quiet EXCEPT !.progress = Stepped]
  BY DEF TimerCallback, p
<1>6. Satisfied <=> mgr.target
  BY DEF Settled
<1>7. mgr.target = TRUE => held' = IF held < Full THEN held + 1 ELSE held
  BY <1>4, <1>6 DEF Observe, Satisfied
<1>8. mgr.target = TRUE /\ mgr.valid = FALSE => mgr.progress <= held
  BY <1>4 DEF Settled
\* The timer ends.
<1>9. CASE mgr' = ends \/ mgr' = [ends EXCEPT !.progress = Stepped]
  <2>1. mgr'.valid = mgr.target /\ mgr'.target = mgr.target /\ mgr'.timer = FALSE
    BY <1>3, <1>9 DEF Managers
  <2>2. Settled' /\ Announced
    BY <1>0, <1>4, <1>6, <2>1 DEF Settled, Announced
  <2>3. Timely
    <3>1. SUFFICES ASSUME ~mgr.valid, mgr'.valid, valTime > 0
                   PROVE  held' = Full
      BY DEF Timely
    <3>2. mgr.target = TRUE /\ mgr.valid = FALSE /\ valTime = 1
      BY <1>0, <1>1, <2>1, <3>1
    <3>3. Stepped = IF mgr.progress = Full THEN Full ELSE mgr.progress + 1
      BY <3>2 DEF Stepped
    <3>4. Stepped = Full
      <4>1. mgr' # [Quiet EXCEPT !.progress = Stepped]
        <5>1. [Quiet EXCEPT !.progress = Stepped].timer = TRUE
          BY <1>2, <1>4 DEF Before, Managers
        <5>2. QED
          BY <2>1, <5>1
      <4>2. QED
        BY <1>5, <3>2, <4>1
    <3>5. held >= Full - 1
      BY <1>0, <1>1, <1>8, <3>2, <3>3, <3>4
    <3>6. QED
      BY <1>0, <1>7, <3>2, <3>5
  <2>4. QED
    BY <2>2, <2>3
\* The timer goes on.
<1>10. CASE mgr' # ends /\ mgr' = [Quiet EXCEPT !.progress = Stepped]
             /\ Stepped # (IF mgr.target THEN Full ELSE 0)
  <2>1. /\ mgr'.valid = mgr.valid /\ mgr'.target = mgr.target /\ mgr'.timer = TRUE
        /\ mgr'.said = <<>> /\ mgr'.progress = Stepped
    BY <1>2, <1>4, <1>10 DEF Before, Managers
  <2>2. mgr.target = TRUE /\ mgr.valid = FALSE => Stepped <= held'
    <3>1. SUFFICES ASSUME mgr.target = TRUE, mgr.valid = FALSE PROVE Stepped <= held'
      OBVIOUS
    <3>2. Stepped = mgr.progress + 1 /\ mgr.progress # Full
      BY <1>10, <3>1 DEF Stepped
    <3>3. QED
      BY <1>0, <1>1, <1>7, <1>8, <3>1, <3>2
  <2>3. Settled'
    BY <1>0, <1>1, <1>4, <1>6, <2>1, <2>2 DEF Settled
  <2>4. QED
    BY <1>1, <2>1, <2>3 DEF Announced, Timely
<1>11. QED
  BY <1>5, <1>9, <1>10

-----------------------------------------------------------------------------
\* The manager a project is loaded with.
LEMMA InitSettled ==
  ASSUME Combining, Init
  PROVE  Settled
<1> DEFINE w == Verdict(items, enabled, condValid, op, 0, -1)
           n == CheckAll(Fresh, items, enabled, condValid, op, valTime, invTime, TRUE, -1)
<1>1. op \in {"AND", "OR"} /\ held = 0 /\ Full \in Nat \ {0}
  BY ConstantsAssumption DEF Init, Combining
<1>2. Steady(Fresh) /\ Fresh.timer = FALSE
  <2>1. <<>> \in Seq(BOOLEAN)
    OBVIOUS
  <2>2. QED
    BY <1>1, <2>1 DEF Fresh, Steady, Managers
<1>3. w \in BOOLEAN
  BY <1>1, VerdictOfTwo
<1>4. TRUE \in BOOLEAN
  OBVIOUS
<1>5. After(Fresh, n, w, valTime)
  BY <1>1, <1>2, <1>4, CheckAllCombining
<1> HIDE DEF n
<1>6. mgr = [n EXCEPT !.said = <<>>]
  BY DEF Init, Recheck, n
<1> HIDE DEF w
<1>7. n \in Managers /\ n.target = w /\ (~n.timer => n.valid = w)
      /\ (n.timer = TRUE /\ w = TRUE /\ n.valid = FALSE => n.progress = 0)
  BY <1>2, <1>5 DEF After
<1>8. mgr.target = w /\ mgr.valid = n.valid /\ mgr.timer = n.timer /\ mgr.progress = n.progress
      /\ mgr.timer \in BOOLEAN /\ mgr.valid \in BOOLEAN
  BY <1>6, <1>7 DEF Managers
<1>9. Satisfied = w
  BY DEF Satisfied, w
<1>10. QED
  BY <1>1, <1>3, <1>7, <1>8, <1>9 DEF Settled

\* One case per operation; three of them are among the edits nobody makes.
LEMMA NextSettled ==
  ASSUME Combining, Wellformed, Settled, Next
  PROVE  Settled' /\ Announced /\ Timely
<1> DEFINE Goal == Settled' /\ Announced /\ Timely
<1>a. /\ mgr \in Managers /\ held \in 0..Full /\ op \in {"AND", "OR"} /\ TypeOK
      /\ raw \in [Conditions -> BOOLEAN]
  BY DEF Wellformed, TypeOK, Settled
<1>b. Before(Quiet) /\ Before([Quiet EXCEPT !.seq = 0])
  BY <1>a, QuietBefore
<1>c. TRUE \in BOOLEAN
  OBVIOUS
<1>d. ASSUME mgr' = Quiet, held' = held, items' = items, enabled' = enabled,
             condValid' = condValid, op' = op
      PROVE  Goal
  <2>1. Satisfied' <=> Satisfied
    BY <1>d DEF Satisfied
  <2>2. QED
    BY <1>a, <1>d, <2>1, Untouched
<1>1. ASSUME NEW s \in Sources, NEW x \in Values, ChangeSource(s, x) \/ PostSource(s, x)
      PROVE  Goal
  BY <1>1, <1>d DEF ChangeSource, PostSource, config
<1>2. CASE HandlePosted
  BY <1>2, <1>d DEF HandlePosted, config
<1>3. ASSUME NEW c \in Conditions, Deliver(c) PROVE Goal
  <2> DEFINE t == Truth(c)
  <2>1. t \in BOOLEAN
    BY DEF Truth
  <2>2. /\ SetCondition(c, t, enabled, raw) /\ Observe(FALSE)
        /\ items' = items /\ enabled' = enabled /\ op' = op
    BY <1>3 DEF Deliver, config
  <2> HIDE DEF t
  <2>3. QED
    BY <1>a, <2>1, <2>2, SetConditionSettles
<1>4. CASE CheckDeferred
  <2> DEFINE c == CHOOSE d \in deferred : \A e \in deferred : IndexOf(items, d) <= IndexOf(items, e)
             at == IndexOf(items, c)
  <2>1. /\ mgr' = CheckAll(Quiet, items', enabled', condValid', op', valTime, invTime, TRUE, at)
        /\ op' = op /\ Observe(FALSE)
    BY <1>4 DEF CheckDeferred, config
  <2> HIDE DEF at, c
  <2>2. QED
    BY <1>a, <1>b, <1>c, <2>1, FullCheckSettles
<1>5. ASSUME NEW c \in Conditions, SetManual(c) PROVE Goal
  <2> DEFINE v == ~raw[c]
             rw == [raw EXCEPT ![c] = ~@]
  <2>1. v \in BOOLEAN /\ rw \in [Conditions -> BOOLEAN]
    BY <1>a
  <2>2. /\ SetCondition(c, v, enabled, rw) /\ Observe(FALSE)
        /\ items' = items /\ enabled' = enabled /\ op' = op
    BY <1>5 DEF SetManual, config
  <2> HIDE DEF v, rw
  <2>3. QED
    BY <1>a, <2>1, <2>2, SetConditionSettles
<1>6. ASSUME NEW i \in 1..Len(items), RemoveCondition(i) PROVE Goal
  <2> DEFINE m == [Quiet EXCEPT !.seq = 0]
  <2>1. /\ mgr' = CheckAll(m, items', enabled', condValid', op', valTime, invTime, TRUE, -1)
        /\ op' = op /\ Observe(FALSE)
    BY <1>6 DEF RemoveCondition, Recheck, config
  <2> HIDE DEF m
  <2>2. Before(m)
    BY <1>b DEF m
  <2>3. QED
    BY <1>a, <1>c, <2>1, <2>2, FullCheckSettles
<1>7. ASSUME NEW o \in Operators, SetOperator(o) PROVE Goal
  <2> DEFINE m == [Quiet EXCEPT !.seq = 0]
  <2>1. /\ mgr' = CheckAll(m, items', enabled', condValid', op', valTime, invTime, TRUE, -1)
        /\ op' \in {"AND", "OR"} /\ Observe(FALSE)
    BY <1>7 DEF SetOperator, Combining
  <2> HIDE DEF m
  <2>2. Before(m)
    BY <1>b DEF m
  <2>3. QED
    BY <1>a, <1>c, <2>1, <2>2, FullCheckSettles
<1>8. ASSUME NEW vt \in Delays, NEW it \in Delays, SetDelays(vt, it) PROVE Goal
  BY <1>8, <1>d DEF SetDelays
<1>9. CASE TimerCallback
  BY <1>9, TimerSettles
<1>10. /\ ~SetForceDisabled /\ \A c \in Conditions : ~SetEnabled(c)
       /\ \A c \in Conditions, i \in 1..(Len(items) + 1) : ~RestoreCondition(c, i)
  BY DEF SetForceDisabled, SetEnabled, RestoreCondition, Combining
<1>11. QED
  BY <1>1, <1>2, <1>3, <1>4, <1>5, <1>6, <1>7, <1>8, <1>9, <1>10
     DEF Next, Listener, Environment

\* With a validation time, the manager becomes valid only when its conditions
\* have been satisfied without a break for the whole of it: a verdict that comes
\* back before the end starts the count again (checkAllConditions, timerCallback).
THEOREM DebouncedHolds == Combining => (Spec => Debounced)
<1> SUFFICES ASSUME Combining PROVE Spec => Debounced
  OBVIOUS
<1>1. Init => Wellformed /\ Settled
  BY InitWellformed, InitSettled
<1>2. Wellformed /\ Settled /\ [Next]_vars => (Wellformed /\ Settled)'
  <2>1. Wellformed /\ Settled /\ Next => Settled'
    BY NextSettled
  <2>2. Settled /\ UNCHANGED vars => Settled'
    BY DEF Settled, Satisfied, vars
  <2>3. QED
    BY <2>1, <2>2, NextWellformed
<1>3. Wellformed /\ Settled /\ [Next]_vars =>
        [~mgr.valid /\ mgr'.valid /\ valTime > 0 /\ op' # "SEQUENTIAL" => held' = Full]_vars
  <2>1. Wellformed /\ Settled /\ Next => Timely
    BY NextSettled
  <2>2. QED
    BY <2>1 DEF Timely
<1>4. QED
  BY <1>1, <1>2, <1>3, PTL DEF Spec, Debounced

-----------------------------------------------------------------------------
\* Every condition hears of its source: what a manager that combines conditions
\* says is what the current values of the sources say, whatever the order of the
\* listeners and the re-checks of conditions that share a source.

\* No condition is in Toggle Mode: the validity of one that is depends on how
\* often it was called.
NoToggle == \A c \in Conditions : Kind[c] # "toggle"

\* A change of the source of c by another thread is still to be notified.
Late(c) == Standard(c) /\ Source[c] \in ToSet(queue)

\* The validity of c is the one the present values give.
Caught(c) == condValid[c] = TrueValue(c)
Synced == \A c \in ToSet(items) : Late(c) \/ Caught(c)

\* Only a condition that is late, or still to be called, is out of date; none is
\* but the late ones once a change has been told to the manager.
Heard ==
  /\ \A c \in ToSet(items) : c \in pending \/ Late(c) \/ Caught(c)
  /\ deferred # {} => Synced
  /\ \A c \in pending : c \in ToSet(items) /\ Standard(c)
  /\ \A c \in pending, d \in pending : Source[c] = Source[d]

\* What a step says, it says of conditions that are up to date.
SaysSynced == mgr'.said # <<>> => Synced'

LEMMA ItemsAreConditions ==
  ASSUME TypeOK
  PROVE  \A c \in ToSet(items) : c \in Conditions
  BY DEF TypeOK, ToSet

LEMMA TruthTyped ==
  ASSUME TypeOK, NEW c \in Conditions
  PROVE  Truth(c) \in BOOLEAN /\ TrueValue(c) \in BOOLEAN
<1>1. Truth(c) \in BOOLEAN
  BY DEF Truth
<1>2. raw[c] \in BOOLEAN
  BY DEF TypeOK
<1>3. QED
  BY <1>1, <1>2 DEF TrueValue

\* Between two handlers only late conditions are out of date.
LEMMA FreeSynced ==
  ASSUME Heard, Free
  PROVE  Synced
  BY DEF Heard, Free, Synced

\* Nothing is out of date when no other thread's change waits.
LEMMA SyncedVerdict ==
  ASSUME TypeOK, Synced, queue = <<>>, op \in {"AND", "OR"}
  PROVE  Satisfied = TrueVerdict
<1> DEFINE dv == [c \in Conditions |-> TrueValue(c)]
<1>1. \A i \in 1..Len(items) : items[i] \in ToSet(items) /\ items[i] \in Conditions
  BY DEF TypeOK, ToSet
<1>2. \A c \in ToSet(items) : ~Late(c)
  BY DEF Late, ToSet
<1>3. \A i \in 1..Len(items) : condValid[items[i]] = dv[items[i]]
  BY <1>1, <1>2 DEF Synced, Caught
<1>4. TrueVerdict = Verdict(items, enabled, dv, op, 0, -1)
  BY DEF TrueVerdict
<1> HIDE DEF dv
<1>5. AgreeOn(items, condValid, dv)
  BY <1>3 DEF AgreeOn
<1>6. Verdict(items, enabled, condValid, op, 0, -1) = Verdict(items, enabled, dv, op, 0, -1)
  BY <1>5, VerdictOfList
<1>7. QED
  BY <1>4, <1>6, Zenon DEF Satisfied

\* The same of the next state.
UpToDate == TypeOK /\ Synced /\ queue = <<>> /\ op \in {"AND", "OR"}

LEMMA SyncedVerdictNext == UpToDate' => Satisfied' = TrueVerdict'
<1>1. UpToDate => (Satisfied = TrueVerdict)
  BY SyncedVerdict DEF UpToDate
<1>2. (UpToDate => (Satisfied = TrueVerdict))'
  BY <1>1, PTL
<1>3. QED
  BY <1>2

\* What setValid makes of a condition that is not in Toggle Mode.
LEMMA PlainOutcome ==
  ASSUME NEW c \in Conditions, Kind[c] # "toggle", NEW v, NEW rw
  PROVE  /\ Outcome(c, v, rw).valid = v
         /\ Outcome(c, v, rw).raw = rw[c]
         /\ ~Outcome(c, v, rw).told => condValid[c] = v
<1>1. CASE Kind[c] = "always"
  BY <1>1 DEF Outcome
<1>2. CASE Kind[c] # "always"
  BY <1>2 DEF Outcome
<1>3. QED
  BY <1>1, <1>2

\* A condition set valid or not: it is, nothing but the conditions on its source
\* changes, and these are checked if the manager is told.
LEMMA SetConditionHeard ==
  ASSUME TypeOK, NoToggle, NEW c \in Conditions, NEW v \in BOOLEAN,
         NEW rw \in [Conditions -> BOOLEAN], NEW en, SetCondition(c, v, en, rw)
  PROVE  /\ raw' = rw
         /\ condValid'[c] = v
         /\ \A d \in Conditions \ {c} :
              condValid'[d] = condValid[d] \/ (d \in SameSource(c) /\ condValid'[d] = Truth(d))
         /\ mgr'.said # <<>> \/ deferred' # {} =>
              \A d \in SameSource(c) : condValid'[d] = Truth(d)
         /\ deferred' \subseteq SameSource(c)
<1> DEFINE out == Outcome(c, v, rw)
           others == IF out.told THEN SameSource(c) ELSE {}
           again == [o \in others |-> Outcome(o, Truth(o), rw)]
           cv == [d \in Conditions |-> IF d = c THEN out.valid
                                      ELSE IF d \in others THEN again[d].valid ELSE condValid[d]]
           rv == [d \in Conditions |-> IF d = c THEN out.raw
                                      ELSE IF d \in others THEN again[d].raw ELSE rw[d]]
<1>1. SameSource(c) \subseteq Conditions \ {c}
  BY ItemsAreConditions DEF SameSource
<1>2. /\ condValid' = cv /\ raw' = rv /\ deferred' \subseteq others
      /\ ~out.told => mgr' = Quiet
  BY DEF SetCondition
<1>3. out.valid = v /\ out.raw = rw[c]
  BY PlainOutcome DEF NoToggle
<1>4. \A d \in others : again[d].valid = Truth(d) /\ again[d].raw = rw[d]
  <2> TAKE d \in others
  <2>1. d \in Conditions /\ Kind[d] # "toggle" /\ again[d] = Outcome(d, Truth(d), rw)
    BY <1>1 DEF NoToggle
  <2> HIDE DEF again
  <2>2. QED
    BY <2>1, PlainOutcome
<1>5. ~out.told => mgr'.said = <<>>
  BY <1>2 DEF Quiet, TypeOK, Managers
<1> HIDE DEF out, again
<1>6. raw' = rw
  BY <1>1, <1>2, <1>3, <1>4
<1>7. /\ condValid'[c] = v
      /\ \A d \in Conditions \ {c} :
           condValid'[d] = IF d \in others THEN Truth(d) ELSE condValid[d]
  BY <1>1, <1>2, <1>3, <1>4
<1>8. mgr'.said # <<>> \/ deferred' # {} => others = SameSource(c)
  BY <1>2, <1>5
<1>9. QED
  BY <1>1, <1>2, <1>6, <1>7, <1>8

-----------------------------------------------------------------------------
\* A step between two handlers that changes neither sources nor validities.
LEMMA NothingNew ==
  ASSUME Heard, Free, ToSet(items') \subseteq ToSet(items),
         src' = src, raw' = raw, queue' = queue, condValid' = condValid,
         pending' = pending, deferred' = deferred
  PROVE  Heard' /\ SaysSynced
<1>1. Synced
  BY FreeSynced
<1>2. \A c : (Late(c)' <=> Late(c)) /\ (Caught(c)' <=> Caught(c))
  BY DEF Late, Caught, TrueValue, Truth
<1>3. Synced'
  BY <1>1, <1>2 DEF Synced
<1>4. pending' = {} /\ deferred' = {}
  BY DEF Free, Idle
<1>5. QED
  BY <1>3, <1>4 DEF Heard, SaysSynced, Synced

\* What removeItem leaves was there.
LEMMA RemoveAtKeeps ==
  ASSUME NEW its \in Seq(Conditions), NEW i \in 1..Len(its)
  PROVE  ToSet(RemoveAt(its, i)) \subseteq ToSet(its)
<1> DEFINE S == ToSet(its)
           a == SubSeq(its, 1, i - 1)
           b == SubSeq(its, i + 1, Len(its))
<1>1. \A j \in 1..Len(its) : its[j] \in S
  BY DEF ToSet
<1>2. Len(its) \in Nat /\ i \in Int
  OBVIOUS
<1> HIDE DEF S
<1>3. a \in Seq(S)
  <2>1. \A j \in 1..(i - 1) : its[j] \in S
    BY <1>1, <1>2
  <2>2. QED
    BY <1>2, <2>1, SubSeqProperties
<1>4. b \in Seq(S)
  <2>1. \A j \in (i + 1)..Len(its) : its[j] \in S
    BY <1>1, <1>2
  <2>2. QED
    BY <1>2, <2>1, SubSeqProperties
<1> HIDE DEF a, b
<1>5. a \o b \in Seq(S)
  BY <1>3, <1>4, ConcatProperties
<1>6. RemoveAt(its, i) \in Seq(S)
  BY <1>5 DEF RemoveAt, a, b
<1>7. QED
  BY <1>6 DEF ToSet, S

\* A source changes, now or as a posted change: who listens to it is to be called.
LEMMA ChangeHeard ==
  ASSUME TypeOK, Heard, Free, NEW s \in Sources, pending' = Listening(s),
         \A r \in Sources \ {s} : src'[r] = src[r], items' = items, raw' = raw,
         condValid' = condValid, deferred' = deferred, mgr' = Quiet,
         ToSet(queue) \subseteq ToSet(queue') \cup {s}
  PROVE  Heard' /\ SaysSynced
<1>1. Synced
  BY FreeSynced
<1>2. ASSUME NEW c \in ToSet(items') PROVE c \in pending' \/ Late(c)' \/ Caught(c)'
  <2>1. c \in ToSet(items) /\ Source[c] \in Sources
    BY <1>2, ItemsAreConditions, ConstantsAssumption
  <2>2. CASE Standard(c) /\ Source[c] = s
    BY <2>1, <2>2 DEF Listening
  <2>3. CASE Standard(c) /\ Source[c] # s
    <3>1. Truth(c)' = Truth(c)
      BY <2>1, <2>3 DEF Truth
    <3>2. Caught(c) => Caught(c)'
      BY <3>1 DEF Caught, TrueValue
    <3>3. Late(c) => Late(c)'
      BY <2>3 DEF Late
    <3>4. QED
      BY <1>1, <2>1, <3>2, <3>3 DEF Synced
  <2>4. CASE ~Standard(c)
    BY <1>1, <2>1, <2>4 DEF Synced, Late, Caught, TrueValue
  <2>5. QED
    BY <2>2, <2>3, <2>4
<1>3. deferred' = {}
  BY DEF Free, Idle
<1>4. mgr'.said = <<>>
  BY DEF Quiet, TypeOK, Managers
<1>5. QED
  BY <1>2, <1>3, <1>4 DEF Heard, SaysSynced, Listening

\* One case per operation.
LEMMA NextHeard ==
  ASSUME Combining, NoToggle, TypeOK, Heard, Next
  PROVE  Heard' /\ SaysSynced
<1> DEFINE Goal == Heard' /\ SaysSynced
<1>a. /\ items \in Seq(Conditions) /\ queue \in Seq(Sources)
      /\ enabled \in [Conditions -> BOOLEAN] /\ condValid \in [Conditions -> BOOLEAN]
      /\ raw \in [Conditions -> BOOLEAN] /\ src \in [Sources -> Values]
  BY DEF TypeOK
<1>b. mgr' = Quiet => mgr'.said = <<>>
  BY DEF Quiet, TypeOK, Managers
<1>1. ASSUME NEW s \in Sources, NEW x \in Values, ChangeSource(s, x) PROVE Goal
  <2>1. /\ Free /\ pending' = Listening(s) /\ items' = items /\ raw' = raw
        /\ condValid' = condValid /\ deferred' = deferred /\ mgr' = Quiet /\ queue' = queue
        /\ \A r \in Sources \ {s} : src'[r] = src[r]
    BY <1>1, <1>a DEF ChangeSource
  <2>2. QED
    BY <2>1, ChangeHeard
<1>2. CASE HandlePosted
  <2> DEFINE s == Head(queue)
  <2>1. s \in Sources /\ ToSet(queue) \subseteq ToSet(queue') \cup {s}
    <3>1. queue # <<>> /\ queue' = Tail(queue)
      BY <1>2 DEF HandlePosted
    <3>2. s \in Sources
      BY <1>a, <3>1
    <3>3. \A i \in 1..Len(queue) : i = 1 \/ (queue[i] = queue'[i - 1] /\ i - 1 \in DOMAIN queue')
      BY <1>a, <3>1
    <3>4. \A q \in ToSet(queue) : q \in ToSet(queue') \cup {s}
      BY <1>a, <3>3 DEF ToSet
    <3>5. QED
      BY <3>2, <3>4
  <2>2. /\ Free /\ pending' = Listening(s) /\ items' = items /\ raw' = raw /\ src' = src
        /\ condValid' = condValid /\ deferred' = deferred /\ mgr' = Quiet
    BY <1>2 DEF HandlePosted
  <2> HIDE DEF s
  <2>3. QED
    BY <2>1, <2>2, ChangeHeard
\* What listens to a source another thread has just set is late.
<1>3. ASSUME NEW s \in Sources, NEW x \in Values, PostSource(s, x) PROVE Goal
  <2>1. /\ queue' = Append(queue, s) /\ src' = [src EXCEPT ![s] = x] /\ mgr' = Quiet
        /\ pending' = pending /\ items' = items /\ raw' = raw /\ condValid' = condValid
        /\ deferred' = deferred
    BY <1>3 DEF PostSource
  <2>2. ToSet(queue') = ToSet(queue) \cup {s}
    <3>1. /\ Len(queue') = Len(queue) + 1 /\ Len(queue) \in Nat
          /\ \A i \in 1..Len(queue) : queue'[i] = queue[i]
          /\ queue'[Len(queue) + 1] = s
      BY <1>a, <2>1, AppendProperties
    <3>2. queue' \in Seq(Sources)
      BY <1>a, <2>1
    <3>3. DOMAIN queue' = 1..Len(queue') /\ DOMAIN queue = 1..Len(queue)
      BY <1>a, <3>2
    <3>4. DOMAIN queue' = DOMAIN queue \cup {Len(queue) + 1}
      BY <3>1, <3>3
    <3> DEFINE q == queue'
               last == Len(queue) + 1
    <3>5. /\ DOMAIN q = DOMAIN queue \cup {last} /\ q[last] = s
          /\ \A i \in DOMAIN queue : q[i] = queue[i]
      BY <3>1, <3>3, <3>4
    <3> HIDE DEF q, last
    <3>6. ToSet(q) = ToSet(queue) \cup {s}
      BY <3>5 DEF ToSet
    <3>7. QED
      BY <3>6 DEF q
  <2>3. \A c \in ToSet(items) : Late(c) => Late(c)'
    BY <2>2 DEF Late
  <2>4. \A c \in ToSet(items) : Caught(c) => Late(c)' \/ Caught(c)'
    <3> TAKE c \in ToSet(items)
    <3>1. Source[c] \in Sources
      BY ItemsAreConditions, ConstantsAssumption
    <3>2. CASE Standard(c) /\ Source[c] = s
      BY <2>2, <3>2 DEF Late
    <3>3. CASE ~Standard(c) \/ Source[c] # s
      <4>1. Standard(c) => Truth(c)' = Truth(c)
        BY <1>a, <2>1, <3>1, <3>3 DEF Truth
      <4>2. QED
        BY <2>1, <4>1 DEF Caught, TrueValue
    <3>4. QED
      BY <3>2, <3>3
  <2>5. QED
    BY <1>b, <2>1, <2>3, <2>4 DEF Heard, Synced, SaysSynced
<1>4. ASSUME NEW c \in Conditions, Deliver(c) PROVE Goal
  <2> DEFINE t == Truth(c)
  <2>1. t \in BOOLEAN
    BY TruthTyped
  <2>2. /\ SetCondition(c, t, enabled, raw) /\ c \in pending /\ pending' = pending \ {c}
        /\ src' = src /\ queue' = queue /\ items' = items
    BY <1>4 DEF Deliver
  <2> HIDE DEF t
  <2>3. /\ raw' = raw /\ condValid'[c] = t
        /\ \A d \in Conditions \ {c} :
             condValid'[d] = condValid[d] \/ (d \in SameSource(c) /\ condValid'[d] = Truth(d))
        /\ mgr'.said # <<>> \/ deferred' # {} =>
             \A d \in SameSource(c) : condValid'[d] = Truth(d)
    BY <1>a, <2>1, <2>2, SetConditionHeard
  <2>4. \A d : (Late(d)' <=> Late(d)) /\ TrueValue(d)' = TrueValue(d)
    BY <2>2, <2>3 DEF Late, TrueValue, Truth
  <2>5. Caught(c)'
    <3>1. Standard(c)
      BY <2>2 DEF Heard
    <3>2. QED
      BY <2>3, <2>4, <3>1 DEF Caught, TrueValue, t
  <2>6. ASSUME NEW d \in ToSet(items), d # c, Late(d) \/ Caught(d)
        PROVE  Late(d)' \/ Caught(d)'
    <3>1. d \in SameSource(c) => TrueValue(d) = Truth(d)
      BY DEF SameSource, TrueValue
    <3>2. d \in Conditions
      BY ItemsAreConditions
    <3>3. QED
      BY <2>3, <2>4, <2>6, <3>1, <3>2 DEF Caught
  <2>7. mgr'.said # <<>> \/ deferred' # {} => Synced'
    <3>1. SUFFICES ASSUME mgr'.said # <<>> \/ deferred' # {}, NEW d \in ToSet(items)
                   PROVE  Late(d)' \/ Caught(d)'
      BY <2>2 DEF Synced
    <3>2. CASE d = c
      BY <2>5, <3>2
    <3>3. CASE d # c /\ d \in pending
      <4>1. d \in SameSource(c)
        BY <2>2, <3>3 DEF Heard, SameSource
      <4>2. Caught(d)'
        BY <2>3, <2>4, <3>1, <4>1 DEF Caught, SameSource, TrueValue
      <4>3. QED
        BY <4>2
    <3>4. CASE d # c /\ d \notin pending
      BY <2>6, <3>4 DEF Heard
    <3>5. QED
      BY <3>2, <3>3, <3>4
  <2>8. QED
    BY <2>2, <2>5, <2>6, <2>7 DEF Heard, SaysSynced
<1>5. CASE CheckDeferred
  <2>1. /\ deferred # {} /\ src' = src /\ queue' = queue /\ pending' = pending
        /\ items' = items /\ condValid' = condValid /\ raw' = raw
    BY <1>5 DEF CheckDeferred, Idle
  <2>2. \A c : (Late(c)' <=> Late(c)) /\ (Caught(c)' <=> Caught(c))
    BY <2>1 DEF Late, Caught, TrueValue, Truth
  <2>3. Synced'
    BY <2>1, <2>2 DEF Heard, Synced
  <2>4. QED
    BY <2>1, <2>3 DEF Heard, Synced, SaysSynced
<1>6. ASSUME NEW c \in Conditions, SetManual(c) PROVE Goal
  <2> DEFINE v == ~raw[c]
             rw == [raw EXCEPT ![c] = ~@]
  <2>1. v \in BOOLEAN /\ rw \in [Conditions -> BOOLEAN] /\ rw[c] = v
        /\ \A d \in Conditions \ {c} : rw[d] = raw[d]
    BY <1>a
  <2>2. /\ SetCondition(c, v, enabled, rw) /\ Free /\ ~Standard(c)
        /\ src' = src /\ queue' = queue /\ items' = items /\ pending' = pending
    BY <1>6 DEF SetManual
  <2> HIDE DEF v, rw
  <2>3. /\ raw' = rw /\ condValid'[c] = v /\ deferred' \subseteq SameSource(c)
        /\ \A d \in Conditions \ {c} : condValid'[d] = condValid[d] \/ d \in SameSource(c)
    BY <1>a, <2>1, <2>2, SetConditionHeard
  <2>4. SameSource(c) = {}
    BY <2>2 DEF SameSource
  <2>5. \A d \in ToSet(items) : d # c /\ Caught(d) => Caught(d)'
    BY <2>1, <2>2, <2>3, <2>4, ItemsAreConditions DEF Caught, TrueValue, Truth
  <2>6. Caught(c)'
    BY <2>1, <2>2, <2>3 DEF Caught, TrueValue
  <2>7. \A d : Late(d)' <=> Late(d)
    BY <2>2 DEF Late
  <2>8. Synced'
    BY <2>2, <2>5, <2>6, <2>7, FreeSynced DEF Synced
  <2>9. pending' = {} /\ deferred' = {}
    BY <2>2, <2>3, <2>4 DEF Free
  <2>10. QED
    BY <2>8, <2>9 DEF Heard, Synced, SaysSynced
<1>7. ASSUME NEW i \in 1..Len(items), RemoveCondition(i) PROVE Goal
  <2>1. /\ Free /\ src' = src /\ raw' = raw /\ queue' = queue /\ condValid' = condValid
        /\ pending' = pending /\ deferred' = deferred /\ items' = RemoveAt(items, i)
    BY <1>7 DEF RemoveCondition
  <2>2. ToSet(items') \subseteq ToSet(items)
    BY <1>a, <2>1, RemoveAtKeeps
  <2>3. QED
    BY <2>1, <2>2, NothingNew
<1>8. ASSUME NEW o \in Operators, SetOperator(o) PROVE Goal
  BY <1>8, NothingNew DEF SetOperator
<1>9. ASSUME NEW vt \in Delays, NEW it \in Delays, SetDelays(vt, it) PROVE Goal
  BY <1>9, NothingNew DEF SetDelays
<1>10. CASE TimerCallback
  BY <1>10, NothingNew DEF TimerCallback
<1>11. /\ ~SetForceDisabled /\ \A c \in Conditions : ~SetEnabled(c)
       /\ \A c \in Conditions, i \in 1..(Len(items) + 1) : ~RestoreCondition(c, i)
  BY DEF SetForceDisabled, SetEnabled, RestoreCondition, Combining
<1>12. QED
  BY <1>1, <1>2, <1>3, <1>4, <1>5, <1>6, <1>7, <1>8, <1>9, <1>10, <1>11
     DEF Next, Listener, Environment

\* The conditions of a project are loaded with the values of their sources.
LEMMA InitHeard ==
  ASSUME NoToggle, Init
  PROVE  Heard
<1>1. TypeOK
  BY InitWellformed DEF Wellformed
<1>2. \A c \in ToSet(items) : Caught(c)
  <2> TAKE c \in ToSet(items)
  <2>1. c \in Conditions /\ Truth(c) \in BOOLEAN
    BY <1>1, ItemsAreConditions, TruthTyped
  <2>2. condValid[c] = (Standard(c) /\ Truth(c)) /\ raw[c] = FALSE
    BY <2>1 DEF Init, NoToggle
  <2>3. QED
    BY <2>1, <2>2 DEF Caught, TrueValue
<1>3. QED
  BY <1>2 DEF Init, Heard

-----------------------------------------------------------------------------
\* The inductive invariant of a combining manager.
Combined == Wellformed /\ Settled /\ Heard

LEMMA CombinedInvariant ==
  ASSUME Combining, NoToggle
  PROVE  Spec => []Combined
<1>1. Init => Combined
  BY InitWellformed, InitSettled, InitHeard DEF Combined
<1>2. Combined /\ [Next]_vars => Combined'
  <2>1. Combined /\ Next => Settled' /\ Heard'
    BY NextSettled, NextHeard DEF Combined, Wellformed
  <2>2. Combined /\ UNCHANGED vars => Settled' /\ Heard'
    BY DEF Combined, Settled, Satisfied, Heard, Synced, Late, Caught, TrueValue, Truth, vars
  <2>3. QED
    BY <2>1, <2>2, NextWellformed DEF Combined
<1>3. QED
  BY <1>1, <1>2, PTL DEF Spec

\* Once every listener has been called and no timer runs, AND and OR say what the
\* current values of the sources give, whatever the order of the listeners and
\* the re-checks of conditionValidationChanged.
THEOREM AgreesAtRestHolds == Combining /\ NoToggle => (Spec => []AgreesAtRest)
<1> SUFFICES ASSUME Combining, NoToggle PROVE Spec => []AgreesAtRest
  OBVIOUS
<1>1. Combined => AgreesAtRest
  <2> SUFFICES ASSUME Combined, AtRest, ~mgr.timer PROVE mgr.valid = TrueVerdict
    BY DEF AgreesAtRest
  <2>1. TypeOK /\ op \in {"AND", "OR"} /\ queue = <<>>
    BY DEF Combined, Wellformed, Settled, AtRest
  <2>2. Synced
    BY FreeSynced DEF Combined, AtRest
  <2>3. Satisfied = TrueVerdict
    BY <2>1, <2>2, SyncedVerdict
  <2>4. mgr.valid <=> Satisfied
    BY DEF Combined, Settled
  <2>5. mgr.valid \in BOOLEAN /\ Satisfied \in BOOLEAN
    <3>1. mgr.valid \in BOOLEAN
      BY <2>1 DEF TypeOK, Managers
    <3>2. Satisfied \in BOOLEAN
      BY <2>1, VerdictOfTwo DEF Satisfied
    <3>3. QED
      BY <3>1, <3>2
  <2>6. QED
    BY <2>3, <2>4, <2>5
<1>2. QED
  BY <1>1, CombinedInvariant, PTL

\* No transient: a validity that an AND or OR manager dispatches is the one the
\* new values give, even while some of the conditions on the source that changed
\* have not been called (the deferred re-checks of conditionValidationChanged).
THEOREM VerdictIsCurrentHolds == Combining /\ NoToggle => (Spec => VerdictIsCurrent)
<1> SUFFICES ASSUME Combining, NoToggle PROVE Spec => VerdictIsCurrent
  OBVIOUS
<1> DEFINE Says == op' # "SEQUENTIAL" /\ queue' = <<>> /\ mgr'.said # <<>>
                   => mgr'.valid = TrueVerdict'
<1>1. Combined /\ Combined' /\ [Next]_vars => [Says]_vars
  <2> SUFFICES ASSUME Combined, Combined', Next, queue' = <<>>, mgr'.said # <<>>
               PROVE  mgr'.valid = TrueVerdict'
    OBVIOUS
  <2>1. TypeOK' /\ op' \in {"AND", "OR"}
    BY DEF Combined, Wellformed, Settled
  <2>2. Synced' /\ (mgr'.valid <=> Satisfied')
    BY NextHeard, NextSettled DEF Combined, Wellformed, SaysSynced, Announced
  <2>3. Satisfied' = TrueVerdict'
    BY <2>1, <2>2, SyncedVerdictNext DEF UpToDate
  <2>4. mgr'.valid \in BOOLEAN /\ Satisfied' \in BOOLEAN
    <3>1. mgr'.valid \in BOOLEAN
      BY <2>1 DEF TypeOK, Managers
    <3>2. Satisfied' \in BOOLEAN
      BY <2>1, VerdictOfTwo DEF Satisfied
    <3>3. QED
      BY <3>1, <3>2
  <2>5. QED
    BY <2>2, <2>3, <2>4
<1>2. QED
  BY <1>1, CombinedInvariant, PTL DEF Spec, VerdictIsCurrent
=============================================================================
