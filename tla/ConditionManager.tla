------------------------- MODULE ConditionManager -------------------------
(***************************************************************************)
(* The conditions of one Action                                            *)
(* (Source/Common/Processor/Action/Condition): conditions that follow a    *)
(* source parameter, and the manager that combines them with AND, OR or    *)
(* SEQUENTIAL, immediately or after a validation time. One index of a      *)
(* multiplex is modelled; indices do not interact.                         *)
(*                                                                         *)
(* Everything here runs on the message thread, except that another thread  *)
(* may set a source: the value changes at once and the calls of its        *)
(* listeners are posted to the message thread (Parameter::setValue).  Each *)
(* listener call (a condition's) is a step, in any order.  A call runs to  *)
(* the end of the handler; the re-checks that conditionValidationChanged   *)
(* defers are the steps that follow it, before anything else the message   *)
(* thread does.                                                            *)
(***************************************************************************)
EXTENDS Integers, Sequences, FiniteSets, SequencesExt

CONSTANTS
  Conditions,    \* the conditions that exist (in the manager or removed)
  Sources,       \* source parameters
  Values,        \* values a source parameter takes
  Source,        \* [Conditions -> Sources]: sourceTarget
  HoldsFor,      \* [Conditions -> SUBSET Values]: the comparator
  Kind,          \* [Conditions -> Kinds]
  Start,         \* the items the manager is loaded with
  Operators,     \* operators the user selects
  Delays,        \* values of validationTime and invalidationTime, 0 included
  Full,          \* timer ticks a non-zero delay takes
  Edits,         \* the edits of the project that may happen
  MaxQueue       \* bound: changes by other threads, not yet notified

\* "level": validity follows the comparator; "toggle": Toggle Mode; "always":
\* Always Trigger; "manual": a ManualCondition, which has no source.
Kinds == {"level", "toggle", "always", "manual"}
AllEdits == {"enable", "remove", "restore", "operator", "delays", "force"}

ASSUME ConstantsAssumption ==
  /\ Source \in [Conditions -> Sources]
  /\ HoldsFor \in [Conditions -> SUBSET Values]
  /\ Kind \in [Conditions -> Kinds]
  /\ Start \in Seq(Conditions)
  /\ Operators \subseteq {"AND", "OR", "SEQUENTIAL"}
  /\ Delays \subseteq {0, 1}
  /\ Full \in Nat \ {0}
  /\ Edits \subseteq AllEdits
  /\ MaxQueue \in Nat

VARIABLES
  src,        \* [Sources -> Values]: value of each source parameter
  queue,      \* the sources other threads changed, not yet notified
  pending,    \* listeners of the change under way, still to be called
  items,      \* the conditions of the manager, in order
  enabled,    \* [Conditions -> BOOLEAN]
  condValid,  \* [Conditions -> BOOLEAN]: Condition::isValids
  raw,        \* [Conditions -> BOOLEAN]: StandardCondition::rawIsValids; of a
              \* ManualCondition, its Active parameter
  deferred,   \* deferredConditionChanges of the handler under way
  op,         \* conditionOperator
  valTime,    \* validationTime
  invTime,    \* invalidationTime
  disabled,   \* forceDisabled
  mgr,        \* the rest of the manager, see Managers
  held,       \* history: ticks for which the operator has been satisfied
  due         \* history: the current step became valid, is, and was not taken

vars == <<src, queue, pending, items, enabled, condValid, raw, deferred, op,
          valTime, invTime, disabled, mgr, held, due>>
config == <<op, valTime, invTime, disabled>>

\* valid: isValids; target: validationTargets; progress: validationProgresses
\* in ticks; timer: the MultiTimer runs; seq: sequentialConditionIndices, from
\* 0; said: the validities dispatched last.
Managers == [valid : BOOLEAN, target : BOOLEAN, progress : 0..Full,
             timer : BOOLEAN, seq : Nat, said : Seq(BOOLEAN)]

Truth(c) == src[Source[c]] \in HoldsFor[c]
Standard(c) == Kind[c] # "manual"
\* Index of c in its, from 0; -1 when c is not there (OwnedArray::indexOf).
IndexOf(its, c) ==
  IF \E i \in 1..Len(its) : its[i] = c
  THEN (CHOOSE i \in 1..Len(its) : its[i] = c) - 1 ELSE -1

-----------------------------------------------------------------------------
\* What the operator o makes of the conditions.

\* its: items, en: enabled flags, cv: validity of each condition, s: the
\* sequential index, at: index of the condition that changed or -1.
AllValid(its, en, cv) ==
  /\ \E i \in 1..Len(its) : en[its[i]]
  /\ \A i \in 1..Len(its) : en[its[i]] => cv[its[i]]

OneValid(its, en, cv) == \E i \in 1..Len(its) : en[its[i]] /\ cv[its[i]]

StepValid(its, cv, s, at) == Len(its) > 0 /\ at = s /\ cv[its[s + 1]]

Verdict(its, en, cv, o, s, at) ==
  CASE o = "AND" -> AllValid(its, en, cv)
    [] o = "OR" -> OneValid(its, en, cv)
    [] OTHER -> StepValid(its, cv, s, at)

\* The condition after s that setValid makes the next step: the first enabled
\* one, else the first of the list.
NextStep(its, en, s) ==
  LET later == {i \in (s + 1)..(Len(its) - 1) : en[its[i + 1]]}
  IN  IF later = {} THEN 0 ELSE CHOOSE i \in later : \A j \in later : i <= j

\* ConditionManager::setValid: a validated SEQUENTIAL manager moves on to its
\* next step and is invalidated at once.
SetValid(m, its, en, o, v, changeOnly) ==
  IF m.valid = v /\ changeOnly THEN m
  ELSE IF v /\ o = "SEQUENTIAL"
       THEN [m EXCEPT !.valid = FALSE, !.seq = NextStep(its, en, m.seq),
                      !.said = <<TRUE, FALSE>>]
       ELSE [m EXCEPT !.valid = v, !.said = <<v>>]

\* Faults of Apply: a timer that goes back is not cancelled; the progress is not
\* reset; the timer is not started.
Apply_NeverCancels(m, its, en, o, vt, it, v, changeOnly) ==
  IF (v /\ vt = 0) \/ (~v /\ it = 0)
  THEN [SetValid(m, its, en, o, v, changeOnly) EXCEPT !.target = v]
  ELSE IF v = m.target \/ v = m.valid THEN m
  ELSE [m EXCEPT !.target = v, !.progress = IF v THEN 0 ELSE Full, !.timer = TRUE]

Apply_KeepsProgress(m, its, en, o, vt, it, v, changeOnly) ==
  IF (v /\ vt = 0) \/ (~v /\ it = 0)
  THEN [SetValid(m, its, en, o, v, changeOnly) EXCEPT !.target = v]
  ELSE IF v = m.target THEN m
  ELSE [m EXCEPT !.target = v, !.timer = v # m.valid]

Apply_NoTimer(m, its, en, o, vt, it, v, changeOnly) ==
  IF (v /\ vt = 0) \/ (~v /\ it = 0)
  THEN [SetValid(m, its, en, o, v, changeOnly) EXCEPT !.target = v]
  ELSE [m EXCEPT !.target = v]

\* ConditionManager::checkAllConditions once the verdict v is known.
Apply(m, its, en, o, vt, it, v, changeOnly) ==
  IF (v /\ vt = 0) \/ (~v /\ it = 0)
  THEN [SetValid(m, its, en, o, v, changeOnly) EXCEPT
          !.target = v,
          !.progress = IF v /\ it > 0 THEN Full
                       ELSE IF ~v /\ vt > 0 THEN 0 ELSE @]
  ELSE IF v = m.target THEN m
  ELSE IF v # m.valid
       THEN [m EXCEPT !.target = v, !.progress = IF v THEN 0 ELSE Full,
                      !.timer = TRUE]
       ELSE [m EXCEPT !.target = v, !.progress = IF v THEN Full ELSE 0,
                      !.timer = FALSE]

CheckAll(m, its, en, cv, o, vt, it, changeOnly, at) ==
  Apply(m, its, en, o, vt, it, Verdict(its, en, cv, o, m.seq, at), changeOnly)

\* The manager with nothing dispatched yet by the step.
Quiet == [mgr EXCEPT !.said = <<>>]
Recheck(m, its) == CheckAll(m, its, enabled, condValid, op, valTime, invTime, TRUE, -1)

\* The condition of the current step of a sequence.
Current == items[mgr.seq + 1]

\* Histories.  held counts timer ticks since the operator was last unsatisfied;
\* due is set when the condition of the current step becomes valid, until the
\* step is taken or the condition is invalid again.
Observe(ticked) ==
  /\ held' = IF ~Verdict(items', enabled', condValid', op', 0, -1) THEN 0
             ELSE IF ticked /\ held < Full THEN held + 1 ELSE held
  /\ due' = /\ items' = items /\ op' = "SEQUENTIAL" /\ op = op'
            /\ mgr'.seq = mgr.seq /\ ~Contains(mgr'.said, TRUE)
            /\ mgr.seq < Len(items)
            /\ enabled'[Current] /\ condValid'[Current]
            /\ due \/ ~condValid[Current]

-----------------------------------------------------------------------------
\* A condition is set valid or not, and tells the manager.

\* (StandardCondition::setValid, Condition::setValid): what v does to c, as the
\* new validity and raw validity, whether the listener is called, and with
\* which dispatchOnChangeOnly.
Outcome(c, v, rw) ==
  CASE Kind[c] = "toggle" ->
         LET edge == v /\ ~rw[c]
         IN  [valid |-> IF edge THEN ~condValid[c] ELSE condValid[c], raw |-> v,
              told |-> edge, changeOnly |-> TRUE]
    [] Kind[c] = "always" ->
         [valid |-> v, raw |-> rw[c], told |-> TRUE, changeOnly |-> FALSE]
    [] OTHER ->
         [valid |-> v, raw |-> rw[c], told |-> v # condValid[c], changeOnly |-> TRUE]

SameSource_None(c) == {}

\* The other conditions conditionValidationChanged re-checks after c.
SameSource(c) ==
  {o \in ToSet(items) \ {c} : Standard(c) /\ Standard(o) /\ Source[o] = Source[c]}

\* A re-checked condition that changed is dealt with after the first one; an
\* Always Trigger one is not, its own listener reports it.
Deferring_Dropped(out) == FALSE
Deferring(out) == out.told /\ out.changeOnly

\* setValid(v) on condition c, with the whole of conditionValidationChanged but
\* its loop over the deferred conditions.
SetCondition(c, v, en, rw) ==
  LET out == Outcome(c, v, rw)
      others == IF out.told THEN SameSource(c) ELSE {}
      again == [o \in others |-> Outcome(o, Truth(o), rw)]
      cv == [d \in Conditions |-> IF d = c THEN out.valid
                                 ELSE IF d \in others THEN again[d].valid ELSE condValid[d]]
  IN  /\ condValid' = cv
      /\ raw' = [d \in Conditions |-> IF d = c THEN out.raw
                                      ELSE IF d \in others THEN again[d].raw ELSE rw[d]]
      /\ deferred' = {o \in others : Deferring(again[o])}
      /\ mgr' = IF out.told
                THEN CheckAll(Quiet, items, en, cv, op, valTime, invTime,
                              out.changeOnly, IndexOf(items, c))
                ELSE Quiet

Idle == deferred = {}
Free == Idle /\ pending = {}
AtRest == Free /\ queue = <<>>

\* The conditions that listen to s.
Listening(s) == {c \in ToSet(items) : Standard(c) /\ Source[c] = s}

-----------------------------------------------------------------------------
\* The manager as afterLoadJSONDataInternal leaves it.
Fresh == [valid |-> FALSE, target |-> FALSE, progress |-> 0, timer |-> FALSE,
          seq |-> 0, said |-> <<>>]

Init ==
  /\ src \in [Sources -> Values]
  /\ queue = <<>>
  /\ pending = {}
  /\ items = Start
  /\ enabled = [c \in Conditions |-> TRUE]
  /\ condValid = [c \in Conditions |-> Standard(c) /\ Truth(c)]
  /\ raw = [c \in Conditions |-> Kind[c] = "toggle" /\ Truth(c)]
  /\ deferred = {}
  /\ op \in Operators
  /\ valTime \in Delays
  /\ invTime \in Delays
  /\ disabled = FALSE
  /\ mgr = [Recheck(Fresh, items) EXCEPT !.said = <<>>]
  /\ held = 0
  /\ due = FALSE

\* A source takes another value; every condition that listens is called.
ChangeSource(s, x) ==
  /\ Free
  /\ x # src[s]
  /\ src' = [src EXCEPT ![s] = x]
  /\ pending' = Listening(s)
  /\ mgr' = Quiet
  /\ UNCHANGED <<queue, items, enabled, condValid, raw,
                 deferred, config, held, due>>

\* Another thread gives s a value; the calls are posted.
PostSource(s, x) ==
  /\ Len(queue) < MaxQueue
  /\ x # src[s]
  /\ src' = [src EXCEPT ![s] = x]
  /\ queue' = Append(queue, s)
  /\ mgr' = Quiet
  /\ UNCHANGED <<pending, items, enabled, condValid, raw,
                 deferred, config, held, due>>

\* The message thread comes to a posted change.
HandlePosted ==
  /\ Free /\ queue # <<>>
  /\ pending' = Listening(Head(queue))
  /\ queue' = Tail(queue)
  /\ mgr' = Quiet
  /\ UNCHANGED <<src, items, enabled, condValid, raw, deferred, config, held, due>>

\* onExternalParameterValueChanged of c: checkComparator.
Deliver(c) ==
  /\ Idle
  /\ c \in pending
  /\ pending' = pending \ {c}
  /\ SetCondition(c, Truth(c), enabled, raw)
  /\ UNCHANGED <<src, queue, items, enabled, config>>
  /\ Observe(FALSE)

\* The loop at the end of conditionValidationChanged: the first deferred
\* condition, in the order of the list, is taken as the one that changed.
CheckDeferred ==
  /\ ~Idle
  /\ LET c == CHOOSE d \in deferred : \A e \in deferred : IndexOf(items, d) <= IndexOf(items, e)
     IN  /\ deferred' = deferred \ {c}
         /\ mgr' = CheckAll(Quiet, items, enabled, condValid, op, valTime, invTime,
                            TRUE, IndexOf(items, c))
  /\ UNCHANGED <<src, queue, pending, items, enabled, condValid, raw, config>>
  /\ Observe(FALSE)

\* The "Active" parameter of a ManualCondition is switched.
SetManual(c) ==
  /\ Free /\ ~Standard(c) /\ c \in ToSet(items)
  /\ SetCondition(c, ~raw[c], enabled, [raw EXCEPT ![c] = ~@])
  /\ UNCHANGED <<src, queue, pending, items, enabled, config>>
  /\ Observe(FALSE)

\* The user enables or disables a condition: either way setValid(false).
SetEnabled(c) ==
  /\ Free /\ "enable" \in Edits /\ c \in ToSet(items)
  /\ enabled' = [enabled EXCEPT ![c] = ~@]
  /\ SetCondition(c, FALSE, enabled', raw)
  /\ UNCHANGED <<src, queue, pending, items, config>>
  /\ Observe(FALSE)

RemoveCondition_KeepsStep(i) ==
  /\ Free /\ "remove" \in Edits
  /\ items' = RemoveAt(items, i)
  /\ mgr' = Recheck(Quiet, items')
  /\ UNCHANGED <<src, queue, pending, enabled, condValid, raw, deferred, config>>
  /\ Observe(FALSE)

\* removeItem: the first step is the current one again, then a full check.
RemoveCondition(i) ==
  /\ Free /\ "remove" \in Edits
  /\ items' = RemoveAt(items, i)
  /\ mgr' = Recheck([Quiet EXCEPT !.seq = 0], items')
  /\ UNCHANGED <<src, queue, pending, enabled, condValid, raw, deferred, config>>
  /\ Observe(FALSE)

\* Undo of a removal: the condition is loaded, and checked, at its place in the
\* list before the manager listens to it, so nothing else happens.
RestoreCondition(c, i) ==
  /\ Free /\ "restore" \in Edits /\ c \notin ToSet(items)
  /\ items' = InsertAt(items, i, c)
  /\ condValid' = [condValid EXCEPT ![c] = IF Standard(c) THEN Truth(c) ELSE raw[c]]
  /\ raw' = [raw EXCEPT ![c] = IF Standard(c) THEN Kind[c] = "toggle" /\ Truth(c) ELSE @]
  /\ mgr' = Quiet
  /\ UNCHANGED <<src, queue, pending, enabled, deferred, config>>
  /\ Observe(FALSE)

SetOperator(o) ==
  /\ Free /\ "operator" \in Edits /\ o # op
  /\ op' = o
  /\ mgr' = CheckAll([Quiet EXCEPT !.seq = 0], items, enabled, condValid, o,
                     valTime, invTime, TRUE, -1)
  /\ UNCHANGED <<src, queue, pending, items, enabled, condValid, raw, deferred,
                 valTime, invTime, disabled>>
  /\ Observe(FALSE)

\* validationTime or invalidationTime is edited; a running timer goes on.
SetDelays(vt, it) ==
  /\ Free /\ "delays" \in Edits
  /\ \/ vt # valTime /\ it = invTime
     \/ vt = valTime /\ it # invTime
  /\ valTime' = vt
  /\ invTime' = it
  /\ mgr' = Quiet
  /\ UNCHANGED <<src, queue, pending, items, enabled, condValid, raw, deferred, op,
                 disabled, held, due>>

\* The Action is disabled or enabled again, by the user or by its State.
SetForceDisabled ==
  /\ Free /\ "force" \in Edits
  /\ disabled' = ~disabled
  /\ mgr' = Recheck([Quiet EXCEPT !.valid = ~disabled' /\ @], items)
  /\ UNCHANGED <<src, queue, pending, items, enabled, condValid, raw, deferred, op,
                 valTime, invTime>>
  /\ Observe(FALSE)

Stepped_NoLimit == IF mgr.target THEN mgr.progress + 1 ELSE mgr.progress - 1

\* timerCallback.  A zero delay in the direction of the target divides by zero:
\* the progress jumps to its end.
Stepped ==
  IF mgr.target THEN IF valTime = 0 \/ mgr.progress = Full THEN Full ELSE mgr.progress + 1
  ELSE IF invTime = 0 \/ mgr.progress = 0 THEN 0 ELSE mgr.progress - 1

TimerCallback ==
  /\ mgr.timer /\ Free
  /\ LET ends == [SetValid(Quiet, items, enabled, op, mgr.target, TRUE) EXCEPT !.timer = FALSE]
     IN  mgr' = IF valTime = 0 /\ invTime = 0 THEN ends
                ELSE IF Stepped = (IF mgr.target THEN Full ELSE 0)
                THEN [ends EXCEPT !.progress = Stepped]
                ELSE [Quiet EXCEPT !.progress = Stepped]
  /\ UNCHANGED <<src, queue, pending, items, enabled,
                 condValid, raw, deferred, config>>
  /\ Observe(TRUE)

Listener == (\E c \in Conditions : Deliver(c)) \/ CheckDeferred

Environment ==
  \/ \E s \in Sources, x \in Values : ChangeSource(s, x) \/ PostSource(s, x)
  \/ \E c \in Conditions : SetManual(c) \/ SetEnabled(c)
  \/ \E i \in 1..Len(items) : RemoveCondition(i)
  \/ \E c \in Conditions, i \in 1..(Len(items) + 1) : RestoreCondition(c, i)
  \/ \E o \in Operators : SetOperator(o)
  \/ \E vt \in Delays, it \in Delays : SetDelays(vt, it)
  \/ SetForceDisabled

Next == Listener \/ HandlePosted \/ TimerCallback \/ Environment

Spec == Init /\ [][Next]_vars

\* The message thread finishes the calls it has begun.  A posted change and the
\* timer's callback are messages on its queue: others come in between but do not
\* overtake them for ever.  Nothing obliges a source or a user to act.
Fairness == WF_vars(Listener) /\ SF_vars(HandlePosted) /\ SF_vars(TimerCallback)
FairSpec == Spec /\ Fairness

-----------------------------------------------------------------------------
TypeOK ==
  /\ src \in [Sources -> Values]
  /\ queue \in Seq(Sources)
  /\ pending \in SUBSET Conditions
  /\ items \in Seq(Conditions)
  /\ enabled \in [Conditions -> BOOLEAN]
  /\ condValid \in [Conditions -> BOOLEAN]
  /\ raw \in [Conditions -> BOOLEAN]
  /\ deferred \in SUBSET Conditions
  /\ op \in {"AND", "OR", "SEQUENTIAL"}
  /\ valTime \in {0, 1} /\ invTime \in {0, 1}
  /\ disabled \in BOOLEAN
  /\ mgr \in Managers
  /\ held \in 0..Full
  /\ due \in BOOLEAN

\* The sequential index designates a condition whenever there is one, and a
\* manager with no condition is not waiting to be validated: checkAllConditions
\* and setValid index the list with it after removals, restores, operator changes.
StepInRange ==
  /\ Len(items) > 0 => mgr.seq < Len(items)
  /\ Len(items) = 0 => mgr.seq = 0 /\ ~mgr.target

\* What AND and OR say of the values the sources have now.
TrueValue(c) == IF Standard(c) THEN Truth(c) ELSE raw[c]
TrueVerdict == Verdict(items, enabled, [c \in Conditions |-> TrueValue(c)], op, 0, -1)

\* Once every listener has been called and no timer runs, the manager says what
\* its operator says of the current values of the sources, whatever the order
\* of the listeners and the re-checks of conditions that share a source.
AgreesAtRest == AtRest /\ ~mgr.timer /\ op # "SEQUENTIAL" => mgr.valid = TrueVerdict

\* No transient: while no change by another thread waits, a validity that an AND
\* or OR manager dispatches is the one the new values give, even while some
\* conditions on the source have not been called ("to avoid parameterListener
\* order bug", ConditionManager.h).
VerdictIsCurrent ==
  [][op' # "SEQUENTIAL" /\ queue' = <<>> /\ mgr'.said # <<>> => mgr'.valid = TrueVerdict']_vars

\* With a validation time, the manager becomes valid only when its conditions
\* have been satisfied without a break for the whole of it.
Debounced ==
  [][~mgr.valid /\ mgr'.valid /\ valTime > 0 /\ op' # "SEQUENTIAL" => held' = Full]_vars

\* A sequence takes its step: when the condition of the current step becomes
\* valid and stays so, the step is taken by the time the handler is over (and,
\* with a validation time, its timer), "when it gets validated, will check the
\* next one".
StepTaken == AtRest /\ ~mgr.timer => ~due

\* When the values stop changing the verdict for good, the manager follows it,
\* at once or after its validation or invalidation time, provided that other
\* threads stop: their changes reach the conditions late, in any mixture of old
\* and new values.
Follows ==
  \A v \in BOOLEAN :
    /\ <>[](op # "SEQUENTIAL" /\ TrueVerdict = v)
    /\ <>[][Len(queue') <= Len(queue)]_queue
    => <>[](mgr.valid = v)
=============================================================================
