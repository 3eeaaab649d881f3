--------------------------- MODULE StateMachine ---------------------------
(***************************************************************************)
(* States, their activation, and the transitions that link them            *)
(* (Source/StateMachine).  A state's "Active" parameter may be set by any  *)
(* thread and takes its value at once.  Its handler runs on the message    *)
(* thread: synchronously when that thread sets it, else as a posted        *)
(* message. The handler enables the state's processors, deactivates every  *)
(* linked state and may fire the state's transitions, which set other      *)
(* states active in turn.                                                  *)
(*                                                                         *)
(* A thread's call stack is the list of the calls it has still to make: a  *)
(* step executes the first, which may put others in front.  The steps of   *)
(* several threads interleave.                                             *)
(***************************************************************************)
EXTENDS Integers, Sequences, FiniteSets, SequencesExt, Selection

CONSTANTS
  States,
  Transitions,    \* the transitions the user may create
  Src, Dst,       \* [Transitions -> States]: sourceState, destState
  OnActivate,     \* the transitions whose condition is an "On Activate" one
  Pulsed,         \* those whose condition is on a trigger: valid while it triggers
  Check,          \* the states with "Check transitions on activate"
  Threads,        \* threads that change parameters
  Message,        \* the message thread, one of them
  MaxPosted,      \* bound: no other thread starts while more are posted
  MaxDepth,       \* the bound of activationDepth (32 in the code)
  Start,          \* the transitions loaded, in order
  Edits           \* what the user may do besides activating states

AllEdits == {"deactivate", "enable", "link", "unlink", "toggle"}

ASSUME ConstantsAssumption ==
  /\ Src \in [Transitions -> States] /\ Dst \in [Transitions -> States]
  /\ OnActivate \subseteq Transitions /\ Pulsed \subseteq Transitions \ OnActivate
  /\ Start \in Seq(Transitions)
  /\ Check \subseteq States
  /\ Message \in Threads
  /\ MaxDepth \in Nat /\ MaxPosted \in Nat
  /\ Edits \subseteq AllEdits
  /\ IsFiniteSet(States) /\ IsFiniteSet(Transitions)

VARIABLES
  active,      \* [States -> BOOLEAN]
  enabled,     \* [States -> BOOLEAN]
  pmDisabled,  \* [States -> BOOLEAN]: forceDisabled of the state's processors
  trans,       \* the transitions that exist, in order of creation
  tEnabled,    \* [Transitions -> BOOLEAN]
  valid,       \* [Transitions -> BOOLEAN]: cdm->getIsValid()
  triggering,  \* transitions whose triggerOn is being triggered (isTriggering)
  depth,       \* activationDepth, of the message thread
  stack,       \* [Threads -> Seq(Calls)]
  posted,      \* Seq(Calls): the handlers posted to the message thread
  ever,        \* history: states that have been active
  bridged      \* history: a transition has linked two inactive states

vars == <<active, enabled, pmDisabled, trans, tEnabled, valid, triggering, depth,
          stack, posted, ever, bridged>>
history == <<ever, bridged>>
data == <<active, enabled, pmDisabled, trans, tEnabled, valid, triggering, depth,
          posted, history>>

Calls ==
  [do : {"set"}, s : States, v : BOOLEAN]
    \union [do : {"load", "changed", "update", "evalDisabled", "link", "unlink"},
            s : States]
    \union [do : {"applyDisabled"}, s : States, v : BOOLEAN]
    \union [do : {"loop"}, s : States, rest : Seq(Transitions)]
    \union [do : {"test"}, s : States, rest : Seq(Transitions) \ {<<>>}]
    \union [do : {"fire", "release"}, t : Transitions]
    \union [do : {"leave"}]

Set(s, v) == [do |-> "set", s |-> s, v |-> v]
Load(s) == [do |-> "load", s |-> s]
Enabled(s) == [do |-> "update", s |-> s]
Changed(s) == [do |-> "changed", s |-> s]
EvalDisabled(s) == [do |-> "evalDisabled", s |-> s]
ApplyDisabled(s, v) == [do |-> "applyDisabled", s |-> s, v |-> v]
Link(s) == [do |-> "link", s |-> s]
Unlink(s) == [do |-> "unlink", s |-> s]
Loop(s, rest) == [do |-> "loop", s |-> s, rest |-> rest]
Test(s, rest) == [do |-> "test", s |-> s, rest |-> rest]
Fire(t) == [do |-> "fire", t |-> t]
Release(t) == [do |-> "release", t |-> t]
Leave == [do |-> "leave"]

Running(s) == active[s] /\ enabled[s]

\* StateManager::getLinkedStates: every state reached over transitions, in
\* either direction.
Existing == ToSet(trans)
Linked(s) ==
  {l \in States \ {s} :
     \A C \in SUBSET States :
       s \in C /\ (\A t \in Existing : Src[t] \in C <=> Dst[t] \in C) => l \in C}

\* outTransitions.
Outs(s) == Selected(trans, {t \in Transitions : Src[t] = s})

-----------------------------------------------------------------------------
\* The first call of thread th, once made, leaves the calls new to be made.
Top(th) == Head(stack[th])
Calling(th, what) == stack[th] # <<>> /\ Top(th).do = what
Return(th, new) == stack' = [stack EXCEPT ![th] = new \o Tail(@)]
Begin(th, new) ==
  /\ stack[th] = <<>> /\ (th # Message => Len(posted) <= MaxPosted)
  /\ stack' = [stack EXCEPT ![th] = new]

\* Parameter::notifyValueChanged: the listeners are called now on the message
\* thread, from a posted message otherwise.  Fault: another thread gives up when
\* the message thread is busy.
Post_GivesUp(th, call) ==
  posted' = IF stack[Message] = <<>> THEN Append(posted, call) ELSE posted
Post(th, call) == posted' = Append(posted, call)

\* Parameter::setValue on active: nothing happens if the value is the same.
SetValue(th) ==
  /\ Calling(th, "set")
  /\ LET s == Top(th).s
         same == active[s] = Top(th).v
     IN  /\ active' = [active EXCEPT ![s] = Top(th).v]
         /\ ever' = IF Top(th).v THEN ever \union {s} ELSE ever
         /\ IF same \/ th = Message
            THEN Return(th, IF same THEN <<>> ELSE <<Changed(s)>>) /\ UNCHANGED posted
            ELSE Return(th, <<>>) /\ Post(th, Changed(s))
  /\ UNCHANGED <<enabled, pmDisabled, trans, tEnabled, valid,
                 triggering, depth, bridged>>

\* The message thread takes the first message of its queue.
HandlePosted ==
  /\ stack[Message] = <<>> /\ posted # <<>>
  /\ stack' = [stack EXCEPT ![Message] = <<Head(posted)>>]
  /\ posted' = Tail(posted)
  /\ UNCHANGED <<active, enabled, pmDisabled, trans, tEnabled,
                 valid, triggering, depth, history>>

\* State::handleLoadActivation.
HandleLoadActivation(th) ==
  /\ Calling(th, "load")
  /\ Return(th, IF Running(Top(th).s) THEN <<Changed(Top(th).s)>> ELSE <<>>)
  /\ UNCHANGED data

\* A state stops, or is enabled or disabled: the StateManager is told, then the
\* processors.
Update(s) == <<Link(s), EvalDisabled(s)>>

\* The handler of a state's Enabled parameter.
HandleEnabled(th) ==
  /\ Calling(th, "update")
  /\ Return(th, Update(Top(th).s))
  /\ UNCHANGED data

\* State::handleActiveChanged, up to its first call.
HandleActiveChanged(th) ==
  /\ Calling(th, "changed")
  /\ LET s == Top(th).s IN
       IF ~enabled[s] THEN Return(th, <<>>) /\ UNCHANGED valid
       ELSE IF active[s]
       THEN /\ Return(th, <<EvalDisabled(s), Link(s), Loop(s, Outs(s))>>)
            /\ UNCHANGED valid
       ELSE /\ Return(th, Update(s))
            /\ valid' = [t \in Transitions |->
                          IF t \in Existing \cap OnActivate /\ Src[t] = s THEN FALSE ELSE valid[t]]
  /\ UNCHANGED <<active, enabled, pmDisabled, trans, tEnabled,
                 triggering, depth, posted, history>>

\* pm->setForceDisabled(!active || !enabled): the argument is computed first.
ComputeDisabled(th) ==
  /\ Calling(th, "evalDisabled")
  /\ Return(th, <<ApplyDisabled(Top(th).s, ~Running(Top(th).s))>>)
  /\ UNCHANGED data

SetForceDisabled(th) ==
  /\ Calling(th, "applyDisabled")
  /\ pmDisabled' = [pmDisabled EXCEPT ![Top(th).s] = Top(th).v]
  /\ Return(th, <<>>)
  /\ UNCHANGED <<active, enabled, trans, tEnabled, valid,
                 triggering, depth, posted, history>>

\* StateManager::stateActivationChanged.
StateActivationChanged(th) ==
  /\ Calling(th, "link")
  /\ Return(th, IF active[Top(th).s] THEN <<Unlink(Top(th).s)>> ELSE <<>>)
  /\ UNCHANGED data

\* The states set inactive once s is active.  Fault: only those transitions
\* lead to.
Rivals_Successors(s) == {Dst[t] : t \in ToSet(Outs(s))}
Rivals(s) == Linked(s)

\* StateManager::setStateActive: every linked state is set inactive, in turn.
SetStateActive(th) ==
  /\ Calling(th, "unlink")
  /\ LET others == SetToSeq(Rivals(Top(th).s))
     IN  Return(th, [i \in 1..Len(others) |-> Set(others[i], FALSE)])
  /\ UNCHANGED data

\* triggerOn->trigger(): dropped when the transition is disabled, or is being
\* triggered already, by this thread or another.
CanTrigger(t) == tEnabled[t] /\ t \notin triggering

\* The loop over outTransitions: conditions whose parameter has changed, and which
\* were not told yet, are checked without triggering the transition; an "On
\* Activate" condition becomes valid, which triggers it; then its validity is
\* tested.
Forced(t) == CASE t \in OnActivate -> {tEnabled[t]}
               [] t \in Pulsed \ OnActivate -> {valid[t]}
               [] OTHER -> BOOLEAN

VisitTransition(th) ==
  /\ Calling(th, "loop")
  /\ LET s == Top(th).s
         rest == Top(th).rest
         t == Head(rest)
     IN  IF rest = <<>>
         THEN Return(th, <<>>) /\ UNCHANGED <<valid, triggering>>
         ELSE /\ \E v \in Forced(t) : valid' = [valid EXCEPT ![t] = v]
              /\ IF t \in OnActivate /\ CanTrigger(t)
                 THEN /\ triggering' = triggering \union {t}
                      /\ Return(th, <<Fire(t), Release(t), Test(s, rest)>>)
                 ELSE /\ Return(th, <<Test(s, rest)>>)
                      /\ UNCHANGED triggering
  /\ UNCHANGED <<active, enabled, pmDisabled, trans, tEnabled,
                 depth, posted, history>>

\* Faults: one activation too many; the loop does not advance.
TooDeep_OneMore(d) == d > MaxDepth
TooDeep(d) == d >= MaxDepth
Advance_Stays(s, rest) == Loop(s, rest)
Advance(s, rest) == Loop(s, Tail(rest))

\* "Check transitions on activate": the first valid transition is fired and ends
\* the loop, unless transitions have been activating each other too deep.
TestTransition(th) ==
  /\ Calling(th, "test")
  /\ LET s == Top(th).s
         t == Head(Top(th).rest)
     IN  IF s \in Check /\ valid[t]
         THEN IF TooDeep(depth)
              THEN Return(th, <<>>) /\ UNCHANGED depth
              ELSE /\ depth' = depth + 1
                   /\ Return(th, <<Fire(t), Leave>>)
         ELSE Return(th, <<Advance(s, Top(th).rest)>>) /\ UNCHANGED depth
  /\ UNCHANGED <<active, enabled, pmDisabled, trans, tEnabled,
                 valid, triggering, posted, history>>

LeaveTransition(th) ==
  /\ Calling(th, "leave")
  /\ depth' = depth - 1
  /\ Return(th, <<>>)
  /\ UNCHANGED <<active, enabled, pmDisabled, trans, tEnabled,
                 valid, triggering, posted, history>>

\* Fault: the two are swapped.
Switch_DestFirst(t) == <<Set(Dst[t], TRUE), Set(Src[t], FALSE)>>

\* "First deactivate this one just in case the dest state instantly reactivates
\* this one..." (StateTransition.cpp).
Switch(t) == <<Set(Src[t], FALSE), Set(Dst[t], TRUE)>>

\* StateTransition::triggerConsequences(true).
FireTransition(th) ==
  /\ Calling(th, "fire")
  /\ Return(th, IF active[Src[Top(th).t]] THEN Switch(Top(th).t) ELSE <<>>)
  /\ UNCHANGED data

\* The end of Trigger::trigger, and of the pulse that called it.
ReleaseTrigger(th) ==
  /\ Calling(th, "release")
  /\ LET t == Top(th).t
     IN  /\ triggering' = triggering \ {t}
         /\ valid' = [valid EXCEPT ![t] = @ /\ t \notin Pulsed]
  /\ Return(th, <<>>)
  /\ UNCHANGED <<active, enabled, pmDisabled, trans, tEnabled,
                 depth, posted, history>>

Step(th) ==
  \/ HandleLoadActivation(th) \/ HandleEnabled(th) \/ SetValue(th)
  \/ HandleActiveChanged(th) \/ ComputeDisabled(th) \/ SetForceDisabled(th)
  \/ StateActivationChanged(th) \/ SetStateActive(th)
  \/ VisitTransition(th) \/ TestTransition(th) \/ LeaveTransition(th)
  \/ FireTransition(th) \/ ReleaseTrigger(th)

-----------------------------------------------------------------------------
\* What a thread with nothing to do may start.

\* A parameter makes the conditions of a transition valid or invalid: only the
\* change to valid triggers it.
ChangeConditions(t) ==
  /\ t \in Existing \ (OnActivate \union Pulsed)
  /\ valid' = [valid EXCEPT ![t] = ~@]
  /\ IF valid'[t] /\ CanTrigger(t)
     THEN Begin(Message, <<Fire(t), Release(t)>>) /\ triggering' = triggering \union {t}
     ELSE Begin(Message, <<>>) /\ UNCHANGED triggering
  /\ UNCHANGED <<active, enabled, pmDisabled, trans, tEnabled,
                 depth, posted, history>>

\* A trigger pulses the condition of a transition, on the thread it is triggered
\* on: valid, then invalid again.
PulseConditions(th, t) ==
  /\ t \in Existing \cap Pulsed
  /\ LET fires == ~valid[t] /\ CanTrigger(t)
     IN  /\ valid' = [valid EXCEPT ![t] = fires]
         /\ triggering' = IF fires THEN triggering \union {t} ELSE triggering
         /\ Begin(th, IF fires THEN <<Fire(t), Release(t)>> ELSE <<>>)
  /\ UNCHANGED <<active, enabled, pmDisabled, trans, tEnabled,
                 depth, posted, history>>

\* The "Active" parameter of a state is set, by the user, a command or a script.
Activate(th, s) ==
  /\ ~active[s]
  /\ Begin(th, <<Set(s, TRUE)>>)
  /\ UNCHANGED data

Deactivate(th, s) ==
  /\ "deactivate" \in Edits /\ active[s]
  /\ Begin(th, <<Set(s, FALSE)>>)
  /\ UNCHANGED data

\* A state is enabled or disabled.
EnableState(th, s) ==
  /\ "enable" \in Edits
  /\ enabled' = [enabled EXCEPT ![s] = ~@]
  /\ IF th = Message THEN Begin(th, <<Enabled(s)>>) /\ UNCHANGED posted
     ELSE Begin(th, <<>>) /\ Post(th, Enabled(s))
  /\ UNCHANGED <<active, pmDisabled, trans, tEnabled, valid,
                 triggering, depth, history>>

EnableTransition(t) ==
  /\ "toggle" \in Edits /\ t \in Existing
  /\ tEnabled' = [tEnabled EXCEPT ![t] = ~@]
  /\ Begin(Message, <<>>)
  /\ UNCHANGED <<active, enabled, pmDisabled, trans, valid,
                 triggering, depth, posted, history>>

\* Fault: an active destination is not considered.
Joined_SourceOnly(t) == IF active[Src[t]] THEN <<Unlink(Src[t])>> ELSE <<>>
Joined(t) ==
  IF active[Src[t]] THEN <<Unlink(Src[t])>>
  ELSE IF active[Dst[t]] THEN <<Unlink(Dst[t])>> ELSE <<>>

\* StateManager::itemAdded: the source, else the destination, if it is active,
\* makes every state it is now linked to inactive.
AddTransition(t) ==
  /\ "link" \in Edits /\ t \notin Existing
  /\ \A u \in Existing : Src[u] # Src[t] \/ Dst[u] # Dst[t]
  /\ trans' = Append(trans, t)
  /\ valid' = [valid EXCEPT ![t] = FALSE]
  /\ tEnabled' = [tEnabled EXCEPT ![t] = TRUE]
  /\ Begin(Message, Joined(t))
  /\ bridged' = (bridged \/ (~active[Src[t]] /\ ~active[Dst[t]]))
  /\ UNCHANGED <<active, enabled, pmDisabled, triggering, depth, posted, ever>>

\* A transition is removed by the user while no thread is using it.
RemoveTransition(t) ==
  /\ "unlink" \in Edits /\ t \in Existing
  /\ \A th \in Threads : stack[th] = <<>>
  /\ trans' = Selected(trans, Transitions \ {t})
  /\ UNCHANGED <<active, enabled, pmDisabled, tEnabled, valid, triggering,
                 depth, stack, posted, history>>

Environment ==
  \/ \E th \in Threads :
       \/ \E t \in Transitions : PulseConditions(th, t)
       \/ \E s \in States : Activate(th, s) \/ Deactivate(th, s) \/ EnableState(th, s)
  \/ \E t \in Transitions :
       ChangeConditions(t) \/ EnableTransition(t) \/ AddTransition(t) \/ RemoveTransition(t)

\* A project just loaded: any saved activity, processors already set by the
\* loading, and one thread about to run endLoadFile over the states.
Init ==
  /\ active \in [States -> BOOLEAN]
  /\ enabled = [s \in States |-> TRUE]
  /\ pmDisabled = [s \in States |-> ~active[s]]
  /\ trans = Start
  /\ tEnabled = [t \in Transitions |-> TRUE]
  /\ valid \in {[t \in Transitions |-> FALSE],
              [t \in Transitions |-> t \in ToSet(Start) \ (OnActivate \union Pulsed)]}
  /\ triggering = {}
  /\ depth = 0
  /\ posted = <<>>
  /\ \E order \in SetToSeqs(States) :
       stack = [th \in Threads |->
                 IF th = Message THEN [i \in 1..Len(order) |-> Load(order[i])] ELSE <<>>]
  /\ ever = {s \in States : active[s]}
  /\ bridged = FALSE

Next == (\E th \in Threads : Step(th)) \/ HandlePosted \/ Environment

Spec == Init /\ [][Next]_vars

\* A thread inside a call goes on; nobody is obliged to start one.
FairSpec == Spec /\ WF_vars(HandlePosted) /\ \A th \in Threads : WF_vars(Step(th))

-----------------------------------------------------------------------------
TypeOK ==
  /\ active \in [States -> BOOLEAN] /\ enabled \in [States -> BOOLEAN]
  /\ pmDisabled \in [States -> BOOLEAN]
  /\ trans \in Seq(Transitions)
  /\ tEnabled \in [Transitions -> BOOLEAN] /\ valid \in [Transitions -> BOOLEAN]
  /\ triggering \in SUBSET Transitions
  /\ depth \in 0..MaxDepth
  /\ stack \in [Threads -> Seq(Calls)] /\ posted \in Seq(Calls)
  /\ ever \in SUBSET States /\ bridged \in BOOLEAN

AtRest == posted = <<>> /\ \A th \in Threads : stack[th] = <<>>

\* At most one of the states linked by transitions runs once the handlers are
\* over, whoever activated which, on however many threads, whatever transitions
\* are created and removed.  One edit is not covered: a transition created
\* between two inactive states joins the states linked to each, of which one
\* each may run, and StateManager::itemAdded looks at its two ends only.
OneRunning ==
  AtRest /\ ~bridged => \A s \in States : Running(s) => \A l \in Linked(s) : ~Running(l)

\* "If active, the state's actions and mappings will be effective, otherwise
\* this state won't do anything" (State.cpp): at rest the processors are
\* enabled exactly in the states that run.
ProcessorsFollow == AtRest => \A s \in States : pmDisabled[s] = ~Running(s)

\* Transitions never leave a machine with no active state: as long as the user
\* does not deactivate states, a group of linked states where one has been
\* active has an active one.
NeverLost ==
  AtRest => \A s \in ever : \E l \in {s} \union Linked(s) : active[l]

\* A cascade of activations always ends, even when valid transitions checked
\* on activation form a loop.
Quiesces == \A th \in Threads : []<>(stack[th] = <<>>)
=============================================================================
