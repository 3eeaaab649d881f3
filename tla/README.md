# Formal models of Chataigne

Chataigne connects devices and software for shows: modules receive and send
values, a state machine decides which actions and mappings are in force,
sequences run on a time line. These TLA+ modules model the part that decides
*when something happens*, and between which threads: conditions, states and
transitions, delayed consequences, mappings, presets, sequences and their time
triggers, and the queue through which threads speak to the message thread. TLC checks
them on small instances, TLAPS proves theorems of them for every instance.

## Inventory of the system

| Part | State | Operations | Hard behaviour | What makes it correct | Here |
|---|---|---|---|---|---|
| Conditions, `ConditionManager` | validity of each condition; validity, target, progress, timer and step of the manager | source changes, enable, add, remove, undo, operator, delays, timer | order of listeners, nested re-checks, values ahead of notifications, stale timers | validity is the operator's verdict, without transients, not before its delay; no step lost | modelled |
| `State`, `StateManager`, transitions | active, enabled, processors' forceDisabled, transitions, activation depth | set active, enable, link, unlink, conditions that fire, end of loading | handlers that activate others inside handlers; two threads | one running state per linked group, processors follow, cascades end | modelled |
| `ConsequenceManager`, stagger launcher | lists of launches, event, clock | trigger, cancel, launch, remove an item, destroy | a thread, a lock for part of what it reads, re-entrant triggers, counter that wraps | each in order, in time, once, never after a cancellation | modelled |
| `Action` | validity flags, consequences on and off | conditions validated, trigger, disable | consequences change its own sources | consequences once per validation | in part, with the two above |
| `Parameter`, `Trigger` | value; isTriggering | set, notify | handlers posted from other threads | no notification is lost | as the others use it |
| `BaseManager` | list of items | add, remove, undo | edits while another thread reads | no read of a removed item | as the others use it |
| `QueuedNotifier` | ring, size, update posted, listeners | add, handle, clear, destroy | overflow, wrap, destruction, several senders | in order and once; dropped only when told to; no message left waiting | modelled |
| `Mapping`, its filters and outputs | four flags, two recursive locks, timer thread, chain, output values | process, rebuild, edits, timer | process and rebuild on three threads, and within one another | a rebuild asked for happens, none during a process; the last value is sent; no deadlock | modelled, but for ranges and loading |
| `CVGroup` presets | target, source and target values, thread | go to preset, kill, set | thread replaced while it ends; a target forgotten without the lock | the last preset wins; nothing replaced while used; no target left over | interpolation modelled, no morphing |
| `Sequence` | time, playing, seeking, target and previous time, play thread | play, stop, pause, seek, loop, finish, reverse | play thread, posted time changes, a wait with a limit | the thread follows isPlaying; a stop is kept; no deadlock | modelled, but for cues and audio |
| `TimeTrigger`, its manager | isTriggered, collision, canTrigger of each | cross, enter, release, reset | consequences that stop the sequence under the walk | each held bar released exactly once, none held when stopped | modelled, but for edits |
| Commands, parameter links | a call, a link | trigger | run on the caller's thread, with its locks | - | effects only |
| Conductor, Multiplex | indices | next cue, resize | - | indices do not interact | one index |
| Modules (OSC, MIDI, MQTT, DMX...) | connections | receive, send | threads of their own | - | as threads that set sources |
| Engine, undo, files, scripts, remote control | project tree | load, clear, undo | loading while threads run | - | as initial states and edits |
| User interface, drivers, servers | - | - | - | - | not modelled: drawing and I/O |

How they interact: a parameter takes its value on the thread that sets it; its
listeners are called at once when that is the message thread and from a posted
message otherwise (`Parameter::notifyValueChanged`). A condition listens to a
parameter and tells its manager, which tells its action, which triggers its
consequences or, when the action is a transition, switches two states. A
consequence manager with a delay hands its items to the launcher's thread.
A trigger (`Trigger::trigger`), unlike a parameter, calls its listeners on the
thread it is fired from. A mapping is processed on the thread that its input
changes on, or on its own timer thread, and rebuilt by the message thread or, when
a range changes, by the input's. A sequence's play thread sets its time; the
handlers of that time, with the triggers they fire, run on the message thread.
Asynchronous events go through a `QueuedNotifier`.

## Modules

| Module | Models |
|---|---|
| `ConditionManager` | the conditions of one action, the manager that combines them, another thread that sets sources |
| `ConditionManager_proofs` | its theorems: types, index of a sequence, no step lost; AND and OR, debounced and true to the sources |
| `Selection` | an operator: the elements of an array that a loop keeps |
| `SequenceFacts_proofs` | lemmas about sequences, the sets and counts of their elements, `Selected` |
| `StateMachine` | states, transitions, the calls a handler makes, on several threads |
| `StateMachine_proofs` | its theorems: types, one running state, processors, activity |
| `DelayedConsequences` | abstract: what a delayed manager promises |
| `StaggerLauncher` | the thread, the lists, the lock and the clock that keep the promise |
| `StaggerLauncher_proofs` | its theorems: the lists, destroyed managers, the promise |
| `NotificationQueue` | abstract: what a notifier promises |
| `QueuedNotifier` | the ring, the lock and the asynchronous update that keep it |
| `QueuedNotifier_proofs` | its theorems, with the refinement |
| `PresetInterpolation` | going to a preset, and the interpolation thread |
| `PresetInterpolation_proofs` | its theorems: the thread is alone, no target is left, the last preset wins |
| `Mapping` | processes and rebuilds of a mapping, on three threads |
| `Mapping_proofs` | its theorems: types, whole chain, flags, deleted filters |
| `TimeTriggers` | the triggers of a time line: operators, no state |
| `SequencePlayer` | the play thread, the message thread that walks the triggers, another thread |
| `SequencePlayer_proofs` | its theorems: types, the thread of a sequence that plays, bars held until their release, silence once it is stopped |
| `MC...` | constants for TLC |

Operators named `X_Something` after an operator `X` are faulty variants of it;
nothing uses them. Each property of a passing run is violated when `X` is
replaced by one of them.

### ConditionManager

One action is one call that the message thread makes, run to its end:
`ChangeSource` gives a source its value and lists the listeners to call
(`pending`), `Deliver` calls one, in any order, and covers
`StandardCondition::checkComparator`, `setValid`, `conditionValidationChanged`
and `checkAllConditions`. The conditions which `conditionValidationChanged`
defers (`deferred`) are the next steps, before anything else. `PostSource` is
another thread: the value is new at once, the calls wait in `queue`, so that a
handler may read a value whose own notification has not come. `mgr` is one
record, the manager's fields for one index.

The comparator of a condition is the set of values it holds for (`HoldsFor`):
properties tell apart only whether it holds. The progress of a delay is counted
in ticks of the timer; `Full` ticks end it. `held` and `due` are histories that
properties read and no action does.

Assumptions: the sources that one handler reads do not change while it runs; a
consequence does not change the sources of its own action before the handler
that fires it is over; indices of a multiplex do not interact. `Deliver` is about
sources that have a value: a condition on a trigger, which is valid for the length of
one call, and edits of a condition's comparator, source or Toggle Mode are not modelled.

### StateMachine

A thread has a call stack (`stack[th]`), the calls it has still to make; a step
makes the first, which may put others before the rest. So the loop of
`State::handleActiveChanged` over its transitions, its nested activations and
the deactivation of linked states are apart, and steps of two threads
interleave. A thread that is not the message thread sets a value and posts the
handler (`posted`).

The conditions of a transition are a flag, `valid`: they become valid or
invalid by themselves (`ChangeConditions`), by a trigger which pulses them on
the thread it is fired from (`PulseConditions`), or when the source state is
activated (`OnActivate`). `triggering` is the flag of `Trigger::trigger` that
drops a trigger fired within itself. `VisitTransition` begins with `forceCheck(false)`
(`Forced`), which may find conditions valid or not that nobody has told the manager of, and
triggers nothing. Of a transition's consequences only the switch of states is modelled: what
else it lists is commands.

`bridged` records that a transition was created between two inactive states.
`StateManager::itemAdded` looks at the two ends only, so such a transition may
link two groups that each run a state: `OneRunning` is stated up to that edit.

### DelayedConsequences and StaggerLauncher

The abstract module has no thread and no list: a launch is a record with its
next item and its age, fires when it is due, in order, and disappears when it
is finished or cancelled. `StaggerLauncher` has `ConsequenceStaggerLauncher` as
it is: `launches` is walked under its lock, `toAdd` and `toRemove` take what
comes meanwhile, the event of `notify` is kept until the next wait, the counter
is an integer modulo `Wrap` (2^32 in the code). `triggerAll` is four steps for
another thread (cancel; look at the items; add; notify), and one with the firing of the item
when the launcher itself makes it, holding the lock. Steps of a pass are apart
because the items are edited, and the clock goes on, without that lock: a launch is looked
at (`CheckLaunch`), may be fired (`FireLaunch`), and only then is asked whether it is
finished (`FinishLaunch`), when its last items may have gone. A launch whose items left
are all disabled goes past them without firing (`PassOver` in the abstract module).

The refinement maps `live` to the launches that are in `launches` and not
marked, or in `toAdd`. The age of a launch is the true time since its trigger,
which no action of the launcher reads: only `start` and `now` are, so that
`Promise` says the arithmetic on the wrapping counter gives the true time.

### NotificationQueue and QueuedNotifier

The abstract module has the messages that wait and those being delivered, and says
when one may be dropped.
`QueuedNotifier` has `juce::AbstractFifo` (two indices of a ring, one slot
always empty), the array of slots that grows on demand (`size`), `queueLock` and
the pending update (`posted`). A critical section is one step; the look at
`isBeingDestroyed`, `triggerAsyncUpdate` and each call of listeners are steps of
their own, so that a sender may write while the message thread calls, and the
destructor's three parts fall between the parts of `addMessage`. In the
abstract queue what waits is the ring, oldest first, and what is taken is
`messagesToDeliver`: the messages that wait are taken all together, an overflow may
drop one only when `MaxSize - 1` wait, and clearing loses none that was taken. `heard` and
`latest` are histories: the last message of each sender that listeners, or coalesced
listeners, heard.

A message of the message thread itself is delivered at once and so overtakes what
waits; the abstract queue says so (`Direct`). `forceSendNow` is left out: no caller passes it,
and without it only the message thread delivers at once. After the notifier is gone no thread
goes on inside `addMessage`; in the program it would use freed memory.

### PresetInterpolation

`pc` is where each thread is in a command: `goToPreset` stops the thread
(`SignalExit`, `Joined`, under `juce::Thread`'s own lock), takes
`interpolationLock`, builds and starts; a kill stops and forgets the target. `run`
is where the interpolation thread is; it sets one variable per step, and forgets the
target without the lock as it ends. `interpolation.use` counts how often what the
thread uses was replaced, which only `NeverReplaced` reads. A value is the preset it
belongs to, `Own` or `Mixed`: properties tell apart only whether a variable has
arrived. The curve's weight is taken to be the relative time.

`LastPresetWins` is about `asked`, the preset the values are to reach: the last one
gone to, none once a kill has ended or a preset was set by another command.

### Mapping

A thread has a stack of steps, the calls it has still to make. `process` locks
`mappingLock`, then the list of filters, walks the filters and sends; a command
that an output sends may change a filter's parameter, which rebuilds or asks for a
rebuild on the same thread (`ParameterEdit`): the locks are recursive, so only the
flags protect the chain there. `config` counts edits and `built` is the configuration
the chain was built for, so "the rebuild asked for was made" is `built = config`.
A thread's `held` is what it processes: the value and the filters that it walks.
The timer thread tries both locks and skips a pass when it gets neither.

The walk looks at `needsRebuild` again (`Walk`), and the look at
`shouldRebuildAfterProcess` and its reset are two steps (`Unlock`, `After`). A change of one
filter asks for the chain after that filter (`askAfter`): such a request, unlike others, is
dropped while a rebuild is under way. When it is not dropped, the module rebuilds the whole chain,
as `built = config` needs no less than what has changed.

A multiplexed mapping processes two indices, one of which may be gone at the
moment an edit changed the chain (`IndexGone`).

### TimeTriggers and SequencePlayer

`TimeTriggers` is functions of one trigger's record: `Crossed`, `Under`,
`Released`, `Exited` with the options of evaluation and exit, and `Timespan`, the
ends that a time span crosses, in their order. `SequencePlayer` has the play thread
(`player`, `target`, `next`) with its frame split where it reads or writes
something shared (the checks of a frame and its `Advance`; the reads of `targetTime` in `End` and
`Offset`; the writes of `Jump` and `Retarget`; a stop may fall between), and a stack for the message thread and for another thread. The
consequence of a trigger gives commands (`Effect`), which run within the walk:
`Gives` puts them before the rest of the walk; an invalid exit of both gives them too
(`FiresBoth`). `posted` are the calls that the play
thread or the other thread posts: a time, a play state, or a loop.

`waitForThreadToExit(300)` is left by the thread's end, or because the thread waits
for what the waiting thread holds (`Stuck`): the 300 ms are taken to be long enough
otherwise. `StateChanged` takes over `wasPlaying` before the releases, the code after them
(TimeTriggerManager.cpp:242): only a `sequencePlayStateChanged` nested in a release reads it
meanwhile, and if the sequence is still stopped it releases the bars that are about to be
released anyway. It differs when the sequence is started during a release, by another thread or by
a FALSE consequence: `Effect` has commands for TRUE consequences only, and the runs and
`OneStarter` let only the message thread start. `sounding` counts TRUE consequences less FALSE ones: it is what a player
hears, and no action reads it.

## Runs

| Run | Question | Result |
|---|---|---|
| CombineConditions | AND, OR, with delays, edits and a second thread: type, verdict at rest, no transient, debounce, liveness | holds |
| SequenceConditions | SEQUENTIAL, with removal, undo, enabling, force-disabling: index in range, no step lost | holds |
| Activation | cascades over a cycle of states: type, one running state, never lost, cascades end | holds |
| StateEdits | two threads; transitions created and removed, states deactivated and enabled: one running state, processors follow | holds |
| Launches | the launcher implements the promise, owns its launches, never uses a destroyed manager, ends every launch | holds |
| RemovedItem | "check if last item" | violated: the check is made before the lock is taken |
| Notifications | the notifier implements the queue; ring, wake-ups, coalesced listeners, senders get out | holds |
| Presets | commands of two threads against the interpolation thread | holds |
| Mappings | edits, values and ranges against the timer thread, with commands that edit within a process | holds |
| TimeLine | bars on a time line that loops or ends, with seeks, stops and restarts, also from a consequence and another thread | holds |
| OverwrittenStop | "so a Stop's jump to 0 is never overwritten" | violated: another thread stops between the frame's check and the loop's jump |
| HangingBar | "can never hang past the end of playback" | violated: a consequence pauses the sequence while triggers are walked |

### Bounds, and why they are enough

* Conditions: three, on two sources with two or three values, c1 and c2 on one
  source with comparators that overlap and differ: both hold, only one does,
  none does. `Full = 2` ticks tell "started", "half-way" and "done" apart. One
  change by another thread may wait (`MaxQueue`), which already puts a value
  ahead of its notification; more only repeat that.
* States: three in a cycle with a two-state loop inside and every kind of
  condition (Activation); three in a line with two threads, which set them in
  every order, and edits of the two transitions (StateEdits): creating the second
  joins two groups. `MaxDepth` is 3 or 2 (32 in the code): the loop of two
  states reaches it. `MaxPosted`: no thread but the message thread starts while
  more are posted.
* Launches: a manager with three items, the first disabled, one a group with a delay
  of its own, hence launches that launch, and whose last item is disabled; one triggering thread beside the
  launcher; two launches by that thread at once, four in all; `Wrap = 5`
  is the least that exceeds the delays and the lag of a pass, so every launch
  soon straddles the wrap. `Oldest` caps ages at the longest delay. `MaxLag`
  bounds how late a pass is; without a bound the counter could wrap during
  a pass, which is 49 days. One item is removable, at any time except, in
  the passing run, between the two looks of `processLaunch` at the list before it fires
  (`Meanwhile`):
  RemovedItem shows what happens there. A manager is destroyed only when no
  thread and no group triggers it.
* Notifications: three slots, one of which stays empty, and two messages of each
  of three threads: the ring fills, wraps and is emptied in between.
* Presets: two presets, gone to at once or over time, two variables of different
  modes, two passes of the thread at most (`Steps`), two commands of each thread.
  Every place of the thread then meets every place of a command. A variable is not
  removed during an interpolation (`RemoveWhileRunning`; see the observations).
* Mappings: one filter, continuous, so that the timer thread exists exactly while it is there,
  enabled, or the process is forced; two edits, one change of an input on its thread.
  Two edits are the least that leave one asked for while another is built. One rebuild handed
  to the message thread waits there (`MaxPosted`); the next one handed over is the same.
* TimeLine: three frames of time, a frame late by none; two bars that start together
  and end apart; two commands or edits. `MaxPosted` keeps the play thread at most a
  frame ahead of the message thread. OverwrittenStop has frames that may be late, so
  that the loop does not jump to 0 itself.

Deadlock is checked in the runs of ConditionManager, StateMachine and
StaggerLauncher. The other systems may rest for ever when nobody uses them; their
`CallsEnd`, `Settles` and `Delivered` say that nobody waits for ever.

### Fairness

* ConditionManager: weak fairness of `Listener` (the message thread finishes the
  calls it has begun); strong fairness of `HandlePosted` and `TimerCallback`: both
  are messages on one queue, so that others come between but do not overtake
  them for ever, although each is disabled again and again by handlers under
  way. None on sources or the user.
* StateMachine: weak fairness of each thread's next call and of `HandlePosted`.
  Nothing obliges a thread to start.
* StaggerLauncher: weak fairness of the launcher's thread, of the clock and of
  a thread inside `triggerAll`; none on triggers, cancellations and edits.
  `Completes` needs the clock, since a wait without end is left by time or by
  the event.
* QueuedNotifier: weak fairness of a thread inside `addMessage` and of the message
  thread's update and calls; none on sending, listening or destroying.
* PresetInterpolation: weak fairness of each thread within a command, of the message
  thread's calls and of the interpolation thread; none on commands.
* Mapping: strong fairness of the calls of the message thread and of inputs: they
  compete for locks with a timer thread that holds them again and again but
  sleeps between two passes; for the same reason strong fairness of handling
  a posted rebuild, and of `SetFlag` on the message thread, while no process is under
  way. A request that finds a process under way is left to the end of it, and could be for ever
  handed over and left again; the timer sleeps most of its period, so of infinitely many some
  come while it does. Weak fairness of the timer.
* SequencePlayer: strong fairness of the message thread, of the other thread's calls
  and of the play thread, which sleeps between frames: a lock that is free
  again and again is taken. None on commands.

## Proofs

`ConditionManager_proofs` proves, for every set of conditions, sources and
values, every comparator, every `Full` and every bound:

* `TypeCorrect`: `Spec => []TypeOK`;
* `IndexInRange`: `Spec => []StepInRange`, the sequential index designates a
  condition whenever there is one, and an empty manager waits for nothing;
* `EveryStepIsTaken`: `Sequencing => (Spec => []StepTaken)`.

The first two are not inductive by themselves. Their invariant is `Wellformed`: the types,
the index in range, and `Sound`, which says of the manager's record that the
progress is between 0 and `Full` and the index non-negative. The index
in range needs the list and the index together (a removal resets one as it
shortens the other, and an undo only lengthens the list); the empty manager needs
that a check of an empty list gives FALSE for every operator, so that
no timer started on an empty manager has target TRUE. The lemmas follow the
calls: `NextStepInRange` (the next step is in the list), `SetValidResult`,
`ApplyResult`, `CheckAllResult` for the functions of the manager, `OutcomeResult`
and `SetConditionResult` for a condition's, `RemoveAtResult` and
`InsertAtResult` for the list, `HistoryTyped` for the histories. `InitWellformed` and
`NextWellformed`, with one step per action, end it. The assumption is
`ConstantsAssumption`, the types of the constants.

`EveryStepIsTaken` adds `Stepwise`. A current step that has become valid and was not taken
(`due`) is either among the deferred conditions, whose check will be on its behalf, or an
Always Trigger condition whose own call is still to come (`Answered`); at rest there is
neither. The Always Trigger conditions need that they are up to date or going to be called
(`Attentive`), the checks that a condition is in the list once, so that its index is that of
the step (`Distinct`, `IndexOfDistinct`), and that a sequence is never left valid (`Instant`).
`Sequencing` has the three hypotheses: no delays (with one, the step is lost: observations), a
condition once in the list, as the program's lists have, and, where conditions may be enabled, no
Always Trigger condition on the source of another one (there its step is lost too:
observations). The edits that are left are all of them, and so is another thread's source.

Its last part proves the three properties of AND and OR under `Combining` (the operators are AND and OR;
the edits are removals, operators and delays), the last two also under
`NoToggle` (no condition in Toggle Mode):

* `DebouncedHolds`: `Combining => (Spec => Debounced)`;
* `AgreesAtRestHolds`: `Combining /\ NoToggle => (Spec => []AgreesAtRest)`;
* `VerdictIsCurrentHolds`: `Combining /\ NoToggle => (Spec => VerdictIsCurrent)`.

The restrictions are needed. Enabling and undo change conditions without
a check of the manager, force-disabling clears the validity
and leaves the target; a toggle depends on how often it was called, which is no
function of the present values.

The invariant is `Combined == Wellformed /\ Settled /\ Heard`. `Settled` is about the
manager: its target is the verdict of the present validities, its validity is
its target unless a timer runs, and a timer that counts towards validation has
counted no more ticks than the operator has been satisfied (`progress <= held`);
the last part gives `Debounced`. `Heard` is about the conditions: each one of the
list is still to be called, or late (another thread's change of its source
waits), or has the validity the present values give; the conditions still to be
called share one source; and as soon as one of them has told the manager
(`deferred # {}`), none is out of date but the late ones. This last part is why
`conditionValidationChanged` re-checks every condition on the source before the
manager is checked, and it is what `VerdictIsCurrent` needs. Every
call that ends in `checkAllConditions` goes through one lemma,
`FullCheckSettles`, every one that sets a condition through `SetConditionSettles`
and `SetConditionHeard`; `NextSettled` and `NextHeard` have one step per action.

`QueuedNotifier_proofs` proves, for any senders, any size of at least two slots and any
number of messages, `TypeCorrect`, `RingIsSound`, `WakeupIsNotLost`,
`CoalescedHearsTheLast` and `ImplementsQueue`. The invariant is
`IInv == TypeOK /\ SlotsSound /\ NoLostWakeup /\ Origin /\ LastIsHeard`: `Origin`
says that what waits comes from background threads, so that a coalesced listener is
told of one; `LastIsHeard` relates what was taken to `lastMessage`. `SlotsSound`
needs the arithmetic of the ring, which is in lemmas of its own (`NothingReady`,
`WriteRing`, `HandleTakes`...): after a write the ready slots are those of before and the one at
the end, after the update there is none. `ImplementsQueue` then has one step per
action: a write is `Accept`, an overflow or an ignored message is `Drop`, a call of listeners
is `Deliver`, taking the messages out is `Take`, `clearQueue` is `Clear`, the
destructor's parts are `Close`, and cancelling the pending update is a stutter.

`PresetInterpolation_proofs` proves `TypeCorrect`, `ThreadIsAlone`,
`TargetIsForgotten` and, unless variables are removed during an interpolation
(`RemoveWhileRunning`, FALSE in the passing run; see the observations), `LastOneWins`, for any presets, variables, threads, modes and bounds. The
invariant adds to the types `OthersKill` (only the message thread goes to a preset),
`Stopped` (from the end of its wait to the start of the thread nobody else
interpolates), `TargetIsUsed` (a target is there only for a thread that will forget
it) and `InStep`. `ThreadIsAlone` follows from `Stopped`: what the thread uses is replaced
only between the wait and the start. `LastOneWins` adds `Winning`: once a preset is asked for,
either a command that replaces or forgets it has already stopped the thread, or the
thread `Heads` for it: it begins with it, then uses it until it has done, and in the last
pass the variables before the one at hand have its value. `InLine` says that a pass
goes over all the variables, which a removal would break.

`StateMachine_proofs` proves, for every set of states, transitions and threads:

* `TypeCorrect`: `Spec => []TypeOK`;
* `OneOfLinkedRuns`: `Spec => []OneRunning`;
* `ProcessorsFollowStates`: `Spec => []ProcessorsFollow`;
* `ActivityKept`: `Undisturbed => (Spec => []NeverLost)`.

The calls still to be made, on every stack and among what is posted, carry all four
arguments: whatever is not yet as the property wants is going to be
set right by a call ahead. `Placed` says where calls may be (only the message thread
makes handlers' calls, `depth` counts the `leave` on its stack), which
bounds the nesting. `RunInv`: of two linked states that both run, a call ahead
`Settles` one, because it deactivates it, is the handler that deactivates its
rivals, or removes the link. `FollowInv`: processors that differ from their state have
an evaluation ahead, and no value read before is applied after another change. `LostInv`:
of the states joined to one that has been active, one is active with no
deactivation ahead, or has an activation ahead; it needs that calls are in an
order (`Ordered`: what comes before an activation does no harm), that only existing
transitions are walked and that a transition is removed by the next call or none.
`Undisturbed` is one thread and no edit that deactivates a state or removes a
transition. All three restrictions are needed: two threads deactivate each other's
state (observations), and the user may deactivate what he likes.

`StaggerLauncher_proofs` proves, for every set of managers, items and threads, every
delay and stagger below the wrap of the counter:

* `ListsOwnLaunches`: `Spec => []Owned`;
* `NoneIsDangling`: `Spec => []NoDangling`;
* `PromiseKept`: `Promised => (Spec => Promise)`.

`Inv == TypeInv /\ OwnInv /\ AliveInv`: no pointer is in two places, what is marked is in
`launches`, and a launch is of a manager that is alive unless it is marked; while
the lock is held, even if it is marked, since nobody can destroy the manager meanwhile. `PromiseKept`
maps every step to a step of `DelayedConsequences` or a stutter: the beginning and
the end of a pass, which move and delete launches, are stutters, because `live`
has the unmarked of one list and all of the other. It needs `TimeInv`: the unsigned difference of counter
and start is at most the age (`OneLater` is its arithmetic, one tick further over
the wrap), what the pass has still to process is not marked, and the item about to be
fired is there and due. `Promised` has three parts. Ages are counted up to the longest
delay (`Oldest` is a bound of the model). No item calls a manager that cancels its delays:
a launch marked within a pass still fires in it, so the promise is broken (observations).
No item is removed between the launcher's check and its lock: RemovedItem shows the
crash. The passing run satisfies `Promised`.

`Mapping_proofs` proves, for every number of threads, filters, edits and
values, `TypeCorrect`, `ChainStaysWhole`, `FlagsAlwaysComeDown` and
`NoneIsDeletedInUse`. The invariant is `Inv == TypeOK /\ ShapeInv /\ LockInv /\
HoldInv /\ FlagInv /\ HeldInv`. A stack says which calls a thread is in by the steps that
are left: `ShapeInv` says which step may come before which (`Fits`: within a rebuild no
process is left, within a process no rebuild, some steps are only ever the next).
`LockInv` counts: what a thread is still to release of each lock is what it holds, so that no
lock is released by a thread that does not hold it. It does not say who holds `mappingLock`
within a process, as an edit within it takes the lock once more and releases it once more: `HoldInv`
does. `FlagInv`: a flag is up exactly while a stack has the step that resets it; two
threads cannot, since each would hold the lock. `HeldInv`: a process walks
filters of the configuration or removed ones, and removed ones only until the message
thread has had `filterLock`. `ChainIsWhole` then follows from `FlagInv` and
`HoldInv` between threads, and from `Fits` within one.

`SequencePlayer_proofs` proves, for every number of triggers, every length, points, bars,
options, effects and commands:

* `TypeCorrect`: `Spec => []TypeOK`;
* `ThreadFollows`: `OneStarter => (Spec => []PlayerFollows)`;
* `HeldUntilReleased`: `NoOnce => (Spec => []BarsAreReleased)`;
* `SilentOnceStopped`: `OneStarter, NoOnce, QuietSeeks => (Spec => []SilentWhenStopped)`.

`Typed` says of the stacks which steps there are and which may be below the first
(`Stacks`), and of the locks that a caller has as many releases ahead as it holds (`Locks`),
which is why the listeners' lock comes back to zero. That the time stays on the time line needs that
what a frame or a loop computes is cut to it before it is set (`player \in {"loop", "jump", "set"}`).

`Following` is about what a stack may still start. While the sequence plays, a start of the
thread is ahead, or the stack is in the wait that precedes it, or the thread is there, not on its
way out and not told to exit (`Threaded`); after a call that will set `playing` only triggers and
their returns come on its stack (`Nested`): it belongs to a command and is not nested in a
handler. `OneStarter` is that only the message thread's own calls
start the sequence, neither consequences nor the other thread, which may still
stop, pause and seek anywhere; without it the property is false (observations).

`Sounding` is `Fits` of every trigger, the flag and the count together with
`can = valid`, and `Cleared`: before each reset of the flags on the stack are the
releases of all triggers but for those already made, and these are not
triggered. What comes between, the consequences of a release, is pushed before the
rest and has its own releases before its own reset (`Whole`). It needs of `Timespan` and `Walk` only that
every reset they contain has all its releases, so nothing of the fold
but what kinds of steps it lists. `NoOnce` is that no bar fires only once: there a reset may
clear the flag of a bar that has just been set (observations).

`Silent` says why nothing is left sounding. The layer learns that the sequence stopped from
the handler of `isPlaying`, which is ahead on the stack or posted (`Informed`), and which releases
every trigger; from then on, until the layer learns of a start, each step on the stack that may fire a bar
has one after it that releases it (`Balanced`). What could fire while the layer does not know
that the sequence plays is a walk, and such a walk goes back to 0 (`Rewinding`): it crosses the
end of a bar, which may fire it, before its begin, which releases it (`BackwardFrees`, from the
order that `InOrder` sorts the ends in), or only releases (`ReleasingWalk`). Nothing that
walks comes after the handler on the stack (`Apart`), unless a consequence has stopped the sequence
within a walk: that is what `interrupted` excepts, and the run of the finding shows the
walk going on. `QuietSeeks` is that `evaluateOnSeek` fires nothing while the sequence
is stopped: where it does, a seek into a bar of a stopped sequence fires it, and nothing
stops afterwards to release it. The passing run satisfies the three hypotheses.

`SequenceFacts_proofs` has what these proofs share: concatenation, head and tail as sets and
counts of elements, and `SelectedPicks`, which gives the function that `Selected` picks its
places with. What a recursive function on sequences computes is an induction over
its prefixes; the library's induction theorems take an operator, which the provers
cannot instantiate, so it is stated about sets: the least number outside a set of numbers
(`PrefixesExist` and the counts rest on it).

Only model-checked, and why:

* all liveness (`Follows`, `Quiesces`, `Completes`, `Delivered`, `Settles`,
  `CallsEnd`, `EditsAreBuilt`, `LastValueIsSent`): it needs fairness and ENABLED, out of
  the prover's reach.

## Observations beyond the runs

* When a condition is enabled or disabled, an Always Trigger condition on the same
  source is checked again too, but the manager is not told: it may become valid
  without a check of the manager, and a sequence that waits for it stays.
* Force-disabling a manager that waits for its validation leaves its target set
  with no timer; enabled again, it validates only after its verdict has changed.
* Undoing a removal, or adding a condition, checks nothing: the manager's
  validity is that of the list before, until something is notified.
* With two threads that activate two linked states at once, each handler
  deactivates the other's state, and none is active.
* `launches` stays locked while commands run: a slow command delays every
  thread that triggers a delayed manager.

The following were seen in the models, by runs that are not kept:

* Enabling a disabled invalid condition calls `setValid(false)`, which returns at once:
  an AND manager that was valid stays so (Condition.cpp:59).
* Disabling the valid condition of the current sequential step reaches the assertion of
  `checkAllConditions` (ConditionManager.cpp:234).
* With a validation time, a check made for another condition stops the timer of the
  current sequential step, whose condition stays valid (ConditionManager.cpp:240).
* `checkTransitionsOnActivate` fires a disabled transition (State.cpp:92).
* A launch cancelled by a consequence of the same pass still fires
  (ConsequenceManager.cpp:203, 276).
* Mapping: a rebuild asked for on another thread just before the one under way resets
  `rebuildPending` is lost (Mapping.cpp:127; Mapping.h:46), which is why
  `EditsAreBuilt` is stated up to ranges; one asked for just after the end of a process
  looked at its flag waits for the next process, for ever without a timer
  (Mapping.cpp:133, 312); so does one behind the early return for an index that is
  gone (:279). A value that changes during another thread's process, or between the
  timer's last pass and its stop, is not processed (:251, :465).
* With Send On Output Change Only, `setOutParams` notes a value as the last sent which
  no output was sent (MappingOutputManager.cpp:55): the process that follows does not send it.
* Sequence: `prevTime` is read again after the listeners were called
  (Sequence.cpp:360), so the triggers between the time they were given and the one
  the play thread has set since are skipped; so is the last frame before Finish.
* Sequence: a consequence that stops and restarts the sequence may wait for a play thread that waits for
  it; after 300 ms the thread still runs, so none is started, and then it ends as
  it was told to: the sequence plays with no thread (Sequence.cpp:377 to 390). The same when another thread starts it.
* With Evaluate On Seek "always" or "not playing", a seek into a bar while the sequence is stopped
  fires it, and it stays triggered until the next start has come and gone or the time leaves it.
* A bar with "once" beside others with "always" is held when `handleLoop` clears the
  flag of one that the re-evaluation of another has just set (TimeTriggerManager.cpp:291).
  A held bar that is removed never releases.
* Presets: a variable removed during an interpolation shifts the source values
  (the assertion of CVGroup.cpp:142); `goToPreset` refuses a preset whose interpolation is
  about to forget it; a kill that ends late clears the target of a `goToPreset` made meanwhile, and
  a disabled group is not set at once but is interpolated.
* Notifier: what the message thread adds overtakes what waits in the queue.

## Plan

1. ConditionManager, its runs and its theorems. Done.
2. StateMachine. Done; removal and undo of states to be added.
3. DelayedConsequences, StaggerLauncher. Done; edits of delays to be added.
4. TimeTriggers, SequencePlayer. Done; cues, other layers and edits to be added.
5. Mapping. Done; range-only rebuilds and play-thread ticks to be added.
6. PresetInterpolation and its theorems. Done; the morpher to be added.
7. QueuedNotifier, its refinement and its theorems. Done.
8. An Action composed of ConditionManager and the launcher.

Every safety invariant and action property that a passing run checks is a theorem, but for the
ones listed above; to come: the theorems of what the plan still adds.

## Not modelled

* Conditions: triggers as sources; edits of a comparator, a source or Toggle Mode.
* Transitions: their consequences other than the switch of states.
* Notifier: `forceSendNow`, which no caller passes.
* Mapping: rebuilds for a range only, or of a part of the chain, loading, the ticks of a sequence's play thread
  that process a mapping, the option that compares inputs, `setForceDisabled` apart
  from enabling, what a filter computes, a multiplex of more than two indices.
* Sequences: cues, a time driven by audio, the view, the ticks of other layers,
  disabled layers and triggers, edits of triggers. Points are in the module; the
  instances have bars, which hold something. `SilentWhenStopped` is stated up to a
  consequence that stops the sequence within a walk, and for instances where only
  the message thread starts it.
* Presets: the curve of an interpolation, morphing between presets and its weights, randomising, the command that
  sets values between two presets, load and save.
* Modules, drivers and servers, the user interface, the dashboard and the script
  engine: I/O and drawing, most of it through libraries. They appear as threads that
  set values and as edits.
* Loading, saving and undo of a project: each module's Init is what loading leaves,
  and an undo is an edit.
* The vendored libraries, which are most of the repository's lines.
