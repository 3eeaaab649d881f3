------------------------------ MODULE Mapping ------------------------------
(***************************************************************************)
(* A mapping (Common/Processor/Mapping) between the threads that process   *)
(* it and those that rebuild its chain of filters: the message thread,     *)
(* which edits it, the threads that its inputs change on, and its own      *)
(* timer thread, there when a filter is continuous.                        *)
(*                                                                         *)
(* The calls that a thread is in are its stack of steps, the next one      *)
(* first.  Values are numbered, and filters leave them as they are.  The   *)
(* parts of the chain that edits change are counted; a chain is built for  *)
(* a configuration.  A multiplexed mapping has one index that is always    *)
(* there and another that an edit may have brought.  Range-only rebuilds   *)
(* and loading are left out.                                               *)
(***************************************************************************)
EXTENDS Naturals, Sequences

CONSTANTS MessageThread, Inputs, Timer,   \* threads
          Filters, Continuous,            \* filters, those that process the same value again
          SendOnOutputChangeOnly,
          Multiplexed,
          MaxEdits, MaxChanges,           \* bounds: edits, changes that an input makes,
          MaxPosted,                      \*   rebuilds that wait for the message thread
          None

Threads == Inputs \cup {MessageThread, Timer}

ASSUME ThreadAssumption == /\ MessageThread # Timer /\ {MessageThread, Timer} \cap Inputs = {}
                           /\ None \notin Threads
ASSUME FilterAssumption == Continuous \subseteq Filters
ASSUME BoundAssumption == /\ MaxEdits \in Nat /\ MaxChanges \in Nat /\ MaxPosted \in Nat
                          /\ {SendOnOutputChangeOnly, Multiplexed} \subseteq BOOLEAN

VARIABLES stack,        \* the steps that each thread has to do
          mappingLock, filterLock,   \* recursive locks: which thread holds them, how many times
          flags,        \* isRebuilding, isProcessing, shouldRebuildAfterProcess, rebuildPending
          fm,           \* needsRebuild and isRebuilding of the filters, and what is being built
          config,       \* the filters there are, the enabled ones, how many edits were made
          built,        \* the configuration that the chain is built for
          removed,      \* filters out of the list but not deleted
          enabled, forced, updateRate,   \* forceContinuousProcess, and updateRate->enabled
          startStopLock, shouldExit,     \* of the timer thread
          posted,       \* rebuilds posted to the message thread
          input,        \* the last value of the inputs
          out,          \* the value last sent to the outputs, and prevMergedValue
          held,         \* what each thread processes: the value, the filters it went through
          edits, changes,  \* history: how many were made
          ranged           \* history: a range has changed

locks == <<mappingLock, filterLock>>
timer == <<updateRate, startStopLock, shouldExit>>
chain == <<fm, built>>
edited == <<config, removed, enabled, forced>>
values == <<input, out, held>>
counts == <<edits, changes, ranged>>
vars == <<stack, locks, flags, chain, edited, timer, posted, values, counts>>

Free == [by |-> None, n |-> 0]
Nothing == [value |-> 0, filters |-> {}]
Running == stack[Timer] # << >>

Init == /\ stack = [t \in Threads |-> << >>]
        /\ mappingLock = Free /\ filterLock = Free
        /\ flags = [rebuilding |-> FALSE, processing |-> FALSE, after |-> FALSE, pending |-> FALSE]
        /\ fm = [needsRebuild |-> FALSE, rebuilding |-> FALSE]
        /\ config = [filters |-> {}, enabled |-> Filters, edits |-> 0]
        /\ built = config
        /\ removed = {}
        /\ enabled = TRUE /\ forced = FALSE /\ updateRate = FALSE
        /\ startStopLock = None /\ shouldExit = FALSE
        /\ posted = 0
        /\ input = 0 /\ out = [sent |-> 0, previous |-> 0]
        /\ held = [t \in Threads |-> Nothing]
        /\ edits = 0 /\ changes = [t \in Inputs |-> 0] /\ ranged = FALSE

At(t, step) == stack[t] # << >> /\ Head(stack[t]) = step
Do(t, steps) == stack' = [stack EXCEPT ![t] = steps \o Tail(@)]

CanLock(lock, t) == lock.by \in {None, t}
Locked(lock, t) == [by |-> t, n |-> lock.n + 1]
\* Mutant: a lock that is free keeps its owner.
Unlocked_Kept(lock) == [lock EXCEPT !.n = @ - 1]
Unlocked(lock) == IF lock.n = 1 THEN Free ELSE [lock EXCEPT !.n = @ - 1]

-----------------------------------------------------------------------------
\* updateMappingChain: during a rebuild another one is only asked for, and during a
\* process one after it.
\* Mutant: a thread that processes rebuilds under its own feet.
AskedDuring_Process == IF flags.rebuilding THEN <<"pend">> ELSE <<"rebuild">>
AskedDuring == CASE flags.rebuilding -> <<"pend">>
                 [] ~flags.rebuilding /\ flags.processing -> <<"flag">>
                 [] OTHER -> <<"rebuild">>

\* A change of one filter asks for the chain after it, which is dropped during a rebuild.
Ask(t) ==
    /\ \/ At(t, "ask") /\ Do(t, AskedDuring)
       \/ At(t, "askAfter") /\ Do(t, IF flags.rebuilding THEN << >> ELSE AskedDuring)
    /\ UNCHANGED <<locks, flags, chain, edited, timer, posted, values, counts>>

SetFlag(t) ==
    /\ At(t, "pend") \/ At(t, "flag")
    /\ flags' = IF At(t, "pend") THEN [flags EXCEPT !.pending = TRUE]
                                 ELSE [flags EXCEPT !.after = TRUE]
    /\ Do(t, << >>)
    /\ UNCHANGED <<locks, chain, edited, timer, posted, values, counts>>

Rebuild(t) ==
    /\ At(t, "rebuild")
    /\ CanLock(mappingLock, t)
    /\ mappingLock' = Locked(mappingLock, t)
    /\ flags' = [flags EXCEPT !.rebuilding = TRUE, !.pending = FALSE]
    /\ fm' = [fm EXCEPT !.rebuilding = TRUE]
    /\ Do(t, <<"build", "check", "built">>)
    /\ UNCHANGED <<filterLock, built, edited, timer, posted, values, counts>>

\* setupSources, rebuildFilterChain and setOutParams: the filters and the outputs take
\* the values that there are, without sending them.
Build(t) ==
    /\ At(t, "build")
    /\ fm' = [needsRebuild |-> FALSE, rebuilding |-> FALSE]
    /\ built' = config
    /\ out' = [out EXCEPT !.previous = input]
    /\ Do(t, << >>)
    /\ UNCHANGED <<locks, flags, edited, timer, posted, input, held, counts>>

\* The end of a rebuild: again if one was asked for, and process.
Built(t) ==
    /\ At(t, "built")
    /\ mappingLock' = Unlocked(mappingLock)
    /\ flags' = [flags EXCEPT !.rebuilding = FALSE]
    /\ Do(t, <<"again">>)
    /\ UNCHANGED <<filterLock, chain, edited, timer, posted, values, counts>>

Again(t) ==
    /\ At(t, "again")
    /\ Do(t, IF flags.pending THEN <<"ask", "processAll">> ELSE <<"processAll">>)
    /\ UNCHANGED <<locks, flags, chain, edited, timer, posted, values, counts>>

\* notifyNeedsRebuild
Notify(t) ==
    /\ At(t, "notify") \/ At(t, "notifyAfter")
    /\ IF fm.rebuilding
       THEN Do(t, << >>) /\ UNCHANGED fm
       ELSE /\ Do(t, IF At(t, "notify") THEN <<"ask">> ELSE <<"askAfter">>)
            /\ fm' = [fm EXCEPT !.needsRebuild = TRUE]
    /\ UNCHANGED <<locks, flags, built, edited, timer, posted, values, counts>>

-----------------------------------------------------------------------------
\* process: what is looked at without the lock, for all indices and for each...
TurnedAway == ~enabled \/ flags.rebuilding \/ flags.processing

Process(t) ==
    /\ At(t, "processAll") \/ At(t, "process")
    /\ Do(t, IF TurnedAway THEN << >>
             ELSE IF At(t, "process") THEN <<"lock">>
             ELSE IF Multiplexed THEN <<"process", "process">> ELSE <<"process">>)
    /\ UNCHANGED <<locks, flags, chain, edited, timer, posted, values, counts>>

Lock(t) ==
    /\ At(t, "lock")
    /\ CanLock(mappingLock, t)
    /\ mappingLock' = Locked(mappingLock, t)
    /\ Do(t, <<"filters">>)
    /\ UNCHANGED <<filterLock, flags, chain, edited, timer, posted, values, counts>>

\* ... and processFilters, which walks the filters under their list's own lock, or stops.
Processed == config.filters \cap config.enabled

ProcessFilters(t) ==
    /\ At(t, "filters")
    /\ CanLock(filterLock, t)
    /\ filterLock' = Locked(filterLock, t)
    /\ flags' = [flags EXCEPT !.processing = TRUE]
    /\ IF fm.needsRebuild \/ fm.rebuilding
       THEN Do(t, <<"unlock">>) /\ UNCHANGED held
       ELSE /\ Do(t, <<IF Processed = {} THEN "send" ELSE "walk", "unlock">>)
            /\ held' = [held EXCEPT ![t] = [value |-> input, filters |-> Processed]]
    /\ UNCHANGED <<mappingLock, chain, edited, timer, posted, input, out, counts>>

\* A filter may be added or removed meanwhile.
Walk(t) ==
    /\ At(t, "walk")
    /\ Do(t, IF fm.needsRebuild THEN << >> ELSE <<"send">>)
    /\ UNCHANGED <<locks, flags, chain, edited, timer, posted, values, counts>>

\* The output values are set and sent, and a command that gets them may change a
\* parameter of a filter.
ParameterEdit == <<"enter", "parameter", "notifyAfter", "processAll", "leave">>

\* updateOutputValues
\* Mutant: an unchanged value is never sent.
Sent_Changed(value) == IF value = out.previous THEN out ELSE [sent |-> value, previous |-> value]
Sent(value) == IF SendOnOutputChangeOnly /\ value = out.previous
               THEN out ELSE [sent |-> value, previous |-> value]

Send(t) ==
    /\ At(t, "send")
    /\ out' = Sent(held[t].value)
    /\ \/ Do(t, << >>) /\ UNCHANGED edits
       \/ edits < MaxEdits /\ edits' = edits + 1 /\ Do(t, ParameterEdit)
    /\ UNCHANGED <<locks, flags, chain, edited, timer, posted, input, held, changes, ranged>>

\* The container of the other index is not there: process returns at once.
\* Mutant: it forgets isProcessing.
Left_Early == flags
Left == [flags EXCEPT !.processing = FALSE]

IndexGone(t) ==
    /\ At(t, "send")
    /\ Multiplexed /\ (Len(stack[t]) > 2 => stack[t][3] # "process") /\ built # config
    /\ flags' = Left
    /\ mappingLock' = Unlocked(mappingLock) /\ filterLock' = Unlocked(filterLock)
    /\ held' = [held EXCEPT ![t] = Nothing]
    /\ stack' = [stack EXCEPT ![t] = SubSeq(@, 3, Len(@))]
    /\ UNCHANGED <<chain, edited, timer, posted, input, out, counts>>

\* The end of the scope of the locks, and shouldRebuildAfterProcess is looked at.
Unlock(t) ==
    /\ At(t, "unlock")
    /\ flags' = [flags EXCEPT !.processing = FALSE]
    /\ mappingLock' = Unlocked(mappingLock) /\ filterLock' = Unlocked(filterLock)
    /\ held' = [held EXCEPT ![t] = Nothing]
    /\ Do(t, IF flags.after THEN <<"after">> ELSE << >>)
    /\ UNCHANGED <<chain, edited, timer, posted, input, out, counts>>

\* The rebuild that was asked for meanwhile, handed to the message thread; when MaxPosted
\* wait there it is one of them.
\* Mutant: the flag is reset only.
Handed_Not == posted
Handed == IF posted < MaxPosted THEN posted + 1 ELSE posted

After(t) ==
    /\ At(t, "after")
    /\ flags' = [flags EXCEPT !.after = FALSE]
    /\ Do(t, IF t = MessageThread THEN <<"ask">> ELSE << >>)
    /\ posted' = IF t = MessageThread THEN posted ELSE Handed
    /\ UNCHANGED <<locks, chain, edited, timer, values, counts>>

-----------------------------------------------------------------------------
\* The timer thread only ever tries the locks, in the order of process.
\* Mutant: it waits for them.
TryOrSkip_Wait == CanLock(mappingLock, Timer) /\ CanLock(filterLock, Timer)
TryOrSkip == TRUE

Loop ==
    /\ At(Timer, "loop")
    /\ TryOrSkip
    /\ IF shouldExit
       THEN Do(Timer, << >>) /\ UNCHANGED locks
       ELSE IF enabled /\ CanLock(mappingLock, Timer) /\ CanLock(filterLock, Timer)
       THEN /\ mappingLock' = Locked(mappingLock, Timer)
            /\ filterLock' = Locked(filterLock, Timer)
            /\ Do(Timer, <<"processAll", "free", "loop">>)
       ELSE UNCHANGED <<stack, locks>>
    /\ UNCHANGED <<flags, chain, edited, timer, posted, values, counts>>

FreeLocks ==
    /\ At(Timer, "free")
    /\ mappingLock' = Unlocked(mappingLock) /\ filterLock' = Unlocked(filterLock)
    /\ Do(Timer, << >>)
    /\ UNCHANGED <<flags, chain, edited, timer, posted, values, counts>>

\* startThread, and the end of a step that starts or stops the thread.
Start(t) ==
    /\ startStopLock = None
    /\ shouldExit' = FALSE
    /\ stack' = [stack EXCEPT ![t] = Tail(@), ![Timer] = IF Running THEN @ ELSE <<"loop">>]

\* checkFiltersNeedContinuousProcess; a change starts the thread or stops it.
NeedsContinuous == forced \/ Processed \cap Continuous # {}

Check(t) ==
    /\ At(t, "check")
    /\ updateRate' = NeedsContinuous
    /\ IF updateRate # NeedsContinuous /\ NeedsContinuous /\ enabled
       THEN Start(t)
       ELSE /\ Do(t, IF updateRate = NeedsContinuous THEN << >> ELSE <<"stop">>)
            /\ UNCHANGED shouldExit
    /\ UNCHANGED <<locks, flags, chain, edited, startStopLock, posted, values, counts>>

UpdateContinuousProcess(t) ==
    /\ At(t, "update")
    /\ IF enabled /\ updateRate
       THEN Start(t)
       ELSE Do(t, IF enabled THEN << >> ELSE <<"stop">>) /\ UNCHANGED shouldExit
    /\ UNCHANGED <<locks, flags, chain, edited, updateRate, startStopLock, posted, values, counts>>

\* stopThread asks the thread to exit and waits for its end.
Stop(t) ==
    /\ At(t, "stop")
    /\ startStopLock = None
    /\ startStopLock' = t
    /\ shouldExit' = (shouldExit \/ Running)
    /\ Do(t, <<"join">>)
    /\ UNCHANGED <<locks, flags, chain, edited, updateRate, posted, values, counts>>

Join(t) ==
    /\ At(t, "join")
    /\ ~Running
    /\ startStopLock' = None
    /\ Do(t, << >>)
    /\ UNCHANGED <<locks, flags, chain, edited, updateRate, shouldExit, posted, values, counts>>

-----------------------------------------------------------------------------
\* Steps of edits: MappingEditScope, what a filter replaces when a parameter of it
\* changes, filterLock as a filter is added or removed, and the end of a removed filter.
Enter(t) ==
    /\ At(t, "enter")
    /\ CanLock(mappingLock, t)
    /\ mappingLock' = Locked(mappingLock, t)
    /\ Do(t, << >>)
    /\ UNCHANGED <<filterLock, flags, chain, edited, timer, posted, values, counts>>

Leave(t) ==
    /\ At(t, "leave")
    /\ mappingLock' = Unlocked(mappingLock)
    /\ Do(t, << >>)
    /\ UNCHANGED <<filterLock, flags, chain, edited, timer, posted, values, counts>>

Parameter(t) ==
    /\ At(t, "parameter")
    /\ config' = [config EXCEPT !.edits = @ + 1]
    /\ Do(t, << >>)
    /\ UNCHANGED <<locks, flags, chain, removed, enabled, forced, timer, posted, values, counts>>

EnterFilters(t) ==
    /\ At(t, "serve")
    /\ CanLock(filterLock, t)
    /\ filterLock' = Locked(filterLock, t)
    /\ Do(t, << >>)
    /\ UNCHANGED <<mappingLock, flags, chain, edited, timer, posted, values, counts>>

LeaveFilters(t) ==
    /\ At(t, "served")
    /\ filterLock' = Unlocked(filterLock)
    /\ Do(t, << >>)
    /\ UNCHANGED <<mappingLock, flags, chain, edited, timer, posted, values, counts>>

Delete(t) ==
    /\ At(t, "delete")
    /\ removed' = {}
    /\ Do(t, << >>)
    /\ UNCHANGED <<locks, flags, chain, config, enabled, forced, timer, posted, values, counts>>

\* addItemInternal and removeItemInternal.
\* Mutant: filterLock is not waited for.
FilterEdit_NoWait == <<"notify">>
FilterEdit == <<"serve", "served", "notify">>

Begin(t, steps) == stack[t] = << >> /\ stack' = [stack EXCEPT ![t] = steps]
Edit(steps) == /\ edits < MaxEdits /\ edits' = edits + 1
               /\ Begin(MessageThread, steps)
               /\ UNCHANGED <<locks, flags, chain, timer, posted, values, changes, ranged>>

AddFilter == \E f \in Filters \ config.filters :
    /\ Edit(FilterEdit)
    /\ config' = [config EXCEPT !.filters = @ \cup {f}]
    /\ UNCHANGED <<removed, enabled, forced>>

RemoveFilter == \E f \in config.filters :
    /\ Edit(FilterEdit \o <<"delete">>)
    /\ config' = [config EXCEPT !.filters = @ \ {f}]
    /\ removed' = {f}
    /\ UNCHANGED <<enabled, forced>>

\* What is asked for is the chain after the previous filter, if there is one.
EnableFilter == \E f \in config.filters, notification \in {"notify", "notifyAfter"} :
    /\ config.filters = {f} => notification = "notify"
    /\ Edit(<<"enter", notification, "leave">>)
    /\ config' = [config EXCEPT !.enabled = IF f \in @ THEN @ \ {f} ELSE @ \cup {f}]
    /\ UNCHANGED <<removed, enabled, forced>>

EditParameter == Edit(ParameterEdit) /\ UNCHANGED edited

\* Inputs are added, removed, reordered or refer to another parameter.
EditInputs ==
    /\ Edit(<<"ask">>)
    /\ config' = [config EXCEPT !.edits = @ + 1]
    /\ UNCHANGED <<removed, enabled, forced>>

Enable ==
    /\ Edit(IF enabled THEN <<"update">> ELSE <<"processAll", "update">>)
    /\ enabled' = ~enabled
    /\ UNCHANGED <<config, removed, forced>>

ForceContinuous ==
    /\ Edit(<<"check", "update">>)
    /\ forced' = ~forced
    /\ UNCHANGED <<config, removed, enabled>>

HandlePosted ==
    /\ posted > 0 /\ posted' = posted - 1
    /\ Begin(MessageThread, AskedDuring)
    /\ UNCHANGED <<locks, flags, chain, edited, timer, values, counts>>

-----------------------------------------------------------------------------
Change(t, steps) == /\ changes[t] < MaxChanges
                    /\ changes' = [changes EXCEPT ![t] = @ + 1]
                    /\ Begin(t, steps)
                    /\ UNCHANGED <<locks, flags, chain, timer, posted, edits>>

\* An input's value changes, and inputParameterValueChanged.
ChangeValue(t) ==
    /\ Change(t, <<"changed">>)
    /\ input' = input + 1
    /\ UNCHANGED <<edited, out, held, ranged>>

ValueChanged(t) ==
    /\ At(t, "changed")
    /\ \/ Do(t, IF Running THEN << >> ELSE <<"processAll">>)
       \/ Multiplexed /\ ~Running /\ Do(t, <<"process">>)
    /\ UNCHANGED <<locks, flags, chain, edited, timer, posted, values, counts>>

\* An input's range changes: the chain is rebuilt on the thread that it changes on.
ChangeRange(t) ==
    /\ Change(t, <<"ask">>)
    /\ ranged' = TRUE
    /\ config' = [config EXCEPT !.edits = @ + 1]
    /\ UNCHANGED <<removed, enabled, forced, values>>

-----------------------------------------------------------------------------
Call(t) == \/ Ask(t) \/ SetFlag(t) \/ Rebuild(t) \/ Build(t) \/ Built(t) \/ Again(t) \/ Notify(t)
           \/ Process(t) \/ Lock(t) \/ ProcessFilters(t) \/ Send(t) \/ IndexGone(t) \/ Unlock(t)
           \/ Walk(t) \/ After(t) \/ Check(t) \/ UpdateContinuousProcess(t) \/ Stop(t) \/ Join(t)
           \/ Enter(t) \/ Leave(t) \/ Parameter(t) \/ EnterFilters(t) \/ LeaveFilters(t)
           \/ Delete(t) \/ ValueChanged(t)
TimerSteps == Call(Timer) \/ Loop \/ FreeLocks
Edits == \/ AddFilter \/ RemoveFilter \/ EnableFilter \/ EditParameter \/ EditInputs
         \/ Enable \/ ForceContinuous

Next == \/ \E t \in Inputs : ChangeValue(t) \/ ChangeRange(t)
        \/ \E t \in Inputs \cup {MessageThread} : Call(t)
        \/ TimerSteps \/ Edits \/ HandlePosted

\* Threads go on with their calls.  The timer thread sleeps between two passes, so a
\* lock that is free again and again is taken.  Of the rebuilds that are handed to the
\* message thread again and again, and of the requests that it leaves, some fall between
\* two passes.
Fairness == /\ \A t \in Inputs \cup {MessageThread} : SF_vars(Call(t))
            /\ SF_vars(HandlePosted /\ ~flags.processing)
            /\ SF_vars(SetFlag(MessageThread) /\ ~flags.processing)
            /\ WF_vars(TimerSteps)
            /\ WF_vars(HandlePosted)

Spec == Init /\ [][Next]_vars /\ Fairness

-----------------------------------------------------------------------------
Steps == {"ask", "askAfter", "pend", "flag", "rebuild", "build", "built", "again", "notify",
          "notifyAfter", "processAll", "process", "lock", "filters", "walk", "send", "unlock",
          "after", "loop", "free", "check", "update", "stop", "join", "enter", "leave",
          "parameter", "serve", "served", "delete", "changed"}

TypeOK ==
    /\ stack \in [Threads -> Seq(Steps)]
    /\ {mappingLock, filterLock} \subseteq {Free} \cup [by : Threads, n : Nat \ {0}]
    /\ flags \in [rebuilding : BOOLEAN, processing : BOOLEAN, after : BOOLEAN, pending : BOOLEAN]
    /\ fm \in [needsRebuild : BOOLEAN, rebuilding : BOOLEAN]
    /\ {config, built} \subseteq [filters : SUBSET Filters, enabled : SUBSET Filters, edits : Nat]
    /\ removed \subseteq Filters
    /\ {enabled, forced, updateRate, shouldExit} \subseteq BOOLEAN
    /\ startStopLock \in Threads \cup {None}
    /\ {posted, input, edits} \subseteq Nat
    /\ out \in [sent : Nat, previous : Nat]
    /\ held \in [Threads -> [value : Nat, filters : SUBSET Filters]]
    /\ changes \in [Inputs -> 0 .. MaxChanges] /\ ranged \in BOOLEAN

Within(t, step) == \E i \in DOMAIN stack[t] : stack[t][i] = step

\* The chain is never rebuilt while it is processed, by another thread or, since the
\* lock is recursive, further down the same one.
ChainIsWhole == \A t, u \in Threads : ~(Within(t, "unlock") /\ Within(u, "built"))

\* The flags that turn calls away are up only while somebody is in there: a mapping
\* is never left deaf.
FlagsComeDown == /\ flags.processing => \E t \in Threads : Within(t, "unlock")
                 /\ flags.rebuilding => \E t \in Threads : Within(t, "built")

\* "avoid removing while serving" (MappingFilterManager.cpp:190): no thread holds
\* parameters of a filter that is deleted.
NoneDeletedInUse == \A t \in Threads : held[t].filters \subseteq config.filters \cup removed

\* Every call of the message thread and of the inputs ends: no two threads wait for
\* each other, and the timer thread never keeps the one that stops it waiting.
CallsEnd == \A t \in Inputs \cup {MessageThread} : stack[t] # << >> ~> stack[t] = << >>

\* With a timer thread that keeps running, the chain is at last built for the last
\* edit, whatever was turned away, as long as only the message thread rebuilds it,
EditsAreBuilt == <>[](Running /\ ~ranged) => <>[](built = config)

\* and the last value of the inputs is sent.
LastValueIsSent == <>[](Running /\ enabled /\ ~ranged) => <>[](out.sent = input)
=============================================================================
