------------------------ MODULE PresetInterpolation ------------------------
(***************************************************************************)
(* The presets of a group of custom variables (CustomVariables/CVGroup):   *)
(* going to a preset at once, or over time on the interpolation thread,    *)
(* which is stopped, replaced and started again by the message thread, and *)
(* stopped by commands that run on other threads.                          *)
(*                                                                         *)
(* A variable's value is the preset that it is the value of, Own (set by   *)
(* hand) or Mixed (between two others).  The interpolation sets one        *)
(* variable per step.  juce::Thread is outside the repository: stopThread  *)
(* asks the thread to exit and waits for its end, holding startStopLock;   *)
(* it is not killed at the end of the wait, since nothing that it runs     *)
(* waits for the message thread (see Settles).                             *)
(***************************************************************************)
EXTENDS Naturals, Sequences

CONSTANTS Presets, Variables,
          Items,               \* the variables of the group at first, one at least
          MessageThread,
          Others,              \* other threads that run commands
          Mode,                \* Mode[p][v]: how p interpolates v
          Steps,               \* passes of the longest interpolation, less one
          MaxCommands,         \* bound: commands that each thread runs
          RemoveWhileRunning,  \* the user edits variables during an interpolation
          None, Own, Mixed

Threads == Others \cup {MessageThread}
Values == Presets \cup {Own, Mixed}
Modes == {"INTERPOLATE", "CHANGE_AT_END", "CHANGE_AT_START", "NONE"}

ASSUME ModeAssumption == Mode \in [Presets -> [Variables -> Modes]]
ASSUME ItemsAssumption == Items \in Seq(Variables) /\ Items # << >>
ASSUME StepsAssumption == Steps \in Nat \ {0} /\ MaxCommands \in Nat
ASSUME ThreadAssumption == MessageThread \notin Others /\ RemoveWhileRunning \in BOOLEAN
ASSUME ValueAssumption == /\ None \notin Presets \cup Threads
                          /\ Own \notin Presets /\ Mixed \notin Presets

VARIABLES items,          \* values.items, the variables of the group
          values,         \* the value of each variable
          enabled,
          targetPreset,
          interpolation,  \* interpolationTarget, interpolationSource, and how many
                          \* times they have been replaced
          pc,             \* where each thread is in a command
          request,        \* the preset that the message thread is going to, its time
          posted,         \* calls to goToPreset posted to the message thread
          startStopLock,  \* juce::Thread's lock: the thread that holds it
          lock,           \* interpolationLock
          shouldExit,
          run,            \* where the interpolation thread is, and what it holds
          commands,       \* history: how many commands each thread has run
          asked           \* history: the preset that the values are to reach

group == <<items, values, enabled>>
thread == <<startStopLock, shouldExit, run>>
vars == <<group, targetPreset, interpolation, pc, request, posted, thread, lock, commands,
          asked>>

Idle == [at |-> "none", n |-> 0, i |-> 0, rel |-> 0, use |-> 0, preset |-> None, source |-> << >>]
Running == run.at # "none"

Init == /\ items = Items
        /\ values = [v \in Variables |-> Own]
        /\ enabled = TRUE
        /\ targetPreset = None
        /\ interpolation = [preset |-> None, source |-> << >>, use |-> 0]
        /\ pc = [t \in Threads |-> "idle"]
        /\ request = [preset |-> None, time |-> 0]
        /\ posted = << >>
        /\ startStopLock = None /\ lock = None
        /\ shouldExit = FALSE
        /\ run = Idle
        /\ commands = [t \in Threads |-> 0]
        /\ asked = None

Goto(t, l) == pc' = [pc EXCEPT ![t] = l]
Command(t) == /\ pc[t] = "idle"
              /\ commands[t] < MaxCommands
              /\ commands' = [commands EXCEPT ![t] = @ + 1]

\* setValuesToPreset
AtPreset(p) == [v \in Variables |-> IF \E i \in DOMAIN items : items[i] = v /\ Mode[p][v] # "NONE"
                                    THEN p ELSE values[v]]
SetValuesToPreset(p) == values' = IF enabled THEN AtPreset(p) ELSE values

-----------------------------------------------------------------------------
\* goToPreset: another thread posts it; on the message thread it is refused when
\* that preset is the target, and otherwise stops the interpolation first, before
\* it takes interpolationLock.
\* Mutants: the thread is replaced while it runs; the lock is held during the wait.
NextOf_NoStop(l) == CASE l = "idle" -> "lock" [] l = "lock" -> "build"
                       [] l = "kill" -> "killJoin" [] l = "killJoin" -> "clear"
NextOf_LockFirst(l) == CASE l = "idle" -> "lock" [] l = "lock" -> "stop" [] l = "stop" -> "join"
                          [] l = "join" -> "build" [] l = "kill" -> "killJoin"
                          [] l = "killJoin" -> "clear"
NextOf(l) == CASE l = "idle" -> "stop" [] l = "join" -> "lock" [] l = "lock" -> "build"
                [] l = "kill" -> "killJoin" [] l = "stop" -> "join" [] l = "killJoin" -> "clear"

Proceed(t) == Goto(t, NextOf(pc[t]))

GoToPreset(p, time) ==
    /\ pc[MessageThread] = "idle"
    /\ IF targetPreset = p
       THEN UNCHANGED <<pc, request>>
       ELSE /\ Proceed(MessageThread)
            /\ request' = [preset |-> p, time |-> time]
    /\ UNCHANGED <<group, targetPreset, interpolation, thread, lock, asked>>

CallGoToPreset(t) ==
    \E p \in Presets, time \in {0, 1} :
       /\ Command(t)
       /\ IF t = MessageThread
          THEN GoToPreset(p, time) /\ UNCHANGED posted
          ELSE /\ posted' = Append(posted, <<p, time>>)
               /\ UNCHANGED <<group, targetPreset, interpolation, pc, request, thread, lock, asked>>

HandlePosted == /\ posted # << >>
                /\ GoToPreset(Head(posted)[1], Head(posted)[2])
                /\ posted' = Tail(posted)
                /\ UNCHANGED commands

\* stopInterpolation, a "Kill Go to preset" command, on any thread.
CallStopInterpolation(t) ==
    /\ Command(t)
    /\ Goto(t, "kill")
    /\ UNCHANGED <<group, targetPreset, interpolation, request, posted, thread, lock, asked>>

\* stopThread: under startStopLock, ask the thread to exit...
SignalExit(t) ==
    /\ pc[t] \in {"stop", "kill"}
    /\ startStopLock = None
    /\ startStopLock' = t
    /\ shouldExit' = (shouldExit \/ Running)
    /\ Proceed(t)
    /\ UNCHANGED <<group, targetPreset, interpolation, request, posted, run, lock, commands, asked>>

\* ... and wait for its end.
Joined(t) ==
    /\ pc[t] \in {"join", "killJoin"}
    /\ ~Running
    /\ startStopLock' = None
    /\ Proceed(t)
    /\ UNCHANGED <<group, targetPreset, interpolation, request, posted, shouldExit, run, lock,
                   commands, asked>>

\* The end of stopInterpolation.
ClearTarget(t) ==
    /\ pc[t] = "clear"
    /\ targetPreset' = None
    /\ asked' = None
    /\ Goto(t, "idle")
    /\ UNCHANGED <<group, interpolation, request, posted, thread, lock, commands>>

\* goToPreset takes interpolationLock.
Lock == /\ pc[MessageThread] = "lock"
        /\ lock = None
        /\ lock' = MessageThread
        /\ Proceed(MessageThread)
        /\ UNCHANGED <<group, targetPreset, interpolation, request, posted, thread, commands, asked>>

\* Without a time the values are set at once; with one, everything that the
\* thread uses is built.
\* Mutants: the target is forgotten; it is set whatever the time.
Target_Forgotten == None
Target_Always == request.preset
Target == IF request.time = 0 THEN None ELSE request.preset

Build ==
    /\ pc[MessageThread] = "build"
    /\ targetPreset' = Target
    /\ IF request.time = 0
       THEN /\ SetValuesToPreset(request.preset)
            /\ asked' = IF enabled THEN request.preset ELSE None
            /\ lock' = None
            /\ Goto(MessageThread, "idle")
            /\ UNCHANGED interpolation
       ELSE /\ interpolation' = [preset |-> request.preset, use |-> interpolation.use + 1,
                                 source |-> [i \in DOMAIN items |-> values[items[i]]]]
            /\ asked' = request.preset
            /\ Goto(MessageThread, "start")
            /\ UNCHANGED <<values, lock>>
    /\ UNCHANGED <<items, enabled, request, posted, thread, commands>>

\* startThread, and the end of goToPreset.
StartThread ==
    /\ pc[MessageThread] = "start"
    /\ startStopLock = None
    /\ shouldExit' = FALSE
    /\ run' = IF Running THEN run ELSE [Idle EXCEPT !.at = "begin"]
    /\ lock' = None
    /\ Goto(MessageThread, "idle")
    /\ UNCHANGED <<group, targetPreset, interpolation, request, posted, startStopLock, commands,
                   asked>>

-----------------------------------------------------------------------------
\* run: under interpolationLock, what to use.
Begin ==
    /\ run.at = "begin"
    /\ lock = None
    /\ run' = IF targetPreset = None
              THEN [run EXCEPT !.at = "exit"]
              ELSE [at |-> "loop", n |-> 0, i |-> 0, rel |-> 0, use |-> interpolation.use,
                    preset |-> interpolation.preset, source |-> interpolation.source]
    /\ UNCHANGED <<group, targetPreset, interpolation, pc, request, posted, startStopLock,
                   shouldExit, lock, commands, asked>>

\* jlimit
\* Mutant: the time is not limited.
Last_Unlimited == Steps + 1
Last == Steps

\* A pass of the loop: the time has gone on, by 20 ms at least after the first.
Pass ==
    /\ run.at = "loop"
    /\ run' \in IF shouldExit
                THEN {[run EXCEPT !.at = "end"]}
                ELSE {[run EXCEPT !.at = "lerp", !.n = Len(items), !.i = 1, !.rel = r] :
                      r \in IF run.n = 0 THEN 0 .. Last ELSE run.rel + 1 .. Last}
    /\ UNCHANGED <<group, targetPreset, interpolation, pc, request, posted, startStopLock,
                   shouldExit, lock, commands, asked>>

\* lerpPresets: the value that a variable gets from the i-th source value.
Lerped(p, v, from) ==
    CASE Mode[p][v] = "NONE" -> values[v]
      [] run.rel = 0 /\ Mode[p][v] # "NONE" -> from
      [] run.rel = Steps /\ Mode[p][v] # "NONE" -> p
      [] OTHER -> CASE Mode[p][v] = "INTERPOLATE" -> Mixed
                    [] Mode[p][v] = "CHANGE_AT_END" -> from
                    [] Mode[p][v] = "CHANGE_AT_START" -> p

Lerp ==
    /\ run.at = "lerp"
    /\ run.i <= Len(items) /\ run.i <= Len(run.source)
    /\ values' = [values EXCEPT ![items[run.i]] = Lerped(run.preset, items[run.i], run.source[run.i])]
    /\ run' = IF run.i < run.n
              THEN [run EXCEPT !.i = @ + 1]
              ELSE [run EXCEPT !.at = IF run.rel = Steps THEN "end" ELSE "loop"]
    /\ UNCHANGED <<items, enabled, targetPreset, interpolation, pc, request, posted,
                   startStopLock, shouldExit, lock, commands, asked>>

\* The thread forgets the target, without the lock, and ends.
End ==
    /\ run.at = "end"
    /\ targetPreset' = None
    /\ run' = [run EXCEPT !.at = "exit"]
    /\ UNCHANGED <<group, interpolation, pc, request, posted, startStopLock, shouldExit, lock,
                   commands, asked>>

Exit ==
    /\ run.at = "exit"
    /\ run' = Idle
    /\ UNCHANGED <<group, targetPreset, interpolation, pc, request, posted, startStopLock,
                   shouldExit, lock, commands, asked>>

-----------------------------------------------------------------------------
\* A "Set preset" command, on any thread.
CallSetPreset(t) ==
    /\ Command(t)
    /\ \E p \in Presets : SetValuesToPreset(p)
    /\ asked' = None
    /\ UNCHANGED <<items, enabled, targetPreset, interpolation, pc, request, posted, thread, lock>>

\* The user removes a variable.
RemoveVariable ==
    /\ Command(MessageThread)
    /\ Len(items) > 1
    /\ Running => RemoveWhileRunning
    /\ \E i \in DOMAIN items :
          items' = [j \in 1 .. Len(items) - 1 |-> items[IF j < i THEN j ELSE j + 1]]
    /\ UNCHANGED <<values, enabled, targetPreset, interpolation, pc, request, posted, thread,
                   lock, asked>>

SetEnabled ==
    /\ Command(MessageThread)
    /\ enabled' = ~enabled
    /\ UNCHANGED <<items, values, targetPreset, interpolation, pc, request, posted, thread, lock,
                   asked>>

-----------------------------------------------------------------------------
Issue(t) == CallGoToPreset(t) \/ CallStopInterpolation(t) \/ CallSetPreset(t)
Continue(t) == SignalExit(t) \/ Joined(t) \/ ClearTarget(t)
Message == HandlePosted \/ Lock \/ Build \/ StartThread
Interpolate == Begin \/ Pass \/ Lerp \/ End \/ Exit

Next == \/ \E t \in Threads : Issue(t) \/ Continue(t)
        \/ Message \/ Interpolate \/ RemoveVariable \/ SetEnabled

\* Threads go on with what they have begun.
Fairness == /\ \A t \in Threads : WF_vars(Continue(t))
            /\ WF_vars(Message)
            /\ WF_vars(Interpolate)

Spec == Init /\ [][Next]_vars /\ Fairness

-----------------------------------------------------------------------------
TypeOK ==
    /\ items \in Seq(Variables) /\ items # << >>
    /\ values \in [Variables -> Values]
    /\ enabled \in BOOLEAN
    /\ targetPreset \in Presets \cup {None}
    /\ interpolation \in [preset : Presets \cup {None}, source : Seq(Values), use : Nat]
    /\ pc \in [Threads -> {"idle", "stop", "join", "lock", "build", "start", "kill", "killJoin",
                           "clear"}]
    /\ request \in [preset : Presets \cup {None}, time : {0, 1}]
    /\ posted \in Seq(Presets \X {0, 1})
    /\ startStopLock \in Threads \cup {None} /\ lock \in {None, MessageThread}
    /\ shouldExit \in BOOLEAN
    /\ run \in [at : {"none", "begin", "loop", "lerp", "end", "exit"}, n : Nat, i : Nat,
                rel : 0 .. Steps, use : Nat, preset : Presets \cup {None}, source : Seq(Values)]
    /\ commands \in [Threads -> 0 .. MaxCommands]
    /\ asked \in Presets \cup {None}

\* "used by that thread, replaced only once it has stopped" (CVGroup.h:63): the
\* thread never uses a target, a curve or source values that were replaced.
NeverReplaced == run.at \in {"loop", "lerp"} => run.use = interpolation.use

AtRest == /\ posted = << >>
          /\ \A t \in Threads : pc[t] = "idle"
          /\ ~Running

\* Once everything is at rest, the variables have the values of the last preset
\* gone to, unless the interpolation was killed or a preset was set since.
LastPresetWins == AtRest /\ asked # None
                     => \A i \in DOMAIN items :
                           Mode[asked][items[i]] = "NONE" \/ values[items[i]] = asked

\* A target that is left over would refuse to go to that preset again.
NoTargetLeft == AtRest => targetPreset = None

\* Every command ends, and the interpolation with it: nobody waits for ever for
\* the thread, a lock, or each other.
Settles == <>[]AtRest
=============================================================================
