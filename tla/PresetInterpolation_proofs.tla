--------------------- MODULE PresetInterpolation_proofs ---------------------
(***************************************************************************)
(* What holds of the interpolation of presets for any number of presets,   *)
(* variables, threads and commands.                                        *)
(***************************************************************************)
EXTENDS PresetInterpolation, TLAPS

Places == {"idle", "stop", "join", "lock", "build", "start", "kill", "killJoin", "clear"}

\* Only the message thread goes to a preset.
OthersKill == \A t \in Others : pc[t] \in {"idle", "kill", "killJoin", "clear"}

\* From the end of its wait to the start of the thread, the message thread is
\* alone: the thread has ended and nobody else starts it.
Stopped == pc[MessageThread] \in {"lock", "build", "start"} => run.at = "none"

\* A target is there only for a thread that will forget it.
TargetIsUsed == targetPreset # None => \/ pc[MessageThread] = "start"
                                       \/ run.at \in {"begin", "loop", "lerp", "end"}

\* What is asked for, built and used is a preset, and a step sets a variable.
InStep == /\ pc[MessageThread] \in {"stop", "join", "lock", "build", "start"}
                => request.preset \in Presets
          /\ targetPreset # None => interpolation.preset \in Presets
          /\ run.at \in {"loop", "lerp"} => run.preset \in Presets
          /\ run.at = "lerp" => run.i # 0

Runs == [at : {"none", "begin", "loop", "lerp", "end", "exit"}, n : Nat, i : Nat, rel : 0 .. Steps,
         use : Nat, preset : Presets \cup {None}, source : Seq(Values)]

IInv == TypeOK /\ OthersKill /\ Stopped /\ TargetIsUsed /\ NeverReplaced /\ InStep

LEMMA Idles == /\ Idle.at = "none" /\ Idle.use = 0
               /\ Idle \in [at : {"none", "begin", "loop", "lerp", "end", "exit"}, n : Nat,
                            i : Nat, rel : 0 .. Steps, use : Nat, preset : Presets \cup {None},
                            source : Seq(Values)]
BY StepsAssumption DEF Idle

LEMMA InitIInv == Init => IInv
<1> SUFFICES ASSUME Init PROVE IInv
  OBVIOUS
<1>1. run.at = "none"
  BY Idles DEF Init
<1>2. TypeOK
  <2>1. items \in Seq(Variables) /\ items # << >> /\ values \in [Variables -> Values]
    BY ItemsAssumption DEF Init, Values
  <2>2. /\ interpolation \in [preset : Presets \cup {None}, source : Seq(Values), use : Nat]
        /\ request \in [preset : Presets \cup {None}, time : {0, 1}]
    BY DEF Init
  <2>3. pc \in [Threads -> Places] /\ commands \in [Threads -> 0 .. MaxCommands]
    BY StepsAssumption DEF Init, Places
  <2>4. posted \in Seq(Presets \X {0, 1})
    BY DEF Init
  <2>5. QED
    BY <2>1, <2>2, <2>3, <2>4, Idles DEF Init, TypeOK, Places, Runs
<1>3. OthersKill /\ Stopped /\ TargetIsUsed /\ NeverReplaced /\ InStep
  BY <1>1 DEF Init, OthersKill, Stopped, TargetIsUsed, NeverReplaced, InStep, Threads
<1>4. QED
  BY <1>2, <1>3 DEF IInv

-----------------------------------------------------------------------------
LEMMA MessageIsThread == MessageThread \in Threads /\ Others \subseteq Threads
BY DEF Threads

LEMMA IssueIInv == ASSUME IInv, NEW t \in Threads, Issue(t) PROVE IInv'
<1> USE MessageIsThread, ThreadAssumption DEF IInv
<1>1. CASE CallGoToPreset(t)
  <2> PICK p \in Presets, time \in {0, 1} :
          /\ Command(t)
          /\ IF t = MessageThread
             THEN GoToPreset(p, time) /\ UNCHANGED posted
             ELSE /\ posted' = Append(posted, <<p, time>>)
                  /\ UNCHANGED <<group, targetPreset, interpolation, pc, request, thread, lock,
                                 asked>>
    BY <1>1 DEF CallGoToPreset
  <2>1. UNCHANGED <<group, targetPreset, interpolation, thread, lock, asked>>
    BY DEF GoToPreset
  <2>2. commands' \in [Threads -> 0 .. MaxCommands]
    BY StepsAssumption DEF TypeOK, Command
  <2>3. /\ pc' \in [Threads -> Places] /\ \A o \in Others : pc'[o] = pc[o]
        /\ pc'[MessageThread] \in {pc[MessageThread], "stop"}
    BY DEF TypeOK, GoToPreset, Proceed, Goto, NextOf, Command, Places
  <2>4. pc[MessageThread] = pc'[MessageThread] \/ pc[MessageThread] = "idle"
    BY DEF GoToPreset
  <2>5. request' \in [preset : Presets \cup {None}, time : {0, 1}]
    BY DEF TypeOK, GoToPreset
  <2>6. posted' \in Seq(Presets \X {0, 1})
    <3>1. posted \in Seq(Presets \X {0, 1}) /\ <<p, time>> \in Presets \X {0, 1}
      BY DEF TypeOK
    <3>2. Append(posted, <<p, time>>) \in Seq(Presets \X {0, 1})
      BY <3>1
    <3>3. QED
      BY <3>1, <3>2
  <2>7. TypeOK'
    BY <2>1, <2>2, <2>3, <2>5, <2>6 DEF TypeOK, group, thread, Places
  <2>8. InStep'
    <3>1. (pc' = pc /\ request' = request) \/ request'.preset \in Presets
      BY DEF GoToPreset
    <3>2. UNCHANGED <<targetPreset, interpolation, run>>
      BY <2>1 DEF thread
    <3>3. QED
      BY <3>1, <3>2, <2>4 DEF InStep
  <2>9. QED
    BY <2>1, <2>3, <2>4, <2>7, <2>8 DEF OthersKill, Stopped, TargetIsUsed, NeverReplaced, thread
<1>2. CASE CallStopInterpolation(t)
  <2>1. commands' \in [Threads -> 0 .. MaxCommands]
    BY <1>2, StepsAssumption DEF TypeOK, CallStopInterpolation, Command
  <2>2. pc' \in [Threads -> Places] /\ pc' = [pc EXCEPT ![t] = "kill"] /\ pc[t] = "idle"
    BY <1>2 DEF TypeOK, CallStopInterpolation, Command, Goto, Places
  <2>3. TypeOK'
    BY <1>2, <2>1, <2>2 DEF TypeOK, CallStopInterpolation, group, thread, Places
  <2>4. QED
    BY <1>2, <2>2, <2>3 DEF CallStopInterpolation, OthersKill, Stopped, TargetIsUsed,
       NeverReplaced, InStep, thread, TypeOK
<1>3. CASE CallSetPreset(t)
  <2>1. commands' \in [Threads -> 0 .. MaxCommands]
    BY <1>3, StepsAssumption DEF TypeOK, CallSetPreset, Command
  <2>2. values' \in [Variables -> Values]
    BY <1>3 DEF TypeOK, CallSetPreset, SetValuesToPreset, AtPreset, Values
  <2>3. TypeOK'
    BY <1>3, <2>1, <2>2 DEF TypeOK, CallSetPreset, thread
  <2>4. QED
    BY <1>3, <2>3 DEF CallSetPreset, OthersKill, Stopped, TargetIsUsed, NeverReplaced, InStep, thread
<1>4. QED
  BY <1>1, <1>2, <1>3 DEF Issue

LEMMA ContinueIInv == ASSUME IInv, NEW t \in Threads, Continue(t) PROVE IInv'
<1> USE MessageIsThread, ThreadAssumption, ValueAssumption DEF IInv
<1>1. CASE SignalExit(t)
  <2>1. pc' \in [Threads -> Places] /\ pc'[t] \in {"join", "killJoin"}
        /\ (pc'[t] = "join" <=> pc[t] = "stop") /\ pc' = [pc EXCEPT ![t] = pc'[t]]
    BY <1>1 DEF TypeOK, SignalExit, Proceed, Goto, NextOf, Places
  <2>2. TypeOK'
    BY <1>1, <2>1 DEF TypeOK, SignalExit, group, Running, Places
  <2>3. OthersKill' /\ Stopped'
    BY <1>1, <2>1 DEF SignalExit, OthersKill, Stopped, TypeOK
  <2>4. TargetIsUsed' /\ NeverReplaced' /\ InStep'
    BY <1>1, <2>1 DEF SignalExit, TargetIsUsed, NeverReplaced, InStep, TypeOK
  <2>5. QED
    BY <2>2, <2>3, <2>4
<1>2. CASE Joined(t)
  <2>1. pc' \in [Threads -> Places] /\ pc'[t] \in {"lock", "clear"}
        /\ (pc'[t] = "lock" <=> pc[t] = "join") /\ pc' = [pc EXCEPT ![t] = pc'[t]]
    BY <1>2 DEF TypeOK, Joined, Proceed, Goto, NextOf, Places
  <2>2. TypeOK'
    BY <1>2, <2>1 DEF TypeOK, Joined, group, Places
  <2>3. OthersKill' /\ Stopped'
    BY <1>2, <2>1 DEF Joined, OthersKill, Stopped, Running, TypeOK
  <2>4. TargetIsUsed' /\ NeverReplaced' /\ InStep'
    BY <1>2, <2>1 DEF Joined, TargetIsUsed, NeverReplaced, InStep, Running, TypeOK
  <2>5. QED
    BY <2>2, <2>3, <2>4
<1>3. CASE ClearTarget(t)
  <2>1. pc' \in [Threads -> Places] /\ pc' = [pc EXCEPT ![t] = "idle"]
    BY <1>3 DEF TypeOK, ClearTarget, Goto, Places
  <2>2. TypeOK'
    BY <1>3, <2>1 DEF TypeOK, ClearTarget, group, thread, Places
  <2>3. OthersKill' /\ Stopped' /\ TargetIsUsed' /\ NeverReplaced' /\ InStep'
    BY <1>3, <2>1 DEF ClearTarget, OthersKill, Stopped, TargetIsUsed, NeverReplaced, InStep, thread,
       TypeOK
  <2>4. QED
    BY <2>2, <2>3
<1>4. QED
  BY <1>1, <1>2, <1>3 DEF Continue

LEMMA MessageIInv == ASSUME IInv, Message PROVE IInv'
<1> USE MessageIsThread, ThreadAssumption, ValueAssumption DEF IInv
<1>1. CASE HandlePosted
  <2> DEFINE p == Head(posted)[1]  time == Head(posted)[2]
  <2>1. p \in Presets /\ time \in {0, 1} /\ posted' \in Seq(Presets \X {0, 1})
    <3>1. posted \in Seq(Presets \X {0, 1}) /\ posted # << >>
      BY <1>1 DEF TypeOK, HandlePosted
    <3>2. Head(posted) \in Presets \X {0, 1} /\ Tail(posted) \in Seq(Presets \X {0, 1})
      BY <3>1
    <3>3. QED
      BY <1>1, <3>2 DEF HandlePosted
  <2>2. GoToPreset(p, time) /\ UNCHANGED commands
    BY <1>1 DEF HandlePosted
  <2> HIDE DEF p, time
  <2>3. UNCHANGED <<group, targetPreset, interpolation, thread, lock, asked>>
    BY <2>2 DEF GoToPreset
  <2>4. /\ pc' \in [Threads -> Places] /\ \A o \in Others : pc'[o] = pc[o]
        /\ pc'[MessageThread] \in {pc[MessageThread], "stop"}
    BY <2>2 DEF TypeOK, GoToPreset, Proceed, Goto, NextOf, Places
  <2>5. pc[MessageThread] = "idle"
    BY <2>2 DEF GoToPreset
  <2>6. request' \in [preset : Presets \cup {None}, time : {0, 1}]
    BY <2>1, <2>2 DEF TypeOK, GoToPreset
  <2>7. TypeOK'
    BY <2>1, <2>2, <2>3, <2>4, <2>6 DEF TypeOK, group, thread, Places
  <2>8. InStep'
    <3>1. (pc' = pc /\ request' = request) \/ request'.preset \in Presets
      BY <2>1, <2>2 DEF GoToPreset
    <3>2. UNCHANGED <<targetPreset, interpolation, run>>
      BY <2>3 DEF thread
    <3>3. QED
      BY <3>1, <3>2, <2>5 DEF InStep
  <2>9. QED
    BY <2>3, <2>4, <2>5, <2>7, <2>8 DEF OthersKill, Stopped, TargetIsUsed, NeverReplaced, thread
<1>2. CASE Lock
  <2>1. pc' \in [Threads -> Places] /\ pc' = [pc EXCEPT ![MessageThread] = "build"]
    BY <1>2 DEF TypeOK, Lock, Proceed, Goto, NextOf, Places
  <2>2. TypeOK'
    BY <1>2, <2>1 DEF TypeOK, Lock, group, thread, Places
  <2>3. QED
    BY <1>2, <2>1, <2>2 DEF Lock, OthersKill, Stopped, TargetIsUsed, NeverReplaced, InStep, thread,
       TypeOK
<1>3. CASE Build
  <2>1. /\ pc' \in [Threads -> Places] /\ \A o \in Others : pc'[o] = pc[o]
        /\ pc'[MessageThread] = IF request.time = 0 THEN "idle" ELSE "start"
    BY <1>3 DEF TypeOK, Build, Goto, Places
  <2>2. targetPreset' \in Presets \cup {None} /\ asked' \in Presets \cup {None}
    BY <1>3 DEF TypeOK, Build, Target
  <2>3. values' \in [Variables -> Values]
    <3>1. request.preset \in Presets /\ values \in [Variables -> Values]
      BY <1>3 DEF Build, InStep, TypeOK
    <3>2. AtPreset(request.preset) \in [Variables -> Values]
      BY <3>1 DEF AtPreset, Values
    <3>3. values' \in {values, AtPreset(request.preset)}
      BY <1>3 DEF Build, SetValuesToPreset
    <3>4. QED
      BY <3>1, <3>2, <3>3
  <2>4. interpolation' \in [preset : Presets \cup {None}, source : Seq(Values), use : Nat]
    <3>1. \A i \in DOMAIN items : values[items[i]] \in Values
      BY DEF TypeOK
    <3>2. Len(items) \in Nat /\ DOMAIN items = 1 .. Len(items)
      BY DEF TypeOK
    <3>3. [i \in DOMAIN items |-> values[items[i]]] \in Seq(Values)
      BY <3>1, <3>2
    <3>4. /\ interpolation.use + 1 \in Nat /\ request.preset \in Presets \cup {None}
          /\ interpolation \in [preset : Presets \cup {None}, source : Seq(Values), use : Nat]
      BY DEF TypeOK
    <3> DEFINE source == [i \in DOMAIN items |-> values[items[i]]]
    <3>5. interpolation' = interpolation \/ interpolation' =
             [preset |-> request.preset, use |-> interpolation.use + 1, source |-> source]
      BY <1>3 DEF Build
    <3>6. source \in Seq(Values)
      BY <3>3
    <3> HIDE DEF source
    <3>7. QED
      BY <3>4, <3>5, <3>6
  <2>5. TypeOK'
    BY <1>3, <2>1, <2>2, <2>3, <2>4 DEF TypeOK, Build, thread, Places
  <2>6. run' = run /\ run.at = "none"
    BY <1>3 DEF Build, Stopped, thread
  <2>7. TargetIsUsed'
    BY <1>3, <2>1 DEF Build, Target, TargetIsUsed
  <2>8. InStep'
    <3>1. request' = request /\ request.preset \in Presets
      BY <1>3 DEF Build, InStep
    <3>2. targetPreset' # None => interpolation'.preset \in Presets
      BY <1>3, <3>1 DEF Build, Target
    <3>3. QED
      BY <2>6, <3>1, <3>2 DEF InStep
  <2>9. QED
    BY <2>1, <2>5, <2>6, <2>7, <2>8 DEF OthersKill, Stopped, NeverReplaced
<1>4. CASE StartThread
  <2>1. pc' \in [Threads -> Places] /\ pc' = [pc EXCEPT ![MessageThread] = "idle"]
    BY <1>4 DEF TypeOK, StartThread, Goto, Places
  <2>2. run' = [Idle EXCEPT !.at = "begin"]
    BY <1>4 DEF StartThread, Stopped, Running
  <2>3. /\ run'.at = "begin"
        /\ run' \in Runs
    BY <2>2, Idles DEF Runs
  <2>4. TypeOK'
    BY <1>4, <2>1, <2>3 DEF TypeOK, StartThread, group, Places, Runs
  <2>5. QED
    BY <1>4, <2>1, <2>3, <2>4 DEF StartThread, OthersKill, Stopped, TargetIsUsed,
       NeverReplaced, InStep, TypeOK
<1>5. QED
  BY <1>1, <1>2, <1>3, <1>4 DEF Message

LEMMA InterpolateIInv == ASSUME IInv, Interpolate PROVE IInv'
<1> USE MessageIsThread, ThreadAssumption, ValueAssumption DEF IInv
<1>0. run \in Runs
  BY DEF TypeOK, Runs
<1>1. CASE Begin
  <2>1. run' \in Runs /\ run'.at \in {"exit", "loop"}
    <3>1. CASE targetPreset = None
      BY <1>0, <1>1, <3>1 DEF Begin, Runs
    <3>2. CASE targetPreset # None
      <4>1. run' = [at |-> "loop", n |-> 0, i |-> 0, rel |-> 0, use |-> interpolation.use,
                    preset |-> interpolation.preset, source |-> interpolation.source]
        BY <1>1, <3>2 DEF Begin
      <4>2. /\ interpolation.use \in Nat /\ interpolation.preset \in Presets \cup {None}
            /\ interpolation.source \in Seq(Values) /\ 0 \in 0 .. Steps
        BY StepsAssumption DEF TypeOK
      <4>3. QED
        BY <4>1, <4>2 DEF Runs
    <3>3. QED
      BY <3>1, <3>2
  <2>2. TypeOK'
    BY <1>1, <2>1 DEF TypeOK, Begin, group, Runs
  <2>3. QED
    BY <1>1, <2>1, <2>2 DEF Begin, OthersKill, Stopped, TargetIsUsed, NeverReplaced, InStep
<1>2. CASE Pass
  <2>1. run' \in Runs /\ run'.use = run.use /\ run'.at \in {"end", "lerp"} /\ InStep'
    <3>1. Len(items) \in Nat
      BY DEF TypeOK
    <3>2. CASE shouldExit
      BY <1>0, <1>2, <3>2 DEF Pass, Runs, InStep
    <3>3. CASE ~shouldExit
      <4>1. PICK r \in 0 .. Steps :
               run' = [run EXCEPT !.at = "lerp", !.n = Len(items), !.i = 1, !.rel = r]
        <5>1. run.rel \in 0 .. Steps /\ Steps \in Nat
          BY <1>0, StepsAssumption DEF Runs
        <5>2. PICK r \in (IF run.n = 0 THEN 0 .. Steps ELSE run.rel + 1 .. Steps) :
                run' = [run EXCEPT !.at = "lerp", !.n = Len(items), !.i = 1, !.rel = r]
          BY <1>2, <3>3 DEF Pass, Last
        <5>3. r \in 0 .. Steps
          BY <5>1
        <5>4. QED
          BY <5>2, <5>3
      <4>2. run' \in Runs
        BY <1>0, <3>1, <4>1 DEF Runs
      <4>3. run'.at = "lerp" /\ run'.i = 1 /\ run'.use = run.use /\ run'.preset = run.preset
        BY <1>0, <4>1 DEF Runs
      <4>4. InStep'
        <5>1. run.preset \in Presets /\ UNCHANGED <<pc, request, targetPreset, interpolation>>
          BY <1>2 DEF InStep, Pass
        <5>2. QED
          BY <4>3, <5>1 DEF InStep
      <4>5. QED
        BY <4>2, <4>3, <4>4
    <3>4. QED
      BY <3>2, <3>3
  <2>2. TypeOK'
    BY <1>2, <2>1 DEF TypeOK, Pass, group, Runs
  <2>3. QED
    BY <1>2, <2>1, <2>2 DEF Pass, OthersKill, Stopped, TargetIsUsed, NeverReplaced, InStep
<1>3. CASE Lerp
  <2>1. run' \in Runs /\ run'.use = run.use /\ run'.at \in {"end", "lerp", "loop"} /\ InStep'
    BY <1>0, <1>3 DEF Lerp, Runs, InStep
  <2>2. values' \in [Variables -> Values]
    <3> DEFINE v == items[run.i]  f == run.source[run.i]
    <3>1. v \in Variables /\ f \in Values
      <4>1. run.i \in Nat /\ run.i # 0 /\ run.source \in Seq(Values)
        BY <1>0, <1>3 DEF Lerp, InStep, Runs
      <4>2. run.i \in 1 .. Len(items) /\ run.i \in 1 .. Len(run.source)
        BY <1>3, <4>1 DEF Lerp, TypeOK
      <4>3. QED
        BY <4>1, <4>2 DEF TypeOK
    <3> HIDE DEF v, f
    <3>2. Lerped(run.preset, v, f) \in Values \/ Lerped(run.preset, v, f) = values[v]
      <4>1. run.preset \in Presets /\ v \in Variables
        BY <1>3, <3>1 DEF Lerp, InStep
      <4>2. Mode[run.preset][v] \in Modes
        BY <4>1, ModeAssumption
      <4>3. QED
        BY <3>1, <4>1, <4>2 DEF Lerped, Modes, Values
    <3>3. values' = [values EXCEPT ![v] = Lerped(run.preset, v, f)]
      BY <1>3 DEF Lerp, v, f
    <3>4. values \in [Variables -> Values]
      BY DEF TypeOK
    <3>5. QED
      BY <3>1, <3>2, <3>3, <3>4
  <2>3. TypeOK'
    BY <1>3, <2>1, <2>2 DEF TypeOK, Lerp, Runs
  <2>4. QED
    BY <1>3, <2>1, <2>3 DEF Lerp, OthersKill, Stopped, TargetIsUsed, NeverReplaced, InStep
<1>4. CASE End
  <2>1. run' \in Runs /\ run'.at = "exit"
    BY <1>0, <1>4 DEF End, Runs
  <2>2. TypeOK'
    BY <1>4, <2>1 DEF TypeOK, End, group, Runs
  <2>3. QED
    BY <1>4, <2>1, <2>2 DEF End, OthersKill, Stopped, TargetIsUsed, NeverReplaced, InStep
<1>5. CASE Exit
  <2>1. TypeOK'
    BY <1>5, Idles DEF TypeOK, Exit, group, Runs
  <2>2. QED
    BY <1>5, <2>1, Idles DEF Exit, OthersKill, Stopped, TargetIsUsed, NeverReplaced, InStep
<1>6. QED
  BY <1>1, <1>2, <1>3, <1>4, <1>5 DEF Interpolate

LEMMA EditIInv == ASSUME IInv, RemoveVariable \/ SetEnabled PROVE IInv'
<1> USE MessageIsThread, ThreadAssumption DEF IInv
<1>1. commands' \in [Threads -> 0 .. MaxCommands]
  <2>1. Command(MessageThread)
    BY DEF RemoveVariable, SetEnabled
  <2>2. QED
    BY <2>1, StepsAssumption DEF TypeOK, Command
<1>2. items' \in Seq(Variables) /\ items' # << >>
  <2>1. CASE SetEnabled
    BY <2>1 DEF SetEnabled, TypeOK
  <2>2. CASE RemoveVariable
    <3>1. items \in Seq(Variables) /\ Len(items) > 1 /\ Len(items) \in Nat
      BY <2>2 DEF RemoveVariable, TypeOK
    <3>2. PICK i \in DOMAIN items :
             items' = [j \in 1 .. Len(items) - 1 |-> items[IF j < i THEN j ELSE j + 1]]
      BY <2>2 DEF RemoveVariable
    <3>3. \A j \in 1 .. Len(items) - 1 : items[IF j < i THEN j ELSE j + 1] \in Variables
      BY <3>1, <3>2
    <3> DEFINE n == Len(items) - 1
    <3>4. n \in Nat /\ n > 0
      BY <3>1
    <3>5. items' = [j \in 1 .. n |-> items[IF j < i THEN j ELSE j + 1]]
      BY <3>2
    <3> HIDE DEF n
    <3>6. items' \in [1 .. n -> Variables]
      BY <3>3, <3>5 DEF n
    <3>7. items' \in Seq(Variables) /\ Len(items') = n
      BY <3>4, <3>6
    <3>8. QED
      BY <3>4, <3>7
  <2>3. QED
    BY <2>1, <2>2
<1>3. UNCHANGED <<values, targetPreset, interpolation, pc, request, posted, thread, lock, asked>>
      /\ enabled' \in BOOLEAN
  BY DEF RemoveVariable, SetEnabled, TypeOK
<1>4. TypeOK'
  BY <1>1, <1>2, <1>3 DEF TypeOK, thread
<1>5. QED
  BY <1>3, <1>4 DEF OthersKill, Stopped, TargetIsUsed, NeverReplaced, InStep, thread

LEMMA StepIInv == IInv /\ [Next]_vars => IInv'
<1> SUFFICES ASSUME IInv, [Next]_vars PROVE IInv'
  OBVIOUS
<1>1. ASSUME NEW t \in Threads, Issue(t) \/ Continue(t) PROVE IInv'
  BY <1>1, IssueIInv, ContinueIInv
<1>2. CASE Message
  BY <1>2, MessageIInv
<1>3. CASE Interpolate
  BY <1>3, InterpolateIInv
<1>4. CASE RemoveVariable \/ SetEnabled
  BY <1>4, EditIInv
<1>5. CASE UNCHANGED vars
  BY <1>5 DEF vars, group, thread, IInv, TypeOK, OthersKill, Stopped, TargetIsUsed, NeverReplaced,
     InStep
<1>6. QED
  BY <1>1, <1>2, <1>3, <1>4, <1>5 DEF Next

LEMMA AlwaysIInv == Spec => []IInv
BY InitIInv, StepIInv, PTL DEF Spec

-----------------------------------------------------------------------------
\* Every variable keeps its type (what goToPreset, stopInterpolation and run keep).
THEOREM TypeCorrect == Spec => []TypeOK
<1>1. IInv => TypeOK
  BY DEF IInv
<1>2. QED
  BY <1>1, AlwaysIInv, PTL

\* goToPreset never replaces the target, the curve and the source values that the
\* interpolation thread uses, however many threads kill interpolations (CVGroup.h:63).
THEOREM ThreadIsAlone == Spec => []NeverReplaced
<1>1. IInv => NeverReplaced
  BY DEF IInv
<1>2. QED
  BY <1>1, AlwaysIInv, PTL

\* When nothing runs, no target is left that would make goToPreset refuse a preset.
THEOREM TargetIsForgotten == Spec => []NoTargetLeft
<1>1. IInv => NoTargetLeft
  <2> SUFFICES ASSUME IInv, AtRest PROVE targetPreset = None
    BY DEF NoTargetLeft
  <2>1. pc[MessageThread] = "idle" /\ run.at = "none"
    BY MessageIsThread DEF AtRest, Running
  <2>2. QED
    BY <2>1 DEF IInv, TargetIsUsed
<1>2. QED
  BY <1>1, AlwaysIInv, PTL
-----------------------------------------------------------------------------
\* How the last preset wins.  Once one is asked for, either a command that replaces it
\* or forgets it has stopped the thread, or the thread is on its way to it.
Arrived(k) == Mode[asked][items[k]] = "NONE" \/ values[items[k]] = asked
Aimed == targetPreset = asked /\ interpolation.preset = asked
Replacing == \/ \E t \in Threads : pc[t] \in {"killJoin", "clear"}
             \/ pc[MessageThread] \in {"join", "lock", "build"}

\* The thread will use that preset until it has set every variable to it.
Heads == /\ run.at = "begin" => Aimed /\ ~shouldExit
         /\ run.at \in {"loop", "lerp"} => run.preset = asked /\ ~shouldExit
         /\ run.at = "lerp" /\ run.rel = Steps => \A k \in 1 .. run.i - 1 : Arrived(k)
         /\ run.at \in {"none", "end", "exit"} =>
              IF pc[MessageThread] = "start" THEN Aimed ELSE \A k \in DOMAIN items : Arrived(k)

\* A pass goes over all the variables, when none is removed meanwhile.
InLine == run.at = "lerp" => run.n = Len(items) /\ run.i \in 1 .. Len(items)

Winning == InLine /\ (asked # None => Replacing \/ Heads)

LEMMA OnItsWay ==
  ASSUME Winning, UNCHANGED <<items, values, targetPreset, interpolation, run, shouldExit, asked>>,
         Replacing => Replacing', pc'[MessageThread] = "start" <=> pc[MessageThread] = "start"
  PROVE  Winning'
<1>1. InLine'
  BY DEF Winning, InLine
<1>2. /\ \A k : Arrived(k)' <=> Arrived(k)
      /\ Aimed' <=> Aimed
  BY DEF Arrived, Aimed
<1>3. Heads => Heads'
  BY <1>2 DEF Heads
<1>4. QED
  BY <1>1, <1>3 DEF Winning

LEMMA IssueWins ==
  ASSUME IInv, Winning, NEW t \in Threads, Issue(t)
  PROVE  Winning'
<1>0. pc \in [Threads -> Places] /\ MessageThread \in Threads
  BY MessageIsThread DEF IInv, TypeOK, Places
<1>1. CASE CallGoToPreset(t)
  <2>1. PICK p \in Presets, time \in {0, 1} :
          /\ IF t = MessageThread
             THEN GoToPreset(p, time)
             ELSE UNCHANGED <<group, targetPreset, interpolation, pc, thread, asked>>
    BY <1>1 DEF CallGoToPreset
  <2>2. UNCHANGED <<items, values, targetPreset, interpolation, run, shouldExit, asked>>
    BY <2>1 DEF GoToPreset, group, thread
  <2>3. \/ pc' = pc
        \/ pc[MessageThread] = "idle" /\ pc' = [pc EXCEPT ![MessageThread] = "stop"]
    BY <2>1 DEF GoToPreset, Proceed, Goto, NextOf
  <2>4. (Replacing => Replacing') /\ (pc'[MessageThread] = "start" <=> pc[MessageThread] = "start")
    BY <1>0, <2>3 DEF Replacing
  <2>5. QED
    BY <2>2, <2>4, OnItsWay
<1>2. CASE CallStopInterpolation(t)
  <2>1. UNCHANGED <<items, values, targetPreset, interpolation, run, shouldExit, asked>>
        /\ pc[t] = "idle" /\ pc' = [pc EXCEPT ![t] = "kill"]
    BY <1>2 DEF CallStopInterpolation, Command, Goto, group, thread
  <2>2. (Replacing => Replacing') /\ (pc'[MessageThread] = "start" <=> pc[MessageThread] = "start")
    BY <1>0, <2>1 DEF Replacing
  <2>3. QED
    BY <2>1, <2>2, OnItsWay
<1>3. CASE CallSetPreset(t)
  BY <1>3 DEF CallSetPreset, Winning, InLine, thread
<1>4. QED
  BY <1>1, <1>2, <1>3 DEF Issue

LEMMA ContinueWins ==
  ASSUME IInv, Winning, NEW t \in Threads, Continue(t)
  PROVE  Winning'
<1>0. pc \in [Threads -> Places] /\ MessageThread \in Threads
      /\ (t # MessageThread => pc[t] \in {"idle", "kill", "killJoin", "clear"})
  BY MessageIsThread DEF IInv, TypeOK, Places, OthersKill, Threads
<1>1. CASE SignalExit(t)
  <2>1. InLine' /\ pc' = [pc EXCEPT ![t] = NextOf(pc[t])] /\ pc[t] \in {"stop", "kill"}
    BY <1>1 DEF SignalExit, Proceed, Goto, Winning, InLine, group
  <2>2. Replacing'
    BY <1>0, <2>1 DEF Replacing, NextOf
  <2>3. QED
    BY <2>1, <2>2 DEF Winning
<1>2. CASE Joined(t)
  <2>1. InLine' /\ pc' = [pc EXCEPT ![t] = NextOf(pc[t])] /\ pc[t] \in {"join", "killJoin"}
    BY <1>2 DEF Joined, Proceed, Goto, Winning, InLine, group
  <2>2. Replacing'
    BY <1>0, <2>1 DEF Replacing, NextOf
  <2>3. QED
    BY <2>1, <2>2 DEF Winning
<1>3. CASE ClearTarget(t)
  BY <1>3 DEF ClearTarget, Winning, InLine, group, thread
<1>4. QED
  BY <1>1, <1>2, <1>3 DEF Continue

LEMMA MessageWins ==
  ASSUME IInv, Winning, Message
  PROVE  Winning'
<1>0. pc \in [Threads -> Places] /\ MessageThread \in Threads
  BY MessageIsThread DEF IInv, TypeOK, Places
<1>1. CASE HandlePosted
  <2>1. PICK p, time : GoToPreset(p, time)
    BY <1>1 DEF HandlePosted
  <2>2. UNCHANGED <<items, values, targetPreset, interpolation, run, shouldExit, asked>>
    BY <2>1 DEF GoToPreset, group, thread
  <2>3. \/ pc' = pc
        \/ pc[MessageThread] = "idle" /\ pc' = [pc EXCEPT ![MessageThread] = "stop"]
    BY <2>1 DEF GoToPreset, Proceed, Goto, NextOf
  <2>4. (Replacing => Replacing') /\ (pc'[MessageThread] = "start" <=> pc[MessageThread] = "start")
    BY <1>0, <2>3 DEF Replacing
  <2>5. QED
    BY <2>2, <2>4, OnItsWay
<1>2. CASE Lock
  <2>1. InLine' /\ pc' = [pc EXCEPT ![MessageThread] = "build"]
    BY <1>2 DEF Lock, Proceed, Goto, NextOf, Winning, InLine, group, thread
  <2>2. QED
    BY <1>0, <2>1 DEF Replacing, Winning
<1>3. CASE Build
  <2>1. /\ UNCHANGED <<items, enabled, run>> /\ run.at = "none"
        /\ items \in Seq(Variables) /\ DOMAIN items = 1 .. Len(items)
    BY <1>3 DEF Build, thread, IInv, Stopped, TypeOK
  <2>2. CASE request.time = 0
    <3>1. CASE enabled
      <4>1. /\ values' = AtPreset(request.preset) /\ asked' = request.preset
            /\ pc' = [pc EXCEPT ![MessageThread] = "idle"]
        BY <1>3, <2>2, <3>1 DEF Build, SetValuesToPreset, Goto
      <4>2. \A k \in DOMAIN items : items[k] \in Variables
        BY <2>1
      <4>3. \A k \in DOMAIN items : Arrived(k)'
        BY <2>1, <4>1, <4>2 DEF Arrived, AtPreset
      <4>4. Heads' /\ InLine'
        BY <1>0, <2>1, <4>1, <4>3 DEF Heads, InLine
      <4>5. QED
        BY <4>4 DEF Winning
    <3>2. CASE ~enabled
      BY <1>3, <2>1, <2>2, <3>2 DEF Build, Winning, InLine
    <3>3. QED
      BY <3>1, <3>2
  <2>3. CASE request.time # 0
    <3>1. /\ asked' = request.preset /\ targetPreset' = request.preset
          /\ interpolation'.preset = request.preset
          /\ pc' = [pc EXCEPT ![MessageThread] = "start"]
      BY <1>3, <2>3 DEF Build, Target, Goto
    <3>2. Heads' /\ InLine'
      BY <1>0, <2>1, <3>1 DEF Heads, InLine, Aimed
    <3>3. QED
      BY <3>2 DEF Winning
  <2>4. QED
    BY <2>2, <2>3
<1>4. CASE StartThread
  <2>1. /\ run.at = "none" /\ pc[MessageThread] = "start"
        /\ pc' = [pc EXCEPT ![MessageThread] = "idle"]
        /\ shouldExit' = FALSE /\ UNCHANGED <<targetPreset, interpolation, asked>>
        /\ run' = [Idle EXCEPT !.at = "begin"]
    BY <1>4 DEF StartThread, IInv, Stopped, Running, Goto
  <2>2. run'.at = "begin"
    BY <2>1, Idles DEF Idle
  <2>3. Replacing => Replacing'
    BY <1>0, <2>1 DEF Replacing
  <2>4. Heads => Heads'
    BY <2>1, <2>2 DEF Heads, Aimed
  <2>5. InLine'
    BY <2>2 DEF InLine
  <2>6. QED
    BY <2>1, <2>3, <2>4, <2>5 DEF Winning
<1>5. QED
  BY <1>1, <1>2, <1>3, <1>4 DEF Message

LEMMA LerpWins ==
  ASSUME IInv, Winning, Lerp
  PROVE  Winning'
<1>1. /\ run \in Runs /\ Steps \in Nat \ {0} /\ values \in [Variables -> Values]
      /\ items \in Seq(Variables) /\ DOMAIN items = 1 .. Len(items) /\ Len(items) \in Nat
      /\ run.at = "lerp" /\ run.n = Len(items) /\ run.i \in 1 .. Len(items)
  BY StepsAssumption DEF IInv, TypeOK, Runs, Lerp, Winning, InLine
<1>2. UNCHANGED <<items, asked, pc, shouldExit>>
  BY DEF Lerp
<1>3. /\ run.i < Len(items) => run' = [run EXCEPT !.i = @ + 1]
      /\ run.i >= Len(items) /\ run.rel = Steps => run' = [run EXCEPT !.at = "end"]
      /\ run.i >= Len(items) /\ run.rel # Steps => run' = [run EXCEPT !.at = "loop"]
  BY <1>1 DEF Lerp
<1>4. InLine'
  <2>1. CASE run.i < Len(items)
    BY <1>1, <1>2, <1>3, <2>1 DEF InLine, Runs
  <2>2. CASE run.i >= Len(items)
    BY <1>1, <1>3, <2>2 DEF InLine, Runs
  <2>3. QED
    BY <1>1, <2>1, <2>2
<1>5. Replacing => Replacing'
  BY <1>2 DEF Replacing
<1>6. ASSUME Heads, asked # None PROVE Heads'
  <2>1. run.preset = asked /\ ~shouldExit /\ asked \in Presets /\ pc[MessageThread] # "start"
    BY <1>1, <1>6 DEF Heads, IInv, InStep, Stopped
  <2>2. \A k \in 1 .. Len(items) : items[k] \in Variables
    BY <1>1
  <2>3. ASSUME run.rel = Steps, NEW k \in 1 .. run.i PROVE Arrived(k)'
    <3> DEFINE new == Lerped(run.preset, items[run.i], run.source[run.i])
    <3>1. values' = [values EXCEPT ![items[run.i]] = new]
      BY DEF Lerp
    <3>2. new = IF Mode[asked][items[run.i]] = "NONE" THEN values[items[run.i]] ELSE asked
      BY <1>1, <2>1, <2>3 DEF Lerped
    <3> HIDE DEF new
    <3>3. k \in 1 .. Len(items) /\ items[k] \in Variables /\ items[run.i] \in Variables
      BY <1>1, <2>2
    <3>4. CASE items[k] = items[run.i]
      BY <1>1, <1>2, <3>1, <3>2, <3>3, <3>4 DEF Arrived
    <3>5. CASE items[k] # items[run.i]
      <4>1. k \in 1 .. run.i - 1
        BY <1>1, <2>3, <3>5
      <4>2. Arrived(k)
        BY <1>1, <1>6, <2>3, <4>1 DEF Heads
      <4>3. values'[items[k]] = values[items[k]]
        BY <1>1, <3>1, <3>3, <3>5
      <4>4. QED
        BY <1>2, <4>2, <4>3 DEF Arrived
    <3>6. QED
      BY <3>4, <3>5
  <2>4. CASE run.i < Len(items)
    <3>1. run'.at = "lerp" /\ run'.preset = run.preset /\ run'.rel = run.rel /\ run'.i - 1 = run.i
      BY <1>1, <1>3, <2>4 DEF Runs
    <3>2. QED
      BY <1>2, <2>1, <2>3, <3>1 DEF Heads
  <2>5. CASE run.i >= Len(items) /\ run.rel = Steps
    <3>1. run'.at = "end" /\ run.i = Len(items)
      BY <1>1, <1>3, <2>5 DEF Runs
    <3>2. \A k \in DOMAIN items : Arrived(k)'
      BY <1>1, <2>3, <2>5, <3>1
    <3>3. DOMAIN items' = DOMAIN items /\ pc'[MessageThread] # "start"
      BY <1>2, <2>1
    <3>4. QED
      BY <3>1, <3>2, <3>3 DEF Heads
  <2>6. CASE run.i >= Len(items) /\ run.rel # Steps
    <3>1. run'.at = "loop" /\ run'.preset = run.preset
      BY <1>1, <1>3, <2>6 DEF Runs
    <3>2. QED
      BY <1>2, <2>1, <3>1 DEF Heads
  <2>7. QED
    BY <1>1, <2>4, <2>5, <2>6
<1>7. QED
  BY <1>2, <1>4, <1>5, <1>6 DEF Winning

LEMMA InterpolateWins ==
  ASSUME IInv, Winning, Interpolate
  PROVE  Winning'
<1>0. /\ run \in Runs /\ items \in Seq(Variables) /\ items # << >>
      /\ DOMAIN items = 1 .. Len(items) /\ Len(items) \in Nat \ {0}
  BY DEF IInv, TypeOK, Runs
<1>1. CASE Lerp
  BY <1>1, LerpWins
<1>2. CASE ~Lerp
  <2>1. UNCHANGED <<items, values, pc, asked, interpolation, shouldExit>>
    BY <1>2 DEF Interpolate, Begin, Pass, End, Exit, group
  <2>2. /\ \A k : Arrived(k)' <=> Arrived(k)
        /\ Replacing' <=> Replacing
    BY <2>1 DEF Arrived, Replacing
  <2>3. ASSUME Begin, Heads, asked # None PROVE Heads'
    <3>1. run.at = "begin" /\ targetPreset = asked /\ interpolation.preset = asked /\ ~shouldExit
      BY <2>3 DEF Heads, Begin, Aimed
    <3>2. run'.at = "loop" /\ run'.preset = asked
      BY <2>3, <3>1 DEF Begin
    <3>3. QED
      BY <2>1, <3>1, <3>2 DEF Heads
  <2>4. ASSUME Begin PROVE run'.at # "lerp"
    BY <1>0, <2>4 DEF Begin, Runs
  <2>5. ASSUME Pass PROVE /\ run'.at \in {"lerp", "end"} /\ run.at = "loop"
                          /\ run'.preset = run.preset
                          /\ ~shouldExit => run'.at = "lerp"
                          /\ run'.at = "lerp" => run'.i = 1 /\ run'.n = Len(items)
    BY <1>0, <2>5 DEF Pass, Runs
  <2>6. ASSUME Pass, Heads PROVE Heads'
    <3>1. run.preset = asked /\ ~shouldExit
      BY <2>5, <2>6 DEF Heads
    <3>2. run'.at = "lerp" /\ run'.preset = asked /\ run'.i = 1
      BY <2>5, <2>6, <3>1
    <3>3. QED
      BY <2>1, <3>1, <3>2 DEF Heads
  <2>7. ASSUME End \/ Exit PROVE /\ run.at \in {"end", "exit"} /\ run'.at \in {"exit", "none"}
    BY <1>0, <2>7, Idles DEF End, Exit, Runs
  <2>8. ASSUME End \/ Exit, Heads PROVE Heads'
    <3>1. pc[MessageThread] # "start"
      BY <2>7, <2>8 DEF IInv, Stopped
    <3>2. QED
      BY <2>1, <2>2, <2>7, <2>8, <3>1 DEF Heads
  <2>9. InLine'
    BY <1>0, <1>2, <2>1, <2>4, <2>5, <2>7 DEF InLine, Interpolate
  <2>10. QED
    BY <1>2, <2>1, <2>2, <2>3, <2>6, <2>8, <2>9 DEF Winning, Interpolate
<1>3. QED
  BY <1>1, <1>2

LEMMA EditWins ==
  ASSUME ~RemoveWhileRunning, IInv, Winning, RemoveVariable \/ SetEnabled
  PROVE  Winning'
<1>1. CASE SetEnabled
  <2>1. UNCHANGED <<items, values, targetPreset, interpolation, run, shouldExit, asked, pc>>
    BY <1>1 DEF SetEnabled, thread
  <2>2. QED
    BY <2>1, OnItsWay DEF Replacing
<1>2. CASE RemoveVariable
  <2>1. /\ run.at = "none" /\ pc[MessageThread] = "idle"
        /\ UNCHANGED <<values, targetPreset, interpolation, run, asked, pc>>
    BY <1>2 DEF RemoveVariable, Running, Command, thread
  <2>2. /\ items \in Seq(Variables) /\ Len(items) \in Nat \ {0} /\ DOMAIN items = 1 .. Len(items)
    BY <1>2 DEF RemoveVariable, IInv, TypeOK
  <2>3. PICK i \in DOMAIN items :
          items' = [j \in 1 .. Len(items) - 1 |-> items[IF j < i THEN j ELSE j + 1]]
    BY <1>2 DEF RemoveVariable
  <2>4. \A j \in DOMAIN items' : \E k \in DOMAIN items : items'[j] = items[k]
    BY <2>2, <2>3
  <2>5. Heads => Heads'
    BY <2>1, <2>4 DEF Heads, Arrived
  <2>6. InLine' /\ (Replacing => Replacing')
    BY <2>1 DEF InLine, Replacing
  <2>7. QED
    BY <2>1, <2>5, <2>6 DEF Winning
<1>3. QED
  BY <1>1, <1>2

LEMMA StepWins ==
  ~RemoveWhileRunning /\ IInv /\ Winning /\ [Next]_vars => Winning'
<1> SUFFICES ASSUME ~RemoveWhileRunning, IInv, Winning, [Next]_vars PROVE Winning'
  OBVIOUS
<1>1. ASSUME NEW t \in Threads, Issue(t) \/ Continue(t) PROVE Winning'
  BY <1>1, IssueWins, ContinueWins
<1>2. CASE Message
  BY <1>2, MessageWins
<1>3. CASE Interpolate
  BY <1>3, InterpolateWins
<1>4. CASE RemoveVariable \/ SetEnabled
  BY <1>4, EditWins
<1>5. CASE UNCHANGED vars
  <2>1. UNCHANGED <<items, values, targetPreset, interpolation, run, shouldExit, asked, pc>>
    BY <1>5 DEF vars, group, thread
  <2>2. QED
    BY <2>1, OnItsWay DEF Replacing
<1>6. QED
  BY <1>1, <1>2, <1>3, <1>4, <1>5 DEF Next

\* Once every command and the interpolation are over, the variables have the values of
\* the preset that was asked for last, whatever threads went to presets, killed and
\* restarted interpolations (goToPreset, stopInterpolation, run).  The hypothesis: no
\* variable is removed during an interpolation, which shifts the source values.
THEOREM LastOneWins ==
  ASSUME ~RemoveWhileRunning
  PROVE  Spec => []LastPresetWins
<1>1. Init => Winning
  BY Idles DEF Init, Winning, InLine
<1>2. IInv /\ Winning /\ [Next]_vars => Winning'
  BY StepWins
<1>3. ASSUME IInv, Winning PROVE LastPresetWins
  <2> SUFFICES ASSUME AtRest, asked # None, NEW k \in DOMAIN items PROVE Arrived(k)
    BY DEF LastPresetWins, Arrived
  <2>1. /\ ~Replacing /\ run.at = "none" /\ pc[MessageThread] = "idle"
    BY MessageIsThread DEF AtRest, Replacing, Running
  <2>2. QED
    BY <1>3, <2>1 DEF Winning, Heads
<1>4. QED
  BY <1>1, <1>2, <1>3, AlwaysIInv, PTL DEF Spec
=============================================================================
