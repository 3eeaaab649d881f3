--------------------------- MODULE SequencePlayer ---------------------------
(***************************************************************************)
(* A sequence (juce_timeline's Sequence) and one layer of triggers: the     *)
(* play thread that advances the time and posts what it changed, the        *)
(* message thread that hears of it, walks the triggers between two times    *)
(* and fires their consequences, and another thread whose commands start,   *)
(* stop and seek.                                                          *)
(*                                                                         *)
(* The calls that a thread is in are its stack of steps, the next one      *)
(* first.  Time counts frames, and a frame may be late by some.  Cues, the *)
(* audio clock, the view and the ticks of other layers are left out.       *)
(***************************************************************************)
EXTENDS TimeTriggers

CONSTANTS MessageThread, Other, None,
          Total, Loops, MaxFrame,     \* totalTime, what loopParam may be; how far a frame goes
          EvaluateOnSeek, Effect,     \* the option; the commands that a trigger's TRUE gives
          Commands, Edits,            \* what each thread, and users, do
          MaxCommands, MaxPosted      \* bounds: commands and edits, posted calls when a frame begins

Callers == {MessageThread, Other}

ASSUME PlayerAssumption ==
    /\ MessageThread # Other /\ {None, "player"} \cap Callers = {} /\ None # "player"
    /\ Total \in Nat \ {0} /\ MaxFrame \in Nat \ {0} /\ {MaxCommands, MaxPosted} \subseteq Nat
    /\ Loops \subseteq BOOLEAN
    /\ EvaluateOnSeek \in {"never", "playing", "not playing", "always"}
    /\ Effect \in [Triggers -> Seq({"play", "stop", "pause"})]
    /\ \A t \in Callers : Commands[t] \subseteq Seq({"play", "stop", "pause"}) \cup {<<"seek">>}
    /\ Edits \subseteq {"speed", "condition"}

VARIABLES playing, time, loop,    \* isPlaying, currentTime, loopParam
          target, prev, seeking,  \* targetTime, prevTime, isSeeking
          forward,                \* playSpeed is positive
          player, next, exit,     \* the play thread, what it has computed, threadShouldExit
          backwards,              \* the play thread is in the loop of a negative playSpeed
          timeLock, listening,    \* sequenceTimeLock; calls of the listeners on the message thread
          posted, stack,
          triggering,             \* the triggers being triggered
          trig, wasPlaying,       \* the layer's triggers
          stopped,                \* history: who has stopped the sequence, nobody having moved it since
          interrupted,            \* history: a consequence stopped it while triggers were walked
          commands                \* history: how many were given

clock == <<time, target, prev, seeking>>
speed == <<forward, loop>>
thread == <<player, next, exit, backwards>>
layer == <<trig, wasPlaying>>
history == <<stopped, interrupted, commands>>
vars == <<playing, clock, speed, thread, timeLock, listening, posted, stack, triggering, layer,
          history>>

Free == [by |-> None, n |-> 0]

Init == /\ playing = FALSE /\ time = 0 /\ target = 0 /\ prev = 0 /\ seeking = FALSE
        /\ forward = TRUE /\ loop \in Loops
        /\ player = "off" /\ next = 0 /\ exit = FALSE /\ backwards = FALSE
        /\ timeLock = Free /\ listening = 0
        /\ posted = << >> /\ stack = [t \in Callers |-> << >>]
        /\ triggering = {}
        /\ trig = [k \in Triggers |-> Idle] /\ wasPlaying = FALSE
        /\ stopped = None /\ interrupted = FALSE /\ commands = 0

At_(t, do) == stack[t] # << >> /\ Head(stack[t])[1] = do
Arg(t, i) == Head(stack[t])[i + 1]
Do(t, steps) == stack' = [stack EXCEPT ![t] = steps \o Tail(@)]

CanLock(t) == timeLock.by \in {None, t}
Lock(t) == timeLock' = [by |-> t, n |-> timeLock.n + 1]
Unlock == timeLock' = IF timeLock.n = 1 THEN Free ELSE [timeLock EXCEPT !.n = @ - 1]

\* Mutant: the time is not limited.
Clip_None(t) == t
Clip(t) == IF t < 0 THEN 0 ELSE IF t > Total THEN Total ELSE t

Called(what) == IF what = "time" THEN <<<<"time">>>> ELSE <<<<"exit">>>>

\* A parameter has changed: its handler is called on the message thread and posted elsewhere.
Notify(t, what, steps) ==
    IF t = MessageThread
    THEN Do(t, Called(what) \o steps) /\ UNCHANGED posted
    ELSE Do(t, steps) /\ posted' = Append(posted, what)

-----------------------------------------------------------------------------
\* onContainerTriggerTriggered, unless the trigger is being triggered.
Body(command) == CASE command = "play" -> <<<<"set", TRUE>>>>
                   [] command = "stop" -> <<<<"set", FALSE>>, <<"seek", 0, TRUE>>>>
                   [] command = "pause" -> <<<<"set", FALSE>>>>

Trigger(t) ==
    /\ At_(t, "trigger")
    /\ IF Arg(t, 1) \in triggering
       THEN Do(t, << >>) /\ UNCHANGED triggering
       ELSE /\ Do(t, Body(Arg(t, 1)) \o <<<<"triggered", Arg(t, 1)>>>>)
            /\ triggering' = triggering \cup {Arg(t, 1)}
    /\ UNCHANGED <<playing, clock, speed, thread, timeLock, listening, posted, layer, history>>

Ended(t) ==
    /\ At_(t, "triggered")
    /\ triggering' = triggering \ {Arg(t, 1)}
    /\ Do(t, << >>)
    /\ UNCHANGED <<playing, clock, speed, thread, timeLock, listening, posted, layer, history>>

Walking == \E i \in DOMAIN stack[MessageThread] : stack[MessageThread][i][1] \in {"cross", "under"}

Set(t) ==
    /\ At_(t, "set")
    /\ playing' = Arg(t, 1)
    /\ IF playing = Arg(t, 1) THEN Do(t, << >>) /\ UNCHANGED posted ELSE Notify(t, "playing", << >>)
    /\ stopped' = IF playing' THEN None ELSE stopped
    /\ interrupted' = (interrupted \/ (t = MessageThread /\ playing /\ ~Arg(t, 1) /\ Walking))
    /\ UNCHANGED <<clock, speed, thread, timeLock, listening, triggering, layer, commands>>

\* setCurrentTime, whose handler is called with the lock held on the message thread.
StopsHere(t) == Len(stack[t]) > 1 /\ stack[t][2] = <<"triggered", "stop">>

Seek(t) ==
    /\ At_(t, "seek")
    /\ CanLock(t) /\ Lock(t)
    /\ seeking' = Arg(t, 2)
    /\ target' = Arg(t, 1) /\ time' = Arg(t, 1)
    /\ IF time = Arg(t, 1) THEN Do(t, <<<<"sought">>>>) /\ UNCHANGED posted
                           ELSE Notify(t, "time", <<<<"sought">>>>)
    /\ stopped' = IF StopsHere(t) /\ ~playing THEN t ELSE None
    /\ UNCHANGED <<playing, prev, speed, thread, listening, triggering, layer, interrupted, commands>>

Sought(t) ==
    /\ At_(t, "sought")
    /\ seeking' = FALSE
    /\ Unlock
    /\ Do(t, << >>)
    /\ UNCHANGED <<playing, time, target, prev, speed, thread, listening, posted, triggering, layer, history>>

-----------------------------------------------------------------------------
\* The handler of isPlaying, on the message thread: the thread is told to exit and waited
\* for, 300 ms at most, which are over only if it waits for a lock that this one holds.
m == MessageThread

\* Mutants: it is not waited for; it is waited for without a limit.
Stuck_Always == TRUE
Stuck_Never == FALSE
Stuck == \/ player \in {"frame", "set"} /\ timeLock.by = m
         \/ player \in {"loop", "finishing"} /\ listening > 0

Exit ==
    /\ At_(m, "exit")
    /\ exit' = TRUE
    /\ Do(m, <<<<"join">>>>)
    /\ UNCHANGED <<playing, clock, speed, player, next, backwards, timeLock, listening, posted, triggering, layer,
                   history>>

Join ==
    /\ At_(m, "join")
    /\ player = "off" \/ Stuck
    /\ Do(m, <<<<"rewind">>>>)
    /\ UNCHANGED <<playing, clock, speed, thread, timeLock, listening, posted, triggering, layer, history>>

\* "if reached the end when hit play, go to 0"
Rewind ==
    /\ At_(m, "rewind")
    /\ Do(m, (IF playing /\ time >= Total THEN <<<<"seek", 0, TRUE>>>> ELSE << >>) \o <<<<"start", playing>>>>)
    /\ UNCHANGED <<playing, clock, speed, thread, timeLock, listening, posted, triggering, layer, history>>

Start ==
    /\ At_(m, "start")
    /\ prev' = IF Arg(m, 1) THEN time ELSE prev
    /\ IF Arg(m, 1) /\ player = "off" THEN player' = "begin" /\ exit' = FALSE
                                    ELSE UNCHANGED <<player, exit>>
    /\ Do(m, <<<<"listen">>, <<"state">>, <<"unlisten">>>>)
    /\ UNCHANGED <<playing, time, target, seeking, speed, next, backwards, timeLock, listening, posted,
                   triggering, layer, history>>

Listen ==
    /\ At_(m, "listen") \/ At_(m, "unlisten")
    /\ listening' = listening + (IF At_(m, "listen") THEN 1 ELSE -1)
    /\ Do(m, << >>)
    /\ UNCHANGED <<playing, clock, speed, thread, timeLock, posted, triggering, layer, history>>

\* The handler of currentTime: prevTime is given to the listeners, who read the time again,
\* and is set to the time that there is after they were called.
Evaluates == CASE EvaluateOnSeek = "playing" -> playing
               [] EvaluateOnSeek = "not playing" -> ~playing
               [] OTHER -> EvaluateOnSeek = "always"

TimeChanged ==
    /\ At_(m, "time")
    /\ Do(m, <<<<"listen">>, <<"changed", prev, Evaluates>>, <<"unlisten">>, <<"timed">>>>)
    /\ UNCHANGED <<playing, clock, speed, thread, timeLock, listening, posted, triggering, layer, history>>

Timed ==
    /\ At_(m, "timed")
    /\ prev' = time
    /\ Do(m, << >>)
    /\ UNCHANGED <<playing, time, target, seeking, speed, thread, timeLock, listening, posted,
                   triggering, layer, history>>

-----------------------------------------------------------------------------
\* releaseHeldBars and the flags' reset, in handleLoop and sequencePlayDirectionChanged.
Releases == [k \in Triggers |-> <<"release", k>>]
\* Mutant: the flags are reset first.
ReleaseAll_ClearFirst == <<<<"clear">>>> \o Releases
ReleaseAll == Releases \o <<<<"clear">>>>

\* TimeTriggerManager::sequenceCurrentTimeChanged
Walk(from, evaluate) ==
    LET low == IF from < time THEN from ELSE time
        high == IF from < time THEN time ELSE from
        normally == forward = (time >= from)
    IN  CASE time = from -> << >>
          [] time # from /\ normally -> IF (playing /\ ~seeking) \/ evaluate
                                        THEN Timespan(low, high, forward, FALSE) ELSE << >>
          [] OTHER -> Timespan(low, high, ~forward, TRUE) \o ReleaseAll

Changed ==
    /\ At_(m, "changed")
    /\ Do(m, Walk(Arg(m, 1), Arg(m, 2)))
    /\ UNCHANGED <<playing, clock, speed, thread, timeLock, listening, posted, triggering, layer, history>>

\* sequencePlayStateChanged, called too when canTrigger has changed.
UnderCursor == {k \in Bars : At[k] <= time /\ time < At[k] + Length[k]}
Unders == LET under == Selected([k \in Triggers |-> k], UnderCursor)
          IN  [i \in DOMAIN under |-> <<"under", under[i]>>]

\* Mutant: a bar is held on when the sequence stops.
Affected_Silent == IF playing THEN Unders ELSE << >>
Affected == IF playing THEN Unders ELSE IF wasPlaying THEN Releases ELSE << >>

StateChanged ==
    /\ At_(m, "state")
    /\ Do(m, Affected)
    /\ wasPlaying' = playing
    /\ UNCHANGED <<playing, clock, speed, thread, timeLock, listening, posted, triggering, trig, history>>

\* What becomes of a trigger, and the commands that it gives when it fires TRUE, with or
\* without its FALSE.
FiresBoth(k) ==
    /\ At_(m, "cross") /\ ~Arg(m, 2) /\ Options[k].invalidExit = "both"
    /\ ExitAction(k, [trig[k] EXCEPT !.inside = FALSE], Arg(m, 3)) = "invalid"
Gives(k, r) == IF r.sounding > trig[k].sounding \/ FiresBoth(k)
               THEN [i \in DOMAIN Effect[k] |-> <<"trigger", Effect[k][i]>>] ELSE << >>
Becomes(k, r, steps) ==
    /\ trig' = [trig EXCEPT ![k] = r]
    /\ Do(m, Gives(k, r) \o (IF r.can # trig[k].can THEN <<<<"state">>>> ELSE << >>) \o steps)
    /\ UNCHANGED <<playing, clock, speed, thread, timeLock, listening, posted, triggering, wasPlaying, history>>

Cross == /\ At_(m, "cross")
         /\ LET k == Arg(m, 1) on == Arg(m, 2)
            IN  Becomes(k, Crossed(k, trig[k], on, Arg(m, 3)), IF on THEN << >> ELSE <<<<"reset", k>>>>)

Reset == /\ At_(m, "reset")
         /\ LET k == Arg(m, 1) IN Becomes(k, Updated(k, [trig[k] EXCEPT !.done = FALSE]), << >>)

Release == /\ At_(m, "release")
           /\ LET k == Arg(m, 1)
              IN  Becomes(k, IF k \in Bars THEN Released(k, trig[k]) ELSE trig[k], << >>)

EnterUnder == /\ At_(m, "under")
              /\ LET k == Arg(m, 1) IN Becomes(k, Under(k, trig[k]), << >>)

\* The end of conditionManagerValidationChanged.
Invalid == /\ At_(m, "invalid")
           /\ LET k == Arg(m, 1)
                  r == trig[k]
              IN  Becomes(k, IF r.inside /\ AnyTime(k) /\ ~r.valid THEN Released(k, r) ELSE r, << >>)

Clear ==
    /\ At_(m, "clear")
    /\ trig' = [k \in Triggers |-> [trig[k] EXCEPT !.triggered = FALSE]]
    /\ Do(m, << >>)
    /\ UNCHANGED <<playing, clock, speed, thread, timeLock, listening, posted, triggering, wasPlaying, history>>

HandlePosted ==
    /\ stack[m] = << >> /\ posted # << >>
    /\ posted' = Tail(posted)
    /\ stack' = [stack EXCEPT ![m] = IF Head(posted) = "loop" THEN ReleaseAll ELSE Called(Head(posted))]
    /\ UNCHANGED <<playing, clock, speed, thread, timeLock, listening, triggering, layer, history>>

-----------------------------------------------------------------------------
\* The play thread, Sequence::run.  targetTime is read and written without a lock.
Begin ==
    /\ player = "begin"
    /\ player' = "compute"
    /\ target' = time
    /\ UNCHANGED <<next, exit, backwards, time, prev, seeking, timeLock, posted>>

Compute ==
    /\ player = "compute"
    /\ Len(posted) < MaxPosted \/ exit
    /\ IF exit
       THEN player' = "off" /\ UNCHANGED next
       ELSE /\ player' = "write"
            /\ \E d \in 1 .. MaxFrame : next' = IF forward THEN target + d ELSE target - d
    /\ UNCHANGED <<clock, exit, backwards, timeLock, posted>>

Write ==
    /\ player = "write"
    /\ target' = next
    /\ player' = "frame"
    /\ UNCHANGED <<next, exit, backwards, time, prev, seeking, timeLock, posted>>

\* setCurrentTime(targetTime), unless a looping sequence has come to its end.  The checks
\* are made under the lock, and the stop that they did not see may come before the time is set.
Frame ==
    /\ player = "frame"
    /\ timeLock = Free
    /\ IF playing /\ ~seeking /\ (loop => target \in 1 .. Total - 1)
       THEN player' = "advance" /\ timeLock' = [by |-> "player", n |-> 1]
       ELSE player' = (IF playing THEN "end" ELSE "off") /\ UNCHANGED timeLock
    /\ UNCHANGED <<next, exit, backwards, clock, posted>>

Advance ==
    /\ player = "advance"
    /\ seeking' = FALSE
    /\ target' = Clip(target) /\ time' = Clip(target)
    /\ posted' = IF time' = time THEN posted ELSE Append(posted, "time")
    /\ timeLock' = Free
    /\ player' = "tick"
    /\ UNCHANGED <<next, exit, backwards, prev>>

Tick ==
    /\ player = "tick"
    /\ player' = IF playing THEN "end" ELSE "off"
    /\ UNCHANGED <<next, exit, backwards, clock, timeLock, posted>>

\* The end of the time line: a loop, or the finish.
Reached == IF forward THEN target >= Total ELSE target <= 0

End ==
    /\ player = "end"
    /\ player' = IF ~Reached THEN "compute" ELSE IF loop THEN "offset" ELSE "finish"
    /\ backwards' = (Reached /\ loop /\ ~forward)
    /\ UNCHANGED <<next, exit, clock, timeLock, posted>>

\* fmod of targetTime, which is read again.
Offset ==
    /\ player = "offset"
    /\ next' = IF target % Total = 0 /\ backwards THEN Total ELSE target % Total
    /\ player' = "loop"
    /\ UNCHANGED <<exit, backwards, clock, timeLock, posted>>

\* sequenceLooped is posted by the triggers, called under the lock of the listeners.
Looped ==
    /\ player = "loop"
    /\ listening = 0
    /\ posted' = Append(posted, "loop")
    /\ player' = "jump"
    /\ UNCHANGED <<next, exit, backwards, clock, timeLock>>

Jump ==
    /\ player = "jump"
    /\ prev' = IF backwards THEN Total ELSE 0
    /\ player' = "retarget"
    /\ UNCHANGED <<next, exit, backwards, time, target, seeking, timeLock, posted>>

Retarget ==
    /\ player = "retarget"
    /\ target' = next
    /\ backwards' = FALSE
    /\ player' = "set"
    /\ UNCHANGED <<next, exit, time, prev, seeking, timeLock, posted>>

SetOffset ==
    /\ player = "set"
    /\ timeLock = Free
    /\ timeLock' = [by |-> "player", n |-> 1]
    /\ seeking' = TRUE
    /\ target' = next /\ time' = next
    /\ posted' = IF time' = time THEN posted ELSE Append(posted, "time")
    /\ player' = "sought"
    /\ UNCHANGED <<next, exit, backwards, prev>>

OffsetSet ==
    /\ player = "sought"
    /\ timeLock' = Free
    /\ seeking' = FALSE
    /\ player' = "compute"
    /\ UNCHANGED <<next, exit, backwards, time, target, prev, posted>>

Finish ==
    /\ player = "finish"
    /\ posted' = IF playing THEN Append(posted, "playing") ELSE posted
    /\ player' = "finishing"
    /\ UNCHANGED <<next, exit, backwards, clock, timeLock>>

Finished ==
    /\ player = "finishing"
    /\ listening = 0
    /\ player' = "off"
    /\ UNCHANGED <<next, exit, backwards, clock, timeLock, posted>>

Play == /\ \/ Begin \/ Compute \/ Write \/ Frame \/ Advance \/ Tick \/ End \/ Offset
           \/ Looped \/ Jump \/ Retarget \/ SetOffset \/ OffsetSet \/ Finish \/ Finished
        /\ playing' = IF player = "finish" THEN FALSE ELSE playing
        /\ UNCHANGED <<speed, listening, stack, triggering, layer, history>>

-----------------------------------------------------------------------------
\* Commands of users and of other threads, and the edits of users.
Give(t, steps) == /\ stack[t] = << >> /\ stack' = [stack EXCEPT ![t] = steps]
                  /\ commands < MaxCommands /\ commands' = commands + 1

Command(t) ==
    /\ \E c \in Commands[t] :
         IF c = <<"seek">> THEN \E v \in 0 .. Total : Give(t, <<<<"seek", v, TRUE>>>>)
                           ELSE Give(t, [i \in DOMAIN c |-> <<"trigger", c[i]>>])
    /\ UNCHANGED <<playing, clock, speed, thread, timeLock, listening, posted, triggering, layer, stopped,
                   interrupted>>

ChangeSpeed ==
    /\ "speed" \in Edits
    /\ Give(m, <<<<"listen">>>> \o ReleaseAll \o <<<<"unlisten">>, <<"force">>>>)
    /\ forward' = ~forward
    /\ UNCHANGED <<playing, clock, loop, thread, timeLock, listening, posted, triggering, layer, stopped,
                   interrupted>>

\* setCurrentTime(currentTime), a "force update"
ForceUpdate ==
    /\ At_(m, "force")
    /\ Do(m, <<<<"seek", time, FALSE>>>>)
    /\ UNCHANGED <<playing, clock, speed, thread, timeLock, listening, posted, triggering, layer, history>>

ChangeCondition ==
    /\ "condition" \in Edits
    /\ \E k \in Triggers :
         LET r == Updated(k, [trig[k] EXCEPT !.valid = ~@])
         IN  /\ trig' = [trig EXCEPT ![k] = r]
             /\ Give(m, (IF r.can # trig[k].can THEN <<<<"state">>>> ELSE << >>) \o <<<<"invalid", k>>>>)
    /\ UNCHANGED <<playing, clock, speed, thread, timeLock, listening, posted, triggering, wasPlaying,
                   stopped, interrupted>>

-----------------------------------------------------------------------------
Call(t) == Trigger(t) \/ Ended(t) \/ Set(t) \/ Seek(t) \/ Sought(t)
Handler == \/ Exit \/ Join \/ Rewind \/ Start \/ Listen \/ TimeChanged \/ Timed \/ Changed \/ StateChanged
           \/ Cross \/ Reset \/ Release \/ EnterUnder \/ Invalid \/ Clear \/ ForceUpdate \/ HandlePosted

Next == \/ \E t \in Callers : Call(t) \/ Command(t)
        \/ Handler \/ Play \/ ChangeSpeed \/ ChangeCondition

\* Threads go on; the play thread sleeps between two frames and handlers end, so that a lock
\* that is free again and again is taken.
Fairness == SF_vars(Handler \/ Call(m)) /\ SF_vars(Call(Other)) /\ SF_vars(Play)
Spec == Init /\ [][Next]_vars /\ Fairness

-----------------------------------------------------------------------------
Steps == {"trigger", "triggered", "set", "seek", "sought", "exit", "join", "rewind", "start", "listen",
          "unlisten", "time", "changed", "timed", "state", "cross", "reset", "release", "clear", "under",
          "invalid", "force"}
Stages == {"off", "begin", "compute", "write", "frame", "advance", "tick", "end", "offset", "loop", "jump",
           "retarget", "set", "sought", "finish", "finishing"}

TypeOK ==
    /\ {playing, seeking, forward, loop, exit, backwards, wasPlaying} \subseteq BOOLEAN
    /\ {time, prev} \subseteq 0 .. Total /\ {target, next} \subseteq Int
    /\ player \in Stages
    /\ timeLock \in {Free} \cup [by : Callers \cup {"player"}, n : Nat \ {0}]
    /\ listening \in Nat
    /\ posted \in Seq({"time", "playing", "loop"})
    /\ \A t \in Callers : \A i \in DOMAIN stack[t] : stack[t][i][1] \in Steps
    /\ triggering \subseteq {"play", "stop", "pause"}
    /\ trig \in [Triggers -> States]
    /\ stopped \in Callers \cup {None} /\ interrupted \in BOOLEAN /\ commands \in 0 .. MaxCommands

Resting == posted = << >> /\ \A t \in Callers : stack[t] = << >>
Sustained == {k \in Bars : Options[k].validExit = "false" /\ Options[k].invalidExit = "nothing"
                           /\ Options[k].rewind = "false"}

\* A bar that has fired is held until it fires its release, once: nothing clears the flag
\* of one that sounds.
BarsAreReleased ==
    \A k \in Sustained : trig[k].sounding = IF trig[k].triggered THEN 1 ELSE 0

\* "a note started by a bar can never hang past the end of playback"
\* (TimeTriggerManager.cpp:238), when it is the message thread that starts the sequence, a
\* seek fires nothing while it is stopped and no bar fires only once,
NeverHangs == Resting /\ ~playing => \A k \in Sustained : ~trig[k].triggered

\* up to a consequence that stops it before the triggers that follow were walked.
SilentWhenStopped == interrupted \/ NeverHangs

\* Once all that was posted is handled, a sequence that plays has its thread, whoever
\* stopped or finished it and in whatever order, if only the message thread's own calls
\* start it.
PlayerFollows == Resting /\ playing => player # "off"

\* Every call ends, in particular the wait for the play thread, which takes locks that the
\* waiting thread may hold; and the play thread ends once the sequence is stopped.
CallsEnd == /\ \A t \in Callers : stack[t] # << >> ~> stack[t] = << >>
            /\ ~playing ~> (playing \/ player = "off")

\* "a Stop's jump to 0 is never overwritten" (Sequence.cpp:528)
StopIsKept == stopped # None => time = 0
=============================================================================
